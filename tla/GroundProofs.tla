----------------------------- MODULE GroundProofs -----------------------------
(***************************************************************************)
(* Theorems about what the ground gets. Neither part uses the other:       *)
(*                                                                         *)
(* - the pictures (Images), for any number of requests, blocks, queue      *)
(*   depth and bursts, as long as no flight asks for more pictures than a  *)
(*   uint8_t names;                                                        *)
(* - what the ground and the captain tell each other (Comms, Packets), for *)
(*   any samples and commands that the structs can hold, any number of     *)
(*   packets and any loss at the end of one.                               *)
(*                                                                         *)
(* What the ground was sent is never compared with itself: OnAirIsOnDisk   *)
(* and ToldIsOnDisk say that it is on the disk, where nothing whole is     *)
(* ever written again, so that one picture on air is one picture on disk.  *)
(* That in turn holds because every id is taken once: the folders are      *)
(* counted (FoldersAreCounted), a request that still waits has a number    *)
(* the count has not reached (RequestsAhead), and at each step the watcher *)
(* knows what its own folder holds (AtWork).                               *)
(*                                                                         *)
(* A layout is a sequence of bytes, each made of pieces of fields. Packing *)
(* is a fold over the pieces of a byte, unpacking one over the bytes that  *)
(* hold a part of a field; Carried says of a layout that every field comes *)
(* back, and is shown once for the fields that are whole bytes and those   *)
(* that share one. From there, UplinkSent says that the packet on its way  *)
(* up is the beginning of one that the ground packed (DoneAsMeant), and    *)
(* Keeping that the status is what the history tells (Recalls) and each    *)
(* packet on its way down reads as what was so (Good): HeardIsSo.          *)
(***************************************************************************)
EXTENDS Images, Comms, FoldLemmas

(* The folders are numbered without a gap.                                 *)
FoldersAreCounted ==
  /\ NextId \in Nat /\ folders = 0..(NextId - 1)
  /\ NextId <= asked

(* Requests wait in the order they were made, and each folder was made for *)
(* one that came before those that wait.                                   *)
RequestsAhead ==
  \A k \in 1..Len(inbox) : NextId + k <= inbox[k] /\ inbox[k] <= asked

(* Nothing is in a folder that is not made.                                *)
OutsideIsEmpty ==
  \A i \in Ids, b \in BlockIds : i \notin folders => blocks[<<i, b>>] = Absent

(* What the watcher's folder holds while it works on it: blocks of its own *)
(* picture up to the block it writes, then nothing, and no metadata.       *)
NewFolder == image \in folders /\ image \notin DOMAIN metas /\ shot # NoPicture

BlocksUpTo(current) ==
  \A b \in BlockIds :
    blocks[<<image, b>>] = IF b < block THEN Whole(shot)
                       ELSE IF b = block THEN current ELSE Absent

AtWork ==
  /\ pc \in {"away", "ready", "shooting"} => frame = NoPicture
  /\ pc = "shooting" => NewFolder /\ \A b \in BlockIds : blocks[<<image, b>>] = Absent
  /\ pc = "encoding" => NewFolder /\ frame = shot /\ BlocksUpTo(Absent)
  /\ pc = "opened" => NewFolder /\ frame = shot /\ block < MaxBlocks /\ BlocksUpTo(Torn)
  /\ pc = "saving" =>
       /\ NewFolder
       /\ \A b \in BlockIds :
            /\ b < block => blocks[<<image, b>>] = Whole(shot)
            /\ blocks[<<image, b>>].state = "whole" => blocks[<<image, b>>] = Whole(shot)
  /\ pc = "publishing" => image \in DOMAIN metas /\ metas[image] = NewMetadata

(* The whole blocks of a folder are of one picture, the one its metadata   *)
(* names; and its metadata has its number.                                 *)
FolderIsOnePicture ==
  /\ \A i \in Ids, b, c \in BlockIds :
       blocks[<<i, b>>].state = "whole" /\ blocks[<<i, c>>].state = "whole" => blocks[<<i, b>>] = blocks[<<i, c>>]
  /\ \A i \in DOMAIN metas :
       /\ metas[i].image = i
       /\ \A b \in BlockIds : blocks[<<i, b>>].state = "whole" => blocks[<<i, b>>] = Whole(metas[i].of)

(* What was sent is still there.                                           *)
OnAirIsOnDisk ==
  \A r \in onAir :
    /\ <<r.image, r.block>> \in DOMAIN blocks
    /\ r.file = blocks[<<r.image, r.block>>] /\ r.file.state = "whole"

IInv ==
  /\ ImagesTypeOK
  /\ FoldersAreCounted /\ RequestsAhead /\ OutsideIsEmpty
  /\ AtWork /\ FolderIsOnePicture
  /\ MetadataIsWhole /\ ToldIsOnDisk /\ OnAirIsOnDisk
-----------------------------------------------------------------------------
(* As many folders as the number of the next one.                          *)
LEMMA NextIdCounts ==
  ASSUME NEW n \in Nat, NEW S, S = 0..(n - 1)
  PROVE  (IF S = {} THEN 0 ELSE Max(S) + 1) = n
<1>1. CASE n = 0
  BY <1>1
<1>2. CASE n # 0
  <2>1. n - 1 \in S /\ \A x \in S : n - 1 >= x
    BY <1>2
  <2>2. Max(S) \in S /\ \A y \in S : Max(S) >= y
    BY <2>1 DEF Max
  <2>3. Max(S) = n - 1
    BY <2>1, <2>2, <1>2
  <2> QED
    BY <2>1, <2>3
<1> QED
  BY <1>1, <1>2

(* The larger of two is one of them.                                       *)
LEMMA LargerOfTwo ==
  ASSUME NEW a \in Nat, NEW b \in Nat
  PROVE  Max({a, b}) \in {a, b}
<1>1. \E x \in {a, b} : \A y \in {a, b} : x >= y
  <2>1. CASE a >= b
    BY <2>1
  <2>2. CASE b >= a
    BY <2>2
  <2> QED
    BY <2>1, <2>2
<1> QED
  BY <1>1 DEF Max

(* A block is absent, torn or whole, and a whole one shows one picture.    *)
LEMMA BlockKinds ==
  ASSUME ImagesTypeOK, NEW i \in Ids, NEW b \in BlockIds
  PROVE  /\ blocks[<<i, b>>] \in {Absent, Torn} \cup {Whole(p) : p \in Pictures}
         /\ blocks[<<i, b>>].state = "whole" => \E p \in Pictures : blocks[<<i, b>>] = Whole(p)
<1>1. <<i, b>> \in Ids \X BlockIds
  OBVIOUS
<1>2. blocks[<<i, b>>] \in {Absent, Torn} \cup {Whole(p) : p \in Pictures}
  BY <1>1 DEF ImagesTypeOK
<1>3. Absent.state # "whole" /\ Torn.state # "whole"
  BY DEF Absent, Torn
<1> QED
  BY <1>2, <1>3

LEMMA WholeIsWhole ==
  ASSUME NEW p, NEW q
  PROVE  /\ Whole(p).state = "whole" /\ (Whole(p) = Whole(q) => p = q)
         /\ Absent.state # "whole" /\ Torn.state # "whole"
BY DEF Whole, Absent, Torn

(* Every folder has a number that is its number on air.                    *)
LEMMA IdsOnAir ==
  ASSUME MaxAsked <= IdModulus, ImagesTypeOK, FoldersAreCounted, NEW i \in folders
  PROVE  /\ i \in Ids /\ i < IdModulus
         /\ PacketId(i) = i /\ i % IdModulus = i
<1>1. asked \in Nat /\ asked <= MaxAsked /\ MaxAsked \in Nat /\ IdModulus \in Nat /\ IdModulus # 0
  BY ImagesAssumption DEF ImagesTypeOK
<1>2. i \in Nat /\ i < asked
  BY <1>1 DEF FoldersAreCounted
<1>3. i < IdModulus
  BY <1>1, <1>2
<1>4. i % IdModulus = i
  BY <1>1, <1>2, <1>3
<1> QED
  BY <1>1, <1>2, <1>3, <1>4 DEF PacketId, Ids
-----------------------------------------------------------------------------
(* What depends on the disk alone stays while the disk does.               *)
LEMMA DiskStays ==
  ASSUME IInv, UNCHANGED disk
  PROVE  OutsideIsEmpty' /\ FolderIsOnePicture' /\ MetadataIsWhole'
BY DEF IInv, disk, OutsideIsEmpty, FolderIsOnePicture, MetadataIsWhole

LEMMA FoldersStay ==
  ASSUME FoldersAreCounted, UNCHANGED <<folders, asked>>
  PROVE  FoldersAreCounted' /\ NextId' = NextId
BY DEF FoldersAreCounted, NextId

LEMMA RequestsStay ==
  ASSUME RequestsAhead, UNCHANGED <<folders, asked, inbox>>
  PROVE  RequestsAhead'
BY DEF RequestsAhead, NextId

LEMMA WorkStays ==
  ASSUME AtWork, UNCHANGED <<pc, image, shot, frame, block, disk>>
  PROVE  AtWork'
BY DEF AtWork, NewFolder, BlocksUpTo, NewMetadata, disk

LEMMA ToldStays ==
  ASSUME ToldIsOnDisk, UNCHANGED <<told, news, lastImage, metas>>
  PROVE  ToldIsOnDisk'
BY DEF ToldIsOnDisk

LEMMA OnAirStays ==
  ASSUME OnAirIsOnDisk, UNCHANGED <<onAir, blocks>>
  PROVE  OnAirIsOnDisk'
BY DEF OnAirIsOnDisk
-----------------------------------------------------------------------------
(* The captain's steps.                                                    *)

(* A step of the captain leaves the disk and the watcher alone, and what   *)
(* it does not tell or send.                                               *)
LEMMA CaptainLeaves ==
  ASSUME IInv, UNCHANGED <<asked, process, disk>>,
         ImagesTypeOK', ToldIsOnDisk', OnAirIsOnDisk'
  PROVE  IInv'
<1> USE DEF process
<1>1. OutsideIsEmpty' /\ FolderIsOnePicture' /\ MetadataIsWhole'
  BY DiskStays
<1>2. FoldersAreCounted' /\ RequestsAhead'
  BY FoldersStay, RequestsStay DEF IInv, disk
<1>3. AtWork'
  BY WorkStays DEF IInv
<1> QED
  BY <1>1, <1>2, <1>3 DEF IInv

(* Metadata of a loadable image is a metadata of the disk.                 *)
LEMMA HandleImageMetadataKeeps ==
  ASSUME MaxAsked <= IdModulus, IInv, HandleImageMetadata
  PROVE  IInv'
<1> DEFINE head == Head(news)
<1>1. UNCHANGED <<asked, process, disk, jobs, onAir>> /\ news # <<>>
      /\ news' = Tail(news) /\ told' = told \cup {head} /\ lastImage' = Max({lastImage, head.image})
  BY DEF HandleImageMetadata, EmitImageMetadata
<1>2. news \in Seq(Metadata)
  BY DEF IInv, ImagesTypeOK
<1>3. head \in Metadata /\ Tail(news) \in Seq(Metadata)
  BY <1>1, <1>2, HeadTailProperties
<1>4. head \in ToSet(news) /\ ToSet(Tail(news)) \subseteq ToSet(news)
  <2>1. Len(news) \in Nat /\ Len(news) # 0 /\ DOMAIN news = 1..Len(news) /\ head = news[1]
    BY <1>1, <1>2, EmptySeq, LenProperties
  <2>2. Len(Tail(news)) = Len(news) - 1 /\ DOMAIN Tail(news) = 1..Len(Tail(news))
        /\ \A i \in 1..Len(Tail(news)) : Tail(news)[i] = news[i + 1]
    BY <1>1, <1>2, <1>3, HeadTailProperties, LenProperties
  <2>3. \A i \in DOMAIN Tail(news) : i + 1 \in DOMAIN news
    BY <2>1, <2>2
  <2> QED
    BY <2>1, <2>2, <2>3 DEF ToSet
<1>5. head \in {metas[i] : i \in DOMAIN metas}
  BY <1>4 DEF IInv, ToldIsOnDisk
<1>6. head.image \in DOMAIN metas
  BY <1>5 DEF IInv, FolderIsOnePicture
<1>7. head.image \in 0..(IdModulus - 1) /\ lastImage \in 0..(IdModulus - 1)
  BY <1>3 DEF IInv, ImagesTypeOK, Metadata
<1> HIDE DEF head
<1>8. lastImage' \in {lastImage, head.image}
  <2>1. head.image \in Nat /\ lastImage \in Nat
    BY <1>7, ImagesAssumption
  <2> QED
    BY <1>1, <2>1, LargerOfTwo
<1>9. ToldIsOnDisk'
  <2>1. metas' = metas /\ ToSet(news') \subseteq ToSet(news)
    BY <1>1, <1>4 DEF disk
  <2>2. (told \cup ToSet(news))' \subseteq {metas[i] : i \in DOMAIN metas}
    BY <1>1, <1>5, <2>1 DEF IInv, ToldIsOnDisk
  <2>3. lastImage' # 0 => lastImage' \in DOMAIN metas
    BY <1>6, <1>8 DEF IInv, ToldIsOnDisk
  <2> QED
    BY <2>1, <2>2, <2>3 DEF ToldIsOnDisk
<1>10. OnAirIsOnDisk'
  BY <1>1, OnAirStays DEF IInv, disk
<1>11. ImagesTypeOK'
  BY <1>1, <1>3, <1>7, <1>8 DEF IInv, ImagesTypeOK, process, disk
<1> QED
  BY <1>1, <1>9, <1>10, <1>11, CaptainLeaves

LEMMA MetadataAskedKeeps ==
  ASSUME IInv, NEW i \in Ids, MetadataAsked(i)
  PROVE  IInv'
<1> USE DEF MetadataAsked, EmitImageMetadata, Loadable
<1>1. metas[i] \in Metadata
  BY DEF IInv, ImagesTypeOK
<1>2. ImagesTypeOK'
  BY <1>1 DEF IInv, ImagesTypeOK, process, disk
<1>3. ToldIsOnDisk'
  <2>1. metas' = metas /\ ToSet(news') = ToSet(news) /\ lastImage' = lastImage
    BY DEF disk
  <2> QED
    BY <2>1 DEF IInv, ToldIsOnDisk
<1>4. OnAirIsOnDisk'
  BY OnAirStays DEF IInv, disk
<1> QED
  BY <1>2, <1>3, <1>4, CaptainLeaves

(* A step that starts, continues or forgets jobs.                          *)
LEMMA JobsKeep ==
  ASSUME IInv, UNCHANGED <<asked, process, disk, told, onAir>>,
         DOMAIN jobs' = Senders,
         UNCHANGED <<news, lastImage>> \/ (news' = <<>> /\ lastImage' = 0)
  PROVE  IInv'
<1>1. ImagesTypeOK'
  <2>1. /\ news \in Seq(Metadata) /\ lastImage \in 0..(IdModulus - 1)
        /\ <<>> \in Seq(Metadata) /\ 0 \in 0..(IdModulus - 1)
    BY EmptySeq, ImagesAssumption DEF IInv, ImagesTypeOK
  <2>2. news' \in Seq(Metadata) /\ lastImage' \in 0..(IdModulus - 1)
    BY <2>1
  <2> QED
    BY <2>2 DEF IInv, ImagesTypeOK, process, disk
<1>2. ToldIsOnDisk'
  <2>1. ToSet(<<>>) = {}
    BY DEF ToSet
  <2> QED
    BY <2>1 DEF IInv, ToldIsOnDisk, disk
<1>3. OnAirIsOnDisk'
  BY OnAirStays DEF IInv, disk
<1> QED
  BY <1>1, <1>2, <1>3, CaptainLeaves

LEMMA JobActionsKeep ==
  ASSUME IInv,
         \/ \E i \in Ids, b \in BlockIds : ImageControl(i, b)
         \/ \E t \in BurstThreads : EnterEmergency(t) \/ AMinuteLater(t)
         \/ CaptainRestart
  PROVE  IInv'
<1>1. DOMAIN jobs = Senders
  BY DEF IInv, ImagesTypeOK
<1>2. DOMAIN jobs' = Senders
  BY <1>1 DEF ImageControl, EnterEmergency, AMinuteLater, CaptainRestart
<1> QED
  BY <1>2, JobsKeep DEF ImageControl, EnterEmergency, AMinuteLater, CaptainRestart

(* Only a block that is whole is aired, and it is the one on the disk.      *)
LEMMA EmitBlockKeeps ==
  ASSUME IInv, NEW s \in Senders, EmitBlock(s)
  PROVE  IInv'
<1> DEFINE i == jobs[s].image
           b == Head(jobs[s].todo)
           file == FileOf(i, b)
           aired == [image |-> i, block |-> b, file |-> file]
<1>1. UNCHANGED <<asked, process, disk, news, lastImage, told>>
      /\ onAir' = IF Loads(file) THEN onAir \cup {aired} ELSE onAir
  BY DEF EmitBlock
<1>2. DOMAIN jobs' = Senders
  BY DEF EmitBlock, IInv, ImagesTypeOK
<1>3. Loads(file) => /\ <<i, b>> \in DOMAIN blocks /\ file = blocks[<<i, b>>]
                     /\ file.state = "whole"
  BY WholeIsWhole DEF Loads, FileOf
<1>4. DOMAIN blocks = Ids \X BlockIds
  BY DEF IInv, ImagesTypeOK
<1> HIDE DEF i, b, file
<1>5. Loads(file) => /\ i \in Ids /\ b \in BlockIds
                     /\ \E p \in Pictures : file = Whole(p)
  <2>1. Loads(file) => i \in Ids /\ b \in BlockIds
    BY <1>3, <1>4
  <2> QED
    BY <1>3, <2>1, BlockKinds DEF IInv
<1>6. Ids \subseteq Nat
  BY ImagesAssumption DEF Ids
<1>7. onAir' \subseteq [image : Nat, block : BlockIds, file : {Torn} \cup {Whole(p) : p \in Pictures}]
  <2>1. onAir \subseteq [image : Nat, block : BlockIds, file : {Torn} \cup {Whole(p) : p \in Pictures}]
    BY DEF IInv, ImagesTypeOK
  <2>2. Loads(file) => aired \in [image : Nat, block : BlockIds, file : {Torn} \cup {Whole(p) : p \in Pictures}]
    BY <1>5, <1>6
  <2> HIDE DEF aired
  <2> QED
    BY <1>1, <2>1, <2>2
<1>8. ImagesTypeOK'
  BY <1>1, <1>2, <1>7 DEF IInv, ImagesTypeOK, process, disk
<1>9. OnAirIsOnDisk'
  <2>1. blocks' = blocks
    BY <1>1 DEF disk
  <2>2. SUFFICES ASSUME NEW r \in onAir'
                 PROVE  /\ <<r.image, r.block>> \in DOMAIN blocks
                        /\ r.file = blocks[<<r.image, r.block>>] /\ r.file.state = "whole"
    BY <2>1 DEF OnAirIsOnDisk
  <2>3. CASE r \in onAir
    BY <2>3 DEF IInv, OnAirIsOnDisk
  <2>4. CASE r = aired /\ Loads(file)
    BY <1>3, <2>4
  <2> QED
    BY <1>1, <2>2, <2>3, <2>4
<1>10. ToldIsOnDisk'
  BY <1>1, ToldStays DEF IInv, disk
<1> QED
  BY <1>1, <1>8, <1>9, <1>10, CaptainLeaves
-----------------------------------------------------------------------------
(* The watcher's steps that write no file.                                 *)

(* Such a step keeps the disk and what was aired of it; what remains to     *)
(* show is its types, its requests, its place in the work and its news.    *)
LEMMA WatcherWritesNothing ==
  ASSUME IInv, UNCHANGED <<disk, lastImage, jobs, told, onAir>>,
         asked' \in asked..MaxAsked,
         /\ pc' \in {"away", "ready", "shooting", "encoding", "opened", "saving",
                     "publishing", "leaving"}
         /\ inbox' \in Seq(Pictures) /\ Len(inbox') <= QueueDepth
         /\ image' \in Ids /\ block' \in 0..MaxBlocks
         /\ {shot', frame'} \subseteq Pictures \cup {NoPicture}
         /\ news' \in Seq(Metadata),
         RequestsAhead', AtWork',
         ToSet(news') \subseteq {metas[i] : i \in DOMAIN metas}
  PROVE  IInv'
<1>1. OutsideIsEmpty' /\ FolderIsOnePicture' /\ MetadataIsWhole'
  BY DiskStays
<1>2. ImagesTypeOK'
  <2>1. asked' \in 0..MaxAsked
    BY ImagesAssumption DEF IInv, ImagesTypeOK
  <2> QED
    BY <2>1 DEF IInv, ImagesTypeOK, disk
<1>3. FoldersAreCounted'
  <2>1. folders' = folders /\ NextId' = NextId
    BY DEF disk, NextId
  <2>2. asked \in Nat /\ asked' \in Nat /\ asked <= asked'
    BY ImagesAssumption DEF IInv, ImagesTypeOK
  <2> QED
    BY <2>1, <2>2 DEF IInv, FoldersAreCounted
<1>4. ToldIsOnDisk'
  BY DEF IInv, ToldIsOnDisk, disk
<1>5. OnAirIsOnDisk'
  BY OnAirStays DEF IInv, disk
<1> QED
  BY <1>1, <1>2, <1>3, <1>4, <1>5 DEF IInv

(* A process that is gone leaves nothing behind it but its files.          *)
LEMMA GoneKeeps ==
  ASSUME IInv, Gone, UNCHANGED <<asked, disk, news, captainSide>>
  PROVE  IInv'
<1> USE DEF Gone, captainSide
<1>1. asked' \in asked..MaxAsked /\ 0 \in Ids /\ 0 \in 0..MaxBlocks /\ 0 <= QueueDepth
  BY ImagesAssumption DEF IInv, ImagesTypeOK, Ids
<1>2. <<>> \in Seq(Pictures) /\ Len(<<>>) = 0
  BY EmptySeq
<1>3. RequestsAhead'
  BY <1>2 DEF RequestsAhead
<1>4. AtWork'
  BY DEF AtWork
<1>5. ToSet(news') \subseteq {metas[i] : i \in DOMAIN metas} /\ news' \in Seq(Metadata)
  BY DEF IInv, ToldIsOnDisk, ImagesTypeOK
<1> QED
  BY <1>1, <1>2, <1>3, <1>4, <1>5, WatcherWritesNothing

(* Appending a metadata of the disk to the news.                           *)
LEMMA NewsIsOnDisk ==
  ASSUME IInv, NEW m \in Metadata, m \in {metas[i] : i \in DOMAIN metas}
  PROVE  /\ Append(news, m) \in Seq(Metadata)
         /\ ToSet(Append(news, m)) \subseteq {metas[i] : i \in DOMAIN metas}
<1> DEFINE longer == Append(news, m)
<1>1. news \in Seq(Metadata) /\ ToSet(news) \subseteq {metas[i] : i \in DOMAIN metas}
  BY DEF IInv, ImagesTypeOK, ToldIsOnDisk
<1>2. /\ longer \in Seq(Metadata) /\ Len(longer) = Len(news) + 1
      /\ \A i \in 1..Len(news) : longer[i] = news[i]
      /\ longer[Len(news) + 1] = m
  BY <1>1, AppendProperties
<1>3. Len(news) \in Nat /\ DOMAIN news = 1..Len(news) /\ DOMAIN longer = 1..Len(longer)
  BY <1>1, <1>2, LenProperties
<1>4. \A i \in DOMAIN longer : longer[i] = m \/ (i \in DOMAIN news /\ longer[i] = news[i])
  BY <1>2, <1>3
<1>5. ToSet(longer) \subseteq ToSet(news) \cup {m}
  BY <1>4 DEF ToSet
<1> QED
  BY <1>1, <1>2, <1>5

LEMMA StartKeeps ==
  ASSUME IInv, Start
  PROVE  IInv'
<1> DEFINE newest == IF NextId > 0 THEN NextId - 1 ELSE 0
<1>1. /\ pc = "away" /\ pc' = "ready"
      /\ UNCHANGED <<asked, inbox, image, shot, frame, block, disk, captainSide>>
      /\ \/ newest \in DOMAIN metas /\ news' = Append(news, metas[newest])
         \/ news' = news
  BY DEF Start, Loadable
<1> HIDE DEF newest
<1>2. news' \in Seq(Metadata) /\ ToSet(news') \subseteq {metas[i] : i \in DOMAIN metas}
  <2>1. CASE newest \in DOMAIN metas /\ news' = Append(news, metas[newest])
    <3>1. metas[newest] \in Metadata
      BY <2>1 DEF IInv, ImagesTypeOK
    <3> QED
      BY <2>1, <3>1, NewsIsOnDisk
  <2>2. CASE news' = news
    BY <2>2 DEF IInv, ImagesTypeOK, ToldIsOnDisk
  <2> QED
    BY <1>1, <2>1, <2>2
<1>3. RequestsAhead'
  BY <1>1, RequestsStay DEF IInv, disk
<1>4. AtWork'
  BY <1>1 DEF IInv, AtWork
<1>5. asked' \in asked..MaxAsked
  BY <1>1, ImagesAssumption DEF IInv, ImagesTypeOK
<1>6. /\ inbox \in Seq(Pictures) /\ Len(inbox) <= QueueDepth
      /\ image \in Ids /\ block \in 0..MaxBlocks
      /\ {shot, frame} \subseteq Pictures \cup {NoPicture}
  BY DEF IInv, ImagesTypeOK
<1> QED
  BY <1>1, <1>2, <1>3, <1>4, <1>5, <1>6, WatcherWritesNothing DEF captainSide

LEMMA PublishMetadataKeeps ==
  ASSUME IInv, PublishMetadata
  PROVE  IInv'
<1>1. /\ pc = "publishing" /\ pc' = "leaving" /\ news' = Append(news, NewMetadata)
      /\ UNCHANGED <<asked, inbox, image, shot, frame, block, disk, captainSide>>
  BY DEF PublishMetadata
<1>2. image \in DOMAIN metas /\ metas[image] = NewMetadata
  BY <1>1 DEF IInv, AtWork
<1>3. metas[image] \in Metadata
  BY <1>2 DEF IInv, ImagesTypeOK
<1>4. news' \in Seq(Metadata) /\ ToSet(news') \subseteq {metas[i] : i \in DOMAIN metas}
  BY <1>1, <1>2, <1>3, NewsIsOnDisk
<1>5. RequestsAhead'
  BY <1>1, RequestsStay DEF IInv, disk
<1>6. AtWork'
  BY <1>1 DEF IInv, AtWork
<1>7. asked' \in asked..MaxAsked
  BY <1>1, ImagesAssumption DEF IInv, ImagesTypeOK
<1>8. /\ inbox \in Seq(Pictures) /\ Len(inbox) <= QueueDepth
      /\ image \in Ids /\ block \in 0..MaxBlocks
      /\ {shot, frame} \subseteq Pictures \cup {NoPicture}
  BY DEF IInv, ImagesTypeOK
<1> QED
  BY <1>1, <1>4, <1>5, <1>6, <1>7, <1>8, WatcherWritesNothing DEF captainSide

(* A step that changes the watcher's place and its frame or count only.    *)
LEMMA PlaceChanges ==
  ASSUME IInv, UNCHANGED <<asked, inbox, image, shot, disk, news, captainSide>>,
         pc' \in {"encoding", "saving"}, block' \in 0..MaxBlocks,
         frame' \in Pictures \cup {NoPicture}, AtWork'
  PROVE  IInv'
<1>1. asked' \in asked..MaxAsked
  BY ImagesAssumption DEF IInv, ImagesTypeOK
<1>2. RequestsAhead'
  BY RequestsStay DEF IInv, disk
<1>3. news' \in Seq(Metadata) /\ ToSet(news') \subseteq {metas[i] : i \in DOMAIN metas}
  BY DEF IInv, ImagesTypeOK, ToldIsOnDisk
<1>4. /\ inbox \in Seq(Pictures) /\ Len(inbox) <= QueueDepth
      /\ image \in Ids /\ shot \in Pictures \cup {NoPicture}
  BY DEF IInv, ImagesTypeOK
<1> QED
  BY <1>1, <1>2, <1>3, <1>4, WatcherWritesNothing DEF captainSide

LEMMA FrameArrivesKeeps ==
  ASSUME IInv, FrameArrives
  PROVE  IInv'
<1>1. /\ pc = "shooting" /\ pc' = "encoding" /\ frame' = shot /\ block' = 0
      /\ UNCHANGED <<asked, inbox, image, shot, disk, news, captainSide>>
  BY DEF FrameArrives
<1>2. 0 \in 0..MaxBlocks /\ BlockIds \subseteq Nat
  BY ImagesAssumption DEF BlockIds
<1>3. NewFolder /\ \A b \in BlockIds : blocks[<<image, b>>] = Absent
  BY <1>1 DEF IInv, AtWork
<1>4. NewFolder' /\ \A b \in BlockIds : blocks'[<<image', b>>] = Absent
  BY <1>1, <1>3 DEF NewFolder, disk
<1>5. BlocksUpTo(Absent)'
  BY <1>1, <1>2, <1>4 DEF BlocksUpTo
<1>6. AtWork'
  BY <1>1, <1>4, <1>5 DEF AtWork
<1>7. shot \in Pictures \cup {NoPicture}
  BY DEF IInv, ImagesTypeOK
<1> QED
  BY <1>1, <1>2, <1>6, <1>7, PlaceChanges

(* A process that never had a frame has none to fall back on.              *)
LEMMA FrameTimesOutKeeps ==
  ASSUME IInv, FrameTimesOut
  PROVE  IInv'
<1>1. frame = NoPicture
  BY DEF FrameTimesOut, IInv, AtWork
<1> QED
  BY <1>1, GoneKeeps DEF FrameTimesOut

LEMMA EncodingEndsKeeps ==
  ASSUME IInv, NEW count, EncodingEnds(count)
  PROVE  IInv'
<1>1. /\ pc = "encoding" /\ pc' = "saving" /\ block' = count /\ count \in {0, block}
      /\ UNCHANGED <<asked, inbox, image, shot, frame, disk, news, captainSide>>
  BY DEF EncodingEnds
<1>2. NewFolder /\ BlocksUpTo(Absent)
  BY <1>1 DEF IInv, AtWork
<1>3. block \in 0..MaxBlocks /\ 0 \in 0..MaxBlocks /\ BlockIds \subseteq Nat
      /\ frame \in Pictures \cup {NoPicture}
  BY ImagesAssumption DEF IInv, ImagesTypeOK, BlockIds
<1>4. \A b \in BlockIds :
        /\ b < count => blocks[<<image, b>>] = Whole(shot)
        /\ blocks[<<image, b>>].state = "whole" => blocks[<<image, b>>] = Whole(shot)
  BY <1>1, <1>2, <1>3, WholeIsWhole DEF BlocksUpTo
<1>5. AtWork'
  BY <1>1, <1>2, <1>4 DEF AtWork, NewFolder, disk
<1> QED
  BY <1>1, <1>3, <1>5, PlaceChanges
-----------------------------------------------------------------------------
(* The subscription keeps the last requests, in their order.               *)
LEMMA LastOfKeeps ==
  ASSUME NEW S, NEW s \in Seq(S), NEW n \in Nat
  PROVE  /\ LastOf(n, s) \in Seq(S) /\ Len(LastOf(n, s)) <= n
         /\ \E d \in Nat : /\ Len(LastOf(n, s)) + d = Len(s)
                         /\ \A k \in 1..Len(LastOf(n, s)) : LastOf(n, s)[k] = s[k + d]
<1>1. Len(s) \in Nat /\ \A k \in 1..Len(s) : s[k] \in S
  BY LenProperties, ElementOfSeq
<1>2. CASE Len(s) <= n
  BY <1>1, <1>2 DEF LastOf
<1>3. CASE ~(Len(s) <= n)
  <2> DEFINE d == Len(s) - n
             last == SubSeq(s, d + 1, Len(s))
  <2>1. d \in Nat /\ LastOf(n, s) = last
    BY <1>1, <1>3 DEF LastOf
  <2>2. last \in Seq(S) /\ Len(last) = n /\ \A k \in 1..n : last[k] = s[k + d]
    <3>1. \A k \in (d + 1)..Len(s) : s[k] \in S
      BY <1>1, <2>1
    <3>2. /\ last \in Seq(S)
          /\ Len(last) = IF d + 1 <= Len(s) THEN Len(s) - (d + 1) + 1 ELSE 0
          /\ \A k \in 1..(Len(s) - (d + 1) + 1) : last[k] = s[(d + 1) + k - 1]
      BY <1>1, <2>1, <3>1, SubSeqProperties
    <3> QED
      BY <1>1, <1>3, <3>2
  <2>3. n + d = Len(s)
    BY <1>1
  <2> HIDE DEF d, last
  <2>4. /\ last \in Seq(S) /\ Len(last) <= n
        /\ Len(last) + d = Len(s) /\ \A k \in 1..Len(last) : last[k] = s[k + d]
    BY <2>2, <2>3
  <2> QED
    BY <2>1, <2>4
<1> QED
  BY <1>2, <1>3

LEMMA AskForImageKeeps ==
  ASSUME IInv, AskForImage
  PROVE  IInv'
<1>1. /\ asked < MaxAsked /\ asked' = asked + 1
      /\ UNCHANGED <<pc, image, shot, frame, block, disk, news, captainSide>>
      /\ inbox' \in {inbox, LastOf(QueueDepth, Append(inbox, asked'))}
  BY DEF AskForImage
<1>2. asked \in Nat /\ MaxAsked \in Nat /\ asked' \in Pictures /\ asked' \in asked..MaxAsked
  BY <1>1, ImagesAssumption DEF IInv, ImagesTypeOK, Pictures
<1>3. inbox \in Seq(Pictures) /\ Len(inbox) <= QueueDepth /\ QueueDepth \in Nat
  BY ImagesAssumption DEF IInv, ImagesTypeOK
<1>4. NextId' = NextId /\ NextId \in Nat /\ NextId <= asked
  BY <1>1 DEF IInv, FoldersAreCounted, NextId, disk
<1>5. RequestsAhead' /\ inbox' \in Seq(Pictures) /\ Len(inbox') <= QueueDepth
  <2>1. CASE inbox' = inbox
    BY <1>2, <1>3, <1>4, <2>1, ElementOfSeq DEF IInv, RequestsAhead, Pictures
  <2>2. CASE inbox' = LastOf(QueueDepth, Append(inbox, asked'))
    <3> DEFINE longer == Append(inbox, asked')
    <3>1. /\ longer \in Seq(Pictures) /\ Len(longer) = Len(inbox) + 1
          /\ \A k \in 1..Len(inbox) : longer[k] = inbox[k]
          /\ longer[Len(inbox) + 1] = asked'
      BY <1>2, <1>3, AppendProperties
    <3>2. Len(inbox) \in Nat /\ \A k \in 1..Len(inbox) : inbox[k] \in Pictures
      BY <1>3, LenProperties, ElementOfSeq
    <3>3. NextId + Len(inbox) <= asked
      <4>1. CASE Len(inbox) = 0
        BY <1>2, <1>4, <4>1
      <4>2. CASE Len(inbox) # 0
        <5>1. Len(inbox) \in 1..Len(inbox)
          BY <3>2, <4>2
        <5>2. NextId + Len(inbox) <= inbox[Len(inbox)] /\ inbox[Len(inbox)] <= asked
          BY <5>1 DEF IInv, RequestsAhead
        <5>3. inbox[Len(inbox)] \in Nat
          BY <3>2, <5>1 DEF Pictures
        <5> QED
          BY <1>2, <1>4, <3>2, <5>2, <5>3
      <4> QED
        BY <4>1, <4>2
    <3>4. \A k \in 1..Len(longer) :
            longer[k] \in Nat /\ NextId + k <= longer[k] /\ longer[k] <= asked'
      <4>1. SUFFICES ASSUME NEW k \in 1..Len(longer)
                     PROVE  longer[k] \in Nat /\ NextId + k <= longer[k] /\ longer[k] <= asked'
        OBVIOUS
      <4>2. CASE k = Len(inbox) + 1
        BY <1>1, <1>2, <1>4, <3>1, <3>2, <3>3, <4>2
      <4>3. CASE k # Len(inbox) + 1
        <5>1. k \in 1..Len(inbox)
          BY <3>1, <3>2, <4>3
        <5>2. NextId + k <= inbox[k] /\ inbox[k] <= asked /\ inbox[k] \in Nat
          BY <3>2, <5>1 DEF IInv, RequestsAhead, Pictures
        <5> QED
          BY <1>1, <1>2, <3>1, <5>1, <5>2
      <4> QED
        BY <4>2, <4>3
    <3> HIDE DEF longer
    <3>5. /\ inbox' \in Seq(Pictures) /\ Len(inbox') <= QueueDepth
          /\ \E d \in Nat : /\ Len(inbox') + d = Len(longer)
                          /\ \A k \in 1..Len(inbox') : inbox'[k] = longer[k + d]
      <4>1. inbox' = LastOf(QueueDepth, longer)
        BY <2>2 DEF longer
      <4>2. /\ LastOf(QueueDepth, longer) \in Seq(Pictures)
            /\ Len(LastOf(QueueDepth, longer)) <= QueueDepth
            /\ \E d \in Nat :
                 /\ Len(LastOf(QueueDepth, longer)) + d = Len(longer)
                 /\ \A k \in 1..Len(LastOf(QueueDepth, longer)) :
                      LastOf(QueueDepth, longer)[k] = longer[k + d]
        BY <1>3, <3>1, LastOfKeeps
      <4> QED
        BY <4>1, <4>2
    <3>6. Len(inbox') \in Nat /\ Len(longer) \in Nat
      BY <3>1, <3>5, LenProperties
    <3>7. \A k \in 1..Len(inbox') : NextId + k <= inbox'[k] /\ inbox'[k] <= asked'
      <4>1. PICK d \in Nat : /\ Len(inbox') + d = Len(longer)
                            /\ \A k \in 1..Len(inbox') : inbox'[k] = longer[k + d]
        BY <3>5
      <4>2. SUFFICES ASSUME NEW k \in 1..Len(inbox')
                     PROVE  NextId + k <= inbox'[k] /\ inbox'[k] <= asked'
        OBVIOUS
      <4>3. k \in Nat /\ k + d \in 1..Len(longer) /\ inbox'[k] = longer[k + d]
        BY <3>6, <4>1
      <4>4. longer[k + d] \in Nat /\ NextId + (k + d) <= longer[k + d] /\ longer[k + d] <= asked'
        BY <3>4, <4>3
      <4> QED
        BY <1>4, <4>3, <4>4
    <3> QED
      BY <1>4, <3>5, <3>7 DEF RequestsAhead
  <2> QED
    BY <1>1, <2>1, <2>2
<1>6. AtWork'
  BY <1>1, WorkStays DEF IInv
<1>7. ToSet(news') \subseteq {metas[i] : i \in DOMAIN metas}
  BY <1>1 DEF IInv, ToldIsOnDisk
<1>8. /\ pc' \in {"away", "ready", "shooting", "encoding", "opened", "saving",
                  "publishing", "leaving"}
      /\ image' \in Ids /\ block' \in 0..MaxBlocks
      /\ {shot', frame'} \subseteq Pictures \cup {NoPicture}
      /\ news' \in Seq(Metadata)
  BY <1>1 DEF IInv, ImagesTypeOK
<1> QED
  BY <1>1, <1>2, <1>5, <1>6, <1>7, <1>8, WatcherWritesNothing DEF captainSide

(* The next id is always free, and the folder made for it is the next.     *)
LEMMA HandleImageRequestKeeps ==
  ASSUME IInv, HandleImageRequest
  PROVE  IInv'
<1>1. /\ pc = "ready" /\ inbox # <<>> /\ inbox' = Tail(inbox)
      /\ UNCHANGED <<asked, frame, block, blocks, metas, news, captainSide>>
  BY DEF HandleImageRequest
<1>2. NextId \in Nat /\ folders = 0..(NextId - 1) /\ NextId <= asked
  BY DEF IInv, FoldersAreCounted
<1>3. /\ pc' = "shooting" /\ image' = NextId /\ shot' = Head(inbox)
      /\ folders' = folders \cup {NextId}
  BY <1>2 DEF HandleImageRequest
<1>4. /\ inbox \in Seq(Pictures) /\ Head(inbox) = inbox[1] /\ Head(inbox) \in Pictures
      /\ Tail(inbox) \in Seq(Pictures) /\ Len(Tail(inbox)) = Len(inbox) - 1
      /\ \A k \in 1..Len(Tail(inbox)) : Tail(inbox)[k] = inbox[k + 1]
      /\ Len(inbox) \in Nat /\ Len(inbox) # 0 /\ Len(inbox) <= QueueDepth
  BY <1>1, HeadTailProperties, EmptySeq DEF IInv, ImagesTypeOK
<1>5. asked \in Nat /\ asked <= MaxAsked /\ MaxAsked \in Nat /\ QueueDepth \in Nat
  BY ImagesAssumption DEF IInv, ImagesTypeOK
<1>6. NextId + 1 <= asked
  <2>1. NextId + 1 <= inbox[1] /\ inbox[1] <= asked
    BY <1>4 DEF IInv, RequestsAhead
  <2>2. inbox[1] \in Nat
    BY <1>4 DEF Pictures
  <2> QED
    BY <1>2, <1>5, <2>1, <2>2
<1>7. folders' = 0..((NextId + 1) - 1) /\ NextId' = NextId + 1
  <2>1. folders' = 0..((NextId + 1) - 1)
    BY <1>2, <1>3
  <2>2. NextId + 1 \in Nat
    BY <1>2
  <2> QED
    BY <2>1, <2>2, NextIdCounts DEF NextId
<1>8. FoldersAreCounted'
  BY <1>1, <1>2, <1>6, <1>7 DEF FoldersAreCounted
<1>9. RequestsAhead'
  <2>1. \A k \in 1..Len(inbox') :
          k + 1 \in 1..Len(inbox) /\ inbox'[k] = inbox[k + 1] /\ k \in Nat
    BY <1>1, <1>4
  <2>2. \A k \in 1..Len(inbox') : NextId + (k + 1) <= inbox'[k] /\ inbox'[k] <= asked
    BY <2>1 DEF IInv, RequestsAhead
  <2>3. \A k \in 1..Len(inbox') : inbox'[k] \in Nat
    <3>1. \A k \in 1..Len(inbox) : inbox[k] \in Pictures
      BY <1>4, ElementOfSeq
    <3> QED
      BY <2>1, <3>1 DEF Pictures
  <2> QED
    BY <1>1, <1>2, <1>7, <2>1, <2>2, <2>3 DEF RequestsAhead
<1>10. NextId \in Ids /\ NextId \notin folders
  BY <1>2, <1>5, <1>6 DEF Ids
<1>11. ImagesTypeOK'
  <2>1. inbox' \in Seq(Pictures) /\ Len(inbox') <= QueueDepth
    BY <1>1, <1>4, <1>5
  <2>2. image' \in Ids /\ shot' \in Pictures /\ pc' = "shooting"
    BY <1>3, <1>4, <1>10
  <2>3. folders' \in SUBSET Ids /\ DOMAIN metas' \subseteq folders'
    BY <1>1, <1>3, <1>10 DEF IInv, ImagesTypeOK
  <2> QED
    BY <1>1, <2>1, <2>2, <2>3 DEF IInv, ImagesTypeOK, captainSide
<1>12. OutsideIsEmpty'
  BY <1>1, <1>3 DEF IInv, OutsideIsEmpty
<1>13. AtWork'
  <2>1. \A b \in BlockIds : blocks[<<NextId, b>>] = Absent
    BY <1>10 DEF IInv, OutsideIsEmpty
  <2>2. DOMAIN metas \subseteq folders
    BY DEF IInv, ImagesTypeOK
  <2>3. Head(inbox) # NoPicture
    BY <1>4 DEF Pictures, NoPicture
  <2>4. NewFolder'
    BY <1>1, <1>3, <1>10, <2>2, <2>3 DEF NewFolder, NoPicture
  <2>5. frame' = NoPicture
    BY <1>1 DEF IInv, AtWork
  <2>6. \A b \in BlockIds : blocks'[<<image', b>>] = Absent
    BY <1>1, <1>3, <2>1
  <2> QED
    BY <1>3, <2>4, <2>5, <2>6 DEF AtWork
<1>14. FolderIsOnePicture' /\ MetadataIsWhole'
  BY <1>1 DEF IInv, FolderIsOnePicture, MetadataIsWhole
<1>15. ToldIsOnDisk'
  BY <1>1, ToldStays DEF IInv, captainSide
<1>16. OnAirIsOnDisk'
  BY <1>1, OnAirStays DEF IInv, captainSide
<1> QED
  BY <1>8, <1>9, <1>11, <1>12, <1>13, <1>14, <1>15, <1>16 DEF IInv
-----------------------------------------------------------------------------
(* The watcher's steps that write files.                                   *)

(* Writing a block that is not whole yet, of a folder without metadata.    *)
LEMMA WritesOneBlock ==
  ASSUME MaxAsked <= IdModulus, IInv, NewFolder, block < MaxBlocks,
         blocks[<<image, block>>].state # "whole",
         \A b \in BlockIds : blocks[<<image, b>>].state = "whole" => blocks[<<image, b>>] = Whole(shot),
         NEW file \in {Torn, Whole(shot)},
         blocks' = [blocks EXCEPT ![<<image, block>>] = file],
         UNCHANGED <<folders, metas, onAir>>
  PROVE  /\ block \in BlockIds
         /\ blocks' \in [Ids \X BlockIds -> {Absent, Torn} \cup {Whole(p) : p \in Pictures}]
         /\ \A i \in Ids, b \in BlockIds :
              blocks'[<<i, b>>] = IF i = image /\ b = block THEN file ELSE blocks[<<i, b>>]
         /\ OutsideIsEmpty' /\ FolderIsOnePicture' /\ MetadataIsWhole' /\ OnAirIsOnDisk'
<1>1. image \in folders /\ image \notin DOMAIN metas /\ shot # NoPicture
  BY DEF NewFolder
<1>2. image \in Ids /\ block \in 0..MaxBlocks /\ shot \in Pictures
      /\ folders \subseteq Ids /\ DOMAIN metas \subseteq folders
      /\ blocks \in [Ids \X BlockIds -> {Absent, Torn} \cup {Whole(p) : p \in Pictures}]
  BY <1>1 DEF IInv, ImagesTypeOK
<1>3. block \in BlockIds
  BY <1>2, ImagesAssumption DEF BlockIds
<1>4. <<image, block>> \in Ids \X BlockIds
  BY <1>2, <1>3
<1>5. blocks' \in [Ids \X BlockIds -> {Absent, Torn} \cup {Whole(p) : p \in Pictures}]
  BY <1>2, <1>4
<1>6. \A i \in Ids, b \in BlockIds :
        blocks'[<<i, b>>] = IF i = image /\ b = block THEN file ELSE blocks[<<i, b>>]
  BY <1>2, <1>4
<1>7. OutsideIsEmpty'
  BY <1>1, <1>6 DEF IInv, OutsideIsEmpty
<1>8. FolderIsOnePicture'
  <2>1. ASSUME NEW i \in Ids, NEW b \in BlockIds, NEW c \in BlockIds,
               blocks'[<<i, b>>].state = "whole", blocks'[<<i, c>>].state = "whole"
        PROVE  blocks'[<<i, b>>] = blocks'[<<i, c>>]
    <3>1. CASE i = image
      <4>1. \A d \in BlockIds : blocks'[<<i, d>>].state = "whole" => blocks'[<<i, d>>] = Whole(shot)
        BY <1>6, <3>1, WholeIsWhole
      <4> QED
        BY <2>1, <4>1
    <3>2. CASE i # image
      BY <1>6, <2>1, <3>2 DEF IInv, FolderIsOnePicture
    <3> QED
      BY <3>1, <3>2
  <2>2. ASSUME NEW i \in DOMAIN metas, NEW b \in BlockIds
        PROVE  blocks'[<<i, b>>] = blocks[<<i, b>>]
    BY <1>1, <1>2, <1>6
  <2> QED
    BY <2>1, <2>2 DEF IInv, FolderIsOnePicture
<1>9. MetadataIsWhole'
  <2>1. ASSUME NEW i \in DOMAIN metas, NEW b \in 0..(metas[i].blocks - 1)
        PROVE  blocks'[<<PacketId(i), b>>] = Whole(metas[i].of)
    <3>1. metas[i].blocks \in 0..MaxBlocks /\ MaxBlocks \in Nat
      BY ImagesAssumption DEF IInv, ImagesTypeOK, Metadata
    <3>2. b \in BlockIds
      BY <3>1 DEF BlockIds
    <3>3. PacketId(i) = i /\ i \in Ids /\ i # image
      BY <1>1, <1>2, IdsOnAir DEF IInv
    <3>4. blocks[<<PacketId(i), b>>] = Whole(metas[i].of)
      BY DEF IInv, MetadataIsWhole
    <3> QED
      BY <1>6, <3>2, <3>3, <3>4
  <2> QED
    BY <2>1 DEF MetadataIsWhole, PacketId
<1>10. OnAirIsOnDisk'
  <2>1. ASSUME NEW r \in onAir
        PROVE  /\ <<r.image, r.block>> \in DOMAIN blocks'
               /\ r.file = blocks'[<<r.image, r.block>>] /\ r.file.state = "whole"
    <3>1. /\ <<r.image, r.block>> \in DOMAIN blocks
          /\ r.file = blocks[<<r.image, r.block>>] /\ r.file.state = "whole"
      BY DEF IInv, OnAirIsOnDisk
    <3>2. r.image \in Ids /\ r.block \in BlockIds
      BY <1>2, <3>1
    <3>3. ~(r.image = image /\ r.block = block)
      BY <3>1
    <3> QED
      BY <1>2, <1>5, <1>6, <3>1, <3>2, <3>3
  <2> QED
    BY <2>1 DEF OnAirIsOnDisk
<1> QED
  BY <1>3, <1>5, <1>6, <1>7, <1>8, <1>9, <1>10

LEMMA OpenBlockKeeps ==
  ASSUME MaxAsked <= IdModulus, IInv, OpenBlock
  PROVE  IInv'
<1>1. /\ pc = "encoding" /\ block < MaxBlocks /\ pc' = "opened"
      /\ UNCHANGED <<asked, inbox, image, shot, frame, block, folders, metas, news, captainSide>>
  BY DEF OpenBlock
<1>2. NewFolder /\ frame = shot /\ BlocksUpTo(Absent)
  BY <1>1 DEF IInv, AtWork
<1>3. image \in folders /\ PacketId(image) = image
  BY <1>2, IdsOnAir DEF IInv, NewFolder
<1>4. blocks' = [blocks EXCEPT ![<<image, block>>] = Torn]
  BY <1>3 DEF OpenBlock
<1>5. block \in 0..MaxBlocks /\ MaxBlocks \in Nat /\ block \in BlockIds /\ image \in Ids
  BY <1>1, ImagesAssumption DEF IInv, ImagesTypeOK, BlockIds
<1>6. /\ blocks[<<image, block>>].state # "whole"
      /\ \A b \in BlockIds : blocks[<<image, b>>].state = "whole" => blocks[<<image, b>>] = Whole(shot)
  <2>1. ~(block < block) /\ \A b \in BlockIds :
          blocks[<<image, b>>] \in {Absent, Torn, Whole(shot)}
    BY <1>2, <1>5 DEF BlocksUpTo
  <2>2. blocks[<<image, block>>] \in {Absent, Torn}
    BY <1>2, <1>5, <2>1 DEF BlocksUpTo
  <2> QED
    BY <2>1, <2>2, WholeIsWhole
<1>7. /\ blocks' \in [Ids \X BlockIds -> {Absent, Torn} \cup {Whole(p) : p \in Pictures}]
      /\ \A i \in Ids, b \in BlockIds :
           blocks'[<<i, b>>] = IF i = image /\ b = block THEN Torn ELSE blocks[<<i, b>>]
      /\ OutsideIsEmpty' /\ FolderIsOnePicture' /\ MetadataIsWhole' /\ OnAirIsOnDisk'
  BY <1>1, <1>2, <1>4, <1>6, WritesOneBlock DEF captainSide
<1>8. AtWork'
  <2>1. BlocksUpTo(Torn)'
    BY <1>1, <1>2, <1>5, <1>7 DEF BlocksUpTo
  <2>2. NewFolder'
    BY <1>1, <1>2 DEF NewFolder
  <2> QED
    BY <1>1, <1>2, <2>1, <2>2 DEF AtWork
<1>9. ImagesTypeOK'
  BY <1>1, <1>7 DEF IInv, ImagesTypeOK, captainSide
<1>10. FoldersAreCounted' /\ RequestsAhead'
  BY <1>1, FoldersStay, RequestsStay DEF IInv
<1>11. ToldIsOnDisk'
  BY <1>1, ToldStays DEF IInv, captainSide
<1> QED
  BY <1>7, <1>8, <1>9, <1>10, <1>11 DEF IInv

LEMMA SavePacketKeeps ==
  ASSUME MaxAsked <= IdModulus, IInv, SavePacket
  PROVE  IInv'
<1>1. /\ pc = "opened" /\ pc' = "encoding" /\ block' = block + 1
      /\ UNCHANGED <<asked, inbox, image, shot, frame, folders, metas, news, captainSide>>
  BY DEF SavePacket
<1>2. NewFolder /\ frame = shot /\ block < MaxBlocks /\ BlocksUpTo(Torn)
  BY <1>1 DEF IInv, AtWork
<1>3. image \in folders /\ PacketId(image) = image
  BY <1>2, IdsOnAir DEF IInv, NewFolder
<1>4. blocks' = [blocks EXCEPT ![<<image, block>>] = Whole(shot)]
  BY <1>2, <1>3 DEF SavePacket
<1>5. block \in 0..MaxBlocks /\ MaxBlocks \in Nat /\ block \in BlockIds /\ image \in Ids
      /\ BlockIds \subseteq Int
  BY <1>2, ImagesAssumption DEF IInv, ImagesTypeOK, BlockIds
<1>6. /\ blocks[<<image, block>>].state # "whole"
      /\ \A b \in BlockIds : blocks[<<image, b>>].state = "whole" => blocks[<<image, b>>] = Whole(shot)
  <2>1. ~(block < block) /\ \A b \in BlockIds :
          blocks[<<image, b>>] \in {Absent, Torn, Whole(shot)}
    BY <1>2, <1>5 DEF BlocksUpTo
  <2>2. blocks[<<image, block>>] \in {Absent, Torn}
    BY <1>2, <1>5, <2>1 DEF BlocksUpTo
  <2> QED
    BY <2>1, <2>2, WholeIsWhole
<1>7. /\ blocks' \in [Ids \X BlockIds -> {Absent, Torn} \cup {Whole(p) : p \in Pictures}]
      /\ \A i \in Ids, b \in BlockIds :
           blocks'[<<i, b>>] = IF i = image /\ b = block THEN Whole(shot) ELSE blocks[<<i, b>>]
      /\ OutsideIsEmpty' /\ FolderIsOnePicture' /\ MetadataIsWhole' /\ OnAirIsOnDisk'
  BY <1>1, <1>2, <1>4, <1>6, WritesOneBlock DEF captainSide
<1>8. AtWork'
  <2>1. BlocksUpTo(Absent)'
    BY <1>1, <1>2, <1>5, <1>7 DEF BlocksUpTo
  <2>2. NewFolder'
    BY <1>1, <1>2 DEF NewFolder
  <2> QED
    BY <1>1, <1>2, <2>1, <2>2 DEF AtWork
<1>9. ImagesTypeOK'
  <2>1. block' \in 0..MaxBlocks
    BY <1>1, <1>2, <1>5
  <2> QED
    BY <1>1, <1>7, <2>1 DEF IInv, ImagesTypeOK, captainSide
<1>10. FoldersAreCounted' /\ RequestsAhead'
  BY <1>1, FoldersStay, RequestsStay DEF IInv
<1>11. ToldIsOnDisk'
  BY <1>1, ToldStays DEF IInv, captainSide
<1> QED
  BY <1>7, <1>8, <1>9, <1>10, <1>11 DEF IInv

(* Metadata is saved once, when the blocks it counts are whole.            *)
LEMMA SaveImageMetadataKeeps ==
  ASSUME MaxAsked <= IdModulus, IInv, SaveImageMetadata
  PROVE  IInv'
<1>1. /\ pc = "saving" /\ pc' = "publishing"
      /\ metas' = [i \in DOMAIN metas \cup {image} |->
                     IF i = image THEN NewMetadata ELSE metas[i]]
      /\ UNCHANGED <<asked, inbox, image, shot, frame, block, folders, blocks, news, captainSide>>
  BY DEF SaveImageMetadata
<1>2. /\ NewFolder
      /\ \A b \in BlockIds :
           /\ b < block => blocks[<<image, b>>] = Whole(shot)
           /\ blocks[<<image, b>>].state = "whole" => blocks[<<image, b>>] = Whole(shot)
  BY <1>1 DEF IInv, AtWork
<1>3. image \in folders /\ image \notin DOMAIN metas /\ image \in Ids
      /\ PacketId(image) = image /\ image % IdModulus = image /\ image < IdModulus
  BY <1>2, IdsOnAir DEF IInv, NewFolder
<1>4. /\ NewMetadata.image = image /\ NewMetadata.of = shot /\ NewMetadata.blocks = block
      /\ NewMetadata \in Metadata
  <2>1. image \in 0..(IdModulus - 1)
    BY <1>3, ImagesAssumption DEF Ids
  <2>2. shot \in Pictures /\ block \in 0..MaxBlocks
    BY <1>2 DEF IInv, ImagesTypeOK, NewFolder
  <2> QED
    BY <1>3, <2>1, <2>2 DEF NewMetadata, Metadata
<1>5. DOMAIN metas' = DOMAIN metas \cup {image} /\ metas'[image] = NewMetadata
      /\ \A i \in DOMAIN metas : metas'[i] = metas[i]
  BY <1>1, <1>3
<1>6. ImagesTypeOK'
  <2>1. DOMAIN metas' \subseteq folders' /\ \A i \in DOMAIN metas' : metas'[i] \in Metadata
    BY <1>1, <1>3, <1>4, <1>5 DEF IInv, ImagesTypeOK
  <2> QED
    BY <1>1, <2>1 DEF IInv, ImagesTypeOK, captainSide
<1>7. FoldersAreCounted' /\ RequestsAhead'
  BY <1>1, FoldersStay, RequestsStay DEF IInv
<1>8. OutsideIsEmpty'
  BY <1>1 DEF IInv, OutsideIsEmpty
<1>9. AtWork'
  <2>1. NewMetadata' = NewMetadata
    BY <1>1 DEF NewMetadata
  <2> QED
    BY <1>1, <1>5, <2>1 DEF AtWork
<1>10. FolderIsOnePicture'
  <2>1. \A i \in DOMAIN metas' :
          /\ metas'[i].image = i
          /\ \A b \in BlockIds : blocks[<<i, b>>].state = "whole" => blocks[<<i, b>>] = Whole(metas'[i].of)
    BY <1>2, <1>4, <1>5 DEF IInv, FolderIsOnePicture
  <2>2. \A i \in Ids, b, c \in BlockIds :
          blocks[<<i, b>>].state = "whole" /\ blocks[<<i, c>>].state = "whole" => blocks[<<i, b>>] = blocks[<<i, c>>]
    BY DEF IInv, FolderIsOnePicture
  <2>3. blocks' = blocks
    BY <1>1
  <2> HIDE DEF IInv
  <2> QED
    BY <2>1, <2>2, <2>3 DEF FolderIsOnePicture
<1>11. MetadataIsWhole'
  <2>1. ASSUME NEW i \in DOMAIN metas', NEW b \in 0..(metas'[i].blocks - 1)
        PROVE  blocks'[<<PacketId(i), b>>] = Whole(metas'[i].of)
    <3>1. CASE i = image
      <4>1. block \in 0..MaxBlocks /\ MaxBlocks \in Nat
        BY ImagesAssumption DEF IInv, ImagesTypeOK
      <4>2. metas'[i].blocks = block /\ metas'[i].of = shot
        BY <1>4, <1>5, <3>1
      <4>3. b \in BlockIds /\ b < block
        BY <4>1, <4>2 DEF BlockIds
      <4> QED
        BY <1>1, <1>2, <1>3, <3>1, <4>2, <4>3
    <3>2. CASE i # image
      <4>1. i \in DOMAIN metas /\ metas'[i] = metas[i]
        BY <1>5, <3>2
      <4> QED
        BY <1>1, <4>1 DEF IInv, MetadataIsWhole
    <3> QED
      BY <3>1, <3>2
  <2> QED
    BY <2>1 DEF MetadataIsWhole, PacketId
<1>12. ToldIsOnDisk'
  <2>1. {metas[i] : i \in DOMAIN metas} \subseteq {metas'[i] : i \in DOMAIN metas'}
    BY <1>5
  <2>2. told' = told /\ ToSet(news') = ToSet(news) /\ lastImage' = lastImage
    BY <1>1 DEF captainSide
  <2> QED
    BY <1>5, <2>1, <2>2 DEF IInv, ToldIsOnDisk
<1>13. OnAirIsOnDisk'
  BY <1>1, OnAirStays DEF IInv, captainSide
<1> QED
  BY <1>6, <1>7, <1>8, <1>9, <1>10, <1>11, <1>12, <1>13 DEF IInv
-----------------------------------------------------------------------------
LEMMA ImagesStart == ImagesInit => IInv
<1> SUFFICES ASSUME ImagesInit PROVE IInv
  OBVIOUS
<1> USE DEF ImagesInit
<1>1. /\ 0 \in 0..MaxAsked /\ 0 \in 0..MaxBlocks /\ 0 \in 0..(IdModulus - 1) /\ 0 <= QueueDepth
      /\ MaxAsked \in Nat
  BY ImagesAssumption
<1>2. <<>> \in Seq(Pictures) /\ <<>> \in Seq(Metadata) /\ Len(<<>>) = 0
  BY EmptySeq
<1>3. DOMAIN <<>> = {}
  OBVIOUS
<1>4. DOMAIN metas = {}
  BY <1>3
<1>5. ImagesTypeOK
  BY <1>1, <1>2, <1>4 DEF ImagesTypeOK, Ids
<1>6. FoldersAreCounted /\ RequestsAhead
  <2>1. NextId = 0 /\ folders = 0..(NextId - 1)
    BY DEF NextId
  <2> QED
    BY <1>2, <2>1 DEF FoldersAreCounted, RequestsAhead
<1>7. OutsideIsEmpty /\ \A i \in Ids, b \in BlockIds : blocks[<<i, b>>] = Absent
  BY DEF OutsideIsEmpty
<1>8. AtWork
  BY DEF AtWork
<1>9. FolderIsOnePicture /\ MetadataIsWhole
  BY <1>4, <1>7, WholeIsWhole DEF FolderIsOnePicture, MetadataIsWhole
<1>10. ToldIsOnDisk
  <2>1. ToSet(<<>>) = {}
    BY DEF ToSet
  <2> QED
    BY <2>1 DEF ToldIsOnDisk
<1>11. OnAirIsOnDisk
  BY DEF OnAirIsOnDisk
<1> QED
  BY <1>5, <1>6, <1>7, <1>8, <1>9, <1>10, <1>11 DEF IInv

LEMMA ImagesStep ==
  ASSUME MaxAsked <= IdModulus, IInv, [ImagesNext]_imageVars
  PROVE  IInv'
<1>1. CASE AskForImage
  BY <1>1, AskForImageKeeps
<1>2. CASE WatcherStep
  <2>1. CASE Start
    BY <2>1, StartKeeps
  <2>2. CASE HandleImageRequest
    BY <2>2, HandleImageRequestKeeps
  <2>3. CASE FrameTimesOut
    BY <2>3, FrameTimesOutKeeps
  <2>4. CASE OpenBlock
    BY <2>4, OpenBlockKeeps
  <2>5. CASE SavePacket
    BY <2>5, SavePacketKeeps
  <2>6. CASE EncodingEnds(0) \/ EncodingEnds(block)
    BY <2>6, EncodingEndsKeeps
  <2>7. CASE SaveImageMetadata
    BY <2>7, SaveImageMetadataKeeps
  <2>8. CASE PublishMetadata
    BY <2>8, PublishMetadataKeeps
  <2>9. CASE Leave
    BY <2>9, GoneKeeps DEF Leave
  <2> QED
    BY <1>2, <2>1, <2>2, <2>3, <2>4, <2>5, <2>6, <2>7, <2>8, <2>9 DEF WatcherStep
<1>3. CASE FrameArrives
  BY <1>3, FrameArrivesKeeps
<1>4. CASE Downlink
  <2>1. CASE HandleImageMetadata
    BY <2>1, HandleImageMetadataKeeps
  <2>2. CASE \E i \in Ids : MetadataAsked(i)
    BY <2>2, MetadataAskedKeeps
  <2>3. CASE \/ \E i \in Ids, b \in BlockIds : ImageControl(i, b)
             \/ \E t \in BurstThreads : EnterEmergency(t) \/ AMinuteLater(t)
    BY <2>3, JobActionsKeep
  <2>4. CASE \E s \in Senders : EmitBlock(s)
    BY <2>4, EmitBlockKeeps
  <2> QED
    BY <1>4, <2>1, <2>2, <2>3, <2>4 DEF Downlink
<1>5. CASE WatcherCrash
  BY <1>5, GoneKeeps DEF WatcherCrash
<1>6. CASE CaptainRestart
  BY <1>6, JobActionsKeep
<1>7. CASE UNCHANGED imageVars
  <2>1. UNCHANGED <<asked, process, disk, news, captainSide>>
    BY <1>7 DEF imageVars
  <2>2. ImagesTypeOK'
    BY <2>1 DEF IInv, ImagesTypeOK, process, disk, captainSide
  <2>3. ToldIsOnDisk' /\ OnAirIsOnDisk'
    BY <2>1, ToldStays, OnAirStays DEF IInv, disk, captainSide
  <2> QED
    BY <2>1, <2>2, <2>3, CaptainLeaves
<1> QED
  BY <1>1, <1>2, <1>3, <1>4, <1>5, <1>6, <1>7 DEF ImagesNext

(* The inductive invariant, over every crash of either process.            *)
THEOREM ImagesInvariant == ASSUME MaxAsked <= IdModulus PROVE ImagesSpec => []IInv
<1>1. ImagesInit => IInv
  BY ImagesStart
<1>2. IInv /\ [ImagesNext]_imageVars => IInv'
  BY ImagesStep
<1> QED
  BY <1>1, <1>2, PTL DEF ImagesSpec

(* What the ground is told of a picture is true of the disk: told metadata *)
(* is saved metadata, and the blocks it counts are whole and of its own    *)
(* picture (saveImageMetadata after compressAndSave; one request to a      *)
(* process).                                                               *)
THEOREM ToldTrue == ASSUME MaxAsked <= IdModulus PROVE ImagesSpec => []MetadataIsTrue
<1>1. IInv => MetadataIsTrue
  BY DEF IInv, MetadataIsTrue
<1> QED
  BY <1>1, ImagesInvariant, PTL

(* All that went down under one image id is one picture (load_block_data   *)
(* reads whole blocks only, and no id is taken twice).                     *)
THEOREM OnePictureOnAir == ASSUME MaxAsked <= IdModulus PROVE ImagesSpec => []DownlinkIsOnePicture
<1>1. ASSUME IInv, NEW i \in 0..(IdModulus - 1)
      PROVE  Cardinality({r.file : r \in {r \in onAir : r.image = i}}
                \cup {Whole(m.of) : m \in {m \in told : m.image = i /\ m.blocks > 0}}) <= 1
  <2> DEFINE Files == {r.file : r \in {r \in onAir : r.image = i}}
             Told == {Whole(m.of) : m \in {m \in told : m.image = i /\ m.blocks > 0}}
  <2>1. \A f, g \in Files : f = g
    <3>1. ASSUME NEW r \in onAir, NEW q \in onAir, r.image = i, q.image = i
          PROVE  r.file = q.file
      <4>1. /\ <<r.image, r.block>> \in DOMAIN blocks /\ <<q.image, q.block>> \in DOMAIN blocks
            /\ r.file = blocks[<<r.image, r.block>>] /\ r.file.state = "whole"
            /\ q.file = blocks[<<q.image, q.block>>] /\ q.file.state = "whole"
        BY <1>1 DEF IInv, OnAirIsOnDisk
      <4>2. DOMAIN blocks = Ids \X BlockIds
        BY <1>1 DEF IInv, ImagesTypeOK
      <4>3. i \in Ids /\ r.block \in BlockIds /\ q.block \in BlockIds
        BY <3>1, <4>1, <4>2
      <4> QED
        BY <1>1, <3>1, <4>1, <4>3 DEF IInv, FolderIsOnePicture
    <3> QED
      BY <3>1
  <2>2. \A m \in told : m.image = i => i \in DOMAIN metas /\ m = metas[i]
    BY <1>1 DEF IInv, ToldIsOnDisk, FolderIsOnePicture
  <2>3. \A f \in Files, g \in Told : f = g
    <3>1. ASSUME NEW r \in onAir, r.image = i, NEW m \in told, m.image = i
          PROVE  r.file = Whole(m.of)
      <4>1. /\ <<r.image, r.block>> \in DOMAIN blocks
            /\ r.file = blocks[<<r.image, r.block>>] /\ r.file.state = "whole"
        BY <1>1 DEF IInv, OnAirIsOnDisk
      <4>2. DOMAIN blocks = Ids \X BlockIds
        BY <1>1 DEF IInv, ImagesTypeOK
      <4>3. r.block \in BlockIds
        BY <4>1, <4>2
      <4> QED
        BY <1>1, <2>2, <3>1, <4>1, <4>3 DEF IInv, FolderIsOnePicture
    <3> QED
      BY <3>1
  <2>4. \A f, g \in Told : f = g
    BY <2>2
  <2> DEFINE Heard == Files \cup Told
  <2>5. \A f, g \in Heard : f = g
    BY <2>1, <2>3, <2>4
  <2> HIDE DEF Files, Told, Heard
  <2>6. Cardinality(Heard) <= 1
    <3>1. CASE Heard = {}
      BY <3>1, FS_EmptySet
    <3>2. CASE Heard # {}
      <4>1. PICK f : f \in Heard
        BY <3>2
      <4>2. Heard = {f}
        BY <2>5, <4>1
      <4>3. Cardinality({f}) = 1
        BY FS_Singleton
      <4> QED
        BY <4>2, <4>3
    <3> QED
      BY <3>1, <3>2
  <2> QED
    BY <2>6 DEF Files, Told, Heard
<1>2. IInv => DownlinkIsOnePicture
  BY <1>1 DEF DownlinkIsOnePicture
<1> QED
  BY <1>2, ImagesInvariant, PTL

(* No restart takes an id again: folders stay, whole blocks and metadata   *)
(* are never written a second time (nextImageIdForDir counts the folders,  *)
(* and the folder is made before anything can fail).                       *)
THEOREM KeptForever == ASSUME MaxAsked <= IdModulus PROVE ImagesSpec => PicturesAreKept
<1> DEFINE Kept ==
      /\ folders \subseteq folders'
      /\ \A f \in DOMAIN blocks : blocks[f].state = "whole" => blocks'[f] = blocks[f]
      /\ \A i \in DOMAIN metas : i \in DOMAIN metas' /\ metas'[i] = metas[i]
<1>1. ASSUME UNCHANGED disk PROVE Kept
  BY <1>1 DEF disk
<1>2. ASSUME IInv, HandleImageRequest PROVE Kept
  BY <1>2 DEF HandleImageRequest
<1>3. ASSUME IInv, OpenBlock \/ SavePacket PROVE Kept
  <2>1. NewFolder /\ blocks[<<image, block>>].state # "whole"
    <3>1. /\ block < MaxBlocks
          /\ NewFolder /\ (BlocksUpTo(Absent) \/ BlocksUpTo(Torn))
      BY <1>3 DEF IInv, AtWork, OpenBlock, SavePacket
    <3>2. block \in BlockIds /\ ~(block < block)
      BY <1>3, <3>1, ImagesAssumption DEF IInv, ImagesTypeOK, BlockIds
    <3>3. blocks[<<image, block>>] \in {Absent, Torn}
      BY <3>1, <3>2 DEF BlocksUpTo
    <3> QED
      BY <3>1, <3>3, WholeIsWhole
  <2>2. PacketId(image) = image
    BY <1>3, <2>1, IdsOnAir DEF IInv, NewFolder
  <2>3. UNCHANGED <<folders, metas>>
        /\ \E file : \/ blocks' = blocks
                     \/ blocks' = [blocks EXCEPT ![<<image, block>>] = file]
    BY <1>3, <2>2 DEF OpenBlock, SavePacket
  <2>4. \A f \in DOMAIN blocks : blocks[f].state = "whole" => blocks'[f] = blocks[f]
    BY <2>1, <2>3
  <2> QED
    BY <2>3, <2>4
<1>4. ASSUME IInv, SaveImageMetadata PROVE Kept
  <2>1. image \notin DOMAIN metas
    BY <1>4 DEF SaveImageMetadata, IInv, AtWork, NewFolder
  <2> QED
    BY <1>4, <2>1 DEF SaveImageMetadata
<1>5. IInv /\ [ImagesNext]_imageVars => [Kept]_imageVars
  <2> SUFFICES ASSUME IInv, [ImagesNext]_imageVars PROVE [Kept]_imageVars
    OBVIOUS
  <2>1. \/ UNCHANGED disk
        \/ HandleImageRequest \/ OpenBlock \/ SavePacket \/ SaveImageMetadata
    BY DEF ImagesNext, WatcherStep, Downlink, imageVars, AskForImage, Start, FrameTimesOut,
           EncodingEnds, PublishMetadata, Leave, FrameArrives, HandleImageMetadata,
           MetadataAsked, ImageControl, EnterEmergency, AMinuteLater, EmitBlock,
           WatcherCrash, CaptainRestart
  <2> HIDE DEF Kept
  <2> QED
    BY <1>1, <1>2, <1>3, <1>4, <2>1
<1>6. ImagesSpec => [][Kept]_imageVars
  BY <1>5, ImagesInvariant, PTL DEF ImagesSpec
<1> QED
  BY <1>6 DEF PicturesAreKept
-----------------------------------------------------------------------------
(* A total of the packets is a sum.                                        *)
LEMMA TotalIsSum == ASSUME NEW f PROVE Total(f) = SumOf(f)
BY Zenon DEF Total, FoldFunction, FoldFunctionOnSet, MapThenFoldSet, SumOf, Sums

(* The powers that the layouts shift by.                                   *)
LEMMA Powers ==
  /\ 2^0 = 1 /\ 2^2 = 4 /\ 2^3 = 8 /\ 2^5 = 32 /\ 2^6 = 64 /\ 2^8 = 256
  /\ 2^16 = 65536 /\ 2^24 = 16777216
BY SMT

Names ==
  {"packet_type", "expected", "shoulder_yaw", "shoulder_pitch", "elbow_pitch", "wrist_pitch",
   "motor_id", "duration_ticks", "millivolts", "openness", "open_travel_time", "open_time",
   "close_travel_time", "closeness", "which_servo", "left", "right", "top", "bottom", "output_width",
   "quality", "callsign_head", "callsign_tail", "image_id", "seconds", "telem_type",
   "num_test_packets", "dbm", "freq", "sf", "bw", "cr", "phase", "status_bits", "next_image_id",
   "next_exec_id", "battery_mV", "motor_temp", "radio_temp", "base_x", "base_y", "base_z",
   "link1_x", "link1_y", "link1_z", "link2_x", "link2_y", "link2_z", "latitude", "longitude",
   "altitude", "s_since_boost", "timestamp", "num_blocks", "block_index",
   "servo1", "servo2", "servo3", "servo4"}
Shifts == {0, 2, 3, 5, 6, 8, 16, 24}
Pieces == [field : Names, from : Shifts, bits : Shifts, at : Shifts]
Layout(L) == L \in Seq(SUBSET Pieces) /\ \A i \in DOMAIN L : IsFiniteSet(L[i])

(* A piece of a number, moved to its place, is an integer.                 *)
LEMMA BitsAreInt ==
  ASSUME NEW n \in Int, NEW from \in Shifts, NEW bits \in Shifts, NEW at \in Shifts
  PROVE  Bits(n, from, bits) * 2^at \in Int
<1>1. \A k \in Shifts : 2^k \in Nat \ {0}
  <2>1. /\ 2^0 \in Nat \ {0} /\ 2^2 \in Nat \ {0} /\ 2^3 \in Nat \ {0} /\ 2^5 \in Nat \ {0}
        /\ 2^6 \in Nat \ {0} /\ 2^8 \in Nat \ {0} /\ 2^16 \in Nat \ {0} /\ 2^24 \in Nat \ {0}
    BY SMT
  <2>2. \A k \in Shifts : k = 0 \/ k = 2 \/ k = 3 \/ k = 5 \/ k = 6 \/ k = 8 \/ k = 16 \/ k = 24
    BY DEF Shifts
  <2> QED
    BY <2>1, <2>2, Zenon
<1> DEFINE a == 2^from  b == 2^bits  c == 2^at
<1>2. a \in Nat \ {0} /\ b \in Nat \ {0} /\ c \in Nat \ {0}
  BY <1>1
<1>3. ((n \div a) % b) * c \in Int
  <2> HIDE DEF a, b, c
  <2>1. n \div a \in Int
    BY <1>2
  <2>2. \A x \in Int : x % b \in Int
    BY <1>2
  <2>3. \A x \in Int : x * c \in Int
    BY <1>2
  <2> QED
    BY <2>1, <2>2, <2>3
<1> QED
  BY <1>3 DEF Bits

(* What the bytes b say of a field by a layout.                            *)
Field(L, b, f) == SumOf([i \in DOMAIN L |-> UnpackedPart(L[i], b[i], f)])

(* What a byte says of a field, and of one that is not in it.              *)
LEMMA PartIsInt ==
  ASSUME NEW cell \in SUBSET Pieces, IsFiniteSet(cell), NEW b \in Int, NEW f
  PROVE  /\ UnpackedPart(cell, b, f) \in Int
         /\ (\A q \in cell : q.field # f) => UnpackedPart(cell, b, f) = 0
<1> DEFINE D == {q \in cell : q.field = f}
           h == [p \in D |-> Bits(b, p.at, p.bits) * 2^p.from]
<1>1. IsFiniteSet(D)
  BY FS_Subset
<1>2. h \in [D -> Int]
  <2>1. \A p \in D : p.at \in Shifts /\ p.bits \in Shifts /\ p.from \in Shifts
    BY DEF Pieces
  <2>2. \A p \in D : Bits(b, p.at, p.bits) * 2^p.from \in Int
    BY <2>1, BitsAreInt
  <2> QED
    BY <2>2
<1>3. UnpackedPart(cell, b, f) = SumOf(h)
  BY TotalIsSum, Zenon DEF UnpackedPart
<1>4. SumOf(h) \in Int
  <2> HIDE DEF h, D
  <2> QED
    BY <1>1, <1>2, SumSteps
<1>5. ASSUME \A q \in cell : q.field # f PROVE SumOf(h) = 0
  <2>1. D = {}
    BY <1>5
  <2>2. h \in [{} -> Int]
    BY <1>2, <2>1
  <2> HIDE DEF h
  <2> QED
    BY <2>2, SumOfNone
<1> QED
  BY <1>3, <1>4, <1>5

(* A packed byte is an integer.                                            *)
LEMMA PackedIsInt ==
  ASSUME NEW cell \in SUBSET Pieces, IsFiniteSet(cell), NEW v, \A q \in cell : v[q.field] \in Int
  PROVE  PackedByte(cell, v) \in Int
<1> DEFINE h == [p \in cell |-> Bits(v[p.field], p.from, p.bits) * 2^p.at]
<1>2. h \in [cell -> Int]
  <2>1. \A p \in cell : p.at \in Shifts /\ p.bits \in Shifts /\ p.from \in Shifts
    BY DEF Pieces
  <2>2. \A p \in cell : Bits(v[p.field], p.from, p.bits) * 2^p.at \in Int
    BY <2>1, BitsAreInt
  <2> QED
    BY <2>2
<1>3. PackedByte(cell, v) = SumOf(h)
  BY TotalIsSum, Zenon DEF PackedByte
<1>4. SumOf(h) \in Int
  <2> HIDE DEF h
  <2> QED
    BY <1>2, SumSteps
<1> QED
  BY <1>3, <1>4

(* The fields of a layout are those of its pieces.                         *)
LEMMA FieldsAre ==
  ASSUME NEW L, Layout(L), NEW f
  PROVE  f \in Fields(L) <=> \E i \in DOMAIN L : \E p \in L[i] : p.field = f
BY DEF Fields, Range, Layout

(* One list and another.                                                   *)
LEMMA JoinIs ==
  ASSUME NEW T, NEW a \in Seq(T), NEW b \in Seq(T)
  PROVE  /\ Len(a) \in Nat /\ Len(b) \in Nat /\ Len(a \o b) = Len(a) + Len(b) /\ a \o b \in Seq(T)
         /\ DOMAIN a = 1..Len(a) /\ DOMAIN b = 1..Len(b) /\ DOMAIN (a \o b) = 1..(Len(a) + Len(b))
         /\ \A i \in 1..Len(a) : (a \o b)[i] = a[i] /\ a[i] \in T
         /\ \A i \in 1..Len(b) : (a \o b)[Len(a) + i] = b[i] /\ b[i] \in T
<1>1. Len(a \o b) = Len(a) + Len(b)
  OBVIOUS
<1>2. \A i \in 1..Len(b) : (a \o b)[Len(a) + i] = b[i]
  <2> TAKE i \in 1..Len(b)
  <2> DEFINE k == Len(a) + i
  <2>1. k \in 1..Len(a \o b) /\ ~ (k <= Len(a)) /\ k - Len(a) = i
    BY <1>1
  <2>2. (a \o b)[k] = b[k - Len(a)]
    <3> HIDE DEF k
    <3> QED
      BY <2>1, <1>1
  <2> QED
    BY <2>1, <2>2
<1> QED
  BY <1>1, <1>2

(* What two layouts, one after the other, say of a field.                  *)
LEMMA FieldJoins ==
  ASSUME NEW A, Layout(A), NEW B, Layout(B),
         NEW p \in Seq(Int), Len(p) = Len(A), NEW q \in Seq(Int), Len(q) = Len(B), NEW f
  PROVE  /\ Layout(A \o B)
         /\ Fields(A \o B) = Fields(A) \cup Fields(B)
         /\ Field(A \o B, p \o q, f) = Field(A, p, f) + Field(B, q, f)
         /\ Field(A, p, f) \in Int
         /\ f \notin Fields(A) => Field(A, p, f) = 0
         /\ f \notin Fields(B) => Field(B, q, f) = 0
<1> DEFINE m == Len(A)  n == Len(B)  L == A \o B  b == p \o q
<1>0. A \in Seq(SUBSET Pieces) /\ B \in Seq(SUBSET Pieces)
  BY DEF Layout
<1>1. /\ m \in Nat /\ n \in Nat /\ Len(L) = m + n /\ Len(b) = m + n
      /\ DOMAIN A = 1..m /\ DOMAIN B = 1..n /\ DOMAIN L = 1..(m + n)
      /\ L \in Seq(SUBSET Pieces) /\ b \in Seq(Int)
  <2>1. Len(p) = m /\ Len(q) = n
    OBVIOUS
  <2>2. Len(b) = Len(p) + Len(q) /\ b \in Seq(Int)
    BY ONLY p \in Seq(Int), q \in Seq(Int), JoinIs
  <2> QED
    BY <1>0, <2>1, <2>2, JoinIs
<1>2. \A i \in 1..m : L[i] = A[i] /\ b[i] = p[i] /\ A[i] \in SUBSET Pieces /\ p[i] \in Int
  <2>1. \A i \in 1..Len(p) : b[i] = p[i] /\ p[i] \in Int
    BY ONLY p \in Seq(Int), q \in Seq(Int), JoinIs
  <2>2. \A i \in 1..m : L[i] = A[i] /\ A[i] \in SUBSET Pieces
    BY ONLY <1>0, JoinIs
  <2> QED
    BY <2>1, <2>2
<1>3. \A i \in 1..n : L[m + i] = B[i] /\ b[m + i] = q[i] /\ B[i] \in SUBSET Pieces /\ q[i] \in Int
  <2>1. \A i \in 1..Len(q) : b[Len(p) + i] = q[i] /\ q[i] \in Int
    BY ONLY p \in Seq(Int), q \in Seq(Int), JoinIs
  <2>2. \A i \in 1..n : L[m + i] = B[i] /\ B[i] \in SUBSET Pieces
    BY ONLY <1>0, JoinIs
  <2> QED
    BY <2>1, <2>2
<1>4. \A i \in 1..(m + n) : i \in 1..m \/ \E j \in 1..n : i = m + j
  <2> HIDE DEF m, n
  <2> TAKE i \in 1..(m + n)
  <2>1. i > m => i - m \in 1..n /\ i = m + (i - m)
    BY <1>1
  <2> QED
    BY <1>1, <2>1
<1>5. Layout(L)
  <2>1. (\A i \in 1..m : IsFiniteSet(A[i])) /\ (\A i \in 1..n : IsFiniteSet(B[i]))
    BY <1>1 DEF Layout
  <2>2. \A i \in 1..(m + n) : IsFiniteSet(L[i])
    <3> HIDE DEF L, m, n
    <3> QED
      BY <2>1, <1>2, <1>3, <1>4
  <2> QED
    BY <1>1, <2>2 DEF Layout
<1>6. Fields(L) = Fields(A) \cup Fields(B)
  <2>1. \A g : g \in Fields(L) <=> \E i \in 1..(m + n) : \E x \in L[i] : x.field = g
    BY <1>1, <1>5, FieldsAre
  <2>2. \A g : g \in Fields(A) <=> \E i \in 1..m : \E x \in A[i] : x.field = g
    BY <1>1, FieldsAre
  <2>3. \A g : g \in Fields(B) <=> \E i \in 1..n : \E x \in B[i] : x.field = g
    BY <1>1, FieldsAre
  <2>4. (\A i \in 1..m : i \in 1..(m + n)) /\ (\A i \in 1..n : m + i \in 1..(m + n))
    BY <1>1
  <2> HIDE DEF m, n, L
  <2>5. ASSUME NEW g PROVE g \in Fields(L) <=> g \in Fields(A) \/ g \in Fields(B)
    <3>1. ASSUME g \in Fields(L) PROVE g \in Fields(A) \/ g \in Fields(B)
      <4>1. PICK i \in 1..(m + n) : \E x \in L[i] : x.field = g
        BY <2>1, <3>1
      <4>2. CASE i \in 1..m
        BY <4>1, <4>2, <1>2, <2>2
      <4>3. CASE \E j \in 1..n : i = m + j
        BY <4>1, <4>3, <1>3, <2>3
      <4> QED
        BY <4>2, <4>3, <1>4
    <3>2. ASSUME g \in Fields(A) PROVE g \in Fields(L)
      BY <3>2, <2>1, <2>2, <2>4, <1>2
    <3>3. ASSUME g \in Fields(B) PROVE g \in Fields(L)
      BY <3>3, <2>1, <2>3, <2>4, <1>3
    <3> QED
      BY <3>1, <3>2, <3>3
  <2> QED
    BY <2>5
<1> DEFINE h == [i \in 1..(m + n) |-> UnpackedPart(L[i], b[i], f)]
           ha == [i \in 1..m |-> UnpackedPart(A[i], p[i], f)]
           hb == [i \in 1..n |-> UnpackedPart(B[i], q[i], f)]
           h1 == [i \in 1..m |-> h[i]]  h2 == [i \in 1..n |-> h[m + i]]
<1>7. h \in [1..(m + n) -> Int]
  <2>1. \A i \in 1..(m + n) : L[i] \in SUBSET Pieces /\ IsFiniteSet(L[i]) /\ b[i] \in Int
    BY <1>1, <1>5 DEF Layout
  <2>2. \A i \in 1..(m + n) : UnpackedPart(L[i], b[i], f) \in Int
    <3> HIDE DEF L, b, m, n
    <3> QED
      BY <2>1, PartIsInt
  <2> QED
    BY <2>2
<1>8. h1 = ha
  <2>1. \A i \in 1..m : i \in 1..(m + n)
    BY <1>1
  <2> QED
    BY <2>1, <1>2, Zenon
<1>9. h2 = hb
  <2>1. \A i \in 1..n : m + i \in 1..(m + n)
    BY <1>1
  <2> QED
    BY <2>1, <1>3, Zenon
<1>10. SumOf(h) = SumOf(h1) + SumOf(h2)
  <2> HIDE DEF h, m, n
  <2> QED
    BY <1>1, <1>7, SumSplit
<1>11. Field(L, b, f) = SumOf(h) /\ Field(A, p, f) = SumOf(ha) /\ Field(B, q, f) = SumOf(hb)
  BY <1>1, Zenon DEF Field
<1>12. ha \in [1..m -> Int]
  <2>1. \A i \in 1..m : A[i] \in SUBSET Pieces /\ IsFiniteSet(A[i]) /\ p[i] \in Int
    BY <1>1, <1>2 DEF Layout
  <2>2. \A i \in 1..m : UnpackedPart(A[i], p[i], f) \in Int
    <3> HIDE DEF m
    <3> QED
      BY <2>1, PartIsInt
  <2> QED
    BY <2>2
<1>13. SumOf(ha) \in Int
  <2>1. IsFiniteSet(1..m)
    BY FS_Interval, <1>1
  <2> HIDE DEF ha, m
  <2> QED
    BY <1>12, <2>1, SumSteps
<1>14. ASSUME f \notin Fields(A) PROVE SumOf(ha) = 0
  <2>1. \A i \in 1..m : A[i] \in SUBSET Pieces /\ IsFiniteSet(A[i]) /\ p[i] \in Int
    BY <1>1, <1>2 DEF Layout
  <2>2. \A i \in 1..m : \A x \in A[i] : x.field # f
    BY <1>14, FieldsAre, <1>1
  <2>3. \A i \in 1..m : UnpackedPart(A[i], p[i], f) = 0
    <3> HIDE DEF m
    <3> QED
      BY <2>1, <2>2, PartIsInt
  <2>4. ha \in [1..m -> {0}]
    BY <2>3
  <2> HIDE DEF ha, m
  <2> QED
    BY <2>4, <1>1, SumOfZeros
<1>15. ASSUME f \notin Fields(B) PROVE SumOf(hb) = 0
  <2>1. \A i \in 1..n : B[i] \in SUBSET Pieces /\ IsFiniteSet(B[i]) /\ q[i] \in Int
    BY <1>1, <1>3 DEF Layout
  <2>2. \A i \in 1..n : \A x \in B[i] : x.field # f
    BY <1>15, FieldsAre, <1>1
  <2>3. \A i \in 1..n : UnpackedPart(B[i], q[i], f) = 0
    <3> HIDE DEF n
    <3> QED
      BY <2>1, <2>2, PartIsInt
  <2>4. hb \in [1..n -> {0}]
    BY <2>3
  <2> HIDE DEF hb, n
  <2> QED
    BY <2>4, <1>1, SumOfZeros
<1> HIDE DEF h, ha, hb, h1, h2, m, n
<1> QED
  BY <1>5, <1>6, <1>8, <1>9, <1>10, <1>11, <1>13, <1>14, <1>15

(* The sums of up to four.                                                 *)
LEMMA SumsTo4 ==
  /\ \A h \in [1..1 -> Int] : SumOf(h) = h[1]
  /\ \A h \in [1..2 -> Int] : SumOf(h) = h[1] + h[2]
  /\ \A h \in [1..3 -> Int] : SumOf(h) = h[1] + h[2] + h[3]
  /\ \A h \in [1..4 -> Int] : SumOf(h) = h[1] + h[2] + h[3] + h[4]
<1>1. ASSUME NEW h \in [1..1 -> Int] PROVE SumOf(h) = h[1]
  <2>1. h \in [{1} -> Int]
    OBVIOUS
  <2> QED
    BY <2>1, SumOfOne
<1>2. ASSUME NEW h \in [1..2 -> Int] PROVE SumOf(h) = h[1] + h[2]
  <2> DEFINE g == [i \in 1..1 |-> h[i]]
  <2>1. h \in [1..(1 + 1) -> Int] /\ g \in [1..1 -> Int] /\ g[1] = h[1] /\ 1 + 1 = 2
    OBVIOUS
  <2>2. SumOf(h) = SumOf(g) + h[1 + 1]
    BY <2>1, SumToLast
  <2> HIDE DEF g
  <2> QED
    BY <2>1, <2>2, <1>1
<1>3. ASSUME NEW h \in [1..3 -> Int] PROVE SumOf(h) = h[1] + h[2] + h[3]
  <2> DEFINE g == [i \in 1..2 |-> h[i]]
  <2>1. h \in [1..(2 + 1) -> Int] /\ g \in [1..2 -> Int] /\ g[1] = h[1] /\ g[2] = h[2] /\ 2 + 1 = 3
    OBVIOUS
  <2>2. SumOf(h) = SumOf(g) + h[2 + 1]
    BY <2>1, SumToLast
  <2> HIDE DEF g
  <2> QED
    BY <2>1, <2>2, <1>2
<1>4. ASSUME NEW h \in [1..4 -> Int] PROVE SumOf(h) = h[1] + h[2] + h[3] + h[4]
  <2> DEFINE g == [i \in 1..3 |-> h[i]]
  <2>1. /\ h \in [1..(3 + 1) -> Int] /\ g \in [1..3 -> Int] /\ 3 + 1 = 4
        /\ g[1] = h[1] /\ g[2] = h[2] /\ g[3] = h[3]
    OBVIOUS
  <2>2. SumOf(h) = SumOf(g) + h[3 + 1]
    BY <2>1, SumToLast
  <2> HIDE DEF g
  <2> QED
    BY <2>1, <2>2, <1>3
<1> QED
  BY <1>1, <1>2, <1>3, <1>4

(* The layout carries the fields F of v: packed and unpacked they are what *)
(* they were.                                                              *)
Carried(L, v, F) ==
  /\ Layout(L) /\ Fields(L) = F
  /\ Pack(L, v) \in Seq(Octet) /\ Len(Pack(L, v)) = Len(L)
  /\ \A f \in F : Field(L, Pack(L, v), f) = v[f]

(* A byte is a number.                                                     *)
LEMMA OctetIsNat == \A n \in Octet : n \in Nat /\ n \in Int /\ n < 256
BY DEF Octet

(* Bytes are integers.                                                     *)
LEMMA OctetsAreInts ==
  ASSUME NEW p \in Seq(Octet)
  PROVE  p \in Seq(Int) /\ \A i \in 1..Len(p) : p[i] \in Octet
<1>1. Len(p) \in Nat /\ p \in [1..Len(p) -> Octet]
  OBVIOUS
<1>2. p \in [1..Len(p) -> Int]
  <2>1. \A i \in 1..Len(p) : p[i] \in Octet
    BY <1>1
  <2>2. \A i \in 1..Len(p) : p[i] \in Int
    <3>1. \A n \in Octet : n \in Int
      BY DEF Octet
    <3> QED
      BY <2>1, <3>1
  <2> QED
    BY <1>1, <2>2
<1>3. p \in Seq(Int)
  BY ONLY <1>1, <1>2, ListIsSeq
<1> QED
  BY <1>1, <1>3

(* Two layouts pack one after the other.                                   *)
LEMMA PackJoins ==
  ASSUME NEW A, Layout(A), NEW B, Layout(B), NEW v
  PROVE  Pack(A \o B, v) = Pack(A, v) \o Pack(B, v)
<1> DEFINE m == Len(A)  n == Len(B)  L == A \o B  a == Pack(A, v)  b == Pack(B, v)
<1>0. A \in Seq(SUBSET Pieces) /\ B \in Seq(SUBSET Pieces)
  BY DEF Layout
<1>1. /\ m \in Nat /\ n \in Nat /\ DOMAIN A = 1..m /\ DOMAIN B = 1..n /\ DOMAIN L = 1..(m + n)
      /\ \A i \in 1..m : L[i] = A[i]
      /\ \A i \in 1..n : L[m + i] = B[i]
  BY ONLY <1>0, JoinIs
<1>2. a = [i \in 1..m |-> PackedByte(A[i], v)] /\ b = [i \in 1..n |-> PackedByte(B[i], v)]
  BY <1>1 DEF Pack
<1>3. Pack(L, v) = [i \in 1..(m + n) |-> PackedByte(L[i], v)]
  BY <1>1, Zenon DEF Pack
<1> DEFINE T == {PackedByte(A[i], v) : i \in 1..m} \cup {PackedByte(B[i], v) : i \in 1..n}
<1>4. a \in Seq(T) /\ Len(a) = m /\ b \in Seq(T) /\ Len(b) = n
  <2>1. a \in [1..m -> T] /\ b \in [1..n -> T]
    BY <1>2
  <2> HIDE DEF T, a, b, m, n
  <2> QED
    BY <1>1, <2>1, ListIsSeq
<1>5. /\ DOMAIN (a \o b) = 1..(m + n) /\ a \o b \in Seq(T)
      /\ \A i \in 1..m : (a \o b)[i] = a[i]
      /\ \A i \in 1..n : (a \o b)[m + i] = b[i]
  <2>1. a \in Seq(T)
    BY <1>4
  <2>2. b \in Seq(T)
    BY <1>4
  <2>3. /\ DOMAIN (a \o b) = 1..(Len(a) + Len(b)) /\ a \o b \in Seq(T)
        /\ \A i \in 1..Len(a) : (a \o b)[i] = a[i]
        /\ \A i \in 1..Len(b) : (a \o b)[Len(a) + i] = b[i]
    <3> HIDE DEF T, a, b
    <3> QED
      BY ONLY <2>1, <2>2, JoinIs
  <2> HIDE DEF T, a, b, m, n
  <2> QED
    BY <1>4, <2>3
<1> DEFINE s == a \o b
<1>6. ASSUME NEW i \in 1..(m + n) PROVE s[i] = PackedByte(L[i], v)
  <2>0. /\ \A k \in 1..m : s[k] = a[k] /\ L[k] = A[k] /\ a[k] = PackedByte(A[k], v)
        /\ \A k \in 1..n : s[m + k] = b[k] /\ L[m + k] = B[k] /\ b[k] = PackedByte(B[k], v)
    BY <1>1, <1>2, <1>5
  <2> HIDE DEF s, L, a, b, m, n
  <2>1. CASE i \in 1..m
    BY <2>1, <2>0
  <2>2. CASE i > m
    <3> DEFINE j == i - m
    <3>1. j \in 1..n /\ i = m + j
      BY <2>2, <1>1
    <3>2. s[m + j] = PackedByte(L[m + j], v)
      BY <3>1, <2>0
    <3> QED
      BY <3>1, <3>2
  <2>3. s[i] = PackedByte(L[i], v)
    BY <2>1, <2>2, <1>1
  <2> QED
    BY <2>3
<1>7. s = [i \in 1..(m + n) |-> PackedByte(L[i], v)]
  <2>1. s \in [1..(m + n) -> T]
    <3>1. s \in Seq(T) /\ DOMAIN s = 1..(m + n)
      BY <1>5
    <3> HIDE DEF s, T
    <3> QED
      BY <3>1
  <2>2. \A i \in 1..(m + n) : s[i] = PackedByte(L[i], v)
    BY <1>6
  <2> HIDE DEF s, L, T, m, n
  <2> QED
    BY <2>1, <2>2
<1> QED
  BY <1>3, <1>7

(* A layout carries what its two parts carry.                              *)
LEMMA CarriedJoins ==
  ASSUME NEW v, NEW A, NEW F, Carried(A, v, F), NEW B, NEW G, Carried(B, v, G), F \cap G = {}
  PROVE  Carried(A \o B, v, F \cup G)
<1> DEFINE a == Pack(A, v)  b == Pack(B, v)
<1>1. /\ Layout(A) /\ Fields(A) = F /\ a \in Seq(Octet) /\ Len(a) = Len(A)
      /\ Layout(B) /\ Fields(B) = G /\ b \in Seq(Octet) /\ Len(b) = Len(B)
  BY DEF Carried
<1>2. \A f : f \in F => Field(A, a, f) = v[f]
  BY DEF Carried
<1>3. \A f : f \in G => Field(B, b, f) = v[f]
  BY DEF Carried
<1>4. Pack(A \o B, v) = a \o b
  BY <1>1, PackJoins
<1>5. a \o b \in Seq(Octet) /\ Len(a \o b) = Len(A) + Len(B)
  <2>1. a \in Seq(Octet)
    BY <1>1
  <2>2. b \in Seq(Octet)
    BY <1>1
  <2>3. a \o b \in Seq(Octet) /\ Len(a \o b) = Len(a) + Len(b)
    <3> HIDE DEF a, b
    <3> QED
      BY ONLY <2>1, <2>2, JoinIs
  <2> QED
    BY <1>1, <2>3
<1>6. Len(A \o B) = Len(A) + Len(B)
  <2>1. A \in Seq(SUBSET Pieces) /\ B \in Seq(SUBSET Pieces)
    BY <1>1 DEF Layout
  <2> QED
    BY <2>1, JoinIs
<1>7. \A f : /\ Layout(A \o B) /\ Fields(A \o B) = F \cup G
             /\ Field(A \o B, a \o b, f) = Field(A, a, f) + Field(B, b, f)
             /\ Field(A, a, f) \in Int
             /\ f \notin F => Field(A, a, f) = 0
             /\ f \notin G => Field(B, b, f) = 0
  <2>1. a \in Seq(Int) /\ b \in Seq(Int)
    <3> HIDE DEF a, b
    <3> QED
      BY <1>1, OctetsAreInts
  <2>2. \A f : /\ Layout(A \o B)
               /\ Fields(A \o B) = Fields(A) \cup Fields(B)
               /\ Field(A \o B, a \o b, f) = Field(A, a, f) + Field(B, b, f)
               /\ Field(A, a, f) \in Int
               /\ f \notin Fields(A) => Field(A, a, f) = 0
               /\ f \notin Fields(B) => Field(B, b, f) = 0
    <3>1. Layout(A) /\ Layout(B)
      BY <1>1
    <3>2. a \in Seq(Int) /\ Len(a) = Len(A)
      BY <1>1, <2>1
    <3>3. b \in Seq(Int) /\ Len(b) = Len(B)
      BY <1>1, <2>1
    <3> HIDE DEF a, b
    <3> QED
      BY ONLY <3>1, <3>2, <3>3, FieldJoins
  <2> HIDE DEF a, b
  <2> QED
    BY <1>1, <2>2
<1>8. ASSUME NEW f \in F \cup G PROVE Field(A \o B, a \o b, f) = v[f]
  <2> HIDE DEF a, b
  <2>1. CASE f \in F
    <3>1. f \notin G
      BY <2>1
    <3> QED
      BY <3>1, <2>1, <1>2, <1>7
  <2>2. CASE f \notin F
    <3>1. f \in G
      BY <2>2
    <3>2. Field(B, b, f) = v[f] /\ Field(A, a, f) = 0 /\ Field(A \o B, a \o b, f) = Field(A, a, f) + Field(B, b, f)
      BY <3>1, <2>2, <1>3, <1>7
    <3>3. Field(B, b, f) \in Int
      <4>1. b \in Seq(Int) /\ a \in Seq(Int)
        BY <1>1, OctetsAreInts
      <4>2. Field(B, b, f) \in Int
        BY <1>1, <4>1, FieldJoins, Zenon
      <4> QED
        BY <4>2
    <3> QED
      BY <3>2, <3>3
  <2> QED
    BY <2>1, <2>2
<1> HIDE DEF a, b
<1> QED
  BY <1>4, <1>5, <1>6, <1>7, <1>8 DEF Carried

(* What is carried is unpacked as it was, whatever follows it.             *)
LEMMA UnpackIs ==
  ASSUME NEW L, NEW v, NEW F, Carried(L, v, F), NEW T, NEW w \in Seq(T), NEW stray
  PROVE  Unpack(L, Pack(L, v) \o w, stray) = [f \in F |-> v[f]]
<1> DEFINE p == Pack(L, v)  b == p \o w  n == Len(L)
           At(i) == IF i <= Len(b) THEN b[i] ELSE stray
<1>1. /\ L \in Seq(SUBSET Pieces) /\ n \in Nat /\ DOMAIN L = 1..n /\ Fields(L) = F
      /\ p \in Seq(Octet) /\ Len(p) = n
  BY DEF Carried, Layout
<1>2. Len(b) \in Nat /\ Len(b) >= n /\ \A i \in 1..n : b[i] = p[i]
  <2>1. /\ Len(b) = Len(p) + Len(w) /\ Len(w) \in Nat
        /\ \A i \in 1..Len(p) : b[i] = p[i]
    <3> DEFINE S == Octet \cup T
    <3>1. p \in Seq(S)
      BY <1>1
    <3>2. w \in Seq(S)
      OBVIOUS
    <3> HIDE DEF p, S
    <3> QED
      BY ONLY <3>1, <3>2, JoinIs
  <2> HIDE DEF b, p
  <2> QED
    BY <1>1, <2>1
<1>3. \A i \in 1..n : At(i) = p[i]
  <2> HIDE DEF b, p, n
  <2> QED
    BY <1>1, <1>2
<1>4. ASSUME NEW f \in F
      PROVE  Total([i \in DOMAIN L |-> UnpackedPart(L[i], At(i), f)]) = v[f]
  <2>1. [i \in DOMAIN L |-> UnpackedPart(L[i], At(i), f)] = [i \in DOMAIN L |-> UnpackedPart(L[i], p[i], f)]
    <3> HIDE DEF At, p, n
    <3> QED
      BY <1>1, <1>3
  <2>2. Field(L, p, f) = v[f]
    BY DEF Carried
  <2> HIDE DEF At, p
  <2> QED
    BY <2>1, <2>2, TotalIsSum, Zenon DEF Field
<1>5. Unpack(L, b, stray) = [f \in F |-> Total([i \in DOMAIN L |-> UnpackedPart(L[i], At(i), f)])]
  BY <1>1, Zenon DEF Unpack
<1> HIDE DEF At, b
<1>6. [f \in F |-> Total([i \in DOMAIN L |-> UnpackedPart(L[i], At(i), f)])] = [f \in F |-> v[f]]
  BY <1>4, Zenon
<1> QED
  BY <1>5, <1>6 DEF b

(* Of a field with one piece in a byte, the byte says that piece.          *)
LEMMA OnlyPiece ==
  ASSUME NEW cell \in SUBSET Pieces, NEW x \in cell,
         \A y \in cell : y.field = x.field => y = x, NEW b \in Int
  PROVE  UnpackedPart(cell, b, x.field) = Bits(b, x.at, x.bits) * 2^x.from
<1> DEFINE D == {q \in cell : q.field = x.field}
           h == [p \in D |-> Bits(b, p.at, p.bits) * 2^p.from]
<1>1. D = {x}
  OBVIOUS
<1>2. h \in [{x} -> Int] /\ h[x] = Bits(b, x.at, x.bits) * 2^x.from
  <2>1. x.at \in Shifts /\ x.bits \in Shifts /\ x.from \in Shifts
    BY DEF Pieces
  <2>2. Bits(b, x.at, x.bits) * 2^x.from \in Int
    BY <2>1, BitsAreInt
  <2>3. h = [p \in {x} |-> Bits(b, p.at, p.bits) * 2^p.from]
    BY <1>1, Zenon
  <2> DEFINE e(p) == Bits(b, p.at, p.bits) * 2^p.from
  <2> HIDE DEF h
  <2>4. e(x) \in Int /\ h = [p \in {x} |-> e(p)]
    BY <2>2, <2>3, Zenon
  <2>5. h \in [{x} -> Int] /\ h[x] = e(x)
    <3> HIDE DEF e
    <3> QED
      BY <2>4
  <2> QED
    BY <2>5
<1>3. UnpackedPart(cell, b, x.field) = SumOf(h)
  BY TotalIsSum, Zenon DEF UnpackedPart
<1> HIDE DEF h
<1>4. SumOf(h) = h[x]
  BY <1>2, SumOfOne
<1> QED
  BY <1>2, <1>3, <1>4

(* What one piece of a field adds to its byte.                             *)
Share(p, v) == Bits(v[p.field], p.from, p.bits) * 2^p.at

(* A byte of one, two or three pieces is the sum of their shares.          *)
LEMMA PiecesPacked ==
  ASSUME NEW v, NEW x \in Pieces, v[x.field] \in Int, NEW y \in Pieces, v[y.field] \in Int,
         NEW z \in Pieces, v[z.field] \in Int
  PROVE  /\ PackedByte({x}, v) = Share(x, v)
         /\ x # y => PackedByte({x, y}, v) = Share(x, v) + Share(y, v)
         /\ x # y /\ x # z /\ y # z =>
              PackedByte({x, y, z}, v) = Share(x, v) + Share(y, v) + Share(z, v)
<1>1. \A p \in Pieces : v[p.field] \in Int => Share(p, v) \in Int
  <2> SUFFICES ASSUME NEW p \in Pieces, v[p.field] \in Int PROVE Share(p, v) \in Int
    OBVIOUS
  <2>1. p.at \in Shifts /\ p.bits \in Shifts /\ p.from \in Shifts
    BY DEF Pieces
  <2> QED
    BY <2>1, BitsAreInt DEF Share
<1>2. \A cell : PackedByte(cell, v) = SumOf([p \in cell |-> Share(p, v)])
  BY TotalIsSum, Zenon DEF PackedByte, Share
<1>3. [p \in {x} |-> Share(p, v)] \in [{x} -> Int]
  BY <1>1
<1>4. [p \in {x, y} |-> Share(p, v)] \in [{x, y} -> Int]
  BY <1>1
<1>5. [p \in {x, y, z} |-> Share(p, v)] \in [{x, y, z} -> Int]
  BY <1>1
<1>6. PackedByte({x}, v) = Share(x, v)
  <2> DEFINE h == [p \in {x} |-> Share(p, v)]
  <2>1. h \in [{x} -> Int] /\ h[x] = Share(x, v)
    BY <1>3
  <2>2. PackedByte({x}, v) = SumOf(h)
    BY <1>2
  <2> HIDE DEF h
  <2> QED
    BY <2>1, <2>2, SumOfOne
<1>7. ASSUME x # y PROVE PackedByte({x, y}, v) = Share(x, v) + Share(y, v)
  <2> DEFINE h == [p \in {x, y} |-> Share(p, v)]
  <2>1. h \in [{x, y} -> Int] /\ h[x] = Share(x, v) /\ h[y] = Share(y, v)
    BY <1>4
  <2>2. PackedByte({x, y}, v) = SumOf(h)
    BY <1>2
  <2> HIDE DEF h
  <2>3. SumOf(h) = h[x] + h[y]
    BY <1>7, <2>1, SumOfTwo
  <2> QED
    BY <2>1, <2>2, <2>3
<1>8. ASSUME x # y, x # z, y # z
      PROVE  PackedByte({x, y, z}, v) = Share(x, v) + Share(y, v) + Share(z, v)
  <2> DEFINE h == [p \in {x, y, z} |-> Share(p, v)]
  <2>1. h \in [{x, y, z} -> Int] /\ h[x] = Share(x, v) /\ h[y] = Share(y, v) /\ h[z] = Share(z, v)
    BY <1>5
  <2>2. PackedByte({x, y, z}, v) = SumOf(h)
    BY <1>2
  <2> HIDE DEF h
  <2>3. SumOf(h) = h[x] + h[y] + h[z]
    <3> DEFINE D == {x, y, z}
    <3>1. /\ x \in D /\ y \in D /\ z \in D /\ x # y /\ x # z /\ y # z
          /\ \A d \in D : d = x \/ d = y \/ d = z
      BY <1>8
    <3>2. h \in [D -> Int]
      BY <2>1
    <3> HIDE DEF D
    <3> QED
      BY ONLY <3>1, <3>2, SumOfThree
  <2> QED
    BY <2>1, <2>2, <2>3
<1> QED
  BY <1>6, <1>7, <1>8

(* Bytes of one field each.                                                *)
LEMMA ByteCells ==
  ASSUME NEW v, NEW f \in Names, v[f] \in Nat, NEW from \in {0, 8, 16, 24}, NEW b \in Octet
  PROVE  /\ {Piece(f, from, 8, 0)} \in SUBSET Pieces /\ IsFiniteSet({Piece(f, from, 8, 0)})
         /\ PackedByte({Piece(f, from, 8, 0)}, v) = (v[f] \div 2^from) % 256
         /\ PackedByte({Piece(f, from, 8, 0)}, v) \in Octet
         /\ UnpackedPart({Piece(f, from, 8, 0)}, b, f) = b * 2^from
<1> DEFINE x == Piece(f, from, 8, 0)
<1>1. x \in Pieces /\ x.field = f /\ x.from = from /\ x.bits = 8 /\ x.at = 0
  BY DEF Pieces, Piece, Shifts
<1>2. IsFiniteSet({x})
  BY FS_Singleton
<1>3. PackedByte({x}, v) = Share(x, v) /\ UnpackedPart({x}, b, x.field) = Bits(b, x.at, x.bits) * 2^x.from
  <2>1. v[x.field] \in Int
    BY <1>1
  <2>2. b \in Int
    BY DEF Octet
  <2> HIDE DEF x
  <2>3. PackedByte({x}, v) = Share(x, v)
    BY <1>1, <2>1, PiecesPacked
  <2>4. x \in {x} /\ {x} \in SUBSET Pieces /\ \A y \in {x} : y.field = x.field => y = x
    BY <1>1
  <2>5. UnpackedPart({x}, b, x.field) = Bits(b, x.at, x.bits) * 2^x.from
    BY ONLY <2>2, <2>4, OnlyPiece
  <2> QED
    BY <2>3, <2>5
<1>4. Share(x, v) = (((v[f] \div 2^from) % 2^8) * 2^0) /\ UnpackedPart({x}, b, f) = ((b \div 2^0) % 2^8) * 2^from
  <2> HIDE DEF x
  <2> QED
    BY <1>1, <1>3, Zenon DEF Share, Bits
<1>5. 2^from \in Nat \ {0}
  <2>1. 2^0 \in Nat \ {0} /\ 2^8 \in Nat \ {0} /\ 2^16 \in Nat \ {0} /\ 2^24 \in Nat \ {0}
    BY SMT
  <2> QED
    BY <2>1, Zenon
<1> DEFINE a == 2^from  c == v[f]
<1>6. ((c \div a) % 2^8) * 2^0 = (c \div a) % 256 /\ (c \div a) % 256 \in 0..255
  <2>1. a \in Nat \ {0} /\ c \in Nat
    BY <1>5
  <2> HIDE DEF a, c
  <2>2. c \div a \in Nat
    BY <2>1
  <2> DEFINE d == c \div a
  <2>3. d \in Nat
    BY <2>2
  <2>4. (d % 2^8) * 2^0 = d % 256 /\ d % 256 \in 0..255
    <3> HIDE DEF d
    <3> QED
      BY <2>3, SMT
  <2> QED
    BY <2>4
<1>7. ((b \div 2^0) % 2^8) = b
  BY SMT DEF Octet
<1> HIDE DEF x
<1>8. PackedByte({x}, v) = (c \div a) % 256 /\ (c \div a) % 256 \in Octet
  <2>1. Share(x, v) = (((c \div a) % 2^8) * 2^0)
    BY <1>4
  <2>2. PackedByte({x}, v) = (c \div a) % 256
    BY <2>1, <1>3, <1>6, Zenon
  <2> QED
    BY <2>2, <1>6, Zenon DEF Octet
<1>9. UnpackedPart({x}, b, f) = b * a
  BY <1>4, <1>7, Zenon
<1> QED
  BY <1>1, <1>2, <1>8, <1>9, Zenon DEF x

(* A field in whole bytes is carried when their spread is the field.       *)
LEMMA Bytewise ==
  ASSUME NEW v, NEW f \in Names, v[f] \in Nat, NEW n \in 1..4, NEW from \in [1..n -> {0, 8, 16, 24}],
         SumOf([i \in 1..n |-> ((v[f] \div 2^from[i]) % 256) * 2^from[i]]) = v[f]
  PROVE  Carried([i \in 1..n |-> {Piece(f, from[i], 8, 0)}], v, {f})
<1> DEFINE L == [i \in 1..n |-> {Piece(f, from[i], 8, 0)}]  p == Pack(L, v)
<1>1. n \in Nat /\ DOMAIN L = 1..n /\ 1 \in 1..n
  OBVIOUS
<1>2. ASSUME NEW i \in 1..n, NEW b \in Octet
      PROVE  /\ L[i] \in SUBSET Pieces /\ IsFiniteSet(L[i])
             /\ PackedByte(L[i], v) = (v[f] \div 2^from[i]) % 256 /\ PackedByte(L[i], v) \in Octet
             /\ UnpackedPart(L[i], b, f) = b * 2^from[i]
  <2>1. from[i] \in {0, 8, 16, 24} /\ L[i] = {Piece(f, from[i], 8, 0)}
    OBVIOUS
  <2> DEFINE k == from[i]
  <2>2. k \in {0, 8, 16, 24}
    BY <2>1
  <2> HIDE DEF L, k
  <2>3. /\ {Piece(f, k, 8, 0)} \in SUBSET Pieces /\ IsFiniteSet({Piece(f, k, 8, 0)})
        /\ PackedByte({Piece(f, k, 8, 0)}, v) = (v[f] \div 2^k) % 256
        /\ PackedByte({Piece(f, k, 8, 0)}, v) \in Octet
        /\ UnpackedPart({Piece(f, k, 8, 0)}, b, f) = b * 2^k
    BY ONLY v[f] \in Nat, f \in Names, <2>2, b \in Octet, ByteCells, Zenon
  <2> QED
    BY <2>1, <2>3, Zenon DEF k
<1>3. 0 \in Octet
  BY DEF Octet
<1>4. Layout(L) /\ Len(L) = n
  <2>1. L \in [1..n -> SUBSET Pieces] /\ \A i \in 1..n : IsFiniteSet(L[i])
    BY <1>2, <1>3
  <2> HIDE DEF L
  <2>2. L \in Seq(SUBSET Pieces) /\ Len(L) = n
    BY ONLY <2>1, <1>1, ListIsSeq
  <2> QED
    BY <1>1, <2>1, <2>2 DEF Layout
<1>5. Fields(L) = {f}
  <2>1. \A i \in 1..n : \A x \in L[i] : x.field = f
    BY DEF Piece
  <2>2. L[1] = {Piece(f, from[1], 8, 0)}
    BY <1>1
  <2>3. \E x \in L[1] : x.field = f
    <3>1. Piece(f, from[1], 8, 0).field = f
      BY DEF Piece
    <3> HIDE DEF L
    <3> QED
      BY <2>2, <3>1
  <2>4. \A g : g \in Fields(L) <=> \E i \in DOMAIN L : \E x \in L[i] : x.field = g
    <3> HIDE DEF L
    <3> QED
      BY <1>4, FieldsAre
  <2> HIDE DEF L
  <2>5. \A g : g \in Fields(L) <=> g = f
    BY <1>1, <2>1, <2>3, <2>4
  <2> QED
    BY <2>5
<1>6. p = [i \in 1..n |-> PackedByte(L[i], v)]
  BY <1>1, Zenon DEF Pack
<1>7. p \in [1..n -> Octet] /\ \A i \in 1..n : p[i] = (v[f] \div 2^from[i]) % 256 /\ p[i] \in Octet
  <2> HIDE DEF L, p
  <2> QED
    BY <1>2, <1>3, <1>6
<1>8. p \in Seq(Octet) /\ Len(p) = n
  <2> HIDE DEF p
  <2> QED
    BY ONLY <1>1, <1>7, ListIsSeq
<1>9. Field(L, p, f) = v[f]
  <2> DEFINE h == [i \in 1..n |-> UnpackedPart(L[i], p[i], f)]
             g == [i \in 1..n |-> ((v[f] \div 2^from[i]) % 256) * 2^from[i]]
  <2>1. \A i \in 1..n : UnpackedPart(L[i], p[i], f) = p[i] * 2^from[i]
    <3> HIDE DEF L, p
    <3> QED
      BY <1>2, <1>7
  <2>2. \A i \in 1..n : UnpackedPart(L[i], p[i], f) = ((v[f] \div 2^from[i]) % 256) * 2^from[i]
    <3> HIDE DEF L, p
    <3> QED
      BY <2>1, <1>7, Zenon
  <2>3. h = g
    <3> HIDE DEF L, p
    <3> QED
      BY <2>2, Zenon
  <2>4. Field(L, p, f) = SumOf(h)
    <3> HIDE DEF L, p
    <3> QED
      BY <1>1, Zenon DEF Field
  <2>5. SumOf(g) = v[f]
    BY Zenon
  <2> HIDE DEF h, g
  <2> QED
    BY <2>3, <2>4, <2>5
<1> HIDE DEF p, L
<1>10. Carried(L, v, {f})
  <2>1. \A e \in {f} : Field(L, Pack(L, v), e) = v[e]
    BY <1>9, Zenon DEF p
  <2> QED
    BY <1>4, <1>5, <1>8, <2>1, Zenon DEF Carried, p
<1> QED
  BY <1>10 DEF L

(* The layouts of one field, in one to four bytes.                         *)
LEMMA ByteCarried ==
  ASSUME NEW v, NEW f \in Names, v[f] \in Octet
  PROVE  Carried(Byte(f), v, {f})
<1> DEFINE from == [i \in 1..1 |-> 0]  h == [i \in 1..1 |-> ((v[f] \div 2^from[i]) % 256) * 2^from[i]]
           L == [i \in 1..1 |-> {Piece(f, from[i], 8, 0)}]
<1>1. v[f] \in Nat /\ ((v[f] \div 2^0) % 256) * 2^0 = v[f]
  <2>1. \A c \in Octet : c \in Nat /\ ((c \div 2^0) % 256) * 2^0 = c
    BY SMT DEF Octet
  <2> QED
    BY <2>1, Zenon
<1>2. from \in [1..1 -> {0, 8, 16, 24}] /\ from[1] = 0 /\ 1 \in 1..4
  BY SMT
<1>3. h \in [1..1 -> Int] /\ h[1] = v[f]
  <2>1. \A i \in 1..1 : i = 1
    BY SMT
  <2> HIDE DEF from
  <2>2. \A i \in 1..1 : ((v[f] \div 2^from[i]) % 256) * 2^from[i] = v[f]
    BY <1>1, <1>2, <2>1, Zenon
  <2>3. h = [i \in 1..1 |-> v[f]]
    BY <2>2, Zenon
  <2>4. v[f] \in Int
    BY OctetIsNat
  <2> DEFINE c == v[f]
  <2> HIDE DEF h, c
  <2>5. \A g : g = [i \in 1..1 |-> c] => (c \in Int => g \in [1..1 -> Int] /\ g[1] = c)
    OBVIOUS
  <2> QED
    BY <2>3, <2>4, <2>5 DEF c
<1>4. SumOf(h) = v[f]
  <2> HIDE DEF h
  <2> QED
    BY <1>3, SumsTo4
<1>5. Carried(L, v, {f})
  <2>1. v[f] \in Nat
    BY <1>1
  <2> HIDE DEF from
  <2> QED
    BY <2>1, <1>2, <1>4, Bytewise, Zenon
<1>6. Byte(f) = L
  <2>1. \A i \in 1..1 : from[i] = 0
    OBVIOUS
  <2>2. L = [i \in 1..1 |-> {Piece(f, 0, 8, 0)}]
    <3> HIDE DEF from
    <3> QED
      BY <2>1, Zenon
  <2> HIDE DEF L
  <2>3. << {Piece(f, 0, 8, 0)} >> = [i \in 1..1 |-> {Piece(f, 0, 8, 0)}]
    BY DEF Piece
  <2> QED
    BY <2>2, <2>3 DEF Byte
<1> HIDE DEF L
<1> QED
  BY <1>5, <1>6

(* A word is a number.                                                     *)
LEMMA WordIsNat == \A n \in Word : n \in Nat /\ n \in Int
BY DEF Word

(* Two bytes of a word make it again.                                      *)
LEMMA Words == \A c \in Word : ((c \div 2^0) % 256) * 2^0 + ((c \div 2^8) % 256) * 2^8 = c
<1>1. \A c \in Nat : c < 65536 => ((c \div 2^0) % 256) * 2^0 + ((c \div 2^8) % 256) * 2^8 = c
  BY SMT
<1>2. \A n \in Word : n \in Nat /\ n < 65536
  BY DEF Word
<1> QED
  BY <1>1, <1>2

(* Three bytes make it again.                                              *)
LEMMA Triples ==
  \A c \in Nat : c \div 2^16 < 256 =>
     ((c \div 2^0) % 256) * 2^0 + ((c \div 2^8) % 256) * 2^8 + ((c \div 2^16) % 256) * 2^16 = c
BY SMT

(* Four bytes make it again.                                               *)
LEMMA Quads ==
  \A c \in Quad : c \in Nat /\
     ((c \div 2^0) % 256) * 2^0 + ((c \div 2^8) % 256) * 2^8
       + ((c \div 2^16) % 256) * 2^16 + ((c \div 2^24) % 256) * 2^24 = c
BY SMT DEF Quad

(* The value of the byte of c from the bit k on.                           *)
Spread(c, k) == ((c \div 2^k) % 256) * 2^k

(* A byte in its place is an integer.                                      *)
LEMMA SpreadIsInt == \A c \in Nat, k \in {0, 8, 16, 24} : Spread(c, k) \in Int
<1>1. 2^0 \in Nat \ {0} /\ 2^8 \in Nat \ {0} /\ 2^16 \in Nat \ {0} /\ 2^24 \in Nat \ {0}
  BY SMT
<1>2. \A k \in {0, 8, 16, 24} : 2^k \in Nat \ {0}
  BY <1>1, Zenon
<1>3. \A c \in Nat, d \in Nat \ {0} : ((c \div d) % 256) * d \in Int
  <2>1. \A c \in Nat, d \in Nat \ {0} : c \div d \in Nat
    OBVIOUS
  <2>2. \A c \in Nat : c % 256 \in Nat
    OBVIOUS
  <2> QED
    BY <2>1, <2>2
<1> QED
  BY <1>2, <1>3, Zenon DEF Spread

(* The same for a spread that is given by its sum.                         *)
LEMMA SpreadCarried ==
  ASSUME NEW v, NEW f \in Names, NEW c \in Nat, v[f] = c, NEW n \in 1..4,
         NEW from \in [1..n -> {0, 8, 16, 24}],
         NEW h, h = [i \in 1..n |-> Spread(c, from[i])], SumOf(h) = c,
         NEW L, L = [i \in 1..n |-> {Piece(f, from[i], 8, 0)}]
  PROVE  Carried(L, v, {f})
<1>1. SumOf([i \in 1..n |-> ((v[f] \div 2^from[i]) % 256) * 2^from[i]]) = v[f]
  BY Zenon DEF Spread
<1>2. Carried([i \in 1..n |-> {Piece(f, from[i], 8, 0)}], v, {f})
  BY <1>1, Bytewise, Zenon
<1> QED
  BY <1>2

(* The spread of a number is a list of integers.                           *)
LEMMA SpreadSums ==
  ASSUME NEW c \in Nat, NEW n \in 1..4, NEW from \in [1..n -> {0, 8, 16, 24}]
  PROVE  [i \in 1..n |-> Spread(c, from[i])] \in [1..n -> Int]
<1>1. \A i \in 1..n : from[i] \in {0, 8, 16, 24}
  OBVIOUS
<1>2. \A i \in 1..n : Spread(c, from[i]) \in Int
  BY <1>1, SpreadIsInt, Zenon
<1> QED
  BY <1>2

(* Two bytes, the lowest first.                                            *)
LEMMA Le2Carried ==
  ASSUME NEW v, NEW f \in Names, v[f] \in Word
  PROVE  Carried(Le(f, 2), v, {f})
<1> DEFINE c == v[f]
           from == [i \in 1..2 |-> 8 * (i - 1)]  h == [i \in 1..2 |-> Spread(c, from[i])]
           L == [i \in 1..2 |-> {Piece(f, from[i], 8, 0)}]
<1>1. c \in Nat /\ Spread(c, 0) + Spread(c, 8) = c
  <2>1. c \in Nat
    BY WordIsNat
  <2>2. Spread(c, 0) + Spread(c, 8) = c
    BY Words, Zenon DEF Spread
  <2> QED
    BY <2>1, <2>2
<1>2. 2 \in 1..4 /\ from \in [1..2 -> {0, 8, 16, 24}] /\ from[1] = 0 /\ from[2] = 8
  BY SMT
<1>3. h \in [1..2 -> Int] /\ h[1] = Spread(c, 0) /\ h[2] = Spread(c, 8)
  <2>1. h \in [1..2 -> Int]
    <3>1. c \in Nat
      BY <1>1
    <3> HIDE DEF from, c
    <3> QED
      BY <3>1, <1>2, SpreadSums, Zenon
  <2>2. 1 \in 1..2 /\ 2 \in 1..2
    BY SMT
  <2> HIDE DEF from, c
  <2> QED
    BY <2>1, <2>2, <1>2, Zenon
<1>4. SumOf(h) = c
  <2>1. Spread(c, 0) \in Int /\ Spread(c, 8) \in Int
    BY <1>1, SpreadIsInt, Zenon
  <2> HIDE DEF h, from, c
  <2>2. SumOf(h) = h[1] + h[2]
    BY <1>3, SumsTo4
  <2> QED
    BY <1>1, <1>3, <2>1, <2>2, SMT
<1>5. Carried(L, v, {f})
  <2>1. c \in Nat
    BY <1>1
  <2>2. v[f] = c
    OBVIOUS
  <2>3. 2 \in 1..4
    BY <1>2
  <2>4. from \in [1..2 -> {0, 8, 16, 24}]
    BY <1>2
  <2>5. SumOf(h) = c
    BY <1>4
  <2>6. h = [i \in 1..2 |-> Spread(c, from[i])]
    OBVIOUS
  <2>7. L = [i \in 1..2 |-> {Piece(f, from[i], 8, 0)}]
    OBVIOUS
  <2> HIDE DEF from, c, h, L
  <2> QED
    BY <2>1, <2>2, <2>3, <2>4, <2>5, <2>6, <2>7, SpreadCarried, Zenon
<1>6. Le(f, 2) = L
  <2>1. \A i \in 1..2 : from[i] = 8 * (i - 1)
    OBVIOUS
  <2>2. L = [i \in 1..2 |-> {Piece(f, 8 * (i - 1), 8, 0)}]
    <3> HIDE DEF from
    <3> QED
      BY <2>1, Zenon
  <2> HIDE DEF L
  <2> QED
    BY <2>2, Zenon DEF Le
<1> HIDE DEF L
<1> QED
  BY <1>5, <1>6

(* Two bytes, the highest first.                                           *)
LEMMA Be2Carried ==
  ASSUME NEW v, NEW f \in Names, v[f] \in Word
  PROVE  Carried(Be(f, 2), v, {f})
<1> DEFINE c == v[f]
           from == [i \in 1..2 |-> 8 * (2 - i)]  h == [i \in 1..2 |-> Spread(c, from[i])]
           L == [i \in 1..2 |-> {Piece(f, from[i], 8, 0)}]
<1>1. c \in Nat /\ Spread(c, 0) + Spread(c, 8) = c
  <2>1. c \in Nat
    BY WordIsNat
  <2>2. Spread(c, 0) + Spread(c, 8) = c
    BY Words, Zenon DEF Spread
  <2> QED
    BY <2>1, <2>2
<1>2. 2 \in 1..4 /\ from \in [1..2 -> {0, 8, 16, 24}] /\ from[1] = 8 /\ from[2] = 0
  BY SMT
<1>3. h \in [1..2 -> Int] /\ h[1] = Spread(c, 8) /\ h[2] = Spread(c, 0)
  <2>1. h \in [1..2 -> Int]
    <3>1. c \in Nat
      BY <1>1
    <3> HIDE DEF from, c
    <3> QED
      BY <3>1, <1>2, SpreadSums, Zenon
  <2>2. 1 \in 1..2 /\ 2 \in 1..2
    BY SMT
  <2> HIDE DEF from, c
  <2> QED
    BY <2>1, <2>2, <1>2, Zenon
<1>4. SumOf(h) = c
  <2>1. Spread(c, 0) \in Int /\ Spread(c, 8) \in Int
    BY <1>1, SpreadIsInt, Zenon
  <2> HIDE DEF h, from, c
  <2>2. SumOf(h) = h[1] + h[2]
    BY <1>3, SumsTo4
  <2> QED
    BY <1>1, <1>3, <2>1, <2>2, SMT
<1>5. Carried(L, v, {f})
  <2>1. c \in Nat
    BY <1>1
  <2>2. v[f] = c
    OBVIOUS
  <2>3. 2 \in 1..4
    BY <1>2
  <2>4. from \in [1..2 -> {0, 8, 16, 24}]
    BY <1>2
  <2>5. SumOf(h) = c
    BY <1>4
  <2>6. h = [i \in 1..2 |-> Spread(c, from[i])]
    OBVIOUS
  <2>7. L = [i \in 1..2 |-> {Piece(f, from[i], 8, 0)}]
    OBVIOUS
  <2> HIDE DEF from, c, h, L
  <2> QED
    BY <2>1, <2>2, <2>3, <2>4, <2>5, <2>6, <2>7, SpreadCarried, Zenon
<1>6. Be(f, 2) = L
  <2>1. \A i \in 1..2 : from[i] = 8 * (2 - i)
    OBVIOUS
  <2>2. L = [i \in 1..2 |-> {Piece(f, 8 * (2 - i), 8, 0)}]
    <3> HIDE DEF from
    <3> QED
      BY <2>1, Zenon
  <2> HIDE DEF L
  <2> QED
    BY <2>2, Zenon DEF Be
<1> HIDE DEF L
<1> QED
  BY <1>5, <1>6

(* Three bytes, the lowest first.                                          *)
LEMMA Le3Carried ==
  ASSUME NEW v, NEW f \in Names, v[f] \in Nat, v[f] \div 2^16 < 256
  PROVE  Carried(Le(f, 3), v, {f})
<1> DEFINE c == v[f]
           from == [i \in 1..3 |-> 8 * (i - 1)]  h == [i \in 1..3 |-> Spread(c, from[i])]
           L == [i \in 1..3 |-> {Piece(f, from[i], 8, 0)}]
<1>1. c \in Nat /\ Spread(c, 0) + Spread(c, 8) + Spread(c, 16) = c
  BY Triples, Zenon DEF Spread
<1>2. 3 \in 1..4 /\ from \in [1..3 -> {0, 8, 16, 24}] /\ from[1] = 0 /\ from[2] = 8 /\ from[3] = 16
  BY SMT
<1>3. h \in [1..3 -> Int] /\ h[1] = Spread(c, 0) /\ h[2] = Spread(c, 8) /\ h[3] = Spread(c, 16)
  <2>1. h \in [1..3 -> Int]
    <3>1. c \in Nat
      BY <1>1
    <3> HIDE DEF from, c
    <3> QED
      BY <3>1, <1>2, SpreadSums, Zenon
  <2>2. 1 \in 1..3 /\ 2 \in 1..3 /\ 3 \in 1..3
    BY SMT
  <2> HIDE DEF from, c
  <2> QED
    BY <2>1, <2>2, <1>2, Zenon
<1>4. SumOf(h) = c
  <2>1. Spread(c, 0) \in Int /\ Spread(c, 8) \in Int /\ Spread(c, 16) \in Int
    BY <1>1, SpreadIsInt, Zenon
  <2> HIDE DEF h, from, c
  <2>2. SumOf(h) = h[1] + h[2] + h[3]
    BY <1>3, SumsTo4
  <2> QED
    BY <1>1, <1>3, <2>1, <2>2, SMT
<1>5. Carried(L, v, {f})
  <2>1. c \in Nat
    BY <1>1
  <2>2. v[f] = c
    OBVIOUS
  <2>3. 3 \in 1..4
    BY <1>2
  <2>4. from \in [1..3 -> {0, 8, 16, 24}]
    BY <1>2
  <2>5. SumOf(h) = c
    BY <1>4
  <2>6. h = [i \in 1..3 |-> Spread(c, from[i])]
    OBVIOUS
  <2>7. L = [i \in 1..3 |-> {Piece(f, from[i], 8, 0)}]
    OBVIOUS
  <2> HIDE DEF from, c, h, L
  <2> QED
    BY <2>1, <2>2, <2>3, <2>4, <2>5, <2>6, <2>7, SpreadCarried, Zenon
<1>6. Le(f, 3) = L
  <2>1. \A i \in 1..3 : from[i] = 8 * (i - 1)
    OBVIOUS
  <2>2. L = [i \in 1..3 |-> {Piece(f, 8 * (i - 1), 8, 0)}]
    <3> HIDE DEF from
    <3> QED
      BY <2>1, Zenon
  <2> HIDE DEF L
  <2> QED
    BY <2>2, Zenon DEF Le
<1> HIDE DEF L
<1> QED
  BY <1>5, <1>6

(* Four bytes, the lowest first.                                           *)
LEMMA Le4Carried ==
  ASSUME NEW v, NEW f \in Names, v[f] \in Quad
  PROVE  Carried(Le(f, 4), v, {f})
<1> DEFINE c == v[f]
           from == [i \in 1..4 |-> 8 * (i - 1)]  h == [i \in 1..4 |-> Spread(c, from[i])]
           L == [i \in 1..4 |-> {Piece(f, from[i], 8, 0)}]
<1>1. c \in Nat /\ Spread(c, 0) + Spread(c, 8) + Spread(c, 16) + Spread(c, 24) = c
  BY Quads, Zenon DEF Spread
<1>2. 4 \in 1..4 /\ from \in [1..4 -> {0, 8, 16, 24}] /\ from[1] = 0 /\ from[2] = 8 /\ from[3] = 16 /\ from[4] = 24
  BY SMT
<1>3. h \in [1..4 -> Int] /\ h[1] = Spread(c, 0) /\ h[2] = Spread(c, 8) /\ h[3] = Spread(c, 16) /\ h[4] = Spread(c, 24)
  <2>1. h \in [1..4 -> Int]
    <3>1. c \in Nat
      BY <1>1
    <3> HIDE DEF from, c
    <3> QED
      BY <3>1, <1>2, SpreadSums, Zenon
  <2>2. 1 \in 1..4 /\ 2 \in 1..4 /\ 3 \in 1..4 /\ 4 \in 1..4
    BY SMT
  <2> HIDE DEF from, c
  <2> QED
    BY <2>1, <2>2, <1>2, Zenon
<1>4. SumOf(h) = c
  <2>1. Spread(c, 0) \in Int /\ Spread(c, 8) \in Int /\ Spread(c, 16) \in Int /\ Spread(c, 24) \in Int
    BY <1>1, SpreadIsInt, Zenon
  <2> HIDE DEF h, from, c
  <2>2. SumOf(h) = h[1] + h[2] + h[3] + h[4]
    BY <1>3, SumsTo4
  <2> QED
    BY <1>1, <1>3, <2>1, <2>2, SMT
<1>5. Carried(L, v, {f})
  <2>1. c \in Nat
    BY <1>1
  <2>2. v[f] = c
    OBVIOUS
  <2>3. 4 \in 1..4
    BY <1>2
  <2>4. from \in [1..4 -> {0, 8, 16, 24}]
    BY <1>2
  <2>5. SumOf(h) = c
    BY <1>4
  <2>6. h = [i \in 1..4 |-> Spread(c, from[i])]
    OBVIOUS
  <2>7. L = [i \in 1..4 |-> {Piece(f, from[i], 8, 0)}]
    OBVIOUS
  <2> HIDE DEF from, c, h, L
  <2> QED
    BY <2>1, <2>2, <2>3, <2>4, <2>5, <2>6, <2>7, SpreadCarried, Zenon
<1>6. Le(f, 4) = L
  <2>1. \A i \in 1..4 : from[i] = 8 * (i - 1)
    OBVIOUS
  <2>2. L = [i \in 1..4 |-> {Piece(f, 8 * (i - 1), 8, 0)}]
    <3> HIDE DEF from
    <3> QED
      BY <2>1, Zenon
  <2> HIDE DEF L
  <2> QED
    BY <2>2, Zenon DEF Le
<1> HIDE DEF L
<1> QED
  BY <1>5, <1>6

(* Four bytes, the highest first.                                          *)
LEMMA Be4Carried ==
  ASSUME NEW v, NEW f \in Names, v[f] \in Quad
  PROVE  Carried(Be(f, 4), v, {f})
<1> DEFINE c == v[f]
           from == [i \in 1..4 |-> 8 * (4 - i)]  h == [i \in 1..4 |-> Spread(c, from[i])]
           L == [i \in 1..4 |-> {Piece(f, from[i], 8, 0)}]
<1>1. c \in Nat /\ Spread(c, 0) + Spread(c, 8) + Spread(c, 16) + Spread(c, 24) = c
  BY Quads, Zenon DEF Spread
<1>2. 4 \in 1..4 /\ from \in [1..4 -> {0, 8, 16, 24}] /\ from[1] = 24 /\ from[2] = 16 /\ from[3] = 8 /\ from[4] = 0
  BY SMT
<1>3. h \in [1..4 -> Int] /\ h[1] = Spread(c, 24) /\ h[2] = Spread(c, 16) /\ h[3] = Spread(c, 8) /\ h[4] = Spread(c, 0)
  <2>1. h \in [1..4 -> Int]
    <3>1. c \in Nat
      BY <1>1
    <3> HIDE DEF from, c
    <3> QED
      BY <3>1, <1>2, SpreadSums, Zenon
  <2>2. 1 \in 1..4 /\ 2 \in 1..4 /\ 3 \in 1..4 /\ 4 \in 1..4
    BY SMT
  <2> HIDE DEF from, c
  <2> QED
    BY <2>1, <2>2, <1>2, Zenon
<1>4. SumOf(h) = c
  <2>1. Spread(c, 0) \in Int /\ Spread(c, 8) \in Int /\ Spread(c, 16) \in Int /\ Spread(c, 24) \in Int
    BY <1>1, SpreadIsInt, Zenon
  <2> HIDE DEF h, from, c
  <2>2. SumOf(h) = h[1] + h[2] + h[3] + h[4]
    BY <1>3, SumsTo4
  <2> QED
    BY <1>1, <1>3, <2>1, <2>2, SMT
<1>5. Carried(L, v, {f})
  <2>1. c \in Nat
    BY <1>1
  <2>2. v[f] = c
    OBVIOUS
  <2>3. 4 \in 1..4
    BY <1>2
  <2>4. from \in [1..4 -> {0, 8, 16, 24}]
    BY <1>2
  <2>5. SumOf(h) = c
    BY <1>4
  <2>6. h = [i \in 1..4 |-> Spread(c, from[i])]
    OBVIOUS
  <2>7. L = [i \in 1..4 |-> {Piece(f, from[i], 8, 0)}]
    OBVIOUS
  <2> HIDE DEF from, c, h, L
  <2> QED
    BY <2>1, <2>2, <2>3, <2>4, <2>5, <2>6, <2>7, SpreadCarried, Zenon
<1>6. Be(f, 4) = L
  <2>1. \A i \in 1..4 : from[i] = 8 * (4 - i)
    OBVIOUS
  <2>2. L = [i \in 1..4 |-> {Piece(f, 8 * (4 - i), 8, 0)}]
    <3> HIDE DEF from
    <3> QED
      BY <2>1, Zenon
  <2> HIDE DEF L
  <2> QED
    BY <2>2, Zenon DEF Be
<1> HIDE DEF L
<1> QED
  BY <1>5, <1>6

(* A layout of one byte.                                                   *)
LEMMA OneCell ==
  ASSUME NEW cell \in SUBSET Pieces, IsFiniteSet(cell), NEW v, NEW f, NEW b \in Int
  PROVE  /\ Layout(<<cell>>) /\ Len(<<cell>>) = 1
         /\ Fields(<<cell>>) = {x.field : x \in cell}
         /\ Pack(<<cell>>, v) = <<PackedByte(cell, v)>>
         /\ Field(<<cell>>, <<b>>, f) = UnpackedPart(cell, b, f)
<1> DEFINE L == <<cell>>
<1>1. L \in Seq(SUBSET Pieces) /\ Len(L) = 1 /\ DOMAIN L = 1..1 /\ L[1] = cell
  OBVIOUS
<1>2. \A i \in 1..1 : i = 1
  OBVIOUS
<1> HIDE DEF L
<1>3. Layout(L)
  BY <1>1, <1>2 DEF Layout
<1>4. Fields(L) = {x.field : x \in cell}
  <2>1. \A g : g \in Fields(L) <=> \E i \in DOMAIN L : \E x \in L[i] : x.field = g
    BY <1>3, FieldsAre
  <2>2. \A g : g \in Fields(L) <=> \E x \in cell : x.field = g
    BY <1>1, <1>2, <2>1
  <2> QED
    BY <2>2
<1>5. Pack(L, v) = <<PackedByte(cell, v)>>
  <2>1. Pack(L, v) = [i \in 1..1 |-> PackedByte(L[i], v)]
    BY <1>1, Zenon DEF Pack
  <2>2. [i \in 1..1 |-> PackedByte(L[i], v)] = [i \in 1..1 |-> PackedByte(cell, v)]
    BY <1>1, <1>2, Zenon
  <2> DEFINE c == PackedByte(cell, v)
  <2>3. [i \in 1..1 |-> c] = <<c>>
    <3> HIDE DEF c
    <3> QED
      OBVIOUS
  <2> QED
    BY <2>1, <2>2, <2>3
<1>6. Field(L, <<b>>, f) = UnpackedPart(cell, b, f)
  <2> DEFINE p == <<b>>  h == [i \in 1..1 |-> UnpackedPart(L[i], p[i], f)]
  <2>1. Field(L, p, f) = SumOf(h)
    <3> HIDE DEF p
    <3> QED
      BY <1>1, Zenon DEF Field
  <2>2. p[1] = b
    OBVIOUS
  <2>3. UnpackedPart(cell, b, f) \in Int
    BY PartIsInt
  <2>4. h \in [1..1 -> Int] /\ h[1] = UnpackedPart(cell, b, f)
    <3> HIDE DEF p
    <3>1. 1 \in 1..1
      OBVIOUS
    <3>2. \A i \in 1..1 : UnpackedPart(L[i], p[i], f) \in Int
      BY <1>1, <1>2, <2>2, <2>3, Zenon
    <3>3. h \in [1..1 -> Int]
      BY <3>2, Zenon
    <3>4. h[1] = UnpackedPart(L[1], p[1], f)
      BY <3>1, Zenon
    <3> QED
      BY <1>1, <2>2, <3>3, <3>4, Zenon
  <2> HIDE DEF h
  <2>5. SumOf(h) = h[1]
    BY <2>4, SumsTo4
  <2> QED
    BY <2>1, <2>4, <2>5
<1> QED
  BY <1>1, <1>3, <1>4, <1>5, <1>6 DEF L

(* A byte carries its fields when it says each of them.                    *)
LEMMA CellCarried ==
  ASSUME NEW cell \in SUBSET Pieces, IsFiniteSet(cell), NEW v, PackedByte(cell, v) \in Octet,
         \A x \in cell : UnpackedPart(cell, PackedByte(cell, v), x.field) = v[x.field]
  PROVE  Carried(<<cell>>, v, {x.field : x \in cell})
<1> DEFINE b == PackedByte(cell, v)  L == <<cell>>  F == {x.field : x \in cell}
<1>1. b \in Int
  BY OctetIsNat
<1>2. /\ Layout(L) /\ Len(L) = 1 /\ Fields(L) = F /\ Pack(L, v) = <<b>>
      /\ \A f : Field(L, <<b>>, f) = UnpackedPart(cell, b, f)
  BY <1>1, OneCell
<1>3. <<b>> \in Seq(Octet) /\ Len(<<b>>) = 1
  <2>1. b \in Octet
    OBVIOUS
  <2> HIDE DEF b
  <2> QED
    BY <2>1
<1>4. \A f \in F : UnpackedPart(cell, b, f) = v[f]
  <2> HIDE DEF b
  <2> QED
    BY DEF b
<1> HIDE DEF b, L, F
<1>5. Carried(L, v, F)
  <2>1. \A f \in F : Field(L, Pack(L, v), f) = v[f]
    BY <1>2, <1>4, Zenon
  <2> QED
    BY <1>2, <1>3, <2>1 DEF Carried
<1> QED
  BY <1>5 DEF L, F

(* Bytes that nothing is stored to carry nothing, and no harm.             *)
LEMMA SkipCarried ==
  ASSUME NEW n \in Nat, NEW v
  PROVE  Carried(Skip(n), v, {})
<1> DEFINE L == Skip(n)  p == Pack(L, v)
<1>1. L = [i \in 1..n |-> {}] /\ L \in [1..n -> SUBSET Pieces] /\ DOMAIN L = 1..n /\ \A i \in 1..n : L[i] = {}
  BY DEF Skip
<1>2. IsFiniteSet({})
  BY FS_EmptySet
<1> HIDE DEF L
<1>3. L \in Seq(SUBSET Pieces) /\ Len(L) = n
  BY <1>1, ListIsSeq
<1>4. Layout(L)
  BY <1>1, <1>2, <1>3 DEF Layout
<1>5. Fields(L) = {}
  <2>1. \A g : g \in Fields(L) <=> \E i \in DOMAIN L : \E x \in L[i] : x.field = g
    BY <1>4, FieldsAre
  <2> QED
    BY <1>1, <2>1
<1>6. PackedByte({}, v) = 0
  <2> DEFINE h == [x \in {} |-> Share(x, v)]
  <2>1. PackedByte({}, v) = SumOf(h)
    BY TotalIsSum, Zenon DEF PackedByte, Share
  <2>2. h \in [{} -> Int]
    OBVIOUS
  <2> HIDE DEF h
  <2> QED
    BY <2>1, <2>2, SumOfNone
<1>7. p = [i \in 1..n |-> PackedByte(L[i], v)]
  BY <1>1, Zenon DEF Pack
<1>8. p \in [1..n -> Octet]
  <2>1. \A i \in 1..n : PackedByte(L[i], v) = 0
    BY <1>1, <1>6
  <2>2. 0 \in Octet
    BY DEF Octet
  <2> HIDE DEF p
  <2> QED
    BY <1>7, <2>1, <2>2
<1>9. p \in Seq(Octet) /\ Len(p) = n
  <2> HIDE DEF p
  <2> QED
    BY <1>8, ListIsSeq
<1> QED
  BY <1>3, <1>4, <1>5, <1>9 DEF Carried, L

(* Two bits of type above six of the packets expected.                     *)
LEMMA HeaderBits ==
  ASSUME NEW c \in Nat, c < 4, NEW d \in Nat, d < 64, NEW b \in Int,
         b = ((c \div 2^0) % 2^2) * 2^6 + ((d \div 2^0) % 2^6) * 2^0
  PROVE  b \in 0..255 /\ ((b \div 2^6) % 2^2) * 2^0 = c /\ ((b \div 2^0) % 2^6) * 2^0 = d
BY SMT

(* The three parts of the modulation in a byte.                            *)
LEMMA LinkBits ==
  ASSUME NEW c \in Nat, c < 8, NEW d \in Nat, d < 4, NEW e \in Nat, e < 4, NEW b \in Int,
         b = ((c \div 2^0) % 2^3) * 2^0 + ((d \div 2^0) % 2^2) * 2^3 + ((e \div 2^0) % 2^2) * 2^5
  PROVE  /\ b \in 0..255 /\ ((b \div 2^0) % 2^3) * 2^0 = c
         /\ ((b \div 2^3) % 2^2) * 2^0 = d /\ ((b \div 2^5) % 2^2) * 2^0 = e
BY SMT

(* Thirteen bits of width and three of quality in two bytes.               *)
LEMMA PhotoBits ==
  ASSUME NEW c \in Nat, c < 8192, NEW d \in Nat, d < 8, NEW a \in Int, NEW b \in Int,
         a = ((c \div 2^0) % 2^8) * 2^0,
         b = ((c \div 2^8) % 2^5) * 2^0 + ((d \div 2^0) % 2^3) * 2^5
  PROVE  /\ a \in 0..255 /\ b \in 0..255
         /\ ((a \div 2^0) % 2^8) * 2^0 + ((b \div 2^0) % 2^5) * 2^8 = c
         /\ ((b \div 2^5) % 2^3) * 2^0 = d
<1>1. a = c % 256 /\ a \in 0..255
  BY SMT
<1> DEFINE q == c \div 256
<1>2. q \in Nat /\ q < 32 /\ c = 256 * q + a
  BY <1>1, SMT
<1>3. b = (q % 32) + d * 32
  BY <1>1, SMT
<1> HIDE DEF q
<1>4. b = q + d * 32 /\ b \in 0..255 /\ b % 32 = q
  BY <1>2, <1>3, SMT
<1>5. ((a \div 2^0) % 2^8) * 2^0 = a /\ ((b \div 2^0) % 2^5) * 2^8 = (b % 32) * 256
  BY <1>1, <1>4, SMT
<1>6. ((b \div 2^5) % 2^3) * 2^0 = d
  BY <1>2, <1>4, SMT
<1> QED
  BY <1>1, <1>2, <1>4, <1>5, <1>6, SMT

(* What a piece is.                                                        *)
LEMMA PieceIs ==
  ASSUME NEW f \in Names, NEW from \in Shifts, NEW bits \in Shifts, NEW at \in Shifts
  PROVE  /\ Piece(f, from, bits, at) \in Pieces /\ Piece(f, from, bits, at).field = f
         /\ Piece(f, from, bits, at).from = from /\ Piece(f, from, bits, at).bits = bits
         /\ Piece(f, from, bits, at).at = at
BY DEF Piece, Pieces

(* A byte of pieces of different fields: the sum of what it packs, and     *)
(* each piece alone in what is read of its field.                          *)
Parted(cell, v, sum) ==
  /\ cell \in SUBSET Pieces /\ IsFiniteSet(cell)
  /\ PackedByte(cell, v) \in Int /\ PackedByte(cell, v) = sum
  /\ \A b \in Int : \A p \in cell : UnpackedPart(cell, b, p.field) = Bits(b, p.at, p.bits) * 2^p.from

(* A byte of two pieces.                                                   *)
LEMMA CellOfTwo ==
  ASSUME NEW v, NEW x \in Pieces, v[x.field] \in Int, NEW y \in Pieces, v[y.field] \in Int,
         x.field # y.field, NEW cell, cell = {x, y}
  PROVE  Parted(cell, v, Share(x, v) + Share(y, v))
<1>1. x # y
  OBVIOUS
<1>2. cell \in SUBSET Pieces
  OBVIOUS
<1>3. IsFiniteSet(cell)
  <2>1. IsFiniteSet({y}) /\ cell = {y} \cup {x}
    BY FS_Singleton
  <2> QED
    BY <2>1, FS_AddElement
<1>4. PackedByte(cell, v) = Share(x, v) + Share(y, v)
  BY <1>1, PiecesPacked
<1>5. \A p \in cell : v[p.field] \in Int
  OBVIOUS
<1>6. PackedByte(cell, v) \in Int
  BY <1>2, <1>3, <1>5, PackedIsInt
<1>7. \A p \in cell : \A q \in cell : q.field = p.field => q = p
  OBVIOUS
<1>8. \A b \in Int : \A p \in cell : UnpackedPart(cell, b, p.field) = Bits(b, p.at, p.bits) * 2^p.from
  BY <1>2, <1>7, OnlyPiece
<1> QED
  BY <1>2, <1>3, <1>4, <1>6, <1>8, Zenon DEF Parted

(* A byte of three pieces.                                                 *)
LEMMA CellOfThree ==
  ASSUME NEW v, NEW x \in Pieces, v[x.field] \in Int, NEW y \in Pieces, v[y.field] \in Int, NEW z \in Pieces, v[z.field] \in Int,
         x.field # y.field, x.field # z.field, y.field # z.field, NEW cell, cell = {x, y, z}
  PROVE  Parted(cell, v, Share(x, v) + Share(y, v) + Share(z, v))
<1>1. x # y /\ x # z /\ y # z
  OBVIOUS
<1>2. cell \in SUBSET Pieces
  OBVIOUS
<1>3. IsFiniteSet(cell)
  <2>1. IsFiniteSet({z})
    BY FS_Singleton
  <2>2. IsFiniteSet({z} \cup {y})
    BY <2>1, FS_AddElement
  <2>3. cell = ({z} \cup {y}) \cup {x}
    OBVIOUS
  <2> QED
    BY <2>2, <2>3, FS_AddElement
<1>4. PackedByte(cell, v) = Share(x, v) + Share(y, v) + Share(z, v)
  BY <1>1, PiecesPacked
<1>5. \A p \in cell : v[p.field] \in Int
  OBVIOUS
<1>6. PackedByte(cell, v) \in Int
  BY <1>2, <1>3, <1>5, PackedIsInt
<1>7. \A p \in cell : \A q \in cell : q.field = p.field => q = p
  OBVIOUS
<1>8. \A b \in Int : \A p \in cell : UnpackedPart(cell, b, p.field) = Bits(b, p.at, p.bits) * 2^p.from
  BY <1>2, <1>7, OnlyPiece
<1> QED
  BY <1>2, <1>3, <1>4, <1>6, <1>8, Zenon DEF Parted

(* The header of a packet is carried.                                      *)
LEMMA HeaderCarried ==
  ASSUME NEW v, v["packet_type"] \in 0..3, v["expected"] \in 0..63
  PROVE  Carried(Header, v, {"packet_type", "expected"})
<1> DEFINE f == "packet_type"  g == "expected"  x == Piece(f, 0, 2, 6)  y == Piece(g, 0, 6, 0)
           cell == {x, y}  c == v[f]  d == v[g]  b == PackedByte(cell, v)
<1>1. /\ x \in Pieces /\ x.field = f /\ x.from = 0 /\ x.bits = 2 /\ x.at = 6
      /\ y \in Pieces /\ y.field = g /\ y.from = 0 /\ y.bits = 6 /\ y.at = 0
  <2>1. f \in Names /\ g \in Names
    BY DEF Names
  <2> HIDE DEF f, g
  <2> QED
    BY <2>1 DEF Piece, Pieces, Shifts
<1>2. c \in Nat /\ c < 4 /\ d \in Nat /\ d < 64 /\ c \in Int /\ d \in Int /\ f # g
  OBVIOUS
<1>3. Header = <<cell>>
  BY DEF Header
<1> HIDE DEF f, g, x, y
<1>4. /\ cell \in SUBSET Pieces /\ IsFiniteSet(cell)
      /\ b \in Int /\ b = Share(x, v) + Share(y, v)
      /\ \A k \in Int : \A p \in cell : UnpackedPart(cell, k, p.field) = Bits(k, p.at, p.bits) * 2^p.from
  <2>1. x.field # y.field /\ v[x.field] \in Int /\ v[y.field] \in Int
    BY <1>1, <1>2
  <2>2. cell = {x, y}
    OBVIOUS
  <2> HIDE DEF cell
  <2>3. Parted(cell, v, Share(x, v) + Share(y, v))
    BY ONLY <1>1, <2>1, <2>2, CellOfTwo, Zenon
  <2> QED
    BY <2>3, Zenon DEF Parted
<1>5. b \in 0..255 /\ ((b \div 2^6) % 2^2) * 2^0 = c /\ ((b \div 2^0) % 2^6) * 2^0 = d
  <2> HIDE DEF b
  <2>1. b = ((c \div 2^0) % 2^2) * 2^6 + ((d \div 2^0) % 2^6) * 2^0
    BY <1>1, <1>4, Zenon DEF Share, Bits
  <2> HIDE DEF c, d
  <2> QED
    BY ONLY <1>2, <1>4, <2>1, HeaderBits
<1>6. \A p \in cell : UnpackedPart(cell, b, p.field) = v[p.field]
  <2>1. x \in cell /\ y \in cell /\ \A p \in cell : p = x \/ p = y
    OBVIOUS
  <2> HIDE DEF b, cell
  <2>2. UnpackedPart(cell, b, x.field) = c
    BY <1>1, <1>4, <1>5, <2>1, Zenon DEF Bits
  <2>3. UnpackedPart(cell, b, y.field) = d
    BY <1>1, <1>4, <1>5, <2>1, Zenon DEF Bits
  <2> QED
    BY <1>1, <2>1, <2>2, <2>3, Zenon
<1>7. {p.field : p \in cell} = {f, g}
  BY <1>1
<1>8. b \in Octet
  <2> HIDE DEF b
  <2> QED
    BY <1>5 DEF Octet
<1> HIDE DEF cell
<1>9. Carried(<<cell>>, v, {p.field : p \in cell})
  BY <1>4, <1>6, <1>8, CellCarried DEF b
<1> QED
  BY <1>3, <1>7, <1>9 DEF f, g

(* The modulation of a link change is carried.                             *)
LEMMA LinkByteCarried ==
  ASSUME NEW v, v["sf"] \in 0..7, v["bw"] \in 0..3, v["cr"] \in 0..3
  PROVE  Carried(<< {Piece("sf", 0, 3, 0), Piece("bw", 0, 2, 3), Piece("cr", 0, 2, 5)} >>, v,
                 {"sf", "bw", "cr"})
<1> DEFINE f == "sf"  g == "bw"  h == "cr"
           x == Piece(f, 0, 3, 0)  y == Piece(g, 0, 2, 3)  z == Piece(h, 0, 2, 5)
           cell == {x, y, z}  c == v[f]  d == v[g]  e == v[h]  b == PackedByte(cell, v)
<1>1. /\ x \in Pieces /\ x.field = f /\ x.from = 0 /\ x.bits = 3 /\ x.at = 0
      /\ y \in Pieces /\ y.field = g /\ y.from = 0 /\ y.bits = 2 /\ y.at = 3
      /\ z \in Pieces /\ z.field = h /\ z.from = 0 /\ z.bits = 2 /\ z.at = 5
  <2>1. f \in Names /\ g \in Names /\ h \in Names
    BY DEF Names
  <2> HIDE DEF f, g, h
  <2> QED
    BY <2>1 DEF Piece, Pieces, Shifts
<1>2. /\ c \in Nat /\ c < 8 /\ d \in Nat /\ d < 4 /\ e \in Nat /\ e < 4
      /\ c \in Int /\ d \in Int /\ e \in Int /\ f # g /\ f # h /\ g # h
  OBVIOUS
<1> HIDE DEF f, g, h, x, y, z
<1>4. /\ cell \in SUBSET Pieces /\ IsFiniteSet(cell)
      /\ b \in Int /\ b = Share(x, v) + Share(y, v) + Share(z, v)
      /\ \A k \in Int : \A p \in cell : UnpackedPart(cell, k, p.field) = Bits(k, p.at, p.bits) * 2^p.from
  <2>1. x.field # y.field /\ x.field # z.field /\ y.field # z.field
        /\ v[x.field] \in Int /\ v[y.field] \in Int /\ v[z.field] \in Int
    BY <1>1, <1>2
  <2>2. cell = {x, y, z}
    OBVIOUS
  <2> HIDE DEF cell
  <2>3. Parted(cell, v, Share(x, v) + Share(y, v) + Share(z, v))
    BY ONLY <1>1, <2>1, <2>2, CellOfThree, Zenon
  <2> QED
    BY <2>3, Zenon DEF Parted
<1>5. /\ b \in 0..255 /\ ((b \div 2^0) % 2^3) * 2^0 = c
      /\ ((b \div 2^3) % 2^2) * 2^0 = d /\ ((b \div 2^5) % 2^2) * 2^0 = e
  <2> HIDE DEF b
  <2>1. Share(x, v) = ((c \div 2^0) % 2^3) * 2^0
    BY <1>1, Zenon DEF Share, Bits
  <2>2. Share(y, v) = ((d \div 2^0) % 2^2) * 2^3
    BY <1>1, Zenon DEF Share, Bits
  <2>3. Share(z, v) = ((e \div 2^0) % 2^2) * 2^5
    BY <1>1, Zenon DEF Share, Bits
  <2>4. b = ((c \div 2^0) % 2^3) * 2^0 + ((d \div 2^0) % 2^2) * 2^3 + ((e \div 2^0) % 2^2) * 2^5
    BY <1>4, <2>1, <2>2, <2>3, Zenon
  <2> HIDE DEF c, d, e
  <2> QED
    BY ONLY <1>2, <1>4, <2>4, LinkBits
<1>6. \A p \in cell : UnpackedPart(cell, b, p.field) = v[p.field]
  <2>1. x \in cell /\ y \in cell /\ z \in cell /\ \A p \in cell : p = x \/ p = y \/ p = z
    OBVIOUS
  <2> HIDE DEF b, cell
  <2>2. UnpackedPart(cell, b, x.field) = c
    BY <1>1, <1>4, <1>5, <2>1, Zenon DEF Bits
  <2>3. UnpackedPart(cell, b, y.field) = d
    BY <1>1, <1>4, <1>5, <2>1, Zenon DEF Bits
  <2>4. UnpackedPart(cell, b, z.field) = e
    BY <1>1, <1>4, <1>5, <2>1, Zenon DEF Bits
  <2> QED
    BY <1>1, <2>1, <2>2, <2>3, <2>4, Zenon
<1>7. {p.field : p \in cell} = {f, g, h}
  BY <1>1
<1>8. b \in Octet
  <2> HIDE DEF b
  <2> QED
    BY <1>5 DEF Octet
<1> HIDE DEF cell
<1>9. Carried(<<cell>>, v, {p.field : p \in cell})
  BY <1>4, <1>6, <1>8, CellCarried DEF b
<1> QED
  BY <1>7, <1>9 DEF f, g, h, x, y, z, cell

(* The same bits, with the first byte as a whole.                          *)
LEMMA WidthBits ==
  ASSUME NEW c \in Nat, c < 8192, NEW d \in Nat, d < 8, NEW a \in Int, NEW b \in Int,
         a = (c \div 2^0) % 256,
         b = ((c \div 2^8) % 2^5) * 2^0 + ((d \div 2^0) % 2^3) * 2^5
  PROVE  /\ b \in 0..255
         /\ a * 2^0 + ((b \div 2^0) % 2^5) * 2^8 = c /\ ((b \div 2^5) % 2^3) * 2^0 = d
<1>1. a = ((c \div 2^0) % 2^8) * 2^0 /\ a * 2^0 = ((a \div 2^0) % 2^8) * 2^0
  BY SMT
<1> QED
  BY <1>1, PhotoBits

(* Two bytes are one and the other.                                        *)
LEMMA TwoCells == ASSUME NEW s, NEW t PROVE <<s>> \o <<t>> = <<s, t>>
<1> DEFINE T == {s, t}  a == <<s>>  b == <<t>>  c == a \o b  d == <<s, t>>
<1>1. a \in Seq(T) /\ b \in Seq(T) /\ Len(a) = 1 /\ Len(b) = 1 /\ a[1] = s /\ b[1] = t
  OBVIOUS
<1>2. d \in [1..2 -> T] /\ d[1] = s /\ d[2] = t
  OBVIOUS
<1>3. c \in Seq(T) /\ Len(c) = 2 /\ c[1] = s /\ c[2] = t
  <2> HIDE DEF a, b, c, T
  <2>1. /\ Len(a \o b) = Len(a) + Len(b) /\ a \o b \in Seq(T)
        /\ \A i \in 1..Len(a) : (a \o b)[i] = a[i]
        /\ \A i \in 1..Len(b) : (a \o b)[Len(a) + i] = b[i]
    <3>1. a \in Seq(T)
      BY <1>1
    <3>2. b \in Seq(T)
      BY <1>1
    <3> QED
      BY ONLY <3>1, <3>2, JoinIs
  <2>2. c = a \o b
    BY DEF c
  <2>3. Len(c) = 2 /\ c \in Seq(T)
    BY <1>1, <2>1, <2>2
  <2>4. c[1] = a[1] /\ c[1 + 1] = b[1]
    BY <1>1, <2>1, <2>2
  <2> QED
    BY <1>1, <2>3, <2>4
<1> HIDE DEF a, b, c, d, T
<1>4. c \in [1..2 -> T]
  BY <1>3
<1>5. \A i \in 1..2 : c[i] = d[i]
  <2>1. \A i \in 1..2 : i = 1 \/ i = 2
    OBVIOUS
  <2> QED
    BY <1>2, <1>3, <2>1, Zenon
<1>6. c = d
  BY <1>2, <1>4, <1>5
<1> QED
  BY <1>6 DEF a, b, c, d

Widths == {n \in Nat : n < 8192}
Qualities == {n \in Nat : n < 8}

(* Three bits of quality above thirteen of width.                          *)
LEMMA WidthCarried ==
  ASSUME NEW v, v["output_width"] \in Widths, v["quality"] \in Qualities
  PROVE  Carried(<< {Piece("output_width", 0, 8, 0)},
                    {Piece("output_width", 8, 5, 0), Piece("quality", 0, 3, 5)} >>, v,
                 {"output_width", "quality"})
<1> DEFINE f == "output_width"  g == "quality"  w == Piece(f, 0, 8, 0)
           x == Piece(f, 8, 5, 0)  y == Piece(g, 0, 3, 5)
           low == {w}  high == {x, y}  c == v[f]  d == v[g]
           a == PackedByte(low, v)  b == PackedByte(high, v)
           A == <<low>>  B == <<high>>  p == <<a>>  q == <<b>>
<1>1. /\ x \in Pieces /\ x.field = f /\ x.from = 8 /\ x.bits = 5 /\ x.at = 0
      /\ y \in Pieces /\ y.field = g /\ y.from = 0 /\ y.bits = 3 /\ y.at = 5
      /\ w \in Pieces /\ w.field = f
  <2>1. f \in Names /\ g \in Names
    BY DEF Names
  <2> HIDE DEF f, g
  <2> QED
    BY <2>1 DEF Piece, Pieces, Shifts
<1>2. c \in Nat /\ d \in Nat /\ c \in Int /\ d \in Int /\ f # g /\ f \in Names
  BY DEF Names, Widths, Qualities
<1>0. c \in Widths /\ d \in Qualities
  OBVIOUS
<1>3. /\ low \in SUBSET Pieces /\ IsFiniteSet(low)
      /\ a = (c \div 2^0) % 256 /\ a \in Octet
      /\ \A k \in Octet : UnpackedPart(low, k, f) = k * 2^0
  <2> DEFINE s == 0
  <2>1. s \in {0, 8, 16, 24} /\ s \in Octet
    BY DEF Octet
  <2>2. low = {Piece(f, s, 8, 0)}
    OBVIOUS
  <2>3. v[f] \in Nat
    BY <1>2
  <2> HIDE DEF f, s, low
  <2>4. ASSUME NEW k \in Octet
        PROVE  /\ low \in SUBSET Pieces /\ IsFiniteSet(low)
               /\ a = (c \div 2^s) % 256 /\ a \in Octet /\ UnpackedPart(low, k, f) = k * 2^s
    <3>1. /\ {Piece(f, s, 8, 0)} \in SUBSET Pieces /\ IsFiniteSet({Piece(f, s, 8, 0)})
          /\ PackedByte({Piece(f, s, 8, 0)}, v) = (v[f] \div 2^s) % 256
          /\ PackedByte({Piece(f, s, 8, 0)}, v) \in Octet
          /\ UnpackedPart({Piece(f, s, 8, 0)}, k, f) = k * 2^s
      BY ONLY <1>2, <2>1, <2>3, k \in Octet, ByteCells, Zenon
    <3> QED
      BY <2>2, <3>1, Zenon
  <2> QED
    BY <2>1, <2>4, Zenon DEF s
<1> HIDE DEF f, g, w, x, y
<1>4. Parted(high, v, Share(x, v) + Share(y, v))
  <2>1. x.field # y.field /\ v[x.field] \in Int /\ v[y.field] \in Int
    BY <1>1, <1>2
  <2>2. high = {x, y}
    OBVIOUS
  <2> HIDE DEF high
  <2> QED
    BY ONLY <1>1, <2>1, <2>2, CellOfTwo, Zenon
<1>5. /\ b \in 0..255
      /\ a * 2^0 + ((b \div 2^0) % 2^5) * 2^8 = c /\ ((b \div 2^5) % 2^3) * 2^0 = d
  <2>1. b = ((c \div 2^8) % 2^5) * 2^0 + ((d \div 2^0) % 2^3) * 2^5
    <3> HIDE DEF high
    <3> QED
      BY <1>1, <1>4, Zenon DEF Share, Bits, Parted
  <2>2. a \in Int /\ b \in Int
    <3> HIDE DEF a, high
    <3> QED
      BY <1>3, <1>4, OctetIsNat, Zenon DEF Parted
  <2> HIDE DEF a, b, c, d
  <2>3. c < 8192 /\ d < 8
    BY <1>0 DEF Widths, Qualities
  <2> QED
    BY ONLY <1>2, <1>3, <2>1, <2>2, <2>3, WidthBits
<1>6. b \in Octet
  <2> HIDE DEF b
  <2> QED
    BY <1>5 DEF Octet
<1>7. /\ Layout(A) /\ Len(A) = 1 /\ Fields(A) = {f} /\ Pack(A, v) = p
      /\ Field(A, p, f) = a * 2^0
  <2>1. a \in Int
    <3> HIDE DEF a
    <3> QED
      BY <1>3, OctetIsNat
  <2>2. /\ Layout(A) /\ Len(A) = 1 /\ Fields(A) = {z.field : z \in low} /\ Pack(A, v) = p
        /\ Field(A, p, f) = UnpackedPart(low, a, f)
    <3> HIDE DEF low
    <3> QED
      BY <1>3, <2>1, OneCell
  <2>3. {z.field : z \in low} = {f}
    BY <1>1
  <2> HIDE DEF a, A, low
  <2> QED
    BY <1>3, <2>2, <2>3
<1>8. /\ Layout(B) /\ Len(B) = 1 /\ Fields(B) = {f, g} /\ Pack(B, v) = q
      /\ Field(B, q, f) = ((b \div 2^0) % 2^5) * 2^8 /\ Field(B, q, g) = ((b \div 2^5) % 2^3) * 2^0
  <2>1. b \in Int
    BY <1>4, Zenon DEF Parted
  <2>2. /\ Layout(B) /\ Len(B) = 1 /\ Fields(B) = {z.field : z \in high} /\ Pack(B, v) = q
        /\ \A h : Field(B, q, h) = UnpackedPart(high, b, h)
    <3> HIDE DEF high
    <3> QED
      BY <1>4, <2>1, OneCell DEF Parted
  <2>3. {z.field : z \in high} = {f, g} /\ x \in high /\ y \in high
    BY <1>1
  <2> HIDE DEF b, B, q, high
  <2>4. UnpackedPart(high, b, x.field) = Bits(b, x.at, x.bits) * 2^x.from
    BY <1>4, <2>1, <2>3, Zenon DEF Parted
  <2>5. UnpackedPart(high, b, y.field) = Bits(b, y.at, y.bits) * 2^y.from
    BY <1>4, <2>1, <2>3, Zenon DEF Parted
  <2>6. UnpackedPart(high, b, f) = ((b \div 2^0) % 2^5) * 2^8
    BY <1>1, <2>4, Zenon DEF Bits
  <2>7. UnpackedPart(high, b, g) = ((b \div 2^5) % 2^3) * 2^0
    BY <1>1, <2>5, Zenon DEF Bits
  <2> QED
    BY <2>2, <2>3, <2>6, <2>7, Zenon
<1>9. p \in Seq(Octet) /\ q \in Seq(Octet) /\ Len(p) = 1 /\ Len(q) = 1 /\ p \in Seq(Int) /\ q \in Seq(Int)
  <2>1. p \in Seq(Octet) /\ q \in Seq(Octet) /\ Len(p) = 1 /\ Len(q) = 1
    <3> HIDE DEF a, b
    <3> QED
      BY <1>3, <1>6
  <2> HIDE DEF p, q
  <2> QED
    BY <2>1, OctetsAreInts
<1> HIDE DEF A, B, p, q, low, high
<1>10. \A h : /\ Layout(A \o B) /\ Fields(A \o B) = Fields(A) \cup Fields(B)
              /\ Field(A \o B, p \o q, h) = Field(A, p, h) + Field(B, q, h)
              /\ Field(A, p, h) \in Int
              /\ h \notin Fields(A) => Field(A, p, h) = 0
              /\ h \notin Fields(B) => Field(B, q, h) = 0
  <2>1. Layout(A) /\ Layout(B) /\ Len(p) = Len(A) /\ Len(q) = Len(B)
    BY <1>7, <1>8, <1>9
  <2> QED
    BY ONLY <1>9, <2>1, FieldJoins
<1>11. Pack(A \o B, v) = p \o q
  <2>1. Layout(A) /\ Layout(B) /\ Pack(A, v) = p /\ Pack(B, v) = q
    BY <1>7, <1>8, Zenon
  <2>2. Pack(A \o B, v) = Pack(A, v) \o Pack(B, v)
    <3>1. Layout(A)
      BY <2>1
    <3>2. Layout(B)
      BY <2>1
    <3> QED
      BY ONLY <3>1, <3>2, PackJoins
  <2> QED
    BY <2>1, <2>2, Zenon
<1>12. p \o q \in Seq(Octet) /\ Len(p \o q) = 2 /\ Len(A \o B) = 2
  <2>1. A \in Seq(SUBSET Pieces) /\ B \in Seq(SUBSET Pieces)
    BY <1>7, <1>8 DEF Layout
  <2>2. Len(p \o q) = Len(p) + Len(q) /\ p \o q \in Seq(Octet)
    BY <1>9, JoinIs
  <2>3. Len(A \o B) = Len(A) + Len(B)
    BY <2>1, JoinIs
  <2> QED
    BY <1>7, <1>8, <1>9, <2>2, <2>3
<1>13. Field(A \o B, p \o q, f) = c
  <2> HIDE DEF c
  <2> QED
    BY <1>5, <1>7, <1>8, <1>10, Zenon
<1>14. Field(A \o B, p \o q, g) = d
  <2>1. Field(A, p, g) = 0
    BY <1>2, <1>7, <1>10
  <2>2. Field(B, q, g) = d
    <3> HIDE DEF d
    <3> QED
      BY <1>5, <1>8, Zenon
  <2> HIDE DEF d
  <2> QED
    BY <1>2, <1>10, <2>1, <2>2
<1>15. Carried(A \o B, v, {f, g})
  <2>1. Fields(A \o B) = {f, g} /\ Layout(A \o B)
    BY <1>7, <1>8, <1>10
  <2>2. \A h \in {f, g} : Field(A \o B, p \o q, h) = v[h]
    BY <1>13, <1>14
  <2> QED
    BY <1>11, <1>12, <2>1, <2>2, Zenon DEF Carried
<1>17. A \o B = <<low, high>>
  BY TwoCells, Zenon DEF A, B
<1> QED
  BY <1>15, <1>17 DEF f, g, w, x, y, low, high

(* The layouts of the packets: each carries its fields.                    *)
LEMMA ArmTargetCarried ==
  ASSUME NEW v, v["shoulder_yaw"] \in Octet, v["shoulder_pitch"] \in Octet,
         v["elbow_pitch"] \in Octet, v["wrist_pitch"] \in Octet
  PROVE  Carried(ArmTarget, v,
           {"shoulder_yaw", "shoulder_pitch", "elbow_pitch", "wrist_pitch"})
<1> DEFINE L1 == Byte("shoulder_yaw")  F1 == {"shoulder_yaw"}
           L2 == Byte("shoulder_pitch")  F2 == {"shoulder_pitch"}
           L3 == Byte("elbow_pitch")  F3 == {"elbow_pitch"}
           L4 == Byte("wrist_pitch")  F4 == {"wrist_pitch"}
           P1 == L1  G1 == F1
           P2 == P1 \o L2  G2 == G1 \cup F2
           P3 == P2 \o L3  G3 == G2 \cup F3
           P4 == P3 \o L4  G4 == G3 \cup F4
<1>1. Carried(L1, v, F1)
  BY ByteCarried DEF Names
<1>2. Carried(L2, v, F2)
  BY ByteCarried DEF Names
<1>3. Carried(L3, v, F3)
  BY ByteCarried DEF Names
<1>4. Carried(L4, v, F4)
  BY ByteCarried DEF Names
<1>5. G1 \cap F2 = {} /\ G2 \cap F3 = {} /\ G3 \cap F4 = {}
  OBVIOUS
<1> HIDE DEF L1, F1, L2, F2, L3, F3, L4, F4
<1>6. Carried(P2, v, G2)
  BY <1>1, <1>2, <1>5, CarriedJoins
<1>7. Carried(P3, v, G3)
  BY <1>6, <1>3, <1>5, CarriedJoins
<1>8. Carried(P4, v, G4)
  BY <1>7, <1>4, <1>5, CarriedJoins
<1> QED
  BY <1>8 DEF ArmTarget, L1, F1, L2, F2, L3, F3, L4, F4

(* A jog.                                                                  *)
LEMMA MotorJogCarried ==
  ASSUME NEW v, v["motor_id"] \in Octet, v["duration_ticks"] \in Octet, v["millivolts"] \in Word
  PROVE  Carried(MotorJog, v,
           {"motor_id", "duration_ticks", "millivolts"})
<1> DEFINE L1 == Byte("motor_id")  F1 == {"motor_id"}
           L2 == Byte("duration_ticks")  F2 == {"duration_ticks"}
           L3 == Le("millivolts", 2)  F3 == {"millivolts"}
           P1 == L1  G1 == F1
           P2 == P1 \o L2  G2 == G1 \cup F2
           P3 == P2 \o L3  G3 == G2 \cup F3
<1>1. Carried(L1, v, F1)
  BY ByteCarried DEF Names
<1>2. Carried(L2, v, F2)
  BY ByteCarried DEF Names
<1>3. Carried(L3, v, F3)
  BY Le2Carried DEF Names
<1>4. G1 \cap F2 = {} /\ G2 \cap F3 = {}
  OBVIOUS
<1> HIDE DEF L1, F1, L2, F2, L3, F3
<1>5. Carried(P2, v, G2)
  BY <1>1, <1>2, <1>4, CarriedJoins
<1>6. Carried(P3, v, G3)
  BY <1>5, <1>3, <1>4, CarriedJoins
<1> QED
  BY <1>6 DEF MotorJog, L1, F1, L2, F2, L3, F3

(* A servo motion.                                                         *)
LEMMA ServoMotionCarried ==
  ASSUME NEW v, v["openness"] \in Octet, v["open_travel_time"] \in Octet, v["open_time"] \in Octet,
         v["close_travel_time"] \in Octet, v["closeness"] \in Octet, v["which_servo"] \in Octet
  PROVE  Carried(ServoMotion, v,
           {"openness", "open_travel_time", "open_time", "close_travel_time", "closeness",
            "which_servo"})
<1> DEFINE L1 == Byte("openness")  F1 == {"openness"}
           L2 == Byte("open_travel_time")  F2 == {"open_travel_time"}
           L3 == Byte("open_time")  F3 == {"open_time"}
           L4 == Byte("close_travel_time")  F4 == {"close_travel_time"}
           L5 == Byte("closeness")  F5 == {"closeness"}
           L6 == Byte("which_servo")  F6 == {"which_servo"}
           P1 == L1  G1 == F1
           P2 == P1 \o L2  G2 == G1 \cup F2
           P3 == P2 \o L3  G3 == G2 \cup F3
           P4 == P3 \o L4  G4 == G3 \cup F4
           P5 == P4 \o L5  G5 == G4 \cup F5
           P6 == P5 \o L6  G6 == G5 \cup F6
<1>1. Carried(L1, v, F1)
  BY ByteCarried DEF Names
<1>2. Carried(L2, v, F2)
  BY ByteCarried DEF Names
<1>3. Carried(L3, v, F3)
  BY ByteCarried DEF Names
<1>4. Carried(L4, v, F4)
  BY ByteCarried DEF Names
<1>5. Carried(L5, v, F5)
  BY ByteCarried DEF Names
<1>6. Carried(L6, v, F6)
  BY ByteCarried DEF Names
<1>7. G1 \cap F2 = {} /\ G2 \cap F3 = {} /\ G3 \cap F4 = {} /\ G4 \cap F5 = {} /\ G5 \cap F6 = {}
  OBVIOUS
<1> HIDE DEF L1, F1, L2, F2, L3, F3, L4, F4, L5, F5, L6, F6
<1>8. Carried(P2, v, G2)
  BY <1>1, <1>2, <1>7, CarriedJoins
<1>9. Carried(P3, v, G3)
  BY <1>8, <1>3, <1>7, CarriedJoins
<1>10. Carried(P4, v, G4)
  BY <1>9, <1>4, <1>7, CarriedJoins
<1>11. Carried(P5, v, G5)
  BY <1>10, <1>5, <1>7, CarriedJoins
<1>12. Carried(P6, v, G6)
  BY <1>11, <1>6, <1>7, CarriedJoins
<1> QED
  BY <1>12 DEF ServoMotion, L1, F1, L2, F2, L3, F3, L4, F4, L5, F5, L6, F6

Crop == Le("left", 2) \o Le("right", 2) \o Le("top", 2) \o Le("bottom", 2)

(* The crop of a picture.                                                  *)
LEMMA CropCarried ==
  ASSUME NEW v, v["left"] \in Word, v["right"] \in Word, v["top"] \in Word, v["bottom"] \in Word
  PROVE  Carried(Crop, v,
           {"left", "right", "top", "bottom"})
<1> DEFINE L1 == Le("left", 2)  F1 == {"left"}
           L2 == Le("right", 2)  F2 == {"right"}
           L3 == Le("top", 2)  F3 == {"top"}
           L4 == Le("bottom", 2)  F4 == {"bottom"}
           P1 == L1  G1 == F1
           P2 == P1 \o L2  G2 == G1 \cup F2
           P3 == P2 \o L3  G3 == G2 \cup F3
           P4 == P3 \o L4  G4 == G3 \cup F4
<1>1. Carried(L1, v, F1)
  BY Le2Carried DEF Names
<1>2. Carried(L2, v, F2)
  BY Le2Carried DEF Names
<1>3. Carried(L3, v, F3)
  BY Le2Carried DEF Names
<1>4. Carried(L4, v, F4)
  BY Le2Carried DEF Names
<1>5. G1 \cap F2 = {} /\ G2 \cap F3 = {} /\ G3 \cap F4 = {}
  OBVIOUS
<1> HIDE DEF L1, F1, L2, F2, L3, F3, L4, F4
<1>6. Carried(P2, v, G2)
  BY <1>1, <1>2, <1>5, CarriedJoins
<1>7. Carried(P3, v, G3)
  BY <1>6, <1>3, <1>5, CarriedJoins
<1>8. Carried(P4, v, G4)
  BY <1>7, <1>4, <1>5, CarriedJoins
<1> QED
  BY <1>8 DEF Crop, L1, F1, L2, F2, L3, F3, L4, F4

(* A transform of a picture.                                               *)
LEMMA PhotoTransformCarried ==
  ASSUME NEW v, v["left"] \in Word, v["right"] \in Word, v["top"] \in Word, v["bottom"] \in Word,
         v["output_width"] \in Widths, v["quality"] \in Qualities
  PROVE  Carried(PhotoTransform, v,
           {"left", "right", "top", "bottom", "output_width", "quality"})
<1> DEFINE L1 == Crop  F1 == {"left", "right", "top", "bottom"}
           L2 == << {Piece("output_width", 0, 8, 0)}, {Piece("output_width", 8, 5, 0), Piece("quality", 0, 3, 5)} >>  F2 == {"output_width", "quality"}
           P1 == L1  G1 == F1
           P2 == P1 \o L2  G2 == G1 \cup F2
<1>1. Carried(L1, v, F1)
  BY CropCarried
<1>2. Carried(L2, v, F2)
  BY WidthCarried
<1>3. G1 \cap F2 = {}
  OBVIOUS
<1> HIDE DEF L1, F1, L2, F2
<1>4. Carried(P2, v, G2)
  BY <1>1, <1>2, <1>3, CarriedJoins
<1> QED
  BY <1>4 DEF PhotoTransform, Crop, L1, F1, L2, F2

(* A change of the link.                                                   *)
LEMMA LinkChangeCarried ==
  ASSUME NEW v, v["num_test_packets"] \in Octet, v["dbm"] \in Octet, v["freq"] \in Quad,
         v["sf"] \in 0..7, v["bw"] \in 0..3, v["cr"] \in 0..3
  PROVE  Carried(LinkChange, v,
           {"num_test_packets", "dbm", "freq", "sf", "bw", "cr"})
<1> DEFINE L1 == Byte("num_test_packets")  F1 == {"num_test_packets"}
           L2 == Byte("dbm")  F2 == {"dbm"}
           L3 == Be("freq", 4)  F3 == {"freq"}
           L4 == << {Piece("sf", 0, 3, 0), Piece("bw", 0, 2, 3), Piece("cr", 0, 2, 5)} >>  F4 == {"sf", "bw", "cr"}
           P1 == L1  G1 == F1
           P2 == P1 \o L2  G2 == G1 \cup F2
           P3 == P2 \o L3  G3 == G2 \cup F3
           P4 == P3 \o L4  G4 == G3 \cup F4
<1>1. Carried(L1, v, F1)
  BY ByteCarried DEF Names
<1>2. Carried(L2, v, F2)
  BY ByteCarried DEF Names
<1>3. Carried(L3, v, F3)
  BY Be4Carried DEF Names
<1>4. Carried(L4, v, F4)
  BY LinkByteCarried
<1>5. G1 \cap F2 = {} /\ G2 \cap F3 = {} /\ G3 \cap F4 = {}
  OBVIOUS
<1> HIDE DEF L1, F1, L2, F2, L3, F3, L4, F4
<1>6. Carried(P2, v, G2)
  BY <1>1, <1>2, <1>5, CarriedJoins
<1>7. Carried(P3, v, G3)
  BY <1>6, <1>3, <1>5, CarriedJoins
<1>8. Carried(P4, v, G4)
  BY <1>7, <1>4, <1>5, CarriedJoins
<1> QED
  BY <1>8 DEF LinkChange, L1, F1, L2, F2, L3, F3, L4, F4

(* The phase and the status bits.                                          *)
LEMMA FlightStateCarried ==
  ASSUME NEW v, v["phase"] \in Octet, v["status_bits"] \in Word
  PROVE  Carried(FlightState, v,
           {"phase", "status_bits"})
<1> DEFINE L1 == Byte("phase")  F1 == {"phase"}
           L2 == Be("status_bits", 2)  F2 == {"status_bits"}
           P1 == L1  G1 == F1
           P2 == P1 \o L2  G2 == G1 \cup F2
<1>1. Carried(L1, v, F1)
  BY ByteCarried DEF Names
<1>2. Carried(L2, v, F2)
  BY Be2Carried DEF Names
<1>3. G1 \cap F2 = {}
  OBVIOUS
<1> HIDE DEF L1, F1, L2, F2
<1>4. Carried(P2, v, G2)
  BY <1>1, <1>2, <1>3, CarriedJoins
<1> QED
  BY <1>4 DEF FlightState, L1, F1, L2, F2

(* A direction.                                                            *)
LEMMA V3Carried ==
  ASSUME NEW x \in Names, NEW y \in Names, NEW z \in Names, x # y, x # z, y # z,
         NEW v, v[x] \in Word, v[y] \in Word, v[z] \in Word
  PROVE  Carried(V3(x, y, z), v, {x, y, z})
<1> DEFINE L1 == Le(x, 2)  L2 == Le(y, 2)  L3 == Le(z, 2)
<1>1. Carried(L1, v, {x}) /\ Carried(L2, v, {y}) /\ Carried(L3, v, {z})
  BY Le2Carried
<1>2. {x} \cap {y} = {} /\ ({x} \cup {y}) \cap {z} = {}
  OBVIOUS
<1> HIDE DEF L1, L2, L3
<1>3. Carried(L1 \o L2, v, {x} \cup {y})
  BY <1>1, <1>2, CarriedJoins
<1>4. Carried((L1 \o L2) \o L3, v, ({x} \cup {y}) \cup {z})
  BY <1>1, <1>2, <1>3, CarriedJoins
<1>5. ({x} \cup {y}) \cup {z} = {x, y, z}
  OBVIOUS
<1> QED
  BY <1>4, <1>5 DEF V3, L1, L2, L3

(* The flight heartbeat.                                                   *)
LEMMA FlightHeartbeatCarried ==
  ASSUME NEW v, v["phase"] \in Octet, v["status_bits"] \in Word, v["latitude"] \in Quad,
         v["longitude"] \in Quad, v["altitude"] \in Word, v["s_since_boost"] \in Word,
         v["battery_mV"] \in Word, v["radio_temp"] \in Octet
  PROVE  Carried(FlightHeartbeat, v,
           {"phase", "status_bits", "latitude", "longitude", "altitude", "s_since_boost",
            "battery_mV", "radio_temp"})
<1> DEFINE L1 == FlightState  F1 == {"phase", "status_bits"}
           L2 == Le("latitude", 4)  F2 == {"latitude"}
           L3 == Le("longitude", 4)  F3 == {"longitude"}
           L4 == Le("altitude", 2)  F4 == {"altitude"}
           L5 == Le("s_since_boost", 2)  F5 == {"s_since_boost"}
           L6 == Le("battery_mV", 2)  F6 == {"battery_mV"}
           L7 == Byte("radio_temp")  F7 == {"radio_temp"}
           P1 == L1  G1 == F1
           P2 == P1 \o L2  G2 == G1 \cup F2
           P3 == P2 \o L3  G3 == G2 \cup F3
           P4 == P3 \o L4  G4 == G3 \cup F4
           P5 == P4 \o L5  G5 == G4 \cup F5
           P6 == P5 \o L6  G6 == G5 \cup F6
           P7 == P6 \o L7  G7 == G6 \cup F7
<1>1. Carried(L1, v, F1)
  BY FlightStateCarried
<1>2. Carried(L2, v, F2)
  BY Le4Carried DEF Names
<1>3. Carried(L3, v, F3)
  BY Le4Carried DEF Names
<1>4. Carried(L4, v, F4)
  BY Le2Carried DEF Names
<1>5. Carried(L5, v, F5)
  BY Le2Carried DEF Names
<1>6. Carried(L6, v, F6)
  BY Le2Carried DEF Names
<1>7. Carried(L7, v, F7)
  BY ByteCarried DEF Names
<1>8. G1 \cap F2 = {} /\ G2 \cap F3 = {} /\ G3 \cap F4 = {} /\ G4 \cap F5 = {} /\ G5 \cap F6 = {} /\ G6 \cap F7 = {}
  OBVIOUS
<1> HIDE DEF L1, F1, L2, F2, L3, F3, L4, F4, L5, F5, L6, F6, L7, F7
<1>9. Carried(P2, v, G2)
  BY <1>1, <1>2, <1>8, CarriedJoins
<1>10. Carried(P3, v, G3)
  BY <1>9, <1>3, <1>8, CarriedJoins
<1>11. Carried(P4, v, G4)
  BY <1>10, <1>4, <1>8, CarriedJoins
<1>12. Carried(P5, v, G5)
  BY <1>11, <1>5, <1>8, CarriedJoins
<1>13. Carried(P6, v, G6)
  BY <1>12, <1>6, <1>8, CarriedJoins
<1>14. Carried(P7, v, G7)
  BY <1>13, <1>7, <1>8, CarriedJoins
<1> QED
  BY <1>14 DEF FlightHeartbeat, L1, F1, L2, F2, L3, F3, L4, F4, L5, F5, L6, F6, L7, F7

(* The landed heartbeat.                                                   *)
LEMMA LandedHeartbeatCarried ==
  ASSUME NEW v, v["phase"] \in Octet, v["status_bits"] \in Word, v["next_image_id"] \in Octet,
         v["next_exec_id"] \in Octet, v["shoulder_yaw"] \in Octet, v["shoulder_pitch"] \in Octet,
         v["elbow_pitch"] \in Octet, v["wrist_pitch"] \in Octet, v["battery_mV"] \in Word,
         v["motor_temp"] \in Octet, v["radio_temp"] \in Octet, v["base_x"] \in Word,
         v["base_y"] \in Word, v["base_z"] \in Word, v["link2_x"] \in Word, v["link2_y"] \in Word,
         v["link2_z"] \in Word
  PROVE  Carried(LandedHeartbeat, v,
           {"phase", "status_bits", "next_image_id", "next_exec_id", "shoulder_yaw",
            "shoulder_pitch", "elbow_pitch", "wrist_pitch", "battery_mV", "motor_temp",
            "radio_temp", "base_x", "base_y", "base_z", "link2_x", "link2_y", "link2_z"})
<1> DEFINE L1 == FlightState  F1 == {"phase", "status_bits"}
           L2 == Byte("next_image_id")  F2 == {"next_image_id"}
           L3 == Byte("next_exec_id")  F3 == {"next_exec_id"}
           L4 == ArmTarget  F4 == {"shoulder_yaw", "shoulder_pitch", "elbow_pitch", "wrist_pitch"}
           L5 == Le("battery_mV", 2)  F5 == {"battery_mV"}
           L6 == Byte("motor_temp")  F6 == {"motor_temp"}
           L7 == Byte("radio_temp")  F7 == {"radio_temp"}
           L8 == V3("base_x", "base_y", "base_z")  F8 == {"base_x", "base_y", "base_z"}
           L9 == V3("link2_x", "link2_y", "link2_z")  F9 == {"link2_x", "link2_y", "link2_z"}
           P1 == L1  G1 == F1
           P2 == P1 \o L2  G2 == G1 \cup F2
           P3 == P2 \o L3  G3 == G2 \cup F3
           P4 == P3 \o L4  G4 == G3 \cup F4
           P5 == P4 \o L5  G5 == G4 \cup F5
           P6 == P5 \o L6  G6 == G5 \cup F6
           P7 == P6 \o L7  G7 == G6 \cup F7
           P8 == P7 \o L8  G8 == G7 \cup F8
           P9 == P8 \o L9  G9 == G8 \cup F9
<1>1. Carried(L1, v, F1)
  BY FlightStateCarried
<1>2. Carried(L2, v, F2)
  BY ByteCarried DEF Names
<1>3. Carried(L3, v, F3)
  BY ByteCarried DEF Names
<1>4. Carried(L4, v, F4)
  BY ArmTargetCarried
<1>5. Carried(L5, v, F5)
  BY Le2Carried DEF Names
<1>6. Carried(L6, v, F6)
  BY ByteCarried DEF Names
<1>7. Carried(L7, v, F7)
  BY ByteCarried DEF Names
<1>8. Carried(L8, v, F8)
  <2>1. "base_x" \in Names /\ "base_y" \in Names /\ "base_z" \in Names
    BY DEF Names
  <2>2. "base_x" # "base_y" /\ "base_x" # "base_z" /\ "base_y" # "base_z"
    OBVIOUS
  <2> QED
    BY <2>1, <2>2, V3Carried, Zenon
<1>9. Carried(L9, v, F9)
  <2>1. "link2_x" \in Names /\ "link2_y" \in Names /\ "link2_z" \in Names
    BY DEF Names
  <2>2. "link2_x" # "link2_y" /\ "link2_x" # "link2_z" /\ "link2_y" # "link2_z"
    OBVIOUS
  <2> QED
    BY <2>1, <2>2, V3Carried, Zenon
<1>10. G1 \cap F2 = {} /\ G2 \cap F3 = {} /\ G3 \cap F4 = {} /\ G4 \cap F5 = {} /\ G5 \cap F6 = {} /\ G6 \cap F7 = {} /\ G7 \cap F8 = {} /\ G8 \cap F9 = {}
  OBVIOUS
<1> HIDE DEF L1, F1, L2, F2, L3, F3, L4, F4, L5, F5, L6, F6, L7, F7, L8, F8, L9, F9
<1>11. Carried(P2, v, G2)
  BY <1>1, <1>2, <1>10, CarriedJoins
<1>12. Carried(P3, v, G3)
  BY <1>11, <1>3, <1>10, CarriedJoins
<1>13. Carried(P4, v, G4)
  BY <1>12, <1>4, <1>10, CarriedJoins
<1>14. Carried(P5, v, G5)
  BY <1>13, <1>5, <1>10, CarriedJoins
<1>15. Carried(P6, v, G6)
  BY <1>14, <1>6, <1>10, CarriedJoins
<1>16. Carried(P7, v, G7)
  BY <1>15, <1>7, <1>10, CarriedJoins
<1>17. Carried(P8, v, G8)
  BY <1>16, <1>8, <1>10, CarriedJoins
<1>18. Carried(P9, v, G9)
  BY <1>17, <1>9, <1>10, CarriedJoins
<1> QED
  BY <1>18 DEF LandedHeartbeat, L1, F1, L2, F2, L3, F3, L4, F4, L5, F5, L6, F6, L7, F7, L8, F8,
             L9, F9

(* The metadata of a picture.                                              *)
LEMMA ImageMetadataCarried ==
  ASSUME NEW v, v["image_id"] \in Octet, v["timestamp"] \in Quad, v["num_blocks"] \in Word,
         v["shoulder_yaw"] \in Octet, v["shoulder_pitch"] \in Octet, v["elbow_pitch"] \in Octet,
         v["wrist_pitch"] \in Octet, v["left"] \in Word, v["right"] \in Word, v["top"] \in Word,
         v["bottom"] \in Word, v["output_width"] \in Widths, v["quality"] \in Qualities,
         v["latitude"] \in Quad, v["longitude"] \in Quad
  PROVE  Carried(ImageMetadata, v,
           {"image_id", "timestamp", "num_blocks", "shoulder_yaw", "shoulder_pitch", "elbow_pitch",
            "wrist_pitch", "left", "right", "top", "bottom", "output_width", "quality", "latitude",
            "longitude"})
<1> DEFINE L1 == Byte("image_id")  F1 == {"image_id"}
           L2 == Le("timestamp", 4)  F2 == {"timestamp"}
           L3 == Le("num_blocks", 2)  F3 == {"num_blocks"}
           L4 == ArmTarget  F4 == {"shoulder_yaw", "shoulder_pitch", "elbow_pitch", "wrist_pitch"}
           L5 == PhotoTransform  F5 == {"left", "right", "top", "bottom", "output_width", "quality"}
           L6 == Le("latitude", 4)  F6 == {"latitude"}
           L7 == Le("longitude", 4)  F7 == {"longitude"}
           P1 == L1  G1 == F1
           P2 == P1 \o L2  G2 == G1 \cup F2
           P3 == P2 \o L3  G3 == G2 \cup F3
           P4 == P3 \o L4  G4 == G3 \cup F4
           P5 == P4 \o L5  G5 == G4 \cup F5
           P6 == P5 \o L6  G6 == G5 \cup F6
           P7 == P6 \o L7  G7 == G6 \cup F7
<1>1. Carried(L1, v, F1)
  BY ByteCarried DEF Names
<1>2. Carried(L2, v, F2)
  BY Le4Carried DEF Names
<1>3. Carried(L3, v, F3)
  BY Le2Carried DEF Names
<1>4. Carried(L4, v, F4)
  BY ArmTargetCarried
<1>5. Carried(L5, v, F5)
  BY PhotoTransformCarried
<1>6. Carried(L6, v, F6)
  BY Le4Carried DEF Names
<1>7. Carried(L7, v, F7)
  BY Le4Carried DEF Names
<1>8. G1 \cap F2 = {} /\ G2 \cap F3 = {} /\ G3 \cap F4 = {} /\ G4 \cap F5 = {} /\ G5 \cap F6 = {} /\ G6 \cap F7 = {}
  OBVIOUS
<1> HIDE DEF L1, F1, L2, F2, L3, F3, L4, F4, L5, F5, L6, F6, L7, F7
<1>9. Carried(P2, v, G2)
  BY <1>1, <1>2, <1>8, CarriedJoins
<1>10. Carried(P3, v, G3)
  BY <1>9, <1>3, <1>8, CarriedJoins
<1>11. Carried(P4, v, G4)
  BY <1>10, <1>4, <1>8, CarriedJoins
<1>12. Carried(P5, v, G5)
  BY <1>11, <1>5, <1>8, CarriedJoins
<1>13. Carried(P6, v, G6)
  BY <1>12, <1>6, <1>8, CarriedJoins
<1>14. Carried(P7, v, G7)
  BY <1>13, <1>7, <1>8, CarriedJoins
<1> QED
  BY <1>14 DEF ImageMetadata, L1, F1, L2, F2, L3, F3, L4, F4, L5, F5, L6, F6, L7, F7

(* The names of a block.                                                   *)
LEMMA ImageBlockCarried ==
  ASSUME NEW v, v["image_id"] \in Octet, v["block_index"] \in Word
  PROVE  Carried(ImageBlock, v,
           {"image_id", "block_index"})
<1> DEFINE L1 == Skip(6)  F1 == {}
           L2 == Byte("image_id")  F2 == {"image_id"}
           L3 == Be("block_index", 2)  F3 == {"block_index"}
           L4 == Skip(ImageDataSize - 9)  F4 == {}
           P1 == L1  G1 == F1
           P2 == P1 \o L2  G2 == G1 \cup F2
           P3 == P2 \o L3  G3 == G2 \cup F3
           P4 == P3 \o L4  G4 == G3 \cup F4
<1>1. Carried(L1, v, F1)
  BY SkipCarried
<1>2. Carried(L2, v, F2)
  BY ByteCarried DEF Names
<1>3. Carried(L3, v, F3)
  BY Be2Carried DEF Names
<1>4. Carried(L4, v, F4)
  BY SkipCarried DEF ImageDataSize
<1>5. G1 \cap F2 = {} /\ G2 \cap F3 = {} /\ G3 \cap F4 = {}
  OBVIOUS
<1> HIDE DEF L1, F1, L2, F2, L3, F3, L4, F4
<1>6. Carried(P2, v, G2)
  BY <1>1, <1>2, <1>5, CarriedJoins
<1>7. Carried(P3, v, G3)
  BY <1>6, <1>3, <1>5, CarriedJoins
<1>8. Carried(P4, v, G4)
  BY <1>7, <1>4, <1>5, CarriedJoins
<1> QED
  BY <1>8 DEF ImageBlock, L1, F1, L2, F2, L3, F3, L4, F4

(* A layout packs alike what its pieces hold alike.                        *)
LEMMA PackedAlike ==
  ASSUME NEW L, Layout(L), NEW v, NEW w,
         \A i \in DOMAIN L : \A p \in L[i] : Share(p, v) = Share(p, w)
  PROVE  Pack(L, v) = Pack(L, w)
<1>1. ASSUME NEW i \in DOMAIN L PROVE PackedByte(L[i], v) = PackedByte(L[i], w)
  <2> DEFINE cell == L[i]
  <2>1. \A p \in cell : Share(p, v) = Share(p, w)
    OBVIOUS
  <2> HIDE DEF cell
  <2>2. [p \in cell |-> Share(p, v)] = [p \in cell |-> Share(p, w)]
    BY <2>1, Zenon
  <2>3. \A x : PackedByte(cell, x) = SumOf([p \in cell |-> Share(p, x)])
    BY TotalIsSum, Zenon DEF PackedByte, Share
  <2> QED
    BY <2>2, <2>3, Zenon DEF cell
<1> QED
  BY <1>1, Zenon DEF Pack

(* A layout packs alike what has the same fields.                          *)
LEMMA FieldsAlike ==
  ASSUME NEW L, Layout(L), NEW v, NEW w, \A f \in Fields(L) : v[f] = w[f]
  PROVE  Pack(L, v) = Pack(L, w)
<1>1. \A i \in DOMAIN L : \A p \in L[i] : p.field \in Fields(L)
  BY FieldsAre
<1>2. \A i \in DOMAIN L : \A p \in L[i] : v[p.field] = w[p.field]
  BY <1>1
<1>3. \A i \in DOMAIN L : \A p \in L[i] : Share(p, v) = Share(p, w)
  BY <1>2, Zenon DEF Share
<1> QED
  BY <1>3, PackedAlike

(* The bits of a width and a quality that the layout has no room for.      *)
LEMMA ClippedBits ==
  ASSUME NEW c \in Nat, NEW d \in Nat
  PROVE  /\ ((c \div 2^0) % 2^8) * 2^0 = (((c % 8192) \div 2^0) % 2^8) * 2^0
         /\ ((c \div 2^8) % 2^5) * 2^0 = (((c % 8192) \div 2^8) % 2^5) * 2^0
         /\ ((d \div 2^0) % 2^3) * 2^5 = (((d % 8) \div 2^0) % 2^3) * 2^5
         /\ c % 8192 \in Widths /\ d % 8 \in Qualities
<1>1. ((c \div 2^0) % 2^8) * 2^0 = (((c % 8192) \div 2^0) % 2^8) * 2^0
  BY SMT
<1>2. ((c \div 2^8) % 2^5) * 2^0 = (((c % 8192) \div 2^8) % 2^5) * 2^0
  BY SMT
<1>3. ((d \div 2^0) % 2^3) * 2^5 = (((d % 8) \div 2^0) % 2^3) * 2^5
  BY SMT
<1>4. c % 8192 \in Widths /\ d % 8 \in Qualities
  BY SMT DEF Widths, Qualities
<1> QED
  BY <1>1, <1>2, <1>3, <1>4

(* A transform is packed as what the ground can mean by it.                *)
LEMMA PhotoClipped ==
  ASSUME NEW v \in Transforms
  PROVE  /\ Pack(PhotoTransform, v) = Pack(PhotoTransform, Clipped(v))
         /\ Carried(PhotoTransform, Clipped(v), {"left", "right", "top", "bottom", "output_width", "quality"})
         /\ Clipped(v) = [f \in {"left", "right", "top", "bottom", "output_width", "quality"} |-> Clipped(v)[f]]
<1> DEFINE u == Clipped(v)  ow == "output_width"  q == "quality"
           w == Piece(ow, 0, 8, 0)  x == Piece(ow, 8, 5, 0)  y == Piece(q, 0, 3, 5)
           low == {w}  high == {x, y}  B == <<low, high>>
           c == v[ow]  d == v[q]
           F == {"left", "right", "top", "bottom", "output_width", "quality"}
<1>1. /\ c \in Nat /\ d \in Nat /\ u[ow] = c % 8192 /\ u[q] = d % 8
      /\ \A f \in {"left", "right", "top", "bottom"} : u[f] = v[f] /\ v[f] \in Word
      /\ DOMAIN v = F /\ u = [f \in F |-> u[f]]
  <2>1. DOMAIN v = F /\ c \in Nat /\ d \in Nat /\ \A f \in {"left", "right", "top", "bottom"} : v[f] \in Word
    <3>1. DOMAIN v = F
      BY DEF Transforms
    <3>2. /\ v["left"] \in Word /\ v["right"] \in Word /\ v["top"] \in Word /\ v["bottom"] \in Word
          /\ v["output_width"] \in Word /\ v["quality"] \in Octet
      BY DEF Transforms
    <3>3. c \in Nat /\ d \in Nat
      <4> HIDE DEF c, d
      <4> QED
        BY <3>2, WordIsNat, OctetIsNat DEF c, d
    <3> QED
      BY <3>1, <3>2, <3>3
  <2>2. u = [f \in F |-> IF f = "quality" THEN v[f] % 8 ELSE IF f = "output_width" THEN v[f] % 8192 ELSE v[f]]
    BY <2>1 DEF Clipped
  <2>3. u[ow] = c % 8192 /\ u[q] = d % 8
    BY <2>2
  <2>4. \A f \in {"left", "right", "top", "bottom"} : u[f] = v[f]
    BY <2>2
  <2>5. u = [f \in F |-> u[f]]
    <3> HIDE DEF u, F
    <3> QED
      BY <2>2
  <2> HIDE DEF u, F, c, d, ow, q
  <2> QED
    BY <2>1, <2>3, <2>4, <2>5
<1>2. /\ Bits(c, 0, 8) * 2^0 = Bits(u[ow], 0, 8) * 2^0
      /\ Bits(c, 8, 5) * 2^0 = Bits(u[ow], 8, 5) * 2^0
      /\ Bits(d, 0, 3) * 2^5 = Bits(u[q], 0, 3) * 2^5
      /\ u[ow] \in Widths /\ u[q] \in Qualities
  <2>1. c \in Nat
    BY <1>1
  <2>2. d \in Nat
    BY <1>1
  <2>3. u[ow] = c % 8192 /\ u[q] = d % 8
    BY <1>1
  <2> HIDE DEF u, ow, q, c, d
  <2> QED
    BY <2>1, <2>2, <2>3, ClippedBits DEF Bits
<1>3. Carried(Crop, u, {"left", "right", "top", "bottom"})
  <2> HIDE DEF u
  <2> QED
    BY <1>1, CropCarried
<1>4. Carried(B, u, {ow, q})
  <2> HIDE DEF u
  <2> QED
    BY <1>2, WidthCarried
<1>5. Carried(PhotoTransform, u, F)
  <2> HIDE DEF u
  <2> QED
    BY <1>1, <1>2, PhotoTransformCarried
<1>6. PhotoTransform = Crop \o B
  BY DEF PhotoTransform, Crop
<1>7. /\ w.field = ow /\ w.from = 0 /\ w.bits = 8 /\ w.at = 0
      /\ x.field = ow /\ x.from = 8 /\ x.bits = 5 /\ x.at = 0
      /\ y.field = q /\ y.from = 0 /\ y.bits = 3 /\ y.at = 5
  <2> HIDE DEF ow, q
  <2> QED
    BY DEF Piece
<1>8. \A i \in DOMAIN B : \A p \in B[i] : p = w \/ p = x \/ p = y
  <2> HIDE DEF w, x, y
  <2> QED
    OBVIOUS
<1> HIDE DEF u, w, x, y, ow, q, B
<1>9. \A i \in DOMAIN B : \A p \in B[i] : Share(p, v) = Share(p, u)
  <2>1. Share(w, v) = Share(w, u) /\ Share(x, v) = Share(x, u) /\ Share(y, v) = Share(y, u)
    BY <1>2, <1>7, Zenon DEF Share
  <2> QED
    BY <1>8, <2>1, Zenon
<1>10. Layout(Crop) /\ Layout(B) /\ Fields(Crop) = {"left", "right", "top", "bottom"}
  BY <1>3, <1>4, Zenon DEF Carried
<1>11. Pack(B, v) = Pack(B, u)
  BY <1>9, <1>10, PackedAlike, Zenon
<1>12. Pack(Crop, v) = Pack(Crop, u)
  <2>1. \A f \in Fields(Crop) : v[f] = u[f]
    BY <1>1, <1>10
  <2> QED
    BY <1>10, <2>1, FieldsAlike, Zenon
<1>13. \A z : Pack(Crop \o B, z) = Pack(Crop, z) \o Pack(B, z)
  <2>1. Layout(Crop)
    BY <1>10
  <2>2. Layout(B)
    BY <1>10
  <2> QED
    BY ONLY <2>1, <2>2, PackJoins
<1>14. Pack(PhotoTransform, v) = Pack(PhotoTransform, u)
  BY <1>6, <1>11, <1>12, <1>13, Zenon
<1>15. u = [f \in F |-> u[f]]
  BY <1>1
<1> QED
  BY <1>5, <1>14, <1>15 DEF u

(* The layout tells everything the ground means by v.                      *)
Tells(L, v) ==
  /\ Pack(L, v) = Pack(L, Clipped(v))
  /\ \E F : Carried(L, Clipped(v), F) /\ Clipped(v) = [f \in F |-> Clipped(v)[f]]

(* Nothing else is clipped.                                                *)
LEMMA Unclipped ==
  ASSUME NEW v, NEW F, DOMAIN v = F, v = [f \in F |-> v[f]], "quality" \notin F, "output_width" \notin F
  PROVE  Clipped(v) = v
<1>1. \A f \in F : f # "quality" /\ f # "output_width"
  BY Zenon
<1> DEFINE g == Clipped(v)
<1>2. DOMAIN g = F /\ g = [f \in F |-> g[f]] /\ \A f \in F : g[f] = v[f]
  BY <1>1 DEF Clipped
<1> HIDE DEF g
<1>3. g = v
  BY <1>2
<1> QED
  BY <1>3 DEF g

(* Each command tells what the ground means by it.                         *)
LEMMA ArmTargetTells == ASSUME NEW v \in Targets PROVE Tells(ArmTarget, v)
<1> DEFINE F == {"shoulder_yaw", "shoulder_pitch", "elbow_pitch", "wrist_pitch"}
<1>1. DOMAIN v = F /\ v = [f \in F |-> v[f]]
      /\ v["shoulder_yaw"] \in Octet
      /\ v["shoulder_pitch"] \in Octet
      /\ v["elbow_pitch"] \in Octet
      /\ v["wrist_pitch"] \in Octet
  BY DEF Targets
<1>2. Clipped(v) = v
  <2>1. "quality" \notin F /\ "output_width" \notin F
    OBVIOUS
  <2> HIDE DEF F
  <2> QED
    BY <1>1, <2>1, Unclipped
<1>3. Carried(ArmTarget, v, F)
  BY <1>1, ArmTargetCarried
<1> HIDE DEF F
<1> QED
  BY <1>1, <1>2, <1>3, Zenon DEF Tells

(* A jog.                                                                  *)
LEMMA MotorJogTells == ASSUME NEW v \in [motor_id : Octet, duration_ticks : Octet, millivolts : Word] PROVE Tells(MotorJog, v)
<1> DEFINE F == {"motor_id", "duration_ticks", "millivolts"}
<1>1. DOMAIN v = F /\ v = [f \in F |-> v[f]]
      /\ v["motor_id"] \in Octet
      /\ v["duration_ticks"] \in Octet
      /\ v["millivolts"] \in Word
  OBVIOUS
<1>2. Clipped(v) = v
  <2>1. "quality" \notin F /\ "output_width" \notin F
    OBVIOUS
  <2> HIDE DEF F
  <2> QED
    BY <1>1, <2>1, Unclipped
<1>3. Carried(MotorJog, v, F)
  BY <1>1, MotorJogCarried
<1> HIDE DEF F
<1> QED
  BY <1>1, <1>2, <1>3, Zenon DEF Tells

(* A servo motion.                                                         *)
LEMMA ServoMotionTells == ASSUME NEW v \in [openness : Octet, open_travel_time : Octet, open_time : Octet,
                 close_travel_time : Octet, closeness : Octet, which_servo : Octet] PROVE Tells(ServoMotion, v)
<1> DEFINE F == {"openness", "open_travel_time", "open_time", "close_travel_time", "closeness", "which_servo"}
<1>1. DOMAIN v = F /\ v = [f \in F |-> v[f]]
      /\ v["openness"] \in Octet
      /\ v["open_travel_time"] \in Octet
      /\ v["open_time"] \in Octet
      /\ v["close_travel_time"] \in Octet
      /\ v["closeness"] \in Octet
      /\ v["which_servo"] \in Octet
  OBVIOUS
<1>2. Clipped(v) = v
  <2>1. "quality" \notin F /\ "output_width" \notin F
    OBVIOUS
  <2> HIDE DEF F
  <2> QED
    BY <1>1, <2>1, Unclipped
<1>3. Carried(ServoMotion, v, F)
  BY <1>1, ServoMotionCarried
<1> HIDE DEF F
<1> QED
  BY <1>1, <1>2, <1>3, Zenon DEF Tells

(* The length of a video.                                                  *)
LEMMA SecondsTells == ASSUME NEW v \in [seconds : Octet] PROVE Tells(Byte("seconds"), v)
<1> DEFINE F == {"seconds"}
<1>1. DOMAIN v = F /\ v = [f \in F |-> v[f]]
      /\ v["seconds"] \in Octet
  OBVIOUS
<1>2. Clipped(v) = v
  <2>1. "quality" \notin F /\ "output_width" \notin F
    OBVIOUS
  <2> HIDE DEF F
  <2> QED
    BY <1>1, <2>1, Unclipped
<1>3. Carried(Byte("seconds"), v, F)
  BY <1>1, ByteCarried DEF Names
<1> HIDE DEF F
<1> QED
  BY <1>1, <1>2, <1>3, Zenon DEF Tells

(* The name of a picture.                                                  *)
LEMMA ImageIdTells == ASSUME NEW v \in [image_id : Octet] PROVE Tells(Byte("image_id"), v)
<1> DEFINE F == {"image_id"}
<1>1. DOMAIN v = F /\ v = [f \in F |-> v[f]]
      /\ v["image_id"] \in Octet
  OBVIOUS
<1>2. Clipped(v) = v
  <2>1. "quality" \notin F /\ "output_width" \notin F
    OBVIOUS
  <2> HIDE DEF F
  <2> QED
    BY <1>1, <2>1, Unclipped
<1>3. Carried(Byte("image_id"), v, F)
  BY <1>1, ByteCarried DEF Names
<1> HIDE DEF F
<1> QED
  BY <1>1, <1>2, <1>3, Zenon DEF Tells

(* The type of telemetry.                                                  *)
LEMMA TelemTypeTells == ASSUME NEW v \in [telem_type : Octet] PROVE Tells(Byte("telem_type"), v)
<1> DEFINE F == {"telem_type"}
<1>1. DOMAIN v = F /\ v = [f \in F |-> v[f]]
      /\ v["telem_type"] \in Octet
  OBVIOUS
<1>2. Clipped(v) = v
  <2>1. "quality" \notin F /\ "output_width" \notin F
    OBVIOUS
  <2> HIDE DEF F
  <2> QED
    BY <1>1, <2>1, Unclipped
<1>3. Carried(Byte("telem_type"), v, F)
  BY <1>1, ByteCarried DEF Names
<1> HIDE DEF F
<1> QED
  BY <1>1, <1>2, <1>3, Zenon DEF Tells

(* A picture to take.                                                      *)
LEMMA PhotoTransformTells == ASSUME NEW v \in Transforms PROVE Tells(PhotoTransform, v)
BY PhotoClipped, Zenon DEF Tells

(* A callsign.                                                             *)
LEMMA CallsignTells ==
  ASSUME NEW v \in [callsign_head : Triple, callsign_tail : Triple] PROVE Tells(Callsign, v)
<1> DEFINE F == {"callsign_head", "callsign_tail"}  L1 == Le("callsign_head", 3)  L2 == Le("callsign_tail", 3)
           F1 == {"callsign_head"}  F2 == {"callsign_tail"}
<1>1. DOMAIN v = F /\ v = [f \in F |-> v[f]] /\ v["callsign_head"] \in Triple /\ v["callsign_tail"] \in Triple
  OBVIOUS
<1>2. Clipped(v) = v
  <2>1. "quality" \notin F /\ "output_width" \notin F
    OBVIOUS
  <2> HIDE DEF F
  <2> QED
    BY <1>1, <2>1, Unclipped
<1>3. Carried(L1, v, F1) /\ Carried(L2, v, F2)
  BY <1>1, Le3Carried DEF Names, Triple
<1>4. F1 \cap F2 = {} /\ F1 \cup F2 = F
  OBVIOUS
<1> HIDE DEF F, F1, F2, L1, L2
<1>5. Carried(L1 \o L2, v, F1 \cup F2)
  BY <1>3, <1>4, CarriedJoins
<1>6. Callsign = L1 \o L2
  BY DEF Callsign, L1, L2
<1> QED
  BY <1>1, <1>2, <1>4, <1>5, <1>6, Zenon DEF Tells

(* A picture to crop again.                                                *)
LEMMA RecropTells == ASSUME NEW v \in Transforms PROVE Tells(Recrop, v)
<1> DEFINE u == Clipped(v)  A == PhotoTransform  B == Skip(1)
<1>1. Tells(A, v)
  BY PhotoTransformTells
<1>2. PICK F : Carried(A, u, F) /\ u = [f \in F |-> u[f]]
  BY <1>1, Zenon DEF Tells
<1>3. \A z : Carried(B, z, {})
  BY SkipCarried
<1> HIDE DEF A, B, u
<1>4. Layout(A) /\ Layout(B) /\ Fields(B) = {} /\ F \cap {} = {} /\ F \cup {} = F
  BY <1>2, <1>3 DEF Carried
<1>5. Carried(A \o B, u, F \cup {})
  BY <1>2, <1>3, <1>4, CarriedJoins, Zenon
<1>6. Pack(B, v) = Pack(B, u)
  <2>1. \A f \in Fields(B) : v[f] = u[f]
    BY <1>4
  <2> QED
    BY <1>4, <2>1, FieldsAlike, Zenon
<1>7. \A z : Pack(A \o B, z) = Pack(A, z) \o Pack(B, z)
  <2>1. Layout(A)
    BY <1>4
  <2>2. Layout(B)
    BY <1>4
  <2> QED
    BY ONLY <2>1, <2>2, PackJoins
<1>8. Pack(A, v) = Pack(A, u)
  BY <1>1, Zenon DEF Tells, u
<1>9. Recrop = A \o B
  BY DEF Recrop, A, B
<1>10. Carried(Recrop, u, F) /\ Pack(Recrop, v) = Pack(Recrop, u)
  BY <1>4, <1>5, <1>6, <1>7, <1>8, <1>9, Zenon
<1> QED
  BY <1>2, <1>10, Zenon DEF Tells, u

(* No layout, no bytes.                                                    *)
LEMMA NothingCarried == ASSUME NEW v PROVE Carried(<<>>, v, {}) /\ Pack(<<>>, v) = <<>>
<1>1. Skip(0) = <<>>
  BY DEF Skip
<1>2. Carried(<<>>, v, {})
  BY <1>1, SkipCarried
<1>3. Pack(<<>>, v) = <<>>
  BY DEF Pack
<1> QED
  BY <1>2, <1>3

(* What the ground sends of a command.                                     *)
LEMMA CommandTells ==
  ASSUME NEW cmd \in DOMAIN Arguments, NEW v \in Arguments[cmd]
  PROVE  IF cmd \in DOMAIN CommandLayouts THEN Tells(CommandLayout(cmd), v) ELSE CommandLayout(cmd) = <<>>
<1>1. CASE cmd \notin DOMAIN CommandLayouts
  BY <1>1 DEF CommandLayout, LayoutIn
<1>2. CASE cmd \in DOMAIN CommandLayouts
  <2>1. DOMAIN CommandLayouts = DOMAIN ArgumentTypes
    BY DEF CommandLayouts, ArgumentTypes
  <2>2. v \in ArgumentTypes[cmd]
    BY <1>2, <2>1, CommsAssumption
  <2>3. CommandLayout(cmd) = CommandLayouts[cmd]
    BY <1>2 DEF CommandLayout, LayoutIn
  <2>4. CASE cmd \in {"SendArmTarget", "SendArmTargetAndComeBack", "SendArmTargetForPhotoAndComeBack", "SendIdlePosition", "SetShoulder"}
    <3>1. ArgumentTypes[cmd] = Targets
      BY <2>4 DEF ArgumentTypes
    <3>2. CommandLayouts[cmd] = ArmTarget
      BY <2>4 DEF CommandLayouts
    <3> QED
      BY <1>2, <2>2, <2>3, <3>1, <3>2, ArmTargetTells, Zenon
  <2>5. CASE cmd = "Callsign"
    <3>1. ArgumentTypes[cmd] = [callsign_head : Triple, callsign_tail : Triple]
      BY <2>5 DEF ArgumentTypes
    <3>2. CommandLayouts[cmd] = Callsign
      BY <2>5 DEF CommandLayouts
    <3> QED
      BY <1>2, <2>2, <2>3, <3>1, <3>2, CallsignTells, Zenon
  <2>6. CASE cmd = "StartVideo"
    <3>1. ArgumentTypes[cmd] = [seconds : Octet]
      BY <2>6 DEF ArgumentTypes
    <3>2. CommandLayouts[cmd] = Byte("seconds")
      BY <2>6 DEF CommandLayouts
    <3> QED
      BY <1>2, <2>2, <2>3, <3>1, <3>2, SecondsTells, Zenon
  <2>7. CASE cmd = "TakePicture"
    <3>1. ArgumentTypes[cmd] = Transforms
      BY <2>7 DEF ArgumentTypes
    <3>2. CommandLayouts[cmd] = PhotoTransform
      BY <2>7 DEF CommandLayouts
    <3> QED
      BY <1>2, <2>2, <2>3, <3>1, <3>2, PhotoTransformTells, Zenon
  <2>8. CASE cmd = "ImageMetadata"
    <3>1. ArgumentTypes[cmd] = [image_id : Octet]
      BY <2>8 DEF ArgumentTypes
    <3>2. CommandLayouts[cmd] = Byte("image_id")
      BY <2>8 DEF CommandLayouts
    <3> QED
      BY <1>2, <2>2, <2>3, <3>1, <3>2, ImageIdTells, Zenon
  <2>9. CASE cmd = "ReCrop"
    <3>1. ArgumentTypes[cmd] = Transforms
      BY <2>9 DEF ArgumentTypes
    <3>2. CommandLayouts[cmd] = Recrop
      BY <2>9 DEF CommandLayouts
    <3> QED
      BY <1>2, <2>2, <2>3, <3>1, <3>2, RecropTells, Zenon
  <2>10. CASE cmd = "JogMotor"
    <3>1. ArgumentTypes[cmd] = [motor_id : Octet, duration_ticks : Octet, millivolts : Word]
      BY <2>10 DEF ArgumentTypes
    <3>2. CommandLayouts[cmd] = MotorJog
      BY <2>10 DEF CommandLayouts
    <3> QED
      BY <1>2, <2>2, <2>3, <3>1, <3>2, MotorJogTells, Zenon
  <2>11. CASE cmd = "MoveServo"
    <3>1. ArgumentTypes[cmd] = [openness : Octet, open_travel_time : Octet, open_time : Octet,
                               close_travel_time : Octet, closeness : Octet, which_servo : Octet]
      BY <2>11 DEF ArgumentTypes
    <3>2. CommandLayouts[cmd] = ServoMotion
      BY <2>11 DEF CommandLayouts
    <3> QED
      BY <1>2, <2>2, <2>3, <3>1, <3>2, ServoMotionTells, Zenon
  <2>12. CASE cmd = "TelemetryRequest"
    <3>1. ArgumentTypes[cmd] = [telem_type : Octet]
      BY <2>12 DEF ArgumentTypes
    <3>2. CommandLayouts[cmd] = Byte("telem_type")
      BY <2>12 DEF CommandLayouts
    <3> QED
      BY <1>2, <2>2, <2>3, <3>1, <3>2, TelemTypeTells, Zenon
  <2>13. DOMAIN CommandLayouts = {"SendArmTarget", "SendArmTargetAndComeBack", "SendArmTargetForPhotoAndComeBack", "SendIdlePosition", "SetShoulder",
         "Callsign",
         "StartVideo",
         "TakePicture",
         "ImageMetadata",
         "ReCrop",
         "JogMotor",
         "MoveServo",
         "TelemetryRequest"}
    BY DEF CommandLayouts
  <2> QED
    BY <1>2, <2>4, <2>5, <2>6, <2>7, <2>8, <2>9, <2>10, <2>11, <2>12, <2>13
<1> QED
  BY <1>1, <1>2

(* The code of a command names it.                                         *)
LEMMA CodeIs ==
  ASSUME NEW cmd \in Range(Commands)
  PROVE  Len(Commands) = 24 /\ Code(cmd) \in 0..23 /\ Commands[Code(cmd) + 1] = cmd
<1> DEFINE i == CHOOSE k \in DOMAIN Commands : Commands[k] = cmd
<1>1. Len(Commands) = 24 /\ DOMAIN Commands = 1..24
  BY DEF Commands
<1>2. \E k \in DOMAIN Commands : Commands[k] = cmd
  BY Zenon DEF Range
<1>3. i \in DOMAIN Commands /\ Commands[i] = cmd
  BY <1>2, Zenon
<1>4. Code(cmd) = i - 1
  BY Zenon DEF Code
<1> HIDE DEF i
<1>5. Code(cmd) \in 0..23 /\ Code(cmd) + 1 = i
  BY <1>1, <1>3, <1>4
<1> QED
  BY <1>1, <1>3, <1>5, Zenon

(* A byte before others.                                                   *)
LEMMA Prefixed ==
  ASSUME NEW T, NEW a \in T, NEW s \in Seq(T)
  PROVE  /\ <<a>> \o s \in Seq(T) /\ Len(<<a>> \o s) = Len(s) + 1 /\ Len(s) \in Nat
         /\ (<<a>> \o s)[1] = a /\ Tail(<<a>> \o s) = s
         /\ \A i \in 1..Len(s) : (<<a>> \o s)[1 + i] = s[i]
<1> DEFINE t == <<a>> \o s
<1>0. <<a>> \in Seq(T) /\ Len(<<a>>) = 1 /\ <<a>>[1] = a
  OBVIOUS
<1>1. /\ Len(s) \in Nat /\ Len(t) = 1 + Len(s) /\ t \in Seq(T)
      /\ \A i \in 1..1 : t[i] = <<a>>[i]
      /\ \A i \in 1..Len(s) : t[1 + i] = s[i]
  <2>1. s \in Seq(T)
    OBVIOUS
  <2> DEFINE p == <<a>>
  <2>2. p \in Seq(T)
    BY <1>0
  <2>4. Len(p) = 1
    BY <1>0
  <2> HIDE DEF p
  <2>3. /\ Len(s) \in Nat /\ Len(p \o s) = Len(p) + Len(s) /\ p \o s \in Seq(T)
        /\ \A i \in 1..Len(p) : (p \o s)[i] = p[i] /\ p[i] \in T
        /\ \A i \in 1..Len(s) : (p \o s)[Len(p) + i] = s[i] /\ s[i] \in T
    BY ONLY <2>1, <2>2, JoinIs
  <2> QED
    BY <2>4, <2>3 DEF p
<1> HIDE DEF t
<1>2. t[1] = a
  BY <1>0, <1>1
<1>3. Tail(t) \in Seq(T) /\ Len(Tail(t)) = Len(s) /\ \A i \in 1..Len(s) : Tail(t)[i] = s[i]
  BY <1>1
<1>4. Tail(t) = s
  BY <1>3
<1> QED
  BY <1>1, <1>2, <1>4 DEF t

(* The start of a list with one more before it.                            *)
LEMMA CutPrefixed ==
  ASSUME NEW T, NEW a \in T, NEW s \in Seq(T), NEW n \in 1..(Len(s) + 1)
  PROVE  SubSeq(<<a>> \o s, 1, n) = <<a>> \o SubSeq(s, 1, n - 1) /\ SubSeq(s, 1, n - 1) \in Seq(T)
         /\ Len(SubSeq(s, 1, n - 1)) = n - 1
<1> DEFINE t == <<a>> \o s  u == SubSeq(s, 1, n - 1)  w == <<a>> \o u  x == SubSeq(t, 1, n)
<1>1. t \in Seq(T) /\ Len(t) = Len(s) + 1 /\ Len(s) \in Nat /\ t[1] = a /\ \A i \in 1..Len(s) : t[1 + i] = s[i]
  BY Prefixed
<1>2. u \in Seq(T) /\ Len(u) = n - 1 /\ \A i \in 1..(n - 1) : u[i] = s[i]
  <2>1. n - 1 \in 0..Len(s) /\ 1 \in Nat \ {0} /\ 1 <= (n - 1) + 1
    BY <1>1
  <2> DEFINE k == n - 1
  <2>2. k \in 0..Len(s) /\ 1 <= k + 1
    BY <2>1
  <2> HIDE DEF k
  <2>3. /\ SubSeq(s, 1, k) \in Seq(T) /\ Len(SubSeq(s, 1, k)) = k - 1 + 1
        /\ \A i \in 1..(k - 1 + 1) : SubSeq(s, 1, k)[i] = s[1 + i - 1]
    BY <2>2, PartIs
  <2> QED
    BY <2>1, <2>3 DEF k
<1>3. x \in Seq(T) /\ Len(x) = n /\ \A i \in 1..n : x[i] = t[i]
  <2>1. t \in Seq(T) /\ n \in 0..Len(t) /\ 1 <= n + 1
    BY <1>1
  <2> HIDE DEF t
  <2>2. /\ SubSeq(t, 1, n) \in Seq(T) /\ Len(SubSeq(t, 1, n)) = n - 1 + 1
        /\ \A i \in 1..(n - 1 + 1) : SubSeq(t, 1, n)[i] = t[1 + i - 1]
    BY <2>1, PartIs
  <2> QED
    BY <2>2
<1> HIDE DEF t, u, x
<1>4. w \in Seq(T) /\ Len(w) = n /\ w[1] = a /\ \A i \in 1..(n - 1) : w[1 + i] = u[i]
  BY <1>2, Prefixed
<1> HIDE DEF w
<1>5. \A i \in 1..(n - 1) : w[1 + i] = u[i] /\ t[1 + i] = s[i] /\ u[i] = s[i]
  BY <1>1, <1>2, <1>4
<1>6. ASSUME NEW i \in 1..n PROVE w[i] = x[i]
  <2>1. CASE i = 1
    BY <2>1, <1>1, <1>3, <1>4
  <2>2. CASE i # 1
    <3> DEFINE j == i - 1
    <3>1. j \in 1..(n - 1) /\ i = 1 + j
      BY <2>2
    <3> HIDE DEF j
    <3> QED
      BY <3>1, <1>3, <1>5
  <2> QED
    BY <2>1, <2>2
<1>7. w = x
  BY <1>3, <1>4, <1>6
<1> QED
  BY <1>2, <1>7 DEF w, x, t, u

(* The bytes of a command, and what they are unpacked to.                  *)
LEMMA CommandBody ==
  ASSUME NEW cmd \in DOMAIN Arguments, NEW v \in Arguments[cmd]
  PROVE  /\ Pack(CommandLayout(cmd), v) \in Seq(Octet)
         /\ Len(Pack(CommandLayout(cmd), v)) = Len(CommandLayout(cmd))
         /\ cmd \in DOMAIN CommandLayouts =>
              \A stray : Unpack(CommandLayout(cmd), Pack(CommandLayout(cmd), v), stray) = Clipped(v)
<1> DEFINE L == CommandLayout(cmd)  s == Pack(L, v)  u == Clipped(v)
<1>1. CASE cmd \in DOMAIN CommandLayouts
  <2>1. Tells(L, v)
    BY <1>1, CommandTells
  <2> HIDE DEF L, u
  <2>2. PICK F : s = Pack(L, u) /\ Carried(L, u, F) /\ u = [f \in F |-> u[f]]
    BY <2>1, Zenon DEF Tells, u
  <2>3. s \in Seq(Octet) /\ Len(s) = Len(L)
    BY <2>2 DEF Carried
  <2>4. ASSUME NEW stray PROVE Unpack(L, s, stray) = u
    <3>1. <<>> \in Seq(Octet)
      OBVIOUS
    <3> DEFINE w == <<>>
    <3>4. Carried(L, u, F)
      BY <2>2
    <3>5. w \in Seq(Octet)
      BY <3>1
    <3> HIDE DEF w
    <3>6. Unpack(L, Pack(L, u) \o w, stray) = [f \in F |-> u[f]]
      BY ONLY <3>4, <3>5, UnpackIs
    <3>2. Unpack(L, Pack(L, u) \o <<>>, stray) = [f \in F |-> u[f]]
      BY <3>6 DEF w
    <3>3. s \o <<>> = s
      <4> HIDE DEF s
      <4> QED
        BY <2>3
    <3> QED
      BY <2>2, <3>2, <3>3, Zenon
  <2>5. \A stray : Unpack(L, s, stray) = u
    BY <2>4, Zenon
  <2> QED
    BY <2>3, <2>5, Zenon DEF L, u
<1>2. CASE cmd \notin DOMAIN CommandLayouts
  <2>1. L = <<>>
    BY <1>2, CommandTells
  <2>2. s = <<>>
    BY <2>1, NothingCarried
  <2>3. s \in Seq(Octet) /\ Len(s) = Len(L)
    <3> HIDE DEF s, L
    <3> QED
      BY <2>1, <2>2
  <2> QED
    BY <1>2, <2>3, Zenon
<1> QED
  BY <1>1, <1>2, Zenon

(* Commands are unpacked by the layout they were packed by.                *)
LEMMA SameLayouts ==
  ASSUME NEW cmd, cmd # "ReCrop" PROVE UnpackedCommandLayout(cmd) = CommandLayout(cmd)
<1>1. /\ UnpackedArmTarget = ArmTarget /\ UnpackedPhotoTransform = PhotoTransform
      /\ UnpackedServoMotion = ServoMotion /\ UnpackedMotorJog = MotorJog
  BY Zenon DEF ArmTarget, UnpackedArmTarget, PhotoTransform, UnpackedPhotoTransform, ServoMotion,
               UnpackedServoMotion, MotorJog, UnpackedMotorJog
<1>2. DOMAIN CommandLayouts = DOMAIN UnpackedCommandLayouts \cup {"ReCrop"}
  BY DEF CommandLayouts, UnpackedCommandLayouts
<1>3. \A c \in DOMAIN UnpackedCommandLayouts : UnpackedCommandLayouts[c] = CommandLayouts[c]
  BY <1>1 DEF CommandLayouts, UnpackedCommandLayouts
<1> QED
  BY <1>2, <1>3, Zenon DEF UnpackedCommandLayout, CommandLayout, LayoutIn

(* A layout has as many bytes as its parts.                                *)
LEMMA Lengths == Len(MotorJog) = 4 /\ Len(ServoMotion) = 6
<1> DEFINE T == SUBSET Pieces  o == [f \in Names |-> 0]  b1 == Byte("motor_id")  b2 == Byte("duration_ticks")
           w3 == Le("millivolts", 2)
           s1 == Byte("openness")  s2 == Byte("open_travel_time")  s3 == Byte("open_time")
           s4 == Byte("close_travel_time")  s5 == Byte("closeness")  s6 == Byte("which_servo")
<1>1. ASSUME NEW f \in Names PROVE Byte(f) \in Seq(T) /\ Len(Byte(f)) = 1
  <2>1. o[f] \in Octet
    BY DEF Octet
  <2> HIDE DEF o
  <2>2. Carried(Byte(f), o, {f})
    BY <2>1, ByteCarried
  <2> QED
    BY <2>2 DEF Carried, Layout, Byte
<1>2. w3 \in Seq(T) /\ Len(w3) = 2
  <2>1. o["millivolts"] \in Word /\ "millivolts" \in Names
    BY DEF Word, Names
  <2> HIDE DEF o
  <2>2. Carried(w3, o, {"millivolts"})
    BY <2>1, Le2Carried
  <2> QED
    BY <2>2 DEF Carried, Layout, Le
<1>3. \A a \in Seq(T), b \in Seq(T) : Len(a \o b) = Len(a) + Len(b) /\ a \o b \in Seq(T)
  <2> HIDE DEF T
  <2> QED
    BY JoinIs
<1>4. \A f \in {"motor_id", "duration_ticks", "openness", "open_travel_time", "open_time",
               "close_travel_time", "closeness", "which_servo"} : f \in Names
  BY DEF Names
<1>5. b1 \in Seq(T) /\ Len(b1) = 1 /\ b2 \in Seq(T) /\ Len(b2) = 1
  BY <1>1, <1>4
<1>6. /\ s1 \in Seq(T) /\ Len(s1) = 1 /\ s2 \in Seq(T) /\ Len(s2) = 1 /\ s3 \in Seq(T) /\ Len(s3) = 1
      /\ s4 \in Seq(T) /\ Len(s4) = 1 /\ s5 \in Seq(T) /\ Len(s5) = 1 /\ s6 \in Seq(T) /\ Len(s6) = 1
  BY <1>1, <1>4
<1>7. MotorJog = b1 \o b2 \o w3 /\ ServoMotion = s1 \o s2 \o s3 \o s4 \o s5 \o s6
  BY Zenon DEF MotorJog, ServoMotion
<1> HIDE DEF T, b1, b2, w3, s1, s2, s3, s4, s5, s6
<1>8. Len(b1 \o b2) = 2 /\ b1 \o b2 \in Seq(T)
  <2>1. Len(b1 \o b2) = Len(b1) + Len(b2) /\ b1 \o b2 \in Seq(T)
    BY <1>3, <1>5, Zenon
  <2>2. Len(b1) = 1 /\ Len(b2) = 1
    BY <1>5
  <2> QED
    BY <2>1, <2>2
<1>9. Len(b1 \o b2 \o w3) = 4 /\ b1 \o b2 \o w3 \in Seq(T)
  <2>1. Len(b1 \o b2 \o w3) = Len(b1 \o b2) + Len(w3) /\ b1 \o b2 \o w3 \in Seq(T)
    BY <1>3, <1>2, <1>8, Zenon
  <2>2. Len(b1 \o b2) = 2 /\ Len(w3) = 2
    BY <1>2, <1>8
  <2> QED
    BY <2>1, <2>2
<1>10. Len(s1 \o s2) = 2 /\ s1 \o s2 \in Seq(T)
  <2>1. Len(s1 \o s2) = Len(s1) + Len(s2) /\ s1 \o s2 \in Seq(T)
    BY <1>3, <1>6, Zenon
  <2>2. Len(s1) = 1 /\ Len(s2) = 1
    BY <1>6
  <2> QED
    BY <2>1, <2>2
<1>11. Len(s1 \o s2 \o s3) = 3 /\ s1 \o s2 \o s3 \in Seq(T)
  <2>1. Len(s1 \o s2 \o s3) = Len(s1 \o s2) + Len(s3) /\ s1 \o s2 \o s3 \in Seq(T)
    BY <1>3, <1>6, <1>10, Zenon
  <2>2. Len(s1 \o s2) = 2 /\ Len(s3) = 1
    BY <1>6, <1>10
  <2> QED
    BY <2>1, <2>2
<1>12. Len(s1 \o s2 \o s3 \o s4) = 4 /\ s1 \o s2 \o s3 \o s4 \in Seq(T)
  <2>1. Len(s1 \o s2 \o s3 \o s4) = Len(s1 \o s2 \o s3) + Len(s4) /\ s1 \o s2 \o s3 \o s4 \in Seq(T)
    BY <1>3, <1>6, <1>11, Zenon
  <2>2. Len(s1 \o s2 \o s3) = 3 /\ Len(s4) = 1
    BY <1>6, <1>11
  <2> QED
    BY <2>1, <2>2
<1>13. Len(s1 \o s2 \o s3 \o s4 \o s5) = 5 /\ s1 \o s2 \o s3 \o s4 \o s5 \in Seq(T)
  <2>1. Len(s1 \o s2 \o s3 \o s4 \o s5) = Len(s1 \o s2 \o s3 \o s4) + Len(s5) /\ s1 \o s2 \o s3 \o s4 \o s5 \in Seq(T)
    BY <1>3, <1>6, <1>12, Zenon
  <2>2. Len(s1 \o s2 \o s3 \o s4) = 4 /\ Len(s5) = 1
    BY <1>6, <1>12
  <2> QED
    BY <2>1, <2>2
<1>14. Len(s1 \o s2 \o s3 \o s4 \o s5 \o s6) = 6 /\ s1 \o s2 \o s3 \o s4 \o s5 \o s6 \in Seq(T)
  <2>1. Len(s1 \o s2 \o s3 \o s4 \o s5 \o s6) = Len(s1 \o s2 \o s3 \o s4 \o s5) + Len(s6) /\ s1 \o s2 \o s3 \o s4 \o s5 \o s6 \in Seq(T)
    BY <1>3, <1>6, <1>13, Zenon
  <2>2. Len(s1 \o s2 \o s3 \o s4 \o s5) = 5 /\ Len(s6) = 1
    BY <1>6, <1>13
  <2> QED
    BY <2>1, <2>2
<1> QED
  BY <1>7, <1>9, <1>14

(* The bytes asked for are all of a command, but for two commands.         *)
LEMMA EnoughIsNeeded ==
  ASSUME NEW cmd \in DOMAIN Arguments, NEW v \in Arguments[cmd], cmd # "ReCrop"
  PROVE  /\ Needed(cmd) \in Nat /\ Needed(cmd) <= Len(CommandLayout(cmd))
         /\ cmd \notin {"MoveServo", "Callsign"} => Needed(cmd) = Len(CommandLayout(cmd))
<1>0. UnpackedCommandLayout(cmd) = CommandLayout(cmd)
  BY SameLayouts
<1>1. cmd = "MoveServo" => Needed(cmd) = 4 /\ Len(UnpackedCommandLayout(cmd)) = 6
  <2>1. UnpackedMotorJog = MotorJog /\ UnpackedServoMotion = ServoMotion
    BY Zenon DEF ServoMotion, UnpackedServoMotion, MotorJog, UnpackedMotorJog
  <2>2. UnpackedCommandLayout("MoveServo") = UnpackedServoMotion
    BY DEF UnpackedCommandLayout, LayoutIn, UnpackedCommandLayouts
  <2> QED
    BY <2>1, <2>2, Lengths DEF Needed
<1>2. Len(CommandLayout(cmd)) \in Nat
  <2> DEFINE s == Pack(CommandLayout(cmd), v)
  <2>1. s \in Seq(Octet) /\ Len(s) = Len(CommandLayout(cmd))
    BY CommandBody
  <2> HIDE DEF s
  <2>2. Len(s) \in Nat
    BY <2>1
  <2> QED
    BY <2>1, <2>2
<1>3. cmd = "Callsign" => Needed(cmd) = 0
  BY DEF Needed
<1>4. cmd \notin {"MoveServo", "Callsign"} => Needed(cmd) = Len(UnpackedCommandLayout(cmd))
  BY DEF Needed
<1> DEFINE l == Len(CommandLayout(cmd))  n == Needed(cmd)
<1>5. l \in Nat /\ (cmd = "MoveServo" => n = 4 /\ l = 6) /\ (cmd = "Callsign" => n = 0)
      /\ (cmd \notin {"MoveServo", "Callsign"} => n = l)
  BY <1>0, <1>1, <1>2, <1>3, <1>4
<1> HIDE DEF l, n
<1>6. n \in Nat /\ n <= l /\ (cmd \notin {"MoveServo", "Callsign"} => n = l)
  BY <1>5
<1> QED
  BY <1>6 DEF l, n

(* A command that arrives whole is read as it was meant.                   *)
LEMMA WholeCommand ==
  ASSUME NEW cmd \in DOMAIN Arguments, NEW v \in Arguments[cmd], NEW stray, NEW r,
         r = UnpackCommand(PackCommand(cmd, v), stray), cmd \notin Unhandled
  PROVE  r.res = "AllGood" /\ r.command = cmd /\ Args(cmd, r.data) = Args(cmd, Clipped(v))
<1> DEFINE L == CommandLayout(cmd)  s == Pack(L, v)  c == Code(cmd)  n == Needed(cmd)  b == <<c>> \o s
           k == Len(Commands)
<1>1. cmd \in Range(Commands) /\ cmd # "ReCrop"
  BY CommsAssumption DEF Unhandled
<1>2. k = 24 /\ c \in 0..23 /\ Commands[c + 1] = cmd
  BY <1>1, CodeIs
<1>3. c \in Octet
  BY <1>2 DEF Octet
<1>4. s \in Seq(Octet) /\ Len(s) = Len(L)
  BY CommandBody
<1>5. UnpackedCommandLayout(cmd) = L
  BY <1>1, SameLayouts
<1>6. n \in Nat /\ n <= Len(L)
  BY <1>1, EnoughIsNeeded
<1>7. PackCommand(cmd, v) = b
  BY Zenon DEF PackCommand
<1> DEFINE d == Unpack(L, s, stray)
<1>8. cmd \in DOMAIN CommandLayouts => d = Clipped(v)
  BY CommandBody, Zenon
<1> HIDE DEF c, n, L, s, d, k
<1>9. Len(b) = Len(s) + 1 /\ Len(s) \in Nat /\ b[1] = c /\ Tail(b) = s
  BY <1>3, <1>4, Prefixed
<1> HIDE DEF b
<1>10. ~(Len(b) < 1) /\ ~(b[1] >= k) /\ Commands[b[1] + 1] = cmd /\ ~(Len(Tail(b)) < n)
  BY <1>2, <1>4, <1>6, <1>9
<1>11. r = [command |-> cmd, res |-> "AllGood", data |-> d]
  <2>1. r = Command(cmd, Unpacked(UnpackedCommandLayout(cmd), Needed(cmd), Tail(b), stray))
    BY <1>1, <1>7, <1>10, Zenon DEF UnpackCommand, k
  <2>2. Unpacked(UnpackedCommandLayout(cmd), Needed(cmd), Tail(b), stray) = [res |-> "AllGood", data |-> d]
    BY <1>5, <1>9, <1>10, Zenon DEF Unpacked, n, d
  <2> DEFINE q == Unpacked(UnpackedCommandLayout(cmd), Needed(cmd), Tail(b), stray)
  <2>3. r = Command(cmd, q) /\ q = [res |-> "AllGood", data |-> d]
    BY <2>1, <2>2, Zenon
  <2> HIDE DEF q
  <2> QED
    BY <2>3 DEF Command
<1>12. cmd \notin DOMAIN CommandLayouts => Args(cmd, d) = NoData /\ Args(cmd, Clipped(v)) = NoData
  <2>1. cmd \notin DOMAIN CommandLayouts =>
           cmd \in DOMAIN StateCommands \cup {"StartVideo", "StopVideo", "Restart", "NewFlightDanger"} /\ cmd # "JogMotor"
    <3>1. \E i \in 1..24 : Commands[i] = cmd
      BY <1>2
    <3>2. DOMAIN CommandLayouts = {"SendArmTarget", "SendArmTargetAndComeBack", "SendArmTargetForPhotoAndComeBack",
            "SendIdlePosition", "SetShoulder", "Callsign", "StartVideo", "TakePicture", "ImageMetadata", "ReCrop",
            "JogMotor", "MoveServo", "TelemetryRequest"}
      BY DEF CommandLayouts
    <3>3. DOMAIN StateCommands = {"ForceManual", "ForceFlight", "ExpectFlight", "BackToPad", "StartAutoFlipping",
            "UnfoldArm", "Panorama"}
      BY DEF StateCommands
    <3>4. cmd \in {"ForceManual", "ForceFlight", "ExpectFlight", "BackToPad", "StartAutoFlipping", "UnfoldArm",
  "Panorama", "StartVideo", "StopVideo", "TakePicture", "ImageMetadata", "ReCrop", "SendArmTarget",
  "SendArmTargetAndComeBack", "SendArmTargetForPhotoAndComeBack", "SendIdlePosition", "SetShoulder",
  "JogMotor", "MoveServo", "NewFlightDanger", "Restart", "Reboot", "TelemetryRequest", "Callsign"}
      BY <3>1 DEF Commands
    <3> QED
      BY <3>2, <3>3, <3>4 DEF Unhandled
  <2> QED
    BY <2>1, Zenon DEF Args
<1>13. Args(cmd, d) = Args(cmd, Clipped(v))
  BY <1>8, <1>12, Zenon
<1>14. r.res = "AllGood" /\ r.command = cmd /\ r.data = d
  BY <1>11
<1> QED
  BY <1>13, <1>14, Zenon

(* One whose end is missing is refused, or ignored; but a servo motion.    *)
LEMMA CutCommand ==
  ASSUME NEW cmd \in DOMAIN Arguments, NEW v \in Arguments[cmd], NEW stray, NEW r,
         NEW m \in 0..(Len(PackCommand(cmd, v)) - 1),
         r = UnpackCommand(SubSeq(PackCommand(cmd, v), 1, m), stray)
  PROVE  r.res = "AllGood" => r.command = cmd /\ cmd \in Unhandled \cup {"MoveServo"}
<1> DEFINE L == CommandLayout(cmd)  s == Pack(L, v)  c == Code(cmd)  n == Needed(cmd)  b == <<c>> \o s
           k == Len(Commands)
<1>1. cmd \in Range(Commands)
  BY CommsAssumption
<1>2. k = 24 /\ c \in 0..23 /\ Commands[c + 1] = cmd
  BY <1>1, CodeIs
<1>3. c \in Octet
  BY <1>2 DEF Octet
<1>4. s \in Seq(Octet) /\ Len(s) = Len(L)
  BY CommandBody
<1>5. cmd # "ReCrop" => UnpackedCommandLayout(cmd) = L
  BY SameLayouts
<1>6. cmd \notin {"ReCrop", "MoveServo", "Callsign"} => n = Len(L)
  BY EnoughIsNeeded
<1>7. PackCommand(cmd, v) = b
  BY Zenon DEF PackCommand
<1> HIDE DEF c, n, L, s, k
<1>8. Len(b) = Len(s) + 1 /\ Len(s) \in Nat /\ b \in Seq(Octet)
  BY <1>3, <1>4, Prefixed
<1>9. m \in 0..Len(s)
  BY <1>7, <1>8
<1> DEFINE e == SubSeq(b, 1, m)
<1>10. CASE m = 0
  <2>1. e = <<>>
    BY <1>10
  <2>2. Len(e) < 1
    BY <2>1
  <2> HIDE DEF e
  <2>3. r = Command("Callsign", Refused("NoCommand"))
    BY <2>2, <1>7, Zenon DEF UnpackCommand, e
  <2> QED
    BY <2>3 DEF Command, Refused
<1>11. CASE m \in 1..Len(s)
  <2> DEFINE u == SubSeq(s, 1, m - 1)
  <2>1. m \in 1..(Len(s) + 1)
    BY <1>11, <1>8
  <2>2. e = <<c>> \o u /\ u \in Seq(Octet) /\ Len(u) = m - 1
    BY <1>3, <1>4, <2>1, CutPrefixed
  <2> HIDE DEF u, e
  <2>3. Len(<<c>> \o u) = Len(u) + 1 /\ (<<c>> \o u)[1] = c /\ Tail(<<c>> \o u) = u
    BY <1>3, <2>2, Prefixed
  <2>4. Len(e) = m /\ e[1] = c /\ Tail(e) = u
    BY <2>1, <2>2, <2>3
  <2>5. ~(Len(e) < 1) /\ ~(e[1] >= k) /\ Commands[e[1] + 1] = cmd /\ Len(Tail(e)) < Len(L)
    BY <1>2, <1>4, <1>8, <1>11, <2>2, <2>4
  <2>6. CASE cmd = "ReCrop"
    <3>1. r = Command(cmd, Refused("Unimplemented"))
      BY <1>7, <2>5, <2>6, Zenon DEF UnpackCommand, k, e
    <3> QED
      BY <3>1 DEF Command, Refused
  <2>7. CASE cmd # "ReCrop"
    <3> DEFINE q == Unpacked(UnpackedCommandLayout(cmd), Needed(cmd), Tail(e), stray)
    <3>1. r = Command(cmd, q)
      BY <1>7, <2>5, <2>7, Zenon DEF UnpackCommand, k, e
    <3>2. r.res = q.res /\ r.command = cmd
      <4> HIDE DEF q
      <4> QED
        BY <3>1 DEF Command
    <3>3. cmd \notin {"MoveServo", "Callsign"} => q = Refused("TooShort")
      BY <1>6, <2>5, <2>7, Zenon DEF Unpacked, n
    <3>4. cmd \notin {"MoveServo", "Callsign"} => q.res = "TooShort"
      <4> HIDE DEF q
      <4> QED
        BY <3>3 DEF Refused
    <3> QED
      BY <3>2, <3>4 DEF Unhandled
  <2> QED
    BY <2>6, <2>7
<1> QED
  BY <1>8, <1>9, <1>10, <1>11

(* The smaller of two.                                                     *)
LEMMA MinOfTwo ==
  ASSUME NEW a \in Nat, NEW b \in Nat
  PROVE  Min({a, b}) = IF a > b THEN b ELSE a
<1> DEFINE c == IF a > b THEN b ELSE a
<1>1. c \in {a, b} /\ \A y \in {a, b} : c <= y
  OBVIOUS
<1>2. Min({a, b}) \in {a, b} /\ \A y \in {a, b} : Min({a, b}) <= y
  <2>1. \E x \in {a, b} : \A y \in {a, b} : x <= y
    BY <1>1
  <2> HIDE DEF c
  <2> QED
    BY <2>1, Zenon DEF Min
<1> DEFINE d == Min({a, b})
<1> HIDE DEF d
<1>3. d \in {a, b} /\ \A y \in {a, b} : d <= y
  BY <1>2 DEF d
<1>4. d = c
  BY <1>1, <1>3
<1> QED
  BY <1>4 DEF d

(* A word of a low and a high byte.                                        *)
LEMMA WordBytes ==
  ASSUME NEW w \in Word
  PROVE  w % 256 \in Octet /\ w \div 256 \in Octet /\ (w % 256) + 256 * (w \div 256) = w
BY DEF Word, Octet

(* How many blocks a request names, and its bytes.                         *)
Named(r) == IF r.num > MaxBlocksPerRequest THEN MaxBlocksPerRequest ELSE r.num

Spelled(b, n, id, ids) ==
  /\ n \in 0..60 /\ n <= Len(ids)
  /\ b \in Seq(Octet) /\ Len(b) = 2 * n + 2 /\ b[1] = id /\ b[2] = n
  /\ \A i \in 1..n : b[2 * i + 1] + 256 * b[2 * i + 2] = ids[i]

(* The bytes of a request.                                                 *)
LEMMA RequestBytes ==
  ASSUME NEW r \in Requests
  PROVE  /\ Spelled(PackBlockRequest(r), Named(r), r.image_id, r.block_ids)
         /\ Named(r) = Min({r.num, MaxBlocksPerRequest})
<1> DEFINE b == PackBlockRequest(r)  n == Named(r)  s == r.block_ids  h == <<r.image_id, n>>
           t == [i \in 1..2 * n |-> IF i % 2 = 1 THEN s[(i + 1) \div 2] % 256 ELSE s[(i + 1) \div 2] \div 256]
<1>1. r.image_id \in Octet /\ r.num \in Octet /\ s \in Seq(Word)
  BY CommsAssumption DEF BlockRequests
<1>2. n \in 0..60 /\ n = Min({r.num, MaxBlocksPerRequest})
  <2>1. r.num \in Nat /\ MaxBlocksPerRequest \in Nat
    BY <1>1, OctetIsNat DEF MaxBlocksPerRequest
  <2>2. Min({r.num, MaxBlocksPerRequest}) = Named(r)
    BY <2>1, MinOfTwo, Zenon DEF Named
  <2> QED
    BY <2>1, <2>2 DEF Named, MaxBlocksPerRequest
<1>3. n <= Len(s)
  <2>1. Len(s) >= Min({r.num, MaxBlocksPerRequest})
    BY CommsAssumption, Zenon
  <2> HIDE DEF n, s
  <2> QED
    BY <1>1, <1>2, <2>1
<1>4. b = h \o t
  BY Zenon DEF PackBlockRequest, Named
<1> HIDE DEF n, s, b
<1>5. h \in Seq(Octet) /\ Len(h) = 2 /\ h[1] = r.image_id /\ h[2] = n
  BY <1>1, <1>2 DEF Octet
<1>6. ASSUME NEW i \in 1..2 * n
      PROVE  t[i] \in Octet
  <2> DEFINE k == (i + 1) \div 2
  <2>1. k \in 1..Len(s)
    BY <1>1, <1>2, <1>3
  <2>2. s[k] \in Word
    BY <1>1, <2>1
  <2>3. t[i] = IF i % 2 = 1 THEN s[k] % 256 ELSE s[k] \div 256
    OBVIOUS
  <2> HIDE DEF k, t
  <2> QED
    BY <2>2, <2>3, WordBytes
<1>7. ASSUME NEW i \in 1..n
      PROVE  /\ 2 * i - 1 \in 1..2 * n /\ 2 * i \in 1..2 * n
             /\ t[2 * i - 1] = s[i] % 256 /\ t[2 * i] = s[i] \div 256 /\ s[i] \in Word
  <2>1. /\ 2 * i - 1 \in 1..2 * n /\ (2 * i - 1) % 2 = 1 /\ (2 * i - 1 + 1) \div 2 = i
        /\ 2 * i \in 1..2 * n /\ (2 * i) % 2 # 1 /\ (2 * i + 1) \div 2 = i
    BY <1>2
  <2>2. s[i] \in Word
    BY <1>1, <1>2, <1>3
  <2> QED
    BY <2>1, <2>2
<1>8. t \in Seq(Octet) /\ Len(t) = 2 * n
  <2>3. 2 * n \in Nat
    BY <1>2
  <2>1. 2 * n \in Nat /\ t \in [1..2 * n -> Octet]
    BY <2>3, <1>6, Zenon
  <2> DEFINE k == 2 * n
  <2> HIDE DEF k, t
  <2>2. t \in Seq(Octet) /\ Len(t) = k
    BY <2>1, ListIsSeq DEF k
  <2> QED
    BY <2>2 DEF k
<1> HIDE DEF h, t
<1>9. /\ Len(h \o t) = Len(h) + Len(t) /\ h \o t \in Seq(Octet)
      /\ \A i \in 1..Len(h) : (h \o t)[i] = h[i] /\ h[i] \in Octet
      /\ \A i \in 1..Len(t) : (h \o t)[Len(h) + i] = t[i] /\ t[i] \in Octet
  <2>1. h \in Seq(Octet)
    BY <1>5
  <2>2. t \in Seq(Octet)
    BY <1>8
  <2> QED
    BY ONLY <2>1, <2>2, JoinIs
<1> HIDE DEF n
<1> DEFINE z == h \o t
<1>12. z \in Seq(Octet) /\ Len(z) = 2 + 2 * n /\ z[1] = h[1] /\ z[2] = h[2] /\ \A i \in 1..2 * n : z[2 + i] = t[i]
  <2> HIDE DEF z
  <2>1. /\ Len(z) = Len(h) + Len(t) /\ z \in Seq(Octet)
        /\ \A i \in 1..Len(h) : z[i] = h[i]
        /\ \A i \in 1..Len(t) : z[Len(h) + i] = t[i]
    BY <1>9, Zenon DEF z
  <2>2. 1 \in 1..Len(h) /\ 2 \in 1..Len(h)
    BY <1>5
  <2>3. Len(h) = 2 /\ Len(t) = 2 * n
    BY <1>5, <1>8
  <2>4. z[1] = h[1] /\ z[2] = h[2]
    BY <2>1, <2>2, Zenon
  <2>5. Len(z) = 2 + 2 * n /\ \A i \in 1..2 * n : z[2 + i] = t[i]
    BY <2>1, <2>3, Zenon
  <2> QED
    BY <2>1, <2>4, <2>5
<1>13. b = z
  BY <1>4
<1> HIDE DEF z
<1>10. b \in Seq(Octet) /\ Len(b) = 2 * n + 2 /\ b[1] = r.image_id /\ b[2] = n
  <2>1. Len(z) = 2 * n + 2
    <3> DEFINE k == Len(z)
    <3>1. k = 2 + 2 * n /\ n \in 0..60
      BY <1>2, <1>12
    <3> HIDE DEF k
    <3>2. k = 2 * n + 2
      BY <3>1
    <3> QED
      BY <3>2 DEF k
  <2> QED
    BY <2>1, <1>5, <1>12, <1>13, Zenon
<1>11. ASSUME NEW i \in 1..n PROVE b[2 * i + 1] + 256 * b[2 * i + 2] = s[i]
  <2>1. b[2 + (2 * i - 1)] = s[i] % 256 /\ b[2 + 2 * i] = s[i] \div 256
    BY <1>7, <1>12, <1>13
  <2>2. 2 + (2 * i - 1) = 2 * i + 1 /\ 2 + 2 * i = 2 * i + 2
    BY <1>2
  <2>3. b[2 * i + 1] = s[i] % 256 /\ b[2 * i + 2] = s[i] \div 256
    BY <2>1, <2>2
  <2> QED
    BY <1>7, <2>3, WordBytes
<1>14. Spelled(b, n, r.image_id, s)
  BY <1>2, <1>3, <1>10, <1>11, Zenon DEF Spelled
<1> QED
  BY <1>2, <1>14, Zenon DEF n, s, b

(* A request that arrives whole is read as it was meant.                   *)
LEMMA WholeRequest ==
  ASSUME NEW r \in Requests, NEW u, u = UnpackBlockRequest(PackBlockRequest(r))
  PROVE  /\ u.res = "AllGood"
         /\ u.data = [image_id |-> r.image_id,
                      blocks |-> SubSeq(r.block_ids, 1, Min({r.num, MaxBlocksPerRequest}))]
<1> DEFINE b == PackBlockRequest(r)  n == Named(r)  s == r.block_ids
           x == [i \in 1..b[2] |-> b[2 * i + 1] + 256 * b[2 * i + 2]]
           y == SubSeq(s, 1, n)
<1>1. Spelled(b, n, r.image_id, s) /\ n = Min({r.num, MaxBlocksPerRequest})
  BY RequestBytes, Zenon
<1>2. s \in Seq(Word)
  BY CommsAssumption DEF BlockRequests
<1> HIDE DEF b, n, s
<1>9. n \in 0..60 /\ Len(b) = 2 * n + 2 /\ b[2] = n /\ n <= Len(s) /\ b[1] = r.image_id
  BY <1>1, Zenon DEF Spelled
<1>3. ~(Len(b) < 2) /\ ~(Len(b) < 2 * b[2] + 2) /\ ~(b[2] > MaxBlocksPerRequest)
  BY ONLY <1>9 DEF MaxBlocksPerRequest
<1>4. u = [res |-> "AllGood", data |-> [image_id |-> b[1], blocks |-> x]]
  BY <1>3, Zenon DEF UnpackBlockRequest, b
<1>5. y \in Seq(Word) /\ Len(y) = n /\ \A i \in 1..n : y[i] = s[i]
  <2>4. n <= Len(s)
    BY <1>9
  <2>1. n \in 0..Len(s) /\ 1 <= n + 1 /\ 1 \in Nat \ {0}
    BY ONLY <1>2, <1>9, <2>4
  <2>2. /\ SubSeq(s, 1, n) \in Seq(Word) /\ Len(SubSeq(s, 1, n)) = n - 1 + 1
        /\ \A i \in 1..(n - 1 + 1) : SubSeq(s, 1, n)[i] = s[1 + i - 1]
    BY <1>2, <2>1, PartIs
  <2>3. n - 1 + 1 = n /\ \A i \in 1..n : 1 + i - 1 = i
    BY <1>9
  <2> QED
    BY <2>2, <2>3
<1>6. x = y
  <2>3. \A i \in 1..n : b[2 * i + 1] + 256 * b[2 * i + 2] = s[i]
    BY <1>1, Zenon DEF Spelled
  <2>1. x = [i \in 1..n |-> s[i]]
    BY <1>9, <2>3
  <2>2. y = [i \in 1..n |-> y[i]]
    <3> HIDE DEF y
    <3> QED
      BY <1>5, <1>9
  <2> HIDE DEF x, y
  <2> QED
    BY <1>5, <2>1, <2>2
<1> HIDE DEF x, y
<1>7. u.res = "AllGood" /\ u.data = [image_id |-> b[1], blocks |-> x]
  BY <1>4
<1> QED
  BY <1>1, <1>6, <1>7, <1>9, Zenon DEF y, s

(* One whose end is missing is refused.                                    *)
LEMMA CutRequest ==
  ASSUME NEW r \in Requests, NEW m \in 0..(Len(PackBlockRequest(r)) - 1)
  PROVE  UnpackBlockRequest(SubSeq(PackBlockRequest(r), 1, m)) = Refused("TooShort")
<1> DEFINE b == PackBlockRequest(r)  n == Named(r)  e == SubSeq(b, 1, m)
<1>1. n \in 0..60 /\ b \in Seq(Octet) /\ Len(b) = 2 * n + 2 /\ b[2] = n
  BY RequestBytes, Zenon DEF Spelled
<1> HIDE DEF b, n
<1>2. m \in 0..(2 * n + 1)
  BY <1>1 DEF b
<1>3. Len(e) = m /\ \A i \in 1..m : e[i] = b[i]
  <2>1. m \in 0..Len(b) /\ 1 <= m + 1 /\ 1 \in Nat \ {0}
    BY <1>1, <1>2
  <2>2. /\ Len(SubSeq(b, 1, m)) = m - 1 + 1
        /\ \A i \in 1..(m - 1 + 1) : SubSeq(b, 1, m)[i] = b[1 + i - 1]
    BY <1>1, <2>1, PartIs
  <2>3. m - 1 + 1 = m /\ \A i \in 1..m : 1 + i - 1 = i
    BY <1>2
  <2> QED
    BY <2>2, <2>3
<1> HIDE DEF e
<1>4. m >= 2 => e[2] = n
  BY <1>1, <1>2, <1>3
<1>5. Len(e) < 2 \/ Len(e) < 2 * e[2] + 2
  BY <1>1, <1>2, <1>3, <1>4
<1> QED
  BY <1>5, Zenon DEF UnpackBlockRequest, e, b

(* A change of the link.                                                   *)
LinkFields == {"num_test_packets", "dbm", "freq", "sf", "bw", "cr"}

(* A link change is carried, all of it.                                    *)
LEMMA LinkIsCarried ==
  ASSUME NEW c \in LinkTypes PROVE Carried(LinkChange, c, LinkFields) /\ c = [f \in LinkFields |-> c[f]]
<1>1. /\ c["num_test_packets"] \in Octet /\ c["dbm"] \in Octet /\ c["freq"] \in Quad
      /\ c["sf"] \in 0..7 /\ c["bw"] \in 0..3 /\ c["cr"] \in 0..3 /\ c = [f \in LinkFields |-> c[f]]
  BY DEF LinkTypes, LinkFields
<1> QED
  BY <1>1, LinkChangeCarried, Zenon DEF LinkFields

(* It is unpacked by the layout it was packed by.                          *)
LEMMA SameLink == UnpackedLinkChange = LinkChange
BY Zenon DEF UnpackedLinkChange, LinkChange

(* A change that arrives whole is read as it was packed.                   *)
LEMMA WholeChange ==
  ASSUME NEW c \in LinkTypes
  PROVE  /\ Pack(LinkChange, c) \in Seq(Octet)
         /\ Unpacked(UnpackedLinkChange, Len(UnpackedLinkChange), Pack(LinkChange, c), 0)
              = [res |-> "AllGood", data |-> c]
<1> DEFINE L == LinkChange  F == LinkFields  s == Pack(L, c)  w == <<>>
<1>1. Carried(L, c, F) /\ c = [f \in F |-> c[f]]
  BY LinkIsCarried
<1>2. w \in Seq(Octet)
  OBVIOUS
<1>3. Carried(L, c, F)
  BY <1>1
<1> HIDE DEF L, F, w
<1>4. Unpack(L, Pack(L, c) \o w, 0) = [f \in F |-> c[f]]
  BY ONLY <1>2, <1>3, UnpackIs
<1>5. s \in Seq(Octet) /\ Len(s) = Len(L)
  BY <1>3 DEF Carried
<1> HIDE DEF s
<1>6. s \o w = s /\ ~(Len(s) < Len(L))
  BY <1>5 DEF w
<1>7. Unpack(L, s, 0) = c
  BY <1>1, <1>4, <1>6, Zenon DEF s
<1>8. UnpackedLinkChange = L
  BY SameLink DEF L
<1> QED
  BY <1>5, <1>6, <1>7, <1>8, Zenon DEF Unpacked, s, L

(* One whose end is missing is refused.                                    *)
LEMMA CutChange ==
  ASSUME NEW c \in LinkTypes, NEW m \in 0..(Len(Pack(LinkChange, c)) - 1)
  PROVE  Unpacked(UnpackedLinkChange, Len(UnpackedLinkChange), SubSeq(Pack(LinkChange, c), 1, m), 0)
           = Refused("TooShort")
<1> DEFINE s == Pack(LinkChange, c)  e == SubSeq(s, 1, m)  L == UnpackedLinkChange
<1>1. s \in Seq(Octet) /\ Len(s) = Len(L)
  BY LinkIsCarried, SameLink DEF Carried
<1> HIDE DEF s, L
<1>2. m \in 0..(Len(s) - 1)
  BY DEF s
<1>3. Len(e) = m
  BY <1>1, <1>2
<1>4. Len(e) < Len(L)
  BY <1>1, <1>2, <1>3
<1> QED
  BY <1>4, Zenon DEF Unpacked, s, L, e

(* The profile made of it is the one meant, but for the two spreading      *)
(* factors below 7.                                                        *)
LEMMA ChangeTaken ==
  ASSUME NEW c \in LinkTypes
  PROVE  /\ DOMAIN ProfileOf(c) = DOMAIN ProfileMeant(c)
         /\ \A f \in DOMAIN ProfileMeant(c) \ {"spreading_factor"} : ProfileOf(c)[f] = ProfileMeant(c)[f]
         /\ c.sf >= 2 => ProfileOf(c) = ProfileMeant(c)
         /\ ProfileMeant(c).spreading_factor = c.sf + 5 /\ c.sf \in 0..7
<1>1. c.sf \in 0..7 /\ c.bw \in 0..3
  BY DEF LinkTypes
<1>2. Hertz[c.bw + 1] = 62500 * 2^c.bw
  <2>1. 2^0 = 1 /\ 2^1 = 2 /\ 2^2 = 4 /\ 2^3 = 8
    BY SMT
  <2>2. Hertz[1] = 62500 /\ Hertz[2] = 125000 /\ Hertz[3] = 250000 /\ Hertz[4] = 500000
    BY DEF Hertz
  <2> DEFINE k == c.bw
  <2>3. k = 0 \/ k = 1 \/ k = 2 \/ k = 3
    BY <1>1
  <2> HIDE DEF k
  <2>4. k = 0 => Hertz[k + 1] = 62500 * 2^k
    BY <2>1, <2>2
  <2>5. k = 1 => Hertz[k + 1] = 62500 * 2^k
    BY <2>1, <2>2
  <2>6. k = 2 => Hertz[k + 1] = 62500 * 2^k
    BY <2>1, <2>2
  <2>7. k = 3 => Hertz[k + 1] = 62500 * 2^k
    BY <2>1, <2>2
  <2>8. Hertz[k + 1] = 62500 * 2^k
    BY <2>3, <2>4, <2>5, <2>6, <2>7
  <2> QED
    BY <2>8 DEF k
<1>3. /\ DOMAIN ProfileOf(c) = DOMAIN ProfileMeant(c)
      /\ \A f \in DOMAIN ProfileMeant(c) \ {"spreading_factor"} : ProfileOf(c)[f] = ProfileMeant(c)[f]
  BY <1>1, <1>2 DEF ProfileOf, ProfileMeant
<1>4. /\ c.sf >= 2 => ProfileOf(c) = ProfileMeant(c)
      /\ ProfileMeant(c).spreading_factor = c.sf + 5 /\ c.sf \in 0..7
  BY <1>1, <1>2 DEF ProfileOf, ProfileMeant
<1> QED
  BY <1>3, <1>4

(* The larger of zero and a number.                                        *)
LEMMA MaxOfZero ==
  ASSUME NEW k \in Int
  PROVE  Max({0, k}) \in Int /\ Max({0, k}) = IF k > 0 THEN k ELSE 0
<1> DEFINE c == IF k > 0 THEN k ELSE 0  d == Max({0, k})
<1>1. c \in {0, k} /\ \A y \in {0, k} : c >= y
  OBVIOUS
<1>2. \E x \in {0, k} : \A y \in {0, k} : x >= y
  BY <1>1
<1>3. d \in {0, k} /\ \A y \in {0, k} : d >= y
  <2> HIDE DEF c
  <2> QED
    BY <1>2, Zenon DEF Max
<1> HIDE DEF d
<1>4. d = c
  BY <1>1, <1>3
<1> QED
  BY <1>4 DEF d

(* The packet on its way up is what the ground made, or the start of it.   *)
Packet(type, body) == Pack(Header, [packet_type |-> type, expected |-> 0]) \o body
Sent(u, type, body, what, meant) ==
  \E n \in 0..Len(Packet(type, body)) :
    u = [bytes |-> SubSeq(Packet(type, body), 1, n), whole |-> n = Len(Packet(type, body)),
              what |-> what, meant |-> meant]

SentCommand(u, cmd, v) == Sent(u, 2, PackCommand(cmd, v), cmd, Args(cmd, Clipped(v)))
SentRequest(u, r) ==
  Sent(u, 3, PackBlockRequest(r), "Blocks",
       [image_id |-> r.image_id, blocks |-> SubSeq(r.block_ids, 1, Min({r.num, MaxBlocksPerRequest}))])
SentChange(u, c) == Sent(u, 1, Pack(LinkChange, c), "Link", ProfileMeant(c))

WasSent(u) ==
  \/ \E cmd \in DOMAIN Arguments : \E v \in Arguments[cmd] : SentCommand(u, cmd, v)
  \/ \E r \in Requests : SentRequest(u, r)
  \/ \E c \in LinkChanges : SentChange(u, c)

UplinkSent == uplink # None => WasSent(uplink)

CommsInv == UplinkSent /\ DoneAsMeant

(* What the ground packs are bytes.                                        *)
LEMMA BodiesAreBytes ==
  /\ \A cmd \in DOMAIN Arguments : \A v \in Arguments[cmd] : PackCommand(cmd, v) \in Seq(Octet)
  /\ \A r \in Requests : PackBlockRequest(r) \in Seq(Octet)
  /\ \A c \in LinkChanges : Pack(LinkChange, c) \in Seq(Octet)
<1>1. ASSUME NEW cmd \in DOMAIN Arguments, NEW v \in Arguments[cmd] PROVE PackCommand(cmd, v) \in Seq(Octet)
  <2> DEFINE s == Pack(CommandLayout(cmd), v)  c == Code(cmd)
  <2>1. c \in Octet
    BY CommsAssumption, CodeIs DEF Octet
  <2>2. s \in Seq(Octet)
    BY CommandBody
  <2>3. PackCommand(cmd, v) = <<c>> \o s
    BY Zenon DEF PackCommand
  <2> HIDE DEF s, c
  <2> QED
    BY <2>1, <2>2, <2>3, Prefixed
<1>2. ASSUME NEW r \in Requests PROVE PackBlockRequest(r) \in Seq(Octet)
  BY RequestBytes, Zenon DEF Spelled
<1>3. ASSUME NEW c \in LinkChanges PROVE Pack(LinkChange, c) \in Seq(Octet)
  BY CommsAssumption, WholeChange
<1> QED
  BY <1>1, <1>2, <1>3

(* What is read of the start of a packet.                                  *)
LEMMA HeaderByte ==
  ASSUME NEW type \in 0..3, NEW expected \in 0..63, NEW h, h = [packet_type |-> type, expected |-> expected]
  PROVE  /\ \E a \in Octet : Pack(Header, h) = <<a>>
         /\ Carried(Header, h, {"packet_type", "expected"})
<1>1. Carried(Header, h, {"packet_type", "expected"})
  <2>1. h["packet_type"] \in 0..3 /\ h["expected"] \in 0..63
    OBVIOUS
  <2> QED
    BY <2>1, HeaderCarried
<1> DEFINE t == Pack(Header, h)
<1>2. t \in Seq(Octet) /\ Len(t) = 1
  BY <1>1 DEF Carried, Header
<1> HIDE DEF t
<1>3. t = <<t[1]>> /\ t[1] \in Octet
  BY <1>2
<1> QED
  BY <1>1, <1>3 DEF t

Headed(type, expected, body) == Pack(Header, [packet_type |-> type, expected |-> expected]) \o body

(* The header of a whole packet.                                           *)
LEMMA HeaderRead ==
  ASSUME NEW type \in 0..3, NEW expected \in 0..63, NEW T, Octet \subseteq T, NEW body \in Seq(T)
  PROVE  /\ Headed(type, expected, body) \in Seq(T) /\ Len(Headed(type, expected, body)) = Len(body) + 1
         /\ Len(body) \in Nat /\ Tail(Headed(type, expected, body)) = body
         /\ Unpack(UnpackedHeader, Headed(type, expected, body), 0).packet_type = type
<1> DEFINE h == [packet_type |-> type, expected |-> expected]
<1>0. h = [packet_type |-> type, expected |-> expected]
  OBVIOUS
<1> HIDE DEF h
<1>1. PICK a \in Octet : Pack(Header, h) = <<a>>
  BY <1>0, HeaderByte
<1>2. Carried(Header, h, {"packet_type", "expected"})
  BY <1>0, HeaderByte
<1>3. a \in T
  BY <1>1
<1>4. <<a>> \o body \in Seq(T) /\ Len(<<a>> \o body) = Len(body) + 1 /\ Tail(<<a>> \o body) = body
      /\ Len(body) \in Nat
  BY <1>3, Prefixed
<1>5. Unpack(Header, Pack(Header, h) \o body, 0) = [f \in {"packet_type", "expected"} |-> h[f]]
  <2>1. body \in Seq(T)
    OBVIOUS
  <2> QED
    BY ONLY <1>2, <2>1, UnpackIs
<1>6. UnpackedHeader = Header
  BY Zenon DEF UnpackedHeader, Header
<1>7. Unpack(UnpackedHeader, Pack(Header, h) \o body, 0).packet_type = type
  <2> DEFINE u == Unpack(UnpackedHeader, Pack(Header, h) \o body, 0)
  <2>1. u = [f \in {"packet_type", "expected"} |-> h[f]]
    BY <1>5, <1>6, Zenon
  <2> HIDE DEF u
  <2>2. u.packet_type = type
    BY <1>0, <2>1
  <2> QED
    BY <2>2 DEF u
<1> QED
  BY <1>1, <1>4, <1>7, Zenon DEF Headed, h

(* The header of the start of a packet.                                    *)
LEMMA PacketCut ==
  ASSUME NEW type \in 0..3, NEW body \in Seq(Octet)
  PROVE  /\ Len(Packet(type, body)) = Len(body) + 1 /\ Len(body) \in Nat
         /\ \A n \in 1..(Len(body) + 1) :
              /\ Len(SubSeq(Packet(type, body), 1, n)) = n
              /\ Tail(SubSeq(Packet(type, body), 1, n)) = SubSeq(body, 1, n - 1)
              /\ Unpack(UnpackedHeader, SubSeq(Packet(type, body), 1, n), 0).packet_type = type
<1> DEFINE p == Pack(Header, [packet_type |-> type, expected |-> 0])  O == Octet
<1>1. PICK a \in Octet : p = <<a>>
  <2>1. 0 \in 0..63
    OBVIOUS
  <2> QED
    BY <2>1, HeaderByte
<1>2. Octet \subseteq O /\ 0 \in 0..63
  OBVIOUS
<1> HIDE DEF O
<1>3. \A x \in Seq(O) :
        /\ Len(Headed(type, 0, x)) = Len(x) + 1 /\ Len(x) \in Nat /\ Tail(Headed(type, 0, x)) = x
        /\ Unpack(UnpackedHeader, Headed(type, 0, x), 0).packet_type = type
  BY <1>2, HeaderRead
<1>4. Len(Headed(type, 0, body)) = Len(body) + 1 /\ Len(body) \in Nat
  BY <1>3 DEF O
<1>5. Packet(type, body) = Headed(type, 0, body) /\ Packet(type, body) = <<a>> \o body
  BY <1>1, Zenon DEF Packet, Headed
<1>6. ASSUME NEW n \in 1..(Len(body) + 1)
      PROVE  /\ Len(SubSeq(Packet(type, body), 1, n)) = n
             /\ Tail(SubSeq(Packet(type, body), 1, n)) = SubSeq(body, 1, n - 1)
             /\ Unpack(UnpackedHeader, SubSeq(Packet(type, body), 1, n), 0).packet_type = type
  <2> DEFINE u == SubSeq(body, 1, n - 1)
  <2>1. SubSeq(<<a>> \o body, 1, n) = <<a>> \o u /\ u \in Seq(Octet) /\ Len(u) = n - 1
    BY CutPrefixed
  <2> HIDE DEF u
  <2>2. <<a>> \o u = Headed(type, 0, u)
    BY <1>1, Zenon DEF Headed
  <2>3. SubSeq(Packet(type, body), 1, n) = Headed(type, 0, u)
    BY <1>5, <2>1, <2>2, Zenon
  <2>4. /\ Len(Headed(type, 0, u)) = Len(u) + 1 /\ Tail(Headed(type, 0, u)) = u
        /\ Unpack(UnpackedHeader, Headed(type, 0, u), 0).packet_type = type
    BY <1>3, <2>1 DEF O
  <2>5. Len(Headed(type, 0, u)) = n
    BY <2>1, <2>4
  <2> QED
    BY <2>3, <2>4, <2>5, Zenon DEF u
<1> QED
  BY <1>4, <1>5, <1>6, Zenon

Refuses == called' = [what |-> uplink.what, meant |-> uplink.meant, whole |-> uplink.whole,
                      done |-> "nothing", args |-> NoData]

(* What HandlePacket does with a packet, by what is in it.                 *)
LEMMA PacketHandled ==
  ASSUME NEW type \in 1..3, NEW body \in Seq(Octet), NEW n \in 0..Len(Packet(type, body)),
         uplink.bytes = SubSeq(Packet(type, body), 1, n), HandlePacket
  PROVE  /\ Len(Packet(type, body)) = Len(body) + 1 /\ Len(body) \in Nat
         /\ n = 0 => Refuses /\ Quiet
         /\ n > 0 /\ type = 1 => HandleLinkChange(SubSeq(body, 1, n - 1))
         /\ n > 0 /\ type = 2 => HandleCommand(SubSeq(body, 1, n - 1))
         /\ n > 0 /\ type = 3 => HandleBlockRequest(SubSeq(body, 1, n - 1))
<1> DEFINE P == Packet(type, body)  b == SubSeq(P, 1, n)  u == SubSeq(body, 1, n - 1)
           h == Unpack(UnpackedHeader, b, 0)
<1>1. type \in 0..3 /\ type # 0
  OBVIOUS
<1>2. Len(P) = Len(body) + 1 /\ Len(body) \in Nat
  BY <1>1, PacketCut, Zenon
<1>3. CASE n = 0
  <2>1. b = <<>>
    BY <1>3
  <2>2. Len(b) < 1
    BY <2>1
  <2> HIDE DEF b
  <2>3. Len(uplink.bytes) < 1
    BY <2>2, Zenon DEF b
  <2>4. Refuses /\ Quiet
    BY <2>3, Zenon DEF HandlePacket, Ignored, Calls, Refuses
  <2> QED
    BY <1>2, <1>3, <2>4
<1>4. CASE n > 0
  <2>1. n \in 1..(Len(body) + 1)
    BY <1>2, <1>4
  <2>2. Len(b) = n /\ Tail(b) = u /\ h.packet_type = type
    BY <1>1, <2>1, PacketCut, Zenon
  <2>3. ~(Len(b) < 1)
    BY <2>1, <2>2
  <2> HIDE DEF u
  <2>4. \/ type = 0 /\ Ignored
        \/ type = 1 /\ HandleLinkChange(u)
        \/ type = 2 /\ HandleCommand(u)
        \/ type = 3 /\ HandleBlockRequest(u)
    BY <2>2, <2>3, Zenon DEF HandlePacket
  <2>5. /\ type = 1 => HandleLinkChange(u)
        /\ type = 2 => HandleCommand(u)
        /\ type = 3 => HandleBlockRequest(u)
    BY <1>1, <2>4
  <2> QED
    BY <1>2, <1>4, <2>5 DEF u
<1> QED
  BY <1>3, <1>4

Called(done, args) ==
  called' = [what |-> uplink.what, meant |-> uplink.meant, whole |-> uplink.whole,
             done |-> done, args |-> args]

(* The blocks asked for are sent, and each is what was asked for.          *)
Answers(id, ids) == downlink' = downlink \o BlockPackets(id, ids, ids) /\ UNCHANGED <<status, primary, past>>
Acknowledges(c) ==
  /\ downlink' = Append(downlink,
       Down(Headed(1, 0, Pack(LinkChange, Acknowledge(ProfileOf(c)))),
            [freq |-> ProfileOf(c).frequency_hz, dbm |-> ProfileOf(c).tx_power_dbm,
             sf |-> ProfileOf(c).spreading_factor - 5, cr |-> ProfileOf(c).coding_rate - 5]))
  /\ UNCHANGED <<status, primary, past>>

(* A link change is no command.                                            *)
LEMMA CommandsNamed ==
  ASSUME NEW cmd \in Range(Commands)
  PROVE  cmd # "Link"
<1> DEFINE c == Code(cmd)
<1>1. c \in 0..23 /\ Commands[c + 1] = cmd
  BY CodeIs
<1> HIDE DEF c
<1>2. \E i \in 1..24 : Commands[i] = cmd
  <2>1. c + 1 \in 1..24
    BY <1>1
  <2> QED
    BY <1>1, <2>1, Zenon
<1>3. cmd \in {"ForceManual", "ForceFlight", "ExpectFlight", "BackToPad", "StartAutoFlipping", "UnfoldArm",
        "Panorama", "StartVideo", "StopVideo", "TakePicture", "ImageMetadata", "ReCrop", "SendArmTarget",
        "SendArmTargetAndComeBack", "SendArmTargetForPhotoAndComeBack", "SendIdlePosition", "SetShoulder",
        "JogMotor", "MoveServo", "NewFlightDanger", "Restart", "Reboot", "TelemetryRequest", "Callsign"}
  BY <1>2 DEF Commands
<1> QED
  BY <1>3

(* A whole command has its own name.                                       *)
LEMMA CommandNamed ==
  ASSUME NEW cmd \in DOMAIN Arguments, NEW v \in Arguments[cmd], NEW stray, NEW r,
         r = UnpackCommand(PackCommand(cmd, v), stray)
  PROVE  r.command = cmd
<1> DEFINE L == CommandLayout(cmd)  s == Pack(L, v)  c == Code(cmd)  b == <<c>> \o s
           k == Len(Commands)
<1>1. k = 24 /\ c \in 0..23 /\ Commands[c + 1] = cmd
  BY CommsAssumption, CodeIs
<1>2. c \in Octet
  BY <1>1 DEF Octet
<1>3. s \in Seq(Octet)
  BY CommandBody
<1>4. PackCommand(cmd, v) = b
  BY Zenon DEF PackCommand
<1> HIDE DEF c, L, s, k
<1>5. Len(b) = Len(s) + 1 /\ Len(s) \in Nat /\ b[1] = c
  BY <1>2, <1>3, Prefixed
<1> HIDE DEF b
<1>6. ~(Len(b) < 1) /\ ~(b[1] >= k) /\ Commands[b[1] + 1] = cmd
  BY <1>1, <1>5
<1>7. r = Command(cmd, Refused("Unimplemented"))
      \/ r = Command(cmd, Unpacked(UnpackedCommandLayout(cmd), Needed(cmd), Tail(b), stray))
  BY <1>4, <1>6, Zenon DEF UnpackCommand, k
<1>8. \A q : Command(cmd, q).command = cmd
  BY DEF Command
<1> QED
  BY <1>7, <1>8, Zenon

(* What is done for a command.                                             *)
LEMMA CommandDone ==
  ASSUME NEW cmd \in DOMAIN Arguments, NEW v \in Arguments[cmd], SentCommand(uplink, cmd, v), HandlePacket
  PROVE  DoneAsMeant'
<1> DEFINE body == PackCommand(cmd, v)  P == Packet(2, body)  meant == Args(cmd, Clipped(v))
<1>1. PICK n \in 0..Len(P) :
        uplink = [bytes |-> SubSeq(P, 1, n), whole |-> n = Len(P), what |-> cmd, meant |-> meant]
  BY Zenon DEF SentCommand, Sent
<1>2. body \in Seq(Octet)
  BY BodiesAreBytes
<1>3. cmd \in Range(Commands)
  BY CommsAssumption
<1>4. cmd # "Link"
  BY <1>3, CommandsNamed
<1> HIDE DEF P, meant, body
<1>5. /\ uplink.bytes = SubSeq(P, 1, n) /\ uplink.whole = (n = Len(P)) /\ uplink.what = cmd /\ uplink.meant = meant
  BY <1>1
<1>6. /\ Len(P) = Len(body) + 1 /\ Len(body) \in Nat
      /\ n = 0 => Refuses
      /\ n > 0 => HandleCommand(SubSeq(body, 1, n - 1))
  <2>1. 2 \in 1..3 /\ 2 = 2
    OBVIOUS
  <2> QED
    BY <1>2, <1>5, <2>1, PacketHandled, Zenon DEF P
<1>7. n > 0 => \E stray :
        LET r == UnpackCommand(SubSeq(body, 1, n - 1), stray)
        IN IF r.res = "AllGood" /\ r.command \notin Unhandled
           THEN Called(r.command, Args(r.command, r.data)) ELSE Refuses
  BY <1>6, Zenon DEF HandleCommand, Called, Calls, Refuses, Ignored
<1>8. CASE n = Len(P)
  <2>1. n > 0 /\ SubSeq(body, 1, n - 1) = body
    <3>1. n - 1 = Len(body) /\ n > 0
      BY <1>6, <1>8
    <3>2. SubSeq(body, 1, Len(body)) = body
      BY <1>2
    <3> QED
      BY <3>1, <3>2
  <2>2. PICK stray :
        LET r == UnpackCommand(body, stray)
        IN IF r.res = "AllGood" /\ r.command \notin Unhandled
           THEN Called(r.command, Args(r.command, r.data)) ELSE Refuses
    BY <1>7, <2>1, Zenon
  <2> DEFINE r == UnpackCommand(body, stray)
  <2>3. r.command = cmd /\ (cmd \notin Unhandled => r.res = "AllGood" /\ Args(cmd, r.data) = meant)
    <3>1. r = UnpackCommand(PackCommand(cmd, v), stray)
      BY DEF body
    <3> HIDE DEF r
    <3> QED
      BY <3>1, CommandNamed, WholeCommand DEF meant
  <2>4. IF cmd \in Unhandled THEN Refuses ELSE Called(cmd, meant)
    BY <2>2, <2>3, Zenon
  <2>5. uplink.whole = TRUE
    BY <1>5, <1>8
  <2>6. CASE cmd \in Unhandled
    <3>1. called'.whole = TRUE /\ called'.what = cmd /\ called'.done = "nothing"
      BY <1>5, <2>4, <2>5, <2>6 DEF Refuses
    <3> QED
      BY <2>6, <3>1, Zenon DEF DoneAsMeant
  <2>7. CASE cmd \notin Unhandled
    <3>1. /\ called'.whole = TRUE /\ called'.what = cmd /\ called'.done = cmd
          /\ called'.args = meant /\ called'.meant = meant
      BY <1>5, <2>4, <2>5, <2>7 DEF Called
    <3> QED
      BY <1>4, <2>7, <3>1, Zenon DEF DoneAsMeant
  <2> QED
    BY <2>6, <2>7
<1>9. CASE n # Len(P)
  <2>1. uplink.whole = FALSE
    BY <1>5, <1>9
  <2>2. Refuses => DoneAsMeant'
    <3>1. Refuses => called'.whole = FALSE /\ called'.done = "nothing"
      BY <2>1 DEF Refuses
    <3> QED
      BY <3>1, Zenon DEF DoneAsMeant
  <2>3. CASE n > 0
    <3> DEFINE m == n - 1
    <3>1. m \in 0..(Len(body) - 1)
      BY <1>6, <1>9, <2>3
    <3>2. PICK stray :
          LET r == UnpackCommand(SubSeq(body, 1, m), stray)
          IN IF r.res = "AllGood" /\ r.command \notin Unhandled
             THEN Called(r.command, Args(r.command, r.data)) ELSE Refuses
      BY <1>7, <2>3, Zenon
    <3> HIDE DEF m
    <3> DEFINE r == UnpackCommand(SubSeq(body, 1, m), stray)
    <3>3. r.res = "AllGood" => r.command = cmd /\ cmd \in Unhandled \cup {"MoveServo"}
      <4>1. r = UnpackCommand(SubSeq(PackCommand(cmd, v), 1, m), stray)
        BY DEF body
      <4>2. m \in 0..(Len(PackCommand(cmd, v)) - 1)
        BY <3>1 DEF body
      <4> HIDE DEF r
      <4> QED
        BY <4>1, <4>2, CutCommand
    <3>4. r.res = "AllGood" /\ r.command \notin Unhandled => cmd = "MoveServo"
      BY <3>3, Zenon
    <3>5. Refuses \/ ((\E done, args : Called(done, args)) /\ cmd = "MoveServo")
      BY <3>2, <3>4, Zenon
    <3>6. (\E done, args : Called(done, args)) => called'.whole = FALSE /\ called'.what = cmd
      BY <1>5, <2>1 DEF Called
    <3> QED
      BY <2>2, <3>5, <3>6, Zenon DEF DoneAsMeant
  <2> QED
    BY <1>6, <2>2, <2>3
<1> QED
  BY <1>8, <1>9

(* What is done for a request of blocks.                                   *)
LEMMA RequestDone ==
  ASSUME NEW q \in Requests, SentRequest(uplink, q), HandlePacket
  PROVE  /\ DoneAsMeant'
         /\ Quiet \/ \E m \in Nat : \E id \in Octet, ids \in [1..m -> Word] : Answers(id, ids)
<1> DEFINE body == PackBlockRequest(q)  P == Packet(3, body)
           meant == [image_id |-> q.image_id, blocks |-> SubSeq(q.block_ids, 1, Min({q.num, MaxBlocksPerRequest}))]
<1>1. PICK n \in 0..Len(P) :
        uplink = [bytes |-> SubSeq(P, 1, n), whole |-> n = Len(P), what |-> "Blocks", meant |-> meant]
  BY Zenon DEF SentRequest, Sent
<1>2. body \in Seq(Octet)
  BY BodiesAreBytes
<1> DEFINE s == SubSeq(body, 1, n - 1)  u == UnpackBlockRequest(s)
<1>3. n = Len(P) /\ Len(P) = Len(body) + 1 => u.res = "AllGood" /\ u.data = meant
  <2> HIDE DEF u
  <2>1. SubSeq(body, 1, Len(body)) = body
    BY <1>2
  <2> DEFINE t == UnpackBlockRequest(body)
  <2>2. t = UnpackBlockRequest(PackBlockRequest(q))
    OBVIOUS
  <2> HIDE DEF t
  <2>3. t.res = "AllGood" /\ t.data = meant
    BY <2>2, WholeRequest
  <2> HIDE DEF body, P, meant
  <2>4. n = Len(P) /\ Len(P) = Len(body) + 1 => s = body
    <3>1. n = Len(P) /\ Len(P) = Len(body) + 1 => n - 1 = Len(body)
      BY <1>2
    <3> QED
      BY <2>1, <3>1, Zenon
  <2> QED
    BY <2>3, <2>4, Zenon DEF u, t
<1>4. n \in 1..Len(body) => u = Refused("TooShort")
  <2> DEFINE m == n - 1
  <2>1. n \in 1..Len(body) => m \in 0..(Len(body) - 1)
    BY <1>2
  <2> HIDE DEF m
  <2>2. n \in 1..Len(body) => UnpackBlockRequest(SubSeq(body, 1, m)) = Refused("TooShort")
    BY <2>1, CutRequest, Zenon
  <2> QED
    BY <2>2, Zenon DEF m
<1>11. \E m \in Nat : meant.image_id \in Octet /\ meant.blocks \in [1..m -> Word]
  <2> DEFINE m == Min({q.num, MaxBlocksPerRequest})  ids == q.block_ids
  <2>1. q.image_id \in Octet /\ ids \in Seq(Word)
    BY CommsAssumption DEF BlockRequests
  <2>2. m \in 0..60 /\ m <= Len(ids)
    <3>1. Named(q) \in 0..60 /\ Named(q) <= Len(ids) /\ Named(q) = m
      BY RequestBytes, Zenon DEF Spelled
    <3> QED
      BY <3>1, Zenon
  <2>3. meant.image_id = q.image_id /\ meant.blocks = SubSeq(ids, 1, m)
    OBVIOUS
  <2> HIDE DEF m, ids, meant
  <2>4. SubSeq(ids, 1, m) \in [1..m -> Word] /\ m \in Nat
    <3>1. /\ 1 \in Nat \ {0} /\ m \in 0..Len(ids) /\ 1 <= m + 1 /\ m - 1 + 1 = m /\ m \in Nat
      BY <2>1, <2>2
    <3> DEFINE t == SubSeq(ids, 1, m)
    <3>2. t \in Seq(Word) /\ Len(t) = m
      BY <2>1, <3>1, PartIs
    <3> HIDE DEF t
    <3>3. t \in [1..m -> Word]
      BY <3>1, <3>2
    <3> QED
      BY <3>1, <3>3 DEF t
  <2> QED
    BY <2>1, <2>3, <2>4
<1> HIDE DEF P, meant, body
<1>5. /\ uplink.bytes = SubSeq(P, 1, n) /\ uplink.whole = (n = Len(P)) /\ uplink.what = "Blocks" /\ uplink.meant = meant
  BY <1>1
<1>6. /\ Len(P) = Len(body) + 1 /\ Len(body) \in Nat
      /\ n = 0 => Refuses /\ Quiet
      /\ n > 0 => HandleBlockRequest(s)
  <2>1. 3 \in 1..3 /\ 3 = 3
    OBVIOUS
  <2> QED
    BY <1>2, <1>5, <2>1, PacketHandled, Zenon DEF P
<1>7. n > 0 => IF u.res # "AllGood" THEN Refuses /\ Quiet
               ELSE /\ Called("Blocks", u.data)
                    /\ downlink' = downlink \o BlockPackets(u.data.image_id, u.data.blocks, uplink.meant.blocks)
                    /\ UNCHANGED <<status, primary, past>>
  BY <1>6, Zenon DEF HandleBlockRequest, Called, Calls, Refuses, Ignored
<1> HIDE DEF u
<1>8. CASE n = Len(P)
  <2>1. n > 0
    BY <1>6, <1>8
  <2>2. Called("Blocks", meant) /\ Answers(meant.image_id, meant.blocks)
    BY <1>3, <1>5, <1>6, <1>7, <1>8, <2>1, Zenon DEF Answers
  <2>3. /\ called'.whole = TRUE /\ called'.what = "Blocks" /\ called'.done = "Blocks"
        /\ called'.args = meant /\ called'.meant = meant
    BY <1>5, <1>8, <2>2 DEF Called
  <2>4. "Blocks" \notin Unhandled /\ "Blocks" # "Link"
    BY DEF Unhandled
  <2>5. DoneAsMeant'
    BY <2>3, <2>4, Zenon DEF DoneAsMeant
  <2> QED
    BY <1>11, <2>2, <2>5, Zenon
<1>9. CASE n # Len(P)
  <2>1. uplink.whole = FALSE
    BY <1>5, <1>9
  <2>2. n = 0 \/ n \in 1..Len(body)
    BY <1>6, <1>9
  <2>3. Refuses /\ Quiet
    <3>1. Refused("TooShort").res # "AllGood"
      BY DEF Refused
    <3>2. n \in 1..Len(body) => n > 0
      BY <1>6
    <3> QED
      BY <1>4, <1>6, <1>7, <2>2, <3>1, <3>2, Zenon
  <2>4. called'.whole = FALSE /\ called'.done = "nothing"
    BY <2>1, <2>3 DEF Refuses
  <2>5. DoneAsMeant'
    BY <2>4, Zenon DEF DoneAsMeant
  <2> QED
    BY <2>3, <2>5
<1> QED
  BY <1>8, <1>9

(* What is done for a change of the link.                                  *)
LEMMA ChangeDone ==
  ASSUME NEW c \in LinkChanges, SentChange(uplink, c), HandlePacket
  PROVE  DoneAsMeant' /\ (Quiet \/ Acknowledges(c))
<1> DEFINE body == Pack(LinkChange, c)  P == Packet(1, body)  p == ProfileOf(c)
           meant == ProfileMeant(c)
<1>1. PICK n \in 0..Len(P) :
        uplink = [bytes |-> SubSeq(P, 1, n), whole |-> n = Len(P), what |-> "Link", meant |-> meant]
  BY Zenon DEF SentChange, Sent
<1>2. body \in Seq(Octet) /\ c \in LinkTypes
  BY BodiesAreBytes, CommsAssumption
<1> DEFINE s == SubSeq(body, 1, n - 1)  u == Unpacked(UnpackedLinkChange, Len(UnpackedLinkChange), s, 0)
<1>3. n = Len(P) /\ Len(P) = Len(body) + 1 => u.res = "AllGood" /\ u.data = c
  <2>1. SubSeq(body, 1, Len(body)) = body
    BY <1>2
  <2> DEFINE t == Unpacked(UnpackedLinkChange, Len(UnpackedLinkChange), body, 0)
  <2>2. t = [res |-> "AllGood", data |-> c]
    BY <1>2, WholeChange, Zenon
  <2> HIDE DEF t, u
  <2>3. t.res = "AllGood" /\ t.data = c
    BY <2>2
  <2> HIDE DEF body, P, meant
  <2>4. n = Len(P) /\ Len(P) = Len(body) + 1 => s = body
    <3>1. n = Len(P) /\ Len(P) = Len(body) + 1 => n - 1 = Len(body)
      BY <1>2
    <3> QED
      BY <2>1, <3>1, Zenon
  <2> QED
    BY <2>3, <2>4, Zenon DEF u, t
<1>4. n \in 1..Len(body) => u = Refused("TooShort")
  <2> DEFINE m == n - 1
  <2>1. n \in 1..Len(body) => m \in 0..(Len(body) - 1)
    BY <1>2
  <2> HIDE DEF m
  <2>2. n \in 1..Len(body) =>
          Unpacked(UnpackedLinkChange, Len(UnpackedLinkChange), SubSeq(body, 1, m), 0) = Refused("TooShort")
    BY <1>2, <2>1, CutChange, Zenon
  <2> QED
    BY <2>2, Zenon DEF m
<1>10. /\ DOMAIN p = DOMAIN meant
       /\ \A f \in DOMAIN meant \ {"spreading_factor"} : p[f] = meant[f]
       /\ c.sf >= 2 => p = meant
       /\ meant.spreading_factor = c.sf + 5 /\ c.sf \in 0..7
  BY <1>2, ChangeTaken
<1> HIDE DEF P, meant, body, p
<1>5. /\ uplink.bytes = SubSeq(P, 1, n) /\ uplink.whole = (n = Len(P)) /\ uplink.what = "Link" /\ uplink.meant = meant
  BY <1>1
<1>6. /\ Len(P) = Len(body) + 1 /\ Len(body) \in Nat
      /\ n = 0 => Refuses /\ Quiet
      /\ n > 0 => HandleLinkChange(s)
  <2>1. 1 \in 1..3 /\ 1 = 1
    OBVIOUS
  <2> QED
    BY <1>2, <1>5, <2>1, PacketHandled, Zenon DEF P
<1>7. n > 0 => IF u.res # "AllGood" THEN Refuses /\ Quiet
               ELSE Called("Link", ProfileOf(u.data)) /\ Acknowledges(u.data)
  BY <1>6, Zenon DEF Acknowledges, Headed, HandleLinkChange, Called, Calls, Refuses, Ignored
<1> HIDE DEF u
<1>8. CASE n = Len(P)
  <2>1. n > 0
    BY <1>6, <1>8
  <2>2. Called("Link", p) /\ Acknowledges(c)
    BY <1>3, <1>6, <1>7, <1>8, <2>1, Zenon DEF p
  <2>3. /\ called'.whole = TRUE /\ called'.what = "Link" /\ called'.done = "Link"
        /\ called'.args = p /\ called'.meant = meant
    BY <1>5, <1>8, <2>2 DEF Called
  <2>4. "Link" \notin Unhandled
    BY DEF Unhandled
  <2>5. CASE c.sf < 2
    <3>1. called'.meant.spreading_factor < 7
      BY <1>10, <2>3, <2>5
    <3>2. Converted' = {"spreading_factor"}
      BY <2>3, <3>1, Zenon DEF Converted
    <3>3. DoneAsMeant'
      BY <1>10, <2>3, <2>4, <3>2, Zenon DEF DoneAsMeant
    <3> QED
      BY <2>2, <3>3
  <2>6. CASE c.sf >= 2
    <3>1. ~(called'.meant.spreading_factor < 7) /\ called'.args = called'.meant
      BY <1>10, <2>3, <2>6
    <3>2. DoneAsMeant'
      BY <2>3, <2>4, <3>1, Zenon DEF DoneAsMeant
    <3> QED
      BY <2>2, <3>2
  <2> QED
    BY <1>10, <2>5, <2>6
<1>9. CASE n # Len(P)
  <2>1. uplink.whole = FALSE
    BY <1>5, <1>9
  <2>2. n = 0 \/ n \in 1..Len(body)
    BY <1>6, <1>9
  <2>3. Refuses /\ Quiet
    <3>1. Refused("TooShort").res # "AllGood"
      BY DEF Refused
    <3>2. n \in 1..Len(body) => n > 0
      BY <1>6
    <3> QED
      BY <1>4, <1>6, <1>7, <2>2, <3>1, <3>2, Zenon
  <2>4. called'.whole = FALSE /\ called'.done = "nothing"
    BY <2>1, <2>3 DEF Refuses
  <2>5. DoneAsMeant'
    BY <2>4, Zenon DEF DoneAsMeant
  <2> QED
    BY <2>3, <2>5
<1> QED
  BY <1>8, <1>9

(* The ground sends a packet, or the start of it.                          *)
LEMMA SendsSent ==
  ASSUME NEW type, NEW body, NEW what, NEW meant, Len(Packet(type, body)) \in Nat,
         Sends(type, body, what, meant)
  PROVE  Sent(uplink', type, body, what, meant)
<1> DEFINE l == Len(Packet(type, body))  k == l - MaxLost
<1>1. k \in Int
  BY CommsAssumption
<1>2. Max({0, k}) \in Int /\ Max({0, k}) >= 0
  <2> HIDE DEF k
  <2> QED
    BY <1>1, MaxOfZero
<1>3. \A n \in Max({0, k})..l : n \in 0..l
  <2> HIDE DEF k, l
  <2> QED
    BY <1>2
<1>4. \E n \in Max({0, k})..l :
        uplink' = [bytes |-> SubSeq(Packet(type, body), 1, n), whole |-> n = l, what |-> what, meant |-> meant]
  BY Zenon DEF Sends, Packet
<1> QED
  BY <1>3, <1>4, Zenon DEF Sent

(* After which one is on its way.                                          *)
LEMMA GroundSends ==
  ASSUME Ground
  PROVE  UplinkSent'
<1>1. ASSUME NEW type \in 1..3, NEW body \in Seq(Octet) PROVE Len(Packet(type, body)) \in Nat
  <2>1. type \in 0..3
    OBVIOUS
  <2>2. Len(Packet(type, body)) = Len(body) + 1 /\ Len(body) \in Nat
    BY <2>1, PacketCut
  <2> QED
    BY <2>2
<1>0. 1 \in 1..3 /\ 2 \in 1..3 /\ 3 \in 1..3
  OBVIOUS
<1>2. ASSUME NEW cmd \in DOMAIN Arguments, NEW v \in Arguments[cmd], GroundCommands(cmd, v)
      PROVE  SentCommand(uplink', cmd, v)
  <2>1. Len(Packet(2, PackCommand(cmd, v))) \in Nat
    BY <1>0, <1>1, BodiesAreBytes, Zenon
  <2> QED
    BY <1>2, <2>1, SendsSent, Zenon DEF GroundCommands, SentCommand
<1>3. ASSUME NEW r \in Requests, GroundAsks(r) PROVE SentRequest(uplink', r)
  <2>1. Len(Packet(3, PackBlockRequest(r))) \in Nat
    BY <1>0, <1>1, BodiesAreBytes, Zenon
  <2> QED
    BY <1>3, <2>1, SendsSent, Zenon DEF GroundAsks, SentRequest
<1>4. ASSUME NEW c \in LinkChanges, GroundChanges(c) PROVE SentChange(uplink', c)
  <2>1. Len(Packet(1, Pack(LinkChange, c))) \in Nat
    BY <1>0, <1>1, BodiesAreBytes, Zenon
  <2> QED
    BY <1>4, <2>1, SendsSent, Zenon DEF GroundChanges, SentChange
<1> QED
  BY <1>2, <1>3, <1>4, Zenon DEF Ground, UplinkSent, WasSent

(* What is done for any packet.                                            *)
LEMMA PacketDone == ASSUME UplinkSent, HandlePacket PROVE DoneAsMeant'
<1>1. uplink # None
  BY Zenon DEF HandlePacket
<1> QED
  BY <1>1, CommandDone, RequestDone, ChangeDone, Zenon DEF UplinkSent, WasSent

(* What the rest of the steps leave of it.                                 *)
LEMMA NothingCalled ==
  ASSUME Samples \/ Emissions \/ Restarts \/ GroundHears
  PROVE  called' = None /\ uplink' = uplink
<1>1. CASE Samples
  BY <1>1, Zenon DEF Samples, HandleGnss, HandlePower, HandleArmStatus, HandleImu, HandleMetadata,
                     Changes, ClockIsSet, Silent
<1>2. CASE Emissions
  BY <1>2, Zenon DEF Emissions, Heartbeats, RequestTelemetry, Silent
<1>3. CASE Restarts
  BY <1>3, Zenon DEF Restarts, Silent
<1>4. CASE GroundHears
  BY <1>4, Zenon DEF GroundHears
<1> QED
  BY <1>1, <1>2, <1>3, <1>4

(* Each step keeps the invariant.                                          *)
LEMMA CalledKept == CommsInv /\ [CommsNext]_comms => CommsInv'
<1> SUFFICES ASSUME CommsInv, [CommsNext]_comms PROVE CommsInv'
  OBVIOUS
<1>0. (called' = None => DoneAsMeant') /\ (uplink' = None => UplinkSent')
  BY Zenon DEF DoneAsMeant, UplinkSent
<1>10. UplinkSent /\ uplink' = uplink => UplinkSent'
  BY Zenon DEF UplinkSent
<1>1. CASE Samples \/ Emissions \/ Restarts \/ GroundHears
  BY <1>0, <1>1, <1>10, NothingCalled, Zenon DEF CommsInv
<1>2. CASE Ground
  BY <1>0, <1>2, GroundSends, Zenon DEF CommsInv, Ground, Silent
<1>3. CASE HandlePacket
  <2>1. uplink' = None
    BY <1>3, Zenon DEF HandlePacket
  <2> QED
    BY <1>0, <1>3, <2>1, PacketDone, Zenon DEF CommsInv
<1>4. CASE UNCHANGED comms
  <2>1. uplink' = uplink /\ called' = called
    BY <1>4 DEF comms
  <2>2. DoneAsMeant => DoneAsMeant'
    BY <2>1, Zenon DEF DoneAsMeant, Converted
  <2> QED
    BY <1>10, <2>1, <2>2, Zenon DEF CommsInv
<1> QED
  BY <1>1, <1>2, <1>3, <1>4 DEF CommsNext

(* What is done for a whole packet is what the ground meant by it, and for *)
(* one whose end is missing nothing is done: but for the spreading factor  *)
(* of a change to SF_5 or SF_6 and for a servo motion that was cut, of     *)
(* which nothing is said (for the latter see the run comms_cut).           *)
THEOREM EveryCallIsMeant == CommsSpec => []DoneAsMeant
<1>1. CommsInit => CommsInv
  BY Zenon DEF CommsInit, CommsInv, UplinkSent, DoneAsMeant
<1>2. CommsInv => DoneAsMeant
  BY Zenon DEF CommsInv
<1> QED
  BY <1>1, <1>2, CalledKept, PTL DEF CommsSpec

(* When Flight was entered, if that is the last that a history h tells of  *)
(* the pad and of flight.                                                  *)
TakeoffIn(h) ==
  IF TurnsIn(h) = {} \/ h[Max(TurnsIn(h))].value.phase # "Flight" THEN 0 ELSE h[Max(TurnsIn(h))].value.at

(* A history and one entry more.                                           *)
LEMMA Grown ==
  ASSUME NEW D, NEW h \in Seq(D), NEW e, NEW g, g = Append(h, e)
  PROVE  /\ Len(h) \in Nat /\ DOMAIN h = 1..Len(h) /\ DOMAIN g = 1..(Len(h) + 1)
         /\ g[Len(h) + 1] = e /\ \A i \in 1..Len(h) : g[i] = h[i]
         /\ g \in Seq(D \cup {e})
<1> DEFINE T == D \cup {e}  n == Len(h)
<1>1. n \in Nat /\ DOMAIN h = 1..n /\ \A i \in 1..n : h[i] \in D
  OBVIOUS
<1>2. h \in Seq(T) /\ e \in T
  <2>1. h \in [1..n -> T]
    BY <1>1
  <2> HIDE DEF T, n
  <2>2. h \in Seq(T)
    BY <1>1, <2>1, ListIsSeq
  <2> QED
    BY <2>2 DEF T
<1> HIDE DEF T
<1>3. g \in Seq(T) /\ Len(g) = n + 1 /\ g[n + 1] = e /\ \A i \in 1..n : g[i] = h[i]
  BY <1>2
<1>4. DOMAIN g = 1..(n + 1)
  BY <1>3
<1> QED
  BY <1>1, <1>3, <1>4 DEF T

Picks(h, g, e, n) ==
  \A S \in SUBSET (1..n) : (S # {} => g[Max(S)] = h[Max(S)]) /\ g[Max(S \cup {n + 1})] = e

(* The last of some entries, before and after.                             *)
LEMMA LastPick ==
  ASSUME NEW n \in Nat, NEW h, NEW g, NEW e, g[n + 1] = e, \A i \in 1..n : g[i] = h[i]
  PROVE  Picks(h, g, e, n)
<1> SUFFICES ASSUME NEW S \in SUBSET (1..n)
             PROVE  (S # {} => g[Max(S)] = h[Max(S)]) /\ g[Max(S \cup {n + 1})] = e
  BY Zenon DEF Picks
<1> DEFINE R == S \cup {n + 1}
<1>1. n \in Nat /\ g[n + 1] = e /\ \A i \in 1..n : g[i] = h[i]
  OBVIOUS
<1>2. S \in SUBSET (1..n)
  OBVIOUS
<1>3. S # {} => Max(S) \in S
  BY <1>1, <1>2, HasMax
<1>4. S # {} => g[Max(S)] = h[Max(S)]
  BY <1>1, <1>2, <1>3, Zenon
<1>5. n + 1 \in Nat /\ R \in SUBSET (1..(n + 1)) /\ R # {}
  BY <1>1, <1>2
<1> DEFINE m == Max(R)  k == n + 1
<1>6. m \in R /\ \A y \in R : y <= m
  <2> HIDE DEF R, k
  <2>1. k \in Nat /\ R \in SUBSET (1..k) /\ R # {}
    BY <1>5 DEF k
  <2> QED
    BY <2>1, HasMax
<1> HIDE DEF m
<1>7. m = n + 1
  BY <1>1, <1>2, <1>6
<1> QED
  BY <1>1, <1>4, <1>7, Zenon DEF m

Grows(g, h, e) ==
  /\ \A kind, default :
       LastIn(g, kind, default) = IF e.kind = kind THEN e.value ELSE LastIn(h, kind, default)
  /\ PositionIn(g) = IF e.kind = "gps" /\ e.value.fix_type # 0 THEN e.value ELSE PositionIn(h)
  /\ ImagesIn(g) = IF e.kind = "image" THEN ImagesIn(h) \cup {e.value.image_id} ELSE ImagesIn(h)
  /\ TakeoffIn(g) = IF e.kind = "phase" /\ e.value.phase \in OnPad \cup {"Flight"}
                    THEN IF e.value.phase = "Flight" THEN e.value.at ELSE 0
                    ELSE TakeoffIn(h)
  /\ FilmedIn(g) = IF e.kind = "phase" THEN e.value.phase \in Filming
                   ELSE IF e.kind = "camera" THEN e.value ELSE FilmedIn(h)

(* What the history tells, after one entry more.                           *)
LEMMA HistoryGrows ==
  ASSUME NEW D, NEW h \in Seq(D), NEW e
  PROVE  Grows(Append(h, e), h, e)
<1> DEFINE g == Append(h, e)
<1> DEFINE n == Len(h)
<1>1. /\ n \in Nat /\ DOMAIN h = 1..n /\ DOMAIN g = 1..(n + 1) /\ g[n + 1] = e
      /\ \A i \in 1..n : g[i] = h[i]
  BY Grown
<1> HIDE DEF g
<1>2. DOMAIN g = DOMAIN h \cup {n + 1} /\ n + 1 \notin DOMAIN h /\ \A i \in DOMAIN h : g[i] = h[i]
  BY <1>1
<1>3. \A S \in SUBSET DOMAIN h : (S # {} => g[Max(S)] = h[Max(S)]) /\ g[Max(S \cup {n + 1})] = e
  <2> HIDE DEF n
  <2>1. \A S \in SUBSET (1..n) : (S # {} => g[Max(S)] = h[Max(S)]) /\ g[Max(S \cup {n + 1})] = e
    <3>1. n \in Nat
      BY <1>1
    <3>2. g[n + 1] = e
      BY <1>1
    <3>3. \A i \in 1..n : g[i] = h[i]
      BY <1>1
    <3>4. Picks(h, g, e, n)
      BY ONLY <3>1, <3>2, <3>3, LastPick
    <3> QED
      BY <3>4, Zenon DEF Picks
  <2> QED
    BY <1>1, <2>1, Zenon
<1> HIDE DEF n
<1>4. ASSUME NEW kind, NEW default
      PROVE  LastIn(g, kind, default) = IF e.kind = kind THEN e.value ELSE LastIn(h, kind, default)
  <2> DEFINE S == {i \in DOMAIN h : h[i].kind = kind}  R == {i \in DOMAIN g : g[i].kind = kind}
  <2>1. R = IF e.kind = kind THEN S \cup {n + 1} ELSE S
    BY <1>1, <1>2
  <2>2. S \in SUBSET DOMAIN h /\ S \cup {n + 1} # {}
    OBVIOUS
  <2>3. LastIn(g, kind, default) = IF R = {} THEN default ELSE g[Max(R)].value
    BY Zenon DEF LastIn
  <2>4. LastIn(h, kind, default) = IF S = {} THEN default ELSE h[Max(S)].value
    BY Zenon DEF LastIn
  <2> HIDE DEF S, R
  <2>5. CASE e.kind = kind
    <3>1. R = S \cup {n + 1} /\ R # {}
      BY <2>1, <2>2, <2>5
    <3>2. g[Max(R)] = e
      BY <1>3, <2>2, <3>1, Zenon
    <3> QED
      BY <2>3, <2>5, <3>1, <3>2, Zenon
  <2>6. CASE e.kind # kind
    BY <1>3, <2>1, <2>2, <2>3, <2>4, <2>6, Zenon
  <2> QED
    BY <2>5, <2>6
<1>5. PositionIn(g) = IF e.kind = "gps" /\ e.value.fix_type # 0 THEN e.value ELSE PositionIn(h)
  <2> DEFINE S == FixesIn(h)  R == FixesIn(g)
  <2>1. R = IF e.kind = "gps" /\ e.value.fix_type # 0 THEN S \cup {n + 1} ELSE S
    BY <1>1, <1>2 DEF FixesIn
  <2>2. S \in SUBSET DOMAIN h /\ S \cup {n + 1} # {}
    BY DEF FixesIn
  <2>3. PositionIn(g) = IF R = {} THEN NoFix ELSE g[Max(R)].value
    BY Zenon DEF PositionIn
  <2>4. PositionIn(h) = IF S = {} THEN NoFix ELSE h[Max(S)].value
    BY Zenon DEF PositionIn
  <2> HIDE DEF S, R
  <2>5. CASE e.kind = "gps" /\ e.value.fix_type # 0
    <3>1. R = S \cup {n + 1} /\ R # {}
      BY <2>1, <2>2, <2>5
    <3>2. g[Max(R)] = e
      BY <1>3, <2>2, <3>1, Zenon
    <3> QED
      BY <2>3, <2>5, <3>1, <3>2, Zenon
  <2>6. CASE ~(e.kind = "gps" /\ e.value.fix_type # 0)
    <3>1. R = S
      BY <2>1, <2>6, Zenon
    <3> QED
      BY <1>3, <2>2, <2>3, <2>4, <2>6, <3>1, Zenon
  <2> QED
    BY <2>5, <2>6
<1>6. ImagesIn(g) = IF e.kind = "image" THEN ImagesIn(h) \cup {e.value.image_id} ELSE ImagesIn(h)
  <2>1. PicturesIn(g) = IF e.kind = "image" THEN PicturesIn(h) \cup {n + 1} ELSE PicturesIn(h)
    BY <1>1, <1>2 DEF PicturesIn
  <2>2. \A i \in PicturesIn(h) : g[i] = h[i]
    BY <1>2 DEF PicturesIn
  <2> DEFINE P == PicturesIn(h)  Q == PicturesIn(g)  I == ImagesIn(h)  J == ImagesIn(g)
  <2>3. /\ \A x : x \in I <=> \E i \in P : x = h[i].value.image_id
        /\ \A x : x \in J <=> \E i \in Q : x = g[i].value.image_id
    BY Zenon DEF ImagesIn
  <2> HIDE DEF P, Q, I, J
  <2>4. CASE e.kind = "image"
    <3>1. Q = P \cup {n + 1}
      BY <2>1, <2>4 DEF P, Q
    <3>2. \A i \in P : g[i] = h[i]
      BY <2>2 DEF P
    <3>3. g[n + 1] = e
      BY <1>1
    <3>4. J = I \cup {e.value.image_id}
      <4>1. ASSUME NEW i \in P PROVE g[i].value.image_id \in I
        BY <2>3, <3>2, <4>1, Zenon
      <4>2. ASSUME NEW x \in J PROVE x \in I \cup {e.value.image_id}
        <5>1. PICK i \in Q : x = g[i].value.image_id
          BY <2>3, Zenon
        <5>2. CASE i \in P
          BY <4>1, <5>1, <5>2
        <5>3. CASE i = n + 1
          BY <3>3, <5>1, <5>3
        <5> QED
          BY <3>1, <5>1, <5>2, <5>3
      <4>3. ASSUME NEW x \in I PROVE x \in J
        <5>1. PICK i \in P : x = h[i].value.image_id
          BY <2>3, Zenon
        <5>2. i \in Q /\ x = g[i].value.image_id
          BY <3>1, <3>2, <5>1
        <5> QED
          BY <2>3, <5>2, Zenon
      <4>4. e.value.image_id \in J
        <5>1. n + 1 \in Q /\ e.value.image_id = g[n + 1].value.image_id
          BY <3>1, <3>3
        <5> QED
          BY <2>3, <5>1, Zenon
      <4> QED
        BY <4>2, <4>3, <4>4
    <3> QED
      BY <2>4, <3>4 DEF I, J
  <2>5. CASE e.kind # "image"
    <3>1. Q = P
      BY <2>1, <2>5 DEF P, Q
    <3>2. \A i \in P : g[i] = h[i]
      BY <2>2 DEF P
    <3>4. J = I
      <4>1. ASSUME NEW x \in J PROVE x \in I
        <5>1. PICK i \in P : x = g[i].value.image_id
          BY <2>3, <3>1, Zenon
        <5>2. x = h[i].value.image_id
          BY <3>2, <5>1
        <5> QED
          BY <2>3, <5>2, Zenon
      <4>2. ASSUME NEW x \in I PROVE x \in J
        <5>1. PICK i \in P : x = h[i].value.image_id
          BY <2>3, Zenon
        <5>2. i \in Q /\ x = g[i].value.image_id
          BY <3>1, <3>2, <5>1
        <5> QED
          BY <2>3, <5>2, Zenon
      <4> QED
        BY <4>1, <4>2
    <3> QED
      BY <2>5, <3>4 DEF I, J
  <2> QED
    BY <2>4, <2>5
<1>7. TakeoffIn(g) = IF e.kind = "phase" /\ e.value.phase \in OnPad \cup {"Flight"}
                     THEN IF e.value.phase = "Flight" THEN e.value.at ELSE 0
                     ELSE TakeoffIn(h)
  <2> DEFINE S == TurnsIn(h)  R == TurnsIn(g)  c == e.kind = "phase" /\ e.value.phase \in OnPad \cup {"Flight"}
  <2>1. R = IF c THEN S \cup {n + 1} ELSE S
    BY <1>1, <1>2 DEF TurnsIn
  <2>2. S \in SUBSET DOMAIN h /\ S \cup {n + 1} # {}
    BY DEF TurnsIn
  <2>3. TakeoffIn(g) = IF R = {} \/ g[Max(R)].value.phase # "Flight" THEN 0 ELSE g[Max(R)].value.at
    BY Zenon DEF TakeoffIn
  <2>4. TakeoffIn(h) = IF S = {} \/ h[Max(S)].value.phase # "Flight" THEN 0 ELSE h[Max(S)].value.at
    BY Zenon DEF TakeoffIn
  <2> HIDE DEF S, R
  <2>5. CASE c
    <3>1. R = S \cup {n + 1} /\ R # {}
      BY <2>1, <2>2, <2>5
    <3>2. g[Max(R)] = e
      BY <1>3, <2>2, <3>1, Zenon
    <3> QED
      BY <2>3, <2>5, <3>1, <3>2, Zenon
  <2>6. CASE ~c
    <3>1. R = S
      BY <2>1, <2>6, Zenon
    <3> QED
      BY <1>3, <2>2, <2>3, <2>4, <2>6, <3>1, Zenon
  <2> QED
    BY <2>5, <2>6
<1>8. FilmedIn(g) = IF e.kind = "phase" THEN e.value.phase \in Filming
                    ELSE IF e.kind = "camera" THEN e.value ELSE FilmedIn(h)
  <2> DEFINE S == ShotsIn(h)  R == ShotsIn(g)  c == e.kind \in {"phase", "camera"}
             By(x) == IF x.kind = "phase" THEN x.value.phase \in Filming ELSE x.value
  <2>1. R = IF c THEN S \cup {n + 1} ELSE S
    BY <1>1, <1>2 DEF ShotsIn
  <2>2. S \in SUBSET DOMAIN h /\ S \cup {n + 1} # {}
    BY DEF ShotsIn
  <2>3. FilmedIn(g) = IF R = {} THEN FALSE ELSE By(g[Max(R)])
    BY Zenon DEF FilmedIn
  <2>4. FilmedIn(h) = IF S = {} THEN FALSE ELSE By(h[Max(S)])
    BY Zenon DEF FilmedIn
  <2> HIDE DEF S, R
  <2>5. CASE c
    <3>1. R = S \cup {n + 1} /\ R # {}
      BY <2>1, <2>2, <2>5
    <3>2. g[Max(R)] = e
      BY <1>3, <2>2, <3>1, Zenon
    <3>3. FilmedIn(g) = By(e)
      BY <2>3, <3>1, <3>2, Zenon
    <3> QED
      BY <2>5, <3>3
  <2>6. CASE ~c
    <3>1. R = S
      BY <2>1, <2>6, Zenon
    <3>2. FilmedIn(g) = FilmedIn(h)
      <4>1. S # {} => g[Max(R)] = h[Max(S)]
        BY <1>3, <2>2, <3>1, Zenon
      <4>2. CASE S = {}
        <5>1. FilmedIn(g) = FALSE /\ FilmedIn(h) = FALSE
          BY <2>3, <2>4, <3>1, <4>2, Zenon
        <5> QED
          BY <5>1, Zenon
      <4>3. CASE S # {}
        <5> DEFINE w == By(h[Max(S)])
        <5>1. FilmedIn(g) = w /\ FilmedIn(h) = w
          BY <2>3, <2>4, <3>1, <4>1, <4>3, Zenon
        <5> HIDE DEF w
        <5> QED
          BY <5>1, Zenon
      <4> QED
        BY <4>2, <4>3
    <3> QED
      BY <2>6, <3>2
  <2> QED
    BY <2>5, <2>6
<1> QED
  BY <1>4, <1>5, <1>6, <1>7, <1>8, Zenon DEF Grows, g

(* The status is what the history tells.                                   *)
Recalls(s, h) ==
  /\ \E D : h \in Seq(D)
  /\ s.phase = PhaseIn(h) /\ s.runcam_on = FilmedIn(h)
  /\ s.mV = LastIn(h, "power", 0) /\ s.arm = LastIn(h, "arm", Still)
  /\ s.last_image_id \in {0} \cup ImagesIn(h)
  /\ \A n \in ImagesIn(h) : n \in Octet /\ n <= s.last_image_id
  /\ s.gps = LastIn(h, "gps", NoFix)
  /\ s.good = PositionIn(h) /\ (s.gps.fix_type # 0 => s.gps = s.good)
  /\ s.takeoff_time = TakeoffIn(h)

(* The fields of the status.                                               *)
StatusTypes ==
  [phase : Range(PhaseNames), gps : GpsTypes, good : GpsTypes, mV : Nat, arm : ArmTypes,
   accel : Accels \cup {<<>>}, last_image_id : Octet, takeoff_time : Nat, runcam_on : BOOLEAN]

Entry(kind, v) == [kind |-> kind, value |-> v]

(* The larger of two.                                                      *)
LEMMA MaxOfTwo ==
  ASSUME NEW a \in Int, NEW b \in Int
  PROVE  Max({a, b}) >= a /\ Max({a, b}) >= b /\ (Max({a, b}) = a \/ Max({a, b}) = b)
<1> DEFINE c == IF a > b THEN a ELSE b  d == Max({a, b})
<1>1. c \in {a, b} /\ \A y \in {a, b} : c >= y
  OBVIOUS
<1>2. \E x \in {a, b} : \A y \in {a, b} : x >= y
  BY <1>1
<1>3. d \in {a, b} /\ \A y \in {a, b} : d >= y
  <2> HIDE DEF c
  <2> QED
    BY <1>2, Zenon DEF Max
<1> HIDE DEF d
<1>4. d >= a /\ d >= b /\ (d = a \/ d = b)
  BY <1>3
<1> QED
  BY <1>4 DEF d

Told(g, h, kind, v) ==
  /\ \E A : g \in Seq(A)
  /\ LastIn(g, "power", 0) = IF kind = "power" THEN v ELSE LastIn(h, "power", 0)
  /\ LastIn(g, "arm", Still) = IF kind = "arm" THEN v ELSE LastIn(h, "arm", Still)
  /\ PositionIn(g) = IF kind = "gps" /\ v.fix_type # 0 THEN v ELSE PositionIn(h)
  /\ ImagesIn(g) = IF kind = "image" THEN ImagesIn(h) \cup {v.image_id} ELSE ImagesIn(h)
  /\ TakeoffIn(g) = IF kind = "phase" /\ v.phase \in OnPad \cup {"Flight"}
                    THEN IF v.phase = "Flight" THEN v.at ELSE 0 ELSE TakeoffIn(h)
  /\ LastIn(g, "gps", NoFix) = IF kind = "gps" THEN v ELSE LastIn(h, "gps", NoFix)
  /\ PhaseIn(g) = IF kind = "phase" THEN v.phase ELSE PhaseIn(h)
  /\ FilmedIn(g) = IF kind = "phase" THEN v.phase \in Filming
                   ELSE IF kind = "camera" THEN v ELSE FilmedIn(h)

(* The same, by the kind of the entry.                                     *)
LEMMA EntryTold ==
  ASSUME NEW D, NEW h \in Seq(D), NEW kind, NEW v
  PROVE  Told(Append(h, Entry(kind, v)), h, kind, v)
<1> DEFINE e == Entry(kind, v)  g == Append(h, e)
<1>1. e.kind = kind /\ e.value = v
  BY DEF Entry
<1> HIDE DEF e, g
<1>2. g = Append(h, e)
  BY DEF g
<1>3. g \in Seq(D \cup {e})
  BY <1>2, Grown
<1>4. Grows(g, h, e)
  BY HistoryGrows, Zenon DEF g
<1>5. PhaseIn(g) = IF kind = "phase" THEN v.phase ELSE PhaseIn(h)
  <2> DEFINE pad == [phase |-> "Pad", at |-> 0]
  <2>1. LastIn(g, "phase", pad) = IF kind = "phase" THEN v ELSE LastIn(h, "phase", pad)
    BY <1>1, <1>4, Zenon DEF Grows
  <2>2. PhaseIn(g) = LastIn(g, "phase", pad).phase /\ PhaseIn(h) = LastIn(h, "phase", pad).phase
    BY Zenon DEF PhaseIn
  <2> HIDE DEF pad
  <2> QED
    BY <2>1, <2>2, Zenon
<1> QED
  BY <1>1, <1>3, <1>4, <1>5, Zenon DEF Told, Grows, g, e

(* Each sample is recalled: a position, and whether it has a fix.          *)
LEMMA GpsRecalled ==
  ASSUME NEW s \in StatusTypes, NEW h, Recalls(s, h), NEW v \in GpsTypes
  PROVE  [s EXCEPT !.gps = v, !.good = IF v.fix_type # 0 THEN v ELSE @] \in StatusTypes /\ Recalls([s EXCEPT !.gps = v, !.good = IF v.fix_type # 0 THEN v ELSE @], Append(h, Entry("gps", v)))
<1> DEFINE t == [s EXCEPT !.gps = v, !.good = IF v.fix_type # 0 THEN v ELSE @]  g == Append(h, Entry("gps", v))
<1>1. PICK D : h \in Seq(D)
  BY Zenon DEF Recalls
<1>0. g = Append(h, Entry("gps", v))
  OBVIOUS
<1> HIDE DEF g
<1>2. /\ \E A : g \in Seq(A)
      /\ LastIn(g, "power", 0) = LastIn(h, "power", 0)
      /\ LastIn(g, "arm", Still) = LastIn(h, "arm", Still)
      /\ PositionIn(g) = IF v.fix_type # 0 THEN v ELSE PositionIn(h)
      /\ ImagesIn(g) = ImagesIn(h)
      /\ TakeoffIn(g) = TakeoffIn(h)
      /\ LastIn(g, "gps", NoFix) = v
      /\ PhaseIn(g) = PhaseIn(h)
      /\ FilmedIn(g) = FilmedIn(h)
  <2> DEFINE k == "gps"
  <2>1. k = "gps"
    OBVIOUS
  <2> HIDE DEF k
  <2>2. g = Append(h, Entry(k, v))
    BY <1>0 DEF k
  <2>3. Told(g, h, k, v)
    BY <1>1, <2>2, EntryTold, Zenon
  <2>4. k # "power" /\ k # "arm" /\ k # "image" /\ k # "phase" /\ k # "camera"
    BY <2>1
  <2> QED
    BY <2>1, <2>3, <2>4, Zenon DEF Told
<1>3. /\ t \in StatusTypes
      /\ t.phase = s.phase
      /\ t.gps = v
      /\ t.good = IF v.fix_type # 0 THEN v ELSE s.good
      /\ t.mV = s.mV
      /\ t.arm = s.arm
      /\ t.accel = s.accel
      /\ t.last_image_id = s.last_image_id
      /\ t.takeoff_time = s.takeoff_time
      /\ t.runcam_on = s.runcam_on
  BY DEF StatusTypes
<1> HIDE DEF t
<1>4. Recalls(t, g)
  BY <1>2, <1>3, Zenon DEF Recalls
<1> QED
  BY <1>3, <1>4 DEF t, g

(* A bus voltage.                                                          *)
LEMMA PowerRecalled ==
  ASSUME NEW s \in StatusTypes, NEW h, Recalls(s, h), NEW v \in Nat
  PROVE  [s EXCEPT !.mV = v] \in StatusTypes /\ Recalls([s EXCEPT !.mV = v], Append(h, Entry("power", v)))
<1> DEFINE t == [s EXCEPT !.mV = v]  g == Append(h, Entry("power", v))
<1>1. PICK D : h \in Seq(D)
  BY Zenon DEF Recalls
<1>0. g = Append(h, Entry("power", v))
  OBVIOUS
<1> HIDE DEF g
<1>2. /\ \E A : g \in Seq(A)
      /\ LastIn(g, "power", 0) = v
      /\ LastIn(g, "arm", Still) = LastIn(h, "arm", Still)
      /\ PositionIn(g) = PositionIn(h)
      /\ ImagesIn(g) = ImagesIn(h)
      /\ TakeoffIn(g) = TakeoffIn(h)
      /\ LastIn(g, "gps", NoFix) = LastIn(h, "gps", NoFix)
      /\ PhaseIn(g) = PhaseIn(h)
      /\ FilmedIn(g) = FilmedIn(h)
  <2> DEFINE k == "power"
  <2>1. k = "power"
    OBVIOUS
  <2> HIDE DEF k
  <2>2. g = Append(h, Entry(k, v))
    BY <1>0 DEF k
  <2>3. Told(g, h, k, v)
    BY <1>1, <2>2, EntryTold, Zenon
  <2>4. k # "arm" /\ k # "gps" /\ k # "image" /\ k # "phase" /\ k # "camera"
    BY <2>1
  <2> QED
    BY <2>1, <2>3, <2>4, Zenon DEF Told
<1>3. /\ t \in StatusTypes
      /\ t.phase = s.phase
      /\ t.gps = s.gps
      /\ t.good = s.good
      /\ t.mV = v
      /\ t.arm = s.arm
      /\ t.accel = s.accel
      /\ t.last_image_id = s.last_image_id
      /\ t.takeoff_time = s.takeoff_time
      /\ t.runcam_on = s.runcam_on
  BY DEF StatusTypes
<1> HIDE DEF t
<1>4. Recalls(t, g)
  BY <1>2, <1>3, Zenon DEF Recalls
<1> QED
  BY <1>3, <1>4 DEF t, g

(* A status of the arm.                                                    *)
LEMMA ArmRecalled ==
  ASSUME NEW s \in StatusTypes, NEW h, Recalls(s, h), NEW v \in ArmTypes
  PROVE  [s EXCEPT !.arm = v] \in StatusTypes /\ Recalls([s EXCEPT !.arm = v], Append(h, Entry("arm", v)))
<1> DEFINE t == [s EXCEPT !.arm = v]  g == Append(h, Entry("arm", v))
<1>1. PICK D : h \in Seq(D)
  BY Zenon DEF Recalls
<1>0. g = Append(h, Entry("arm", v))
  OBVIOUS
<1> HIDE DEF g
<1>2. /\ \E A : g \in Seq(A)
      /\ LastIn(g, "power", 0) = LastIn(h, "power", 0)
      /\ LastIn(g, "arm", Still) = v
      /\ PositionIn(g) = PositionIn(h)
      /\ ImagesIn(g) = ImagesIn(h)
      /\ TakeoffIn(g) = TakeoffIn(h)
      /\ LastIn(g, "gps", NoFix) = LastIn(h, "gps", NoFix)
      /\ PhaseIn(g) = PhaseIn(h)
      /\ FilmedIn(g) = FilmedIn(h)
  <2> DEFINE k == "arm"
  <2>1. k = "arm"
    OBVIOUS
  <2> HIDE DEF k
  <2>2. g = Append(h, Entry(k, v))
    BY <1>0 DEF k
  <2>3. Told(g, h, k, v)
    BY <1>1, <2>2, EntryTold, Zenon
  <2>4. k # "power" /\ k # "gps" /\ k # "image" /\ k # "phase" /\ k # "camera"
    BY <2>1
  <2> QED
    BY <2>1, <2>3, <2>4, Zenon DEF Told
<1>3. /\ t \in StatusTypes
      /\ t.phase = s.phase
      /\ t.gps = s.gps
      /\ t.good = s.good
      /\ t.mV = s.mV
      /\ t.arm = v
      /\ t.accel = s.accel
      /\ t.last_image_id = s.last_image_id
      /\ t.takeoff_time = s.takeoff_time
      /\ t.runcam_on = s.runcam_on
  BY DEF StatusTypes
<1> HIDE DEF t
<1>4. Recalls(t, g)
  BY <1>2, <1>3, Zenon DEF Recalls
<1> QED
  BY <1>3, <1>4 DEF t, g

(* An acceleration.                                                        *)
LEMMA ImuRecalled ==
  ASSUME NEW s \in StatusTypes, NEW h, Recalls(s, h), NEW v \in Accels
  PROVE  [s EXCEPT !.accel = v] \in StatusTypes /\ Recalls([s EXCEPT !.accel = v], Append(h, Entry("accel", v)))
<1> DEFINE t == [s EXCEPT !.accel = v]  g == Append(h, Entry("accel", v))
<1>1. PICK D : h \in Seq(D)
  BY Zenon DEF Recalls
<1>0. g = Append(h, Entry("accel", v))
  OBVIOUS
<1> HIDE DEF g
<1>2. /\ \E A : g \in Seq(A)
      /\ LastIn(g, "power", 0) = LastIn(h, "power", 0)
      /\ LastIn(g, "arm", Still) = LastIn(h, "arm", Still)
      /\ PositionIn(g) = PositionIn(h)
      /\ ImagesIn(g) = ImagesIn(h)
      /\ TakeoffIn(g) = TakeoffIn(h)
      /\ LastIn(g, "gps", NoFix) = LastIn(h, "gps", NoFix)
      /\ PhaseIn(g) = PhaseIn(h)
      /\ FilmedIn(g) = FilmedIn(h)
  <2> DEFINE k == "accel"
  <2>1. k = "accel"
    OBVIOUS
  <2> HIDE DEF k
  <2>2. g = Append(h, Entry(k, v))
    BY <1>0 DEF k
  <2>3. Told(g, h, k, v)
    BY <1>1, <2>2, EntryTold, Zenon
  <2>4. k # "power" /\ k # "arm" /\ k # "gps" /\ k # "image" /\ k # "phase" /\ k # "camera"
    BY <2>1
  <2> QED
    BY <2>1, <2>3, <2>4, Zenon DEF Told
<1>3. /\ t \in StatusTypes
      /\ t.phase = s.phase
      /\ t.gps = s.gps
      /\ t.good = s.good
      /\ t.mV = s.mV
      /\ t.arm = s.arm
      /\ t.accel = v
      /\ t.last_image_id = s.last_image_id
      /\ t.takeoff_time = s.takeoff_time
      /\ t.runcam_on = s.runcam_on
  BY DEF StatusTypes
<1> HIDE DEF t
<1>4. Recalls(t, g)
  BY <1>2, <1>3, Zenon DEF Recalls
<1> QED
  BY <1>3, <1>4 DEF t, g

(* The clock, which is not in the status.                                  *)
LEMMA ClockRecalled ==
  ASSUME NEW s \in StatusTypes, NEW h, Recalls(s, h), NEW v
  PROVE  s \in StatusTypes /\ Recalls(s, Append(h, Entry("clock", v)))
<1> DEFINE t == s  g == Append(h, Entry("clock", v))
<1>1. PICK D : h \in Seq(D)
  BY Zenon DEF Recalls
<1>0. g = Append(h, Entry("clock", v))
  OBVIOUS
<1> HIDE DEF g
<1>2. /\ \E A : g \in Seq(A)
      /\ LastIn(g, "power", 0) = LastIn(h, "power", 0)
      /\ LastIn(g, "arm", Still) = LastIn(h, "arm", Still)
      /\ PositionIn(g) = PositionIn(h)
      /\ ImagesIn(g) = ImagesIn(h)
      /\ TakeoffIn(g) = TakeoffIn(h)
      /\ LastIn(g, "gps", NoFix) = LastIn(h, "gps", NoFix)
      /\ PhaseIn(g) = PhaseIn(h)
      /\ FilmedIn(g) = FilmedIn(h)
  <2> DEFINE k == "clock"
  <2>1. k = "clock"
    OBVIOUS
  <2> HIDE DEF k
  <2>2. g = Append(h, Entry(k, v))
    BY <1>0 DEF k
  <2>3. Told(g, h, k, v)
    BY <1>1, <2>2, EntryTold, Zenon
  <2>4. k # "power" /\ k # "arm" /\ k # "gps" /\ k # "image" /\ k # "phase" /\ k # "camera"
    BY <2>1
  <2> QED
    BY <2>1, <2>3, <2>4, Zenon DEF Told
<1>3. /\ t \in StatusTypes
      /\ t.phase = s.phase
      /\ t.gps = s.gps
      /\ t.good = s.good
      /\ t.mV = s.mV
      /\ t.arm = s.arm
      /\ t.accel = s.accel
      /\ t.last_image_id = s.last_image_id
      /\ t.takeoff_time = s.takeoff_time
      /\ t.runcam_on = s.runcam_on
  BY DEF StatusTypes
<1> HIDE DEF t
<1>4. Recalls(t, g)
  BY <1>2, <1>3, Zenon DEF Recalls
<1> QED
  BY <1>3, <1>4 DEF t, g

(* A picture: the highest id so far.                                       *)
LEMMA ImageRecalled ==
  ASSUME NEW s \in StatusTypes, NEW h, Recalls(s, h), NEW v, v.image_id \in Octet
  PROVE  [s EXCEPT !.last_image_id = Max({v.image_id, @})] \in StatusTypes /\ Recalls([s EXCEPT !.last_image_id = Max({v.image_id, @})], Append(h, Entry("image", v)))
<1> DEFINE t == [s EXCEPT !.last_image_id = Max({v.image_id, @})]  g == Append(h, Entry("image", v))
<1>1. PICK D : h \in Seq(D)
  BY Zenon DEF Recalls
<1>0. g = Append(h, Entry("image", v))
  OBVIOUS
<1> HIDE DEF g
<1>2. /\ \E A : g \in Seq(A)
      /\ LastIn(g, "power", 0) = LastIn(h, "power", 0)
      /\ LastIn(g, "arm", Still) = LastIn(h, "arm", Still)
      /\ PositionIn(g) = PositionIn(h)
      /\ ImagesIn(g) = ImagesIn(h) \cup {v.image_id}
      /\ TakeoffIn(g) = TakeoffIn(h)
      /\ LastIn(g, "gps", NoFix) = LastIn(h, "gps", NoFix)
      /\ PhaseIn(g) = PhaseIn(h)
      /\ FilmedIn(g) = FilmedIn(h)
  <2> DEFINE k == "image"
  <2>1. k = "image"
    OBVIOUS
  <2> HIDE DEF k
  <2>2. g = Append(h, Entry(k, v))
    BY <1>0 DEF k
  <2>3. Told(g, h, k, v)
    BY <1>1, <2>2, EntryTold, Zenon
  <2>4. k # "power" /\ k # "arm" /\ k # "gps" /\ k # "phase" /\ k # "camera"
    BY <2>1
  <2> QED
    BY <2>1, <2>3, <2>4, Zenon DEF Told
<1> DEFINE m == Max({v.image_id, s.last_image_id})
<1>5. /\ m \in Octet /\ m >= v.image_id /\ m >= s.last_image_id /\ v.image_id \in Int /\ s.last_image_id \in Int
      /\ m = v.image_id \/ m = s.last_image_id
  <2>1. v.image_id \in Octet /\ s.last_image_id \in Octet
    BY DEF StatusTypes
  <2>2. v.image_id \in Int /\ s.last_image_id \in Int
    BY <2>1, OctetIsNat
  <2> QED
    BY <2>1, <2>2, MaxOfTwo
<1> HIDE DEF m
<1>6. t = [s EXCEPT !.last_image_id = m]
  BY DEF m
<1>3. /\ t \in StatusTypes
      /\ t.phase = s.phase
      /\ t.gps = s.gps
      /\ t.good = s.good
      /\ t.mV = s.mV
      /\ t.arm = s.arm
      /\ t.accel = s.accel
      /\ t.last_image_id = m
      /\ t.takeoff_time = s.takeoff_time
      /\ t.runcam_on = s.runcam_on
  BY <1>5, <1>6 DEF StatusTypes
<1> HIDE DEF t
<1>7. \A n \in ImagesIn(g) : n \in Octet /\ n <= t.last_image_id
  <2>1. \A n \in ImagesIn(h) : n \in Octet /\ n \in Int /\ n <= s.last_image_id
    BY OctetIsNat, Zenon DEF Recalls
  <2>2. m \in Int
    BY <1>5, OctetIsNat
  <2>3. \A n \in ImagesIn(h) : n <= m
    BY <1>5, <2>1, <2>2
  <2> QED
    BY <1>2, <1>3, <1>5, <2>1, <2>3, Zenon
<1>8. t.last_image_id \in {0} \cup ImagesIn(g)
  <2>1. s.last_image_id \in {0} \cup ImagesIn(h)
    BY Zenon DEF Recalls
  <2> QED
    BY <1>2, <1>3, <1>5, <2>1
<1>4. Recalls(t, g)
  BY <1>2, <1>3, <1>7, <1>8, Zenon DEF Recalls
<1> QED
  BY <1>3, <1>4 DEF t, g

(* A state that was entered: since when the flight lasts.                  *)
LEMMA PhaseRecalled ==
  ASSUME NEW s \in StatusTypes, NEW h, Recalls(s, h), NEW phase \in Range(PhaseNames), NEW at \in Nat
  PROVE  [s EXCEPT !.phase = phase, !.runcam_on = phase \in Filming, !.takeoff_time = IF phase \in OnPad THEN 0 ELSE IF phase = "Flight" THEN at ELSE @] \in StatusTypes /\ Recalls([s EXCEPT !.phase = phase, !.runcam_on = phase \in Filming, !.takeoff_time = IF phase \in OnPad THEN 0 ELSE IF phase = "Flight" THEN at ELSE @], Append(h, Entry("phase", [phase |-> phase, at |-> at])))
<1> DEFINE t == [s EXCEPT !.phase = phase, !.runcam_on = phase \in Filming, !.takeoff_time = IF phase \in OnPad THEN 0 ELSE IF phase = "Flight" THEN at ELSE @]  g == Append(h, Entry("phase", [phase |-> phase, at |-> at]))
<1>1. PICK D : h \in Seq(D)
  BY Zenon DEF Recalls
<1>0. g = Append(h, Entry("phase", [phase |-> phase, at |-> at]))
  OBVIOUS
<1> HIDE DEF g
<1>2. /\ \E A : g \in Seq(A)
      /\ LastIn(g, "power", 0) = LastIn(h, "power", 0)
      /\ LastIn(g, "arm", Still) = LastIn(h, "arm", Still)
      /\ PositionIn(g) = PositionIn(h)
      /\ ImagesIn(g) = ImagesIn(h)
      /\ TakeoffIn(g) = IF [phase |-> phase, at |-> at].phase \in OnPad \cup {"Flight"} THEN IF [phase |-> phase, at |-> at].phase = "Flight" THEN [phase |-> phase, at |-> at].at ELSE 0 ELSE TakeoffIn(h)
      /\ LastIn(g, "gps", NoFix) = LastIn(h, "gps", NoFix)
      /\ PhaseIn(g) = [phase |-> phase, at |-> at].phase
      /\ FilmedIn(g) = ([phase |-> phase, at |-> at].phase \in Filming)
  <2> DEFINE k == "phase"
  <2>1. k = "phase"
    OBVIOUS
  <2> HIDE DEF k
  <2>2. g = Append(h, Entry(k, [phase |-> phase, at |-> at]))
    BY <1>0 DEF k
  <2>3. Told(g, h, k, [phase |-> phase, at |-> at])
    BY <1>1, <2>2, EntryTold, Zenon
  <2>4. k # "power" /\ k # "arm" /\ k # "gps" /\ k # "image" /\ k # "camera"
    BY <2>1
  <2> QED
    BY <2>1, <2>3, <2>4, Zenon DEF Told
<1> DEFINE b == phase \in Filming  m == IF phase \in OnPad THEN 0 ELSE IF phase = "Flight" THEN at ELSE s.takeoff_time
<1>5. b \in BOOLEAN /\ m \in Nat
  BY DEF StatusTypes
<1> HIDE DEF b, m
<1>6. t = [s EXCEPT !.phase = phase, !.runcam_on = b, !.takeoff_time = m]
  BY DEF b, m
<1>3. /\ t \in StatusTypes
      /\ t.phase = phase
      /\ t.gps = s.gps
      /\ t.good = s.good
      /\ t.mV = s.mV
      /\ t.arm = s.arm
      /\ t.accel = s.accel
      /\ t.last_image_id = s.last_image_id
      /\ t.takeoff_time = m
      /\ t.runcam_on = b
  BY <1>5, <1>6 DEF StatusTypes
<1> HIDE DEF t
<1>7. m = TakeoffIn(g)
  <2>1. [phase |-> phase, at |-> at].phase = phase /\ [phase |-> phase, at |-> at].at = at
    OBVIOUS
  <2>2. TakeoffIn(g) = IF phase \in OnPad \cup {"Flight"} THEN IF phase = "Flight" THEN at ELSE 0 ELSE TakeoffIn(h)
    BY <1>2, <2>1, Zenon
  <2>3. s.takeoff_time = TakeoffIn(h)
    BY Zenon DEF Recalls
  <2>4. "Flight" \notin OnPad
    BY DEF OnPad
  <2> QED
    BY <2>2, <2>3, <2>4, Zenon DEF m
<1>8. t.phase = PhaseIn(g) /\ t.runcam_on = FilmedIn(g)
  <2>1. [phase |-> phase, at |-> at].phase = phase
    OBVIOUS
  <2> QED
    BY <1>2, <1>3, <2>1, Zenon DEF b
<1>4. Recalls(t, g)
  BY <1>2, <1>3, <1>7, <1>8, Zenon DEF Recalls
<1> QED
  BY <1>3, <1>4 DEF t, g

(* The camera, by a command.                                               *)
LEMMA CameraRecalled ==
  ASSUME NEW s \in StatusTypes, NEW h, Recalls(s, h), NEW v \in BOOLEAN
  PROVE  [s EXCEPT !.runcam_on = v] \in StatusTypes /\ Recalls([s EXCEPT !.runcam_on = v], Append(h, Entry("camera", v)))
<1> DEFINE t == [s EXCEPT !.runcam_on = v]  g == Append(h, Entry("camera", v))
<1>1. PICK D : h \in Seq(D)
  BY Zenon DEF Recalls
<1>0. g = Append(h, Entry("camera", v))
  OBVIOUS
<1> HIDE DEF g
<1>2. /\ \E A : g \in Seq(A)
      /\ LastIn(g, "power", 0) = LastIn(h, "power", 0)
      /\ LastIn(g, "arm", Still) = LastIn(h, "arm", Still)
      /\ PositionIn(g) = PositionIn(h)
      /\ ImagesIn(g) = ImagesIn(h)
      /\ TakeoffIn(g) = TakeoffIn(h)
      /\ LastIn(g, "gps", NoFix) = LastIn(h, "gps", NoFix)
      /\ PhaseIn(g) = PhaseIn(h)
      /\ FilmedIn(g) = v
  <2> DEFINE k == "camera"
  <2>1. k = "camera"
    OBVIOUS
  <2> HIDE DEF k
  <2>2. g = Append(h, Entry(k, v))
    BY <1>0 DEF k
  <2>3. Told(g, h, k, v)
    BY <1>1, <2>2, EntryTold, Zenon
  <2>4. k # "power" /\ k # "arm" /\ k # "gps" /\ k # "image" /\ k # "phase"
    BY <2>1
  <2> QED
    BY <2>1, <2>3, <2>4, Zenon DEF Told
<1>3. /\ t \in StatusTypes
      /\ t.phase = s.phase
      /\ t.gps = s.gps
      /\ t.good = s.good
      /\ t.mV = s.mV
      /\ t.arm = s.arm
      /\ t.accel = s.accel
      /\ t.last_image_id = s.last_image_id
      /\ t.takeoff_time = s.takeoff_time
      /\ t.runcam_on = v
  BY DEF StatusTypes
<1> HIDE DEF t
<1>4. Recalls(t, g)
  BY <1>2, <1>3, Zenon DEF Recalls
<1> QED
  BY <1>3, <1>4 DEF t, g

Beats == {"FlightHeartbeat", "LandedHeartbeat"}

(* What the ground reads is what was so.                                   *)
Agreed(r, truth) == r.res = "AllGood" /\ \A f \in DOMAIN truth : r.data[f] = truth[f]
Reads(r, truth) ==
  /\ r.cmd \in {"Link", "Image", "ImageMetadata"} => Agreed(r, truth)
  /\ r.cmd = "TelemetryRequest" /\ r.res = "AllGood" /\ r.typ \in Beats => Agreed(r, truth)
Good(d) == Reads(GroundUnpacks(d.bytes), d.truth)

(* The code of a type of telemetry names it.                               *)
LEMMA TelemetryCodeIs ==
  ASSUME NEW typ \in Range(TelemetryTypes)
  PROVE  TelemetryCode(typ) \in 0..7 /\ TelemetryTypes[TelemetryCode(typ) + 1] = typ
<1> DEFINE i == CHOOSE k \in DOMAIN TelemetryTypes : TelemetryTypes[k] = typ
<1>1. DOMAIN TelemetryTypes = 1..8
  BY DEF TelemetryTypes
<1>2. \E k \in DOMAIN TelemetryTypes : TelemetryTypes[k] = typ
  BY Zenon DEF Range
<1>3. i \in DOMAIN TelemetryTypes /\ TelemetryTypes[i] = typ
  BY <1>2, Zenon
<1>4. TelemetryCode(typ) = i - 1
  BY Zenon DEF TelemetryCode
<1> HIDE DEF i
<1>5. TelemetryCode(typ) \in 0..7 /\ TelemetryCode(typ) + 1 = i
  BY <1>1, <1>3, <1>4
<1> QED
  BY <1>3, <1>5, Zenon

(* What the ground unpacks of a response.                                  *)
LEMMA ResponseRead ==
  ASSUME NEW expected \in 0..63, NEW T, Octet \subseteq T, NEW data \in Seq(T), NEW cmd \in Range(Commands)
  PROVE  /\ cmd = "TelemetryRequest" =>
              GroundUnpacks(Headed(2, expected, PackResponse(cmd, data))) = UnpackTelemetry(cmd, data)
         /\ cmd = "ImageMetadata" =>
              GroundUnpacks(Headed(2, expected, PackResponse(cmd, data))) =
                Response(cmd, "none", Unpacked(UnpackedImageMetadata, Len(UnpackedImageMetadata), data, 0))
<1> DEFINE c == Code(cmd)  b == PackResponse(cmd, data)  k == Len(Commands)  B == Headed(2, expected, b)
<1>1. k = 24 /\ c \in 0..23 /\ Commands[c + 1] = cmd
  BY CodeIs
<1>2. c \in T
  <2>1. c \in Octet
    <3> HIDE DEF c
    <3> QED
      BY <1>1 DEF Octet
  <2> QED
    BY <2>1
<1>3. b = <<c>> \o data
  BY Zenon DEF PackResponse
<1> HIDE DEF c, b, k
<1>4. /\ <<c>> \o data \in Seq(T) /\ Len(<<c>> \o data) = Len(data) + 1 /\ Len(data) \in Nat
      /\ (<<c>> \o data)[1] = c /\ Tail(<<c>> \o data) = data
  BY <1>2, Prefixed
<1>5. b \in Seq(T) /\ Len(b) = Len(data) + 1 /\ Len(data) \in Nat /\ b[1] = c /\ Tail(b) = data
  BY <1>3, <1>4, Zenon
<1>6. ~(Len(b) < 1) /\ b[1] < k /\ Commands[b[1] + 1] = cmd
  BY <1>1, <1>5
<1>7. Tail(B) = b /\ Unpack(UnpackedHeader, B, 0).packet_type = 2
  <2>1. 2 \in 0..3 /\ Octet \subseteq T /\ b \in Seq(T) /\ expected \in 0..63
    BY <1>5
  <2> QED
    BY <2>1, HeaderRead, Zenon
<1>8. GroundUnpacks(B) = UnpackResponse(b)
  BY <1>7, Zenon DEF GroundUnpacks
<1>9. UnpackResponse(b) =
        IF cmd = "TelemetryRequest" THEN UnpackTelemetry(cmd, data)
        ELSE Response(cmd, "none",
               IF cmd \in Acknowledged THEN [res |-> "AllGood", data |-> NoData]
               ELSE IF cmd = "ImageMetadata"
                    THEN Unpacked(UnpackedImageMetadata, Len(UnpackedImageMetadata), data, 0)
               ELSE Refused(IF cmd \in Unimplemented THEN "Unimplemented" ELSE "UnknownCommand"))
  BY <1>5, <1>6, Zenon DEF UnpackResponse, k
<1>10. "ImageMetadata" \notin Acknowledged /\ "ImageMetadata" # "TelemetryRequest"
  BY DEF Acknowledged
<1> QED
  BY <1>8, <1>9, <1>10, Zenon DEF b

(* What it unpacks of telemetry.                                           *)
LEMMA TelemetryRead ==
  ASSUME NEW T, Octet \subseteq T, NEW body \in Seq(T), NEW typ \in Range(TelemetryTypes), NEW r,
         r = UnpackTelemetry("TelemetryRequest", <<TelemetryCode(typ)>> \o body)
  PROVE  /\ r.cmd = "TelemetryRequest"
         /\ typ \notin Beats => r.typ \notin Beats
         /\ typ \in Beats =>
              r = Response("TelemetryRequest", typ,
                    Unpacked(UnpackedTelemetryLayout(typ), Len(UnpackedTelemetryLayout(typ)), body, 0))
<1> DEFINE c == TelemetryCode(typ)  b == <<c>> \o body
<1>1. c \in 0..7 /\ TelemetryTypes[c + 1] = typ
  BY TelemetryCodeIs
<1>2. c \in T
  <2>1. c \in Octet
    <3> HIDE DEF c
    <3> QED
      BY <1>1 DEF Octet
  <2> QED
    BY <2>1
<1>0. typ \in Beats => c \in 0..5
  <2>1. TelemetryTypes[7] = "Temps" /\ TelemetryTypes[8] = "Power"
    BY DEF TelemetryTypes
  <2>2. c = 6 \/ c = 7 => typ \notin Beats
    <3> HIDE DEF c
    <3> QED
      BY <1>1, <2>1 DEF Beats
  <2> HIDE DEF c
  <2> QED
    BY <1>1, <2>2
<1> HIDE DEF c
<1>3. Len(b) = Len(body) + 1 /\ Len(body) \in Nat /\ b[1] = c /\ Tail(b) = body
  BY <1>2, Prefixed
<1> HIDE DEF b
<1>4. ~(Len(b) < 1) /\ TelemetryTypes[b[1] + 1] = typ
  BY <1>1, <1>3
<1>5. r = IF c \notin 0..5 THEN Response("TelemetryRequest", "none", Refused("UnknownCommand"))
          ELSE Response("TelemetryRequest", typ,
                 Unpacked(UnpackedTelemetryLayout(typ), Len(UnpackedTelemetryLayout(typ)), body, 0))
  BY <1>3, <1>4, Zenon DEF UnpackTelemetry, b, c
<1> DEFINE x == Refused("UnknownCommand")
           y == Unpacked(UnpackedTelemetryLayout(typ), Len(UnpackedTelemetryLayout(typ)), body, 0)
           X == Response("TelemetryRequest", "none", x)  Y == Response("TelemetryRequest", typ, y)
<1>6. X.cmd = "TelemetryRequest" /\ X.typ = "none" /\ Y.cmd = "TelemetryRequest" /\ Y.typ = typ
  <2> HIDE DEF x, y
  <2> QED
    BY DEF Response
<1>12. (c \in 0..5 => r = Y) /\ (c \notin 0..5 => r = X)
  BY <1>5, Zenon
<1> HIDE DEF X, Y
<1>7. "none" \notin Beats
  BY DEF Beats
<1>8. r.cmd = "TelemetryRequest"
  <2>1. CASE c \in 0..5
    BY <1>12, <1>6, <2>1, Zenon
  <2>2. CASE c \notin 0..5
    BY <1>12, <1>6, <2>2, Zenon
  <2> QED
    BY <2>1, <2>2
<1>9. typ \notin Beats => r.typ \notin Beats
  <2>1. CASE c \in 0..5
    BY <1>12, <1>6, <2>1, Zenon
  <2>2. CASE c \notin 0..5
    BY <1>12, <1>6, <1>7, <2>2, Zenon
  <2> QED
    BY <2>1, <2>2
<1>10. ASSUME typ \in Beats
      PROVE  r = Response("TelemetryRequest", typ,
                    Unpacked(UnpackedTelemetryLayout(typ), Len(UnpackedTelemetryLayout(typ)), body, 0))
  BY <1>0, <1>12, <1>10, Zenon DEF Y
<1> QED
  BY <1>8, <1>9, <1>10

(* A packet whose fields are carried is read with the same fields.         *)
LEMMA CarriedRead ==
  ASSUME NEW L, NEW v, NEW F, Carried(L, v, F), NEW r, r = Unpacked(L, Len(L), Pack(L, v), 0)
  PROVE  r.res = "AllGood" /\ r.data = [f \in F |-> v[f]]
<1> DEFINE s == Pack(L, v)  w == <<>>
<1>1. s \in Seq(Octet) /\ Len(s) = Len(L)
  BY DEF Carried
<1>2. w \in Seq(Octet)
  OBVIOUS
<1>3. Carried(L, v, F)
  OBVIOUS
<1> HIDE DEF w
<1>4. Unpack(L, Pack(L, v) \o w, 0) = [f \in F |-> v[f]]
  BY ONLY <1>2, <1>3, UnpackIs
<1> HIDE DEF s
<1>5. s \o w = s /\ ~(Len(s) < Len(L))
  BY <1>1 DEF w
<1>6. Unpack(L, s, 0) = [f \in F |-> v[f]]
  BY <1>4, <1>5, Zenon DEF s
<1>7. r = [res |-> "AllGood", data |-> [f \in F |-> v[f]]]
  BY <1>5, <1>6, Zenon DEF Unpacked, s
<1> QED
  BY <1>7

(* A packet that holds the telemetry v, and what is read of it.            *)
TelemetryPacket(typ, v) == Headed(2, 1, PackResponse("TelemetryRequest", PackTelemetry(typ, v)))

(* Every layout packs to a list.                                           *)
LEMMA PacketIs ==
  ASSUME NEW L, NEW X, L \in Seq(X), NEW v
  PROVE  \E T : Octet \subseteq T /\ Pack(L, v) \in Seq(T)
<1> DEFINE s == Pack(L, v)  n == Len(L)  T == Octet \cup {s[i] : i \in 1..n}
<1>1. n \in Nat /\ DOMAIN L = 1..n
  OBVIOUS
<1>2. s \in [1..n -> T]
  <2>1. s = [i \in 1..n |-> PackedByte(L[i], v)]
    BY <1>1, Zenon DEF Pack
  <2> HIDE DEF s, n
  <2>2. DOMAIN s = 1..n /\ s = [i \in 1..n |-> s[i]]
    BY <2>1, Zenon
  <2> QED
    BY <2>2, Zenon
<1> HIDE DEF s, n, T
<1>3. s \in Seq(T)
  BY <1>1, <1>2, ListIsSeq
<1>4. Octet \subseteq T
  BY DEF T
<1> QED
  BY <1>3, <1>4, Zenon DEF s

(* What the ground unpacks of a telemetry packet.                          *)
LEMMA TelemetryHeard ==
  ASSUME NEW typ \in Range(TelemetryTypes), NEW X, TelemetryLayout(typ) \in Seq(X), NEW v,
         NEW r, r = GroundUnpacks(TelemetryPacket(typ, v))
  PROVE  /\ r.cmd = "TelemetryRequest"
         /\ typ \notin Beats => r.typ \notin Beats
         /\ typ \in Beats =>
              r = Response("TelemetryRequest", typ,
                    Unpacked(UnpackedTelemetryLayout(typ), Len(UnpackedTelemetryLayout(typ)),
                             Pack(TelemetryLayout(typ), v), 0))
<1> DEFINE s == Pack(TelemetryLayout(typ), v)  c == TelemetryCode(typ)  b == <<c>> \o s
           cmd == "TelemetryRequest"  e == 1
           u == UnpackTelemetry(cmd, b)
<1>1. PICK T : Octet \subseteq T /\ s \in Seq(T)
  BY PacketIs
<1>2. cmd \in Range(Commands) /\ e \in 0..63
  <2>1. Commands[23] = "TelemetryRequest" /\ 23 \in DOMAIN Commands
    BY DEF Commands
  <2> QED
    BY <2>1 DEF Range
<1>3. cmd = "TelemetryRequest" /\ e = 1
  OBVIOUS
<1> HIDE DEF cmd, e
<1>4. c \in T
  <2>1. c \in 0..7
    BY TelemetryCodeIs
  <2> HIDE DEF c
  <2>2. c \in Octet
    BY <2>1 DEF Octet
  <2> QED
    BY <1>1, <2>2
<1> HIDE DEF s, c
<1>5. b \in Seq(T)
  BY <1>1, <1>4, Prefixed
<1> HIDE DEF b
<1>6. GroundUnpacks(Headed(2, e, PackResponse(cmd, b))) = u
  BY <1>1, <1>2, <1>3, <1>5, ResponseRead
<1>7. PackTelemetry(typ, v) = b
  BY Zenon DEF PackTelemetry, b, c, s
<1>8. r = u
  BY <1>3, <1>6, <1>7, Zenon DEF TelemetryPacket
<1>9. r = UnpackTelemetry("TelemetryRequest", <<TelemetryCode(typ)>> \o s)
  BY <1>3, <1>8, Zenon DEF u, b, c
<1> HIDE DEF u
<1> QED
  BY <1>1, <1>9, TelemetryRead DEF s

(* Telemetry of another type is never taken for a heartbeat.               *)
LEMMA OtherTelemetryGood ==
  ASSUME NEW typ \in Range(TelemetryTypes), typ \notin Beats, NEW X, TelemetryLayout(typ) \in Seq(X), NEW v, NEW truth
  PROVE  Good(Down(TelemetryPacket(typ, v), truth))
<1> DEFINE r == GroundUnpacks(TelemetryPacket(typ, v))  d == Down(TelemetryPacket(typ, v), truth)
<1>0. r = GroundUnpacks(TelemetryPacket(typ, v))
  OBVIOUS
<1>4. d.bytes = TelemetryPacket(typ, v) /\ d.truth = truth
  BY Zenon DEF Down
<1> HIDE DEF r, d
<1>1. r.cmd = "TelemetryRequest" /\ r.typ \notin Beats
  BY <1>0, TelemetryHeard
<1>2. r.cmd \notin {"Link", "Image", "ImageMetadata"}
  BY <1>1
<1>3. Reads(r, truth)
  BY <1>1, <1>2, Zenon DEF Reads
<1>5. Good(d)
  BY <1>0, <1>3, <1>4, Zenon DEF Good
<1> QED
  BY <1>5 DEF d

(* A heartbeat that carries what is so reads as what is so.                *)
LEMMA BeatGood ==
  ASSUME NEW typ \in Range(TelemetryTypes), typ \in Beats, NEW L, TelemetryLayout(typ) = L,
         UnpackedTelemetryLayout(typ) = L, NEW v, NEW F, Carried(L, v, F),
         NEW truth, DOMAIN truth \subseteq F, \A f \in DOMAIN truth : v[f] = truth[f]
  PROVE  Good(Down(TelemetryPacket(typ, v), truth))
<1> DEFINE r == GroundUnpacks(TelemetryPacket(typ, v))  d == Down(TelemetryPacket(typ, v), truth)
           u == Unpacked(L, Len(L), Pack(L, v), 0)
<1>0. r = GroundUnpacks(TelemetryPacket(typ, v)) /\ u = Unpacked(L, Len(L), Pack(L, v), 0)
  OBVIOUS
<1>4. d.bytes = TelemetryPacket(typ, v) /\ d.truth = truth
  BY Zenon DEF Down
<1> HIDE DEF r, d, u
<1>1. TelemetryLayout(typ) \in Seq(SUBSET Pieces)
  BY Zenon DEF Carried, Layout
<1>2. /\ r.cmd = "TelemetryRequest"
      /\ r = Response("TelemetryRequest", typ,
                    Unpacked(UnpackedTelemetryLayout(typ), Len(UnpackedTelemetryLayout(typ)),
                             Pack(TelemetryLayout(typ), v), 0))
  BY <1>0, <1>1, TelemetryHeard
<1>3. r = Response("TelemetryRequest", typ, u)
  BY <1>0, <1>2, Zenon
<1>5. u.res = "AllGood" /\ u.data = [f \in F |-> v[f]]
  BY <1>0, CarriedRead
<1>6. r.res = u.res /\ r.data = u.data
  BY <1>3 DEF Response
<1>7. r.cmd \notin {"Link", "Image", "ImageMetadata"}
  BY <1>2
<1>8. Agreed(r, truth)
  BY <1>5, <1>6, Zenon DEF Agreed
<1>9. Reads(r, truth)
  BY <1>7, <1>8, Zenon DEF Reads
<1>10. Good(d)
  BY <1>0, <1>9, <1>4, Zenon DEF Good
<1> QED
  BY <1>10 DEF d

(* Numbers that fit.                                                       *)
LEMMA SmallNumbers ==
  /\ \A n \in Nat : n <= 255 => n \in Octet
  /\ \A n \in Nat : n <= 65535 => n \in Word
  /\ Octet \subseteq Word
<1>1. \A n \in Nat : n <= 255 => n \in Octet
  BY DEF Octet
<1>2. ASSUME NEW n \in Nat, n <= 65535 PROVE n \in Word
  <2> DEFINE k == 65535
  <2>1. n <= k /\ k \in Nat
    BY <1>2
  <2>2. Word = 0..k
    BY SMT DEF Word
  <2> HIDE DEF k
  <2>3. n \in 0..k
    BY <2>1
  <2> QED
    BY <2>2, <2>3
<1>3. \A n \in Octet : n \in Nat /\ n <= 65535
  BY DEF Octet
<1> QED
  BY <1>1, <1>2, <1>3

(* The fields of the heartbeats fit their bytes: the phase,                *)
LEMMA PhaseIsOctet == ASSUME NEW p \in Range(PhaseNames) PROVE FlightPhase(p) \in Octet
<1> DEFINE i == FlightPhase(p)
<1>1. DOMAIN PhaseNames = 1..8
  BY DEF PhaseNames
<1>2. \E k \in DOMAIN PhaseNames : PhaseNames[k] = p
  BY Zenon DEF Range
<1>3. i \in DOMAIN PhaseNames
  BY <1>2, Zenon DEF FlightPhase
<1> HIDE DEF i
<1>4. i \in Octet
  BY <1>1, <1>3, SmallNumbers
<1> QED
  BY <1>4 DEF i

(* the status bits,                                                        *)
LEMMA BitsAreWord == ASSUME NEW s \in StatusTypes PROVE StatusBits(s) \in Word
<1> DEFINE g == HasGps(s)  m == s.arm.motor_en  f == s.arm.flip_servo_en  c == s.arm.cant_trust
           b == s.arm.booted  r == IF s.runcam_on THEN 2^10 ELSE 0
           n == g * 2^9 + m * 2^4 + r + f * 2^5 + c * 2^11 + b * 2^12
<1>1. m \in {0, 1} /\ f \in {0, 1} /\ c \in {0, 1} /\ b \in {0, 1}
  BY DEF StatusTypes, ArmTypes
<1>2. g \in {0, 1}
  BY DEF HasGps
<1>3. r = 2^10 \/ r = 0
  BY Zenon
<1>4. n = StatusBits(s)
  BY Zenon DEF StatusBits
<1> HIDE DEF g, m, f, c, b, r
<1>5. 2^9 = 512 /\ 2^4 = 16 /\ 2^5 = 32 /\ 2^11 = 2048 /\ 2^12 = 4096 /\ 2^10 = 1024
  BY SMT
<1>6. n \in Nat /\ n <= 65535
  BY <1>1, <1>2, <1>3, <1>5
<1> QED
  BY <1>4, <1>6, SmallNumbers

(* the position,                                                           *)
LEMMA PositionTyped ==
  ASSUME NEW s \in StatusTypes
  PROVE  /\ LastGoodPosition(s).latitude \in Quad /\ LastGoodPosition(s).longitude \in Quad
         /\ Max({0, LastGoodPosition(s).altitude_m}) \in Word
         /\ Max({0, LastGoodPosition(s).altitude_m}) =
              IF LastGoodPosition(s).altitude_m > 0 THEN LastGoodPosition(s).altitude_m ELSE 0
<1> DEFINE p == LastGoodPosition(s)  a == p.altitude_m  m == Max({0, a})
<1>1. p \in GpsTypes
  BY DEF LastGoodPosition, StatusTypes
<1>2. p.latitude \in Quad /\ p.longitude \in Quad /\ a \in Int /\ a < 2^16
  <2> HIDE DEF p
  <2> QED
    BY <1>1 DEF GpsTypes
<1> HIDE DEF a
<1>3. m \in Int /\ m = IF a > 0 THEN a ELSE 0
  BY <1>2, MaxOfZero
<1> HIDE DEF m
<1>4. m \in Nat /\ m <= 65535
  BY <1>2, <1>3, Powers
<1>5. m \in Word
  BY <1>4, SmallNumbers
<1> QED
  BY <1>2, <1>3, <1>5 DEF m, a

(* the seconds since boost,                                                *)
LEMMA SinceIsWord == ASSUME NEW s \in StatusTypes, clock \in Nat PROVE SinceBoost(s) \in Word
<1> DEFINE n == SinceBoost(s)  t == s.takeoff_time
<1>1. t \in Nat
  BY DEF StatusTypes
<1>2. n = IF t = 0 THEN 0 ELSE IF clock < t \/ clock - t > 65535 THEN 65535 ELSE clock - t
  BY DEF SinceBoost
<1> HIDE DEF n, t
<1>3. n \in Nat /\ n <= 65535
  BY <1>1, <1>2
<1> QED
  BY <1>3, SmallNumbers DEF n

(* and the bus voltage.                                                    *)
LEMMA BatteryIsWord == ASSUME NEW s \in StatusTypes PROVE MvFromVolts(s.mV) \in Word
<1> DEFINE n == MvFromVolts(s.mV)
<1>1. n \in Nat /\ n <= 65535
  BY DEF StatusTypes, MvFromVolts
<1> HIDE DEF n
<1> QED
  BY <1>1, SmallNumbers DEF n

FlightFields == {"phase", "status_bits", "latitude", "longitude", "altitude", "s_since_boost",
                 "battery_mV", "radio_temp"}
LandedFields == {"phase", "status_bits", "next_image_id", "next_exec_id", "shoulder_yaw",
                 "shoulder_pitch", "elbow_pitch", "wrist_pitch", "battery_mV", "motor_temp",
                 "radio_temp", "base_x", "base_y", "base_z", "link2_x", "link2_y", "link2_z"}

Zeros == [f \in Names |-> 0]

(* Zero fits everywhere.                                                   *)
LEMMA ZeroTyped == \A f \in Names : Zeros[f] \in Octet /\ Zeros[f] \in Word /\ Zeros[f] \in Quad
<1>1. 0 \in Octet /\ 0 \in Word
  BY SmallNumbers
<1>2. 0 \in Quad
  BY SMT DEF Quad
<1> QED
  BY <1>1, <1>2 DEF Zeros

(* The fields of the heartbeats.                                           *)
LEMMA BeatFields == Fields(FlightHeartbeat) = FlightFields /\ Fields(LandedHeartbeat) = LandedFields
<1> DEFINE v == Zeros
<1>1. \A f \in FlightFields \cup LandedFields : v[f] \in Octet /\ v[f] \in Word /\ v[f] \in Quad
  <2>1. FlightFields \cup LandedFields \subseteq Names
    BY DEF FlightFields, LandedFields, Names
  <2> QED
    BY <2>1, ZeroTyped
<1> HIDE DEF v
<1>2. Carried(FlightHeartbeat, v, FlightFields)
  <2>1. /\ v["phase"] \in Octet /\ v["status_bits"] \in Word /\ v["latitude"] \in Quad
        /\ v["longitude"] \in Quad /\ v["altitude"] \in Word /\ v["s_since_boost"] \in Word
        /\ v["battery_mV"] \in Word /\ v["radio_temp"] \in Octet
    BY <1>1 DEF FlightFields
  <2> QED
    BY <2>1, FlightHeartbeatCarried, Zenon DEF FlightFields
<1>3. Carried(LandedHeartbeat, v, LandedFields)
  <2>1. /\ v["phase"] \in Octet /\ v["status_bits"] \in Word /\ v["next_image_id"] \in Octet
        /\ v["next_exec_id"] \in Octet /\ v["shoulder_yaw"] \in Octet /\ v["shoulder_pitch"] \in Octet
        /\ v["elbow_pitch"] \in Octet /\ v["wrist_pitch"] \in Octet /\ v["battery_mV"] \in Word
        /\ v["motor_temp"] \in Octet /\ v["radio_temp"] \in Octet /\ v["base_x"] \in Word
        /\ v["base_y"] \in Word /\ v["base_z"] \in Word /\ v["link2_x"] \in Word
        /\ v["link2_y"] \in Word /\ v["link2_z"] \in Word
    BY <1>1 DEF LandedFields
  <2> QED
    BY <2>1, LandedHeartbeatCarried, Zenon DEF LandedFields
<1> QED
  BY <1>2, <1>3, Zenon DEF Carried

(* The layouts of the heartbeats, packed and unpacked.                     *)
LEMMA BeatLayouts ==
  /\ TelemetryLayout("FlightHeartbeat") = FlightHeartbeat /\ UnpackedTelemetryLayout("FlightHeartbeat") = FlightHeartbeat
  /\ TelemetryLayout("LandedHeartbeat") = LandedHeartbeat /\ UnpackedTelemetryLayout("LandedHeartbeat") = LandedHeartbeat
  /\ Beats \subseteq Range(TelemetryTypes)
<1>1. UnpackedFlightHeartbeat = FlightHeartbeat /\ UnpackedLandedHeartbeat = LandedHeartbeat
  <2>1. UnpackedArmTarget = ArmTarget /\ UnpackedFlightState = FlightState
    BY Zenon DEF ArmTarget, UnpackedArmTarget, FlightState, UnpackedFlightState
  <2> QED
    BY <2>1, Zenon DEF FlightHeartbeat, UnpackedFlightHeartbeat, LandedHeartbeat, UnpackedLandedHeartbeat
<1>2. /\ "FlightHeartbeat" \in DOMAIN TelemetryLayouts /\ TelemetryLayouts["FlightHeartbeat"] = FlightHeartbeat
      /\ "LandedHeartbeat" \in DOMAIN TelemetryLayouts /\ TelemetryLayouts["LandedHeartbeat"] = LandedHeartbeat
  BY DEF TelemetryLayouts
<1>3. /\ "FlightHeartbeat" \in DOMAIN UnpackedTelemetryLayouts
      /\ UnpackedTelemetryLayouts["FlightHeartbeat"] = UnpackedFlightHeartbeat
      /\ "LandedHeartbeat" \in DOMAIN UnpackedTelemetryLayouts
      /\ UnpackedTelemetryLayouts["LandedHeartbeat"] = UnpackedLandedHeartbeat
  BY DEF UnpackedTelemetryLayouts
<1>4. TelemetryTypes[1] = "FlightHeartbeat" /\ TelemetryTypes[2] = "LandedHeartbeat" /\ DOMAIN TelemetryTypes = 1..8
  BY DEF TelemetryTypes
<1>5. Beats \subseteq Range(TelemetryTypes)
  BY <1>4 DEF Beats, Range
<1> QED
  BY <1>1, <1>2, <1>3, <1>5, Zenon DEF TelemetryLayout, UnpackedTelemetryLayout, LayoutIn

FilledFrom(v, g, F, x) ==
  (\A f \in DOMAIN g : v[f] = g[f]) /\ (\A f \in F : f \notin DOMAIN g => v[f] = x)

(* What is filled up: the fields that are set, and stray bytes.            *)
LEMMA FilledIs ==
  ASSUME NEW g, NEW F, NEW x
  PROVE  FilledFrom(Filled(g, [f \in F |-> x]), g, F, x)
BY DEF Filled, FilledFrom

(* The flight heartbeat of a status reads as what is so.                   *)
LEMMA FlightBeatGood ==
  ASSUME NEW s \in StatusTypes, clock \in Nat, NEW stray \in Octet, NEW truth,
         DOMAIN truth \subseteq FlightFields, \A f \in DOMAIN truth : truth[f] = FlightHeartbeatOf(s)[f]
  PROVE  Good(Down(PacketForTelemetry("FlightHeartbeat", s, stray), truth))
<1> DEFINE g == FlightHeartbeatOf(s)  typ == "FlightHeartbeat"
           v == Filled(g, [f \in Fields(TelemetryLayout(typ)) |-> stray])
<1>1. DOMAIN g = FlightFields
  BY DEF FlightHeartbeatOf, FlightFields
<1>2. /\ g["phase"] \in Octet /\ g["status_bits"] \in Word /\ g["latitude"] \in Quad
      /\ g["longitude"] \in Quad /\ g["altitude"] \in Word /\ g["s_since_boost"] \in Word
      /\ g["battery_mV"] \in Word /\ g["radio_temp"] \in Octet
  <2>1. FlightPhase(s.phase) \in Octet
    BY PhaseIsOctet DEF StatusTypes
  <2>2. StatusBits(s) \in Word /\ SinceBoost(s) \in Word /\ MvFromVolts(s.mV) \in Word /\ 55 \in Octet
    BY BitsAreWord, SinceIsWord, BatteryIsWord, SmallNumbers
  <2>3. /\ LastGoodPosition(s).latitude \in Quad /\ LastGoodPosition(s).longitude \in Quad
        /\ Max({0, LastGoodPosition(s).altitude_m}) \in Word
    BY PositionTyped
  <2> QED
    BY <2>1, <2>2, <2>3 DEF FlightHeartbeatOf
<1>3. PacketForTelemetry(typ, s, stray) = TelemetryPacket(typ, v)
  BY Zenon DEF PacketForTelemetry, TelemetryPacket, Headed
<1>4. \A f \in DOMAIN g : v[f] = g[f]
  <2>1. FilledFrom(v, g, Fields(TelemetryLayout(typ)), stray)
    BY FilledIs, Zenon
  <2> QED
    BY <2>1, Zenon DEF FilledFrom
<1>5. typ \in Range(TelemetryTypes) /\ typ \in Beats /\ TelemetryLayout(typ) = FlightHeartbeat
      /\ UnpackedTelemetryLayout(typ) = FlightHeartbeat
  BY BeatLayouts DEF Beats
<1>6. \A f \in DOMAIN truth : truth[f] = g[f]
  OBVIOUS
<1> HIDE DEF g, typ, v
<1>7. Carried(FlightHeartbeat, v, FlightFields)
  <2>1. /\ v["phase"] \in Octet /\ v["status_bits"] \in Word /\ v["latitude"] \in Quad
        /\ v["longitude"] \in Quad /\ v["altitude"] \in Word /\ v["s_since_boost"] \in Word
        /\ v["battery_mV"] \in Word /\ v["radio_temp"] \in Octet
    BY <1>1, <1>2, <1>4 DEF FlightFields
  <2> QED
    BY <2>1, FlightHeartbeatCarried, Zenon DEF FlightFields
<1>8. \A f \in DOMAIN truth : v[f] = truth[f]
  BY <1>1, <1>4, <1>6
<1>9. Good(Down(TelemetryPacket(typ, v), truth))
  BY <1>5, <1>7, <1>8, BeatGood
<1> QED
  BY <1>3, <1>9, Zenon DEF typ

(* The landed one does.                                                    *)
LEMMA LandedBeatGood ==
  ASSUME NEW s \in StatusTypes, NEW stray \in Octet, NEW truth,
         DOMAIN truth \subseteq DOMAIN LandedHeartbeatOf(s),
         \A f \in DOMAIN truth : truth[f] = LandedHeartbeatOf(s)[f]
  PROVE  Good(Down(PacketForTelemetry("LandedHeartbeat", s, stray), truth))
<1> DEFINE g == LandedHeartbeatOf(s)  typ == "LandedHeartbeat"
           v == Filled(g, [f \in Fields(TelemetryLayout(typ)) |-> stray])
<1>1. DOMAIN g = {"phase", "status_bits", "next_image_id", "next_exec_id", "shoulder_yaw",
                 "shoulder_pitch", "elbow_pitch", "wrist_pitch", "battery_mV", "motor_temp", "radio_temp"}
  BY DEF LandedHeartbeatOf
<1>2. /\ g["phase"] \in Octet /\ g["status_bits"] \in Word /\ g["next_image_id"] \in Octet
      /\ g["next_exec_id"] \in Octet /\ g["shoulder_yaw"] \in Octet /\ g["shoulder_pitch"] \in Octet
      /\ g["elbow_pitch"] \in Octet /\ g["wrist_pitch"] \in Octet /\ g["battery_mV"] \in Word
      /\ g["motor_temp"] \in Octet /\ g["radio_temp"] \in Octet
  <2>1. FlightPhase(s.phase) \in Octet
    BY PhaseIsOctet DEF StatusTypes
  <2>2. StatusBits(s) \in Word /\ MvFromVolts(s.mV) \in Word /\ 0 \in Octet /\ 20 \in Octet
    BY BitsAreWord, BatteryIsWord, SmallNumbers
  <2>3. /\ s.last_image_id \in Octet /\ s.arm.yaw \in Octet /\ s.arm.pitch \in Octet
        /\ s.arm.elbow \in Octet /\ s.arm.wrist \in Octet
    BY DEF StatusTypes, ArmTypes
  <2> QED
    BY <2>1, <2>2, <2>3 DEF LandedHeartbeatOf
<1>3. PacketForTelemetry(typ, s, stray) = TelemetryPacket(typ, v)
  BY Zenon DEF PacketForTelemetry, TelemetryPacket, Headed
<1>4. /\ \A f \in DOMAIN g : v[f] = g[f]
      /\ \A f \in Fields(TelemetryLayout(typ)) : f \notin DOMAIN g => v[f] = stray
  <2>1. FilledFrom(v, g, Fields(TelemetryLayout(typ)), stray)
    BY FilledIs, Zenon
  <2> QED
    BY <2>1, Zenon DEF FilledFrom
<1>5. typ \in Range(TelemetryTypes) /\ typ \in Beats /\ TelemetryLayout(typ) = LandedHeartbeat
      /\ UnpackedTelemetryLayout(typ) = LandedHeartbeat
  BY BeatLayouts DEF Beats
<1>6. DOMAIN truth \subseteq DOMAIN g /\ \A f \in DOMAIN truth : truth[f] = g[f]
  OBVIOUS
<1> HIDE DEF g, typ, v
<1>10. DOMAIN g \subseteq LandedFields
  BY <1>1 DEF LandedFields
<1>11. Fields(TelemetryLayout(typ)) = LandedFields
  BY <1>5, BeatFields
<1>7. Carried(LandedHeartbeat, v, LandedFields)
  <2>1. /\ v["phase"] \in Octet /\ v["status_bits"] \in Word /\ v["next_image_id"] \in Octet
        /\ v["next_exec_id"] \in Octet /\ v["shoulder_yaw"] \in Octet /\ v["shoulder_pitch"] \in Octet
        /\ v["elbow_pitch"] \in Octet /\ v["wrist_pitch"] \in Octet /\ v["battery_mV"] \in Word
        /\ v["motor_temp"] \in Octet /\ v["radio_temp"] \in Octet
    BY <1>1, <1>2, <1>4
  <2>2. \A f \in {"base_x", "base_y", "base_z", "link2_x", "link2_y", "link2_z"} :
          f \notin DOMAIN g /\ f \in LandedFields
    BY <1>1 DEF LandedFields
  <2>3. stray \in Word
    BY SmallNumbers
  <2>4. /\ v["base_x"] \in Word /\ v["base_y"] \in Word /\ v["base_z"] \in Word
        /\ v["link2_x"] \in Word /\ v["link2_y"] \in Word /\ v["link2_z"] \in Word
    BY <1>4, <1>11, <2>2, <2>3
  <2> QED
    BY <2>1, <2>4, LandedHeartbeatCarried, Zenon DEF LandedFields
<1>8. DOMAIN truth \subseteq LandedFields /\ \A f \in DOMAIN truth : v[f] = truth[f]
  BY <1>10, <1>4, <1>6
<1>9. Good(Down(TelemetryPacket(typ, v), truth))
  BY <1>5, <1>7, <1>8, BeatGood
<1> QED
  BY <1>3, <1>9, Zenon DEF typ

(* Telemetry of another type.                                              *)
LEMMA OtherBeatGood ==
  ASSUME NEW typ \in Range(TelemetryTypes), typ \notin Beats, NEW s, NEW stray, NEW truth
  PROVE  Good(Down(PacketForTelemetry(typ, s, stray), truth))
<1> DEFINE T == SUBSET Pieces  L == TelemetryLayout(typ)
<1>1. L \in Seq(T)
  <2> DEFINE v == Zeros
  <2>1. \A f \in Names : v[f] \in Octet /\ v[f] \in Word
    BY ZeroTyped
  <2> HIDE DEF v
  <2>2. ASSUME NEW f \in Names PROVE Byte(f) \in Seq(T)
    <3>1. v[f] \in Octet
      BY <2>1
    <3>2. Carried(Byte(f), v, {f})
      BY <3>1, ByteCarried
    <3> QED
      BY <3>2 DEF Carried, Layout
  <2>3. ASSUME NEW x \in Names, NEW y \in Names, NEW z \in Names, x # y, x # z, y # z
        PROVE  V3(x, y, z) \in Seq(T)
    <3>1. v[x] \in Word /\ v[y] \in Word /\ v[z] \in Word
      BY <2>1
    <3>2. Carried(V3(x, y, z), v, {x, y, z})
      BY <2>3, <3>1, V3Carried
    <3> QED
      BY <3>2 DEF Carried, Layout
  <2>4. ArmTarget \in Seq(T)
    <3>1. /\ v["shoulder_yaw"] \in Octet /\ v["shoulder_pitch"] \in Octet
          /\ v["elbow_pitch"] \in Octet /\ v["wrist_pitch"] \in Octet
      BY <2>1 DEF Names
    <3>2. Carried(ArmTarget, v, {"shoulder_yaw", "shoulder_pitch", "elbow_pitch", "wrist_pitch"})
      BY <3>1, ArmTargetCarried, Zenon
    <3> QED
      BY <3>2 DEF Carried, Layout
  <2> DEFINE b1 == Byte("servo1")  b2 == Byte("servo2")  b3 == Byte("servo3")  b4 == Byte("servo4")
             i1 == V3("base_x", "base_y", "base_z")  i2 == V3("link1_x", "link1_y", "link1_z")
             i3 == V3("link2_x", "link2_y", "link2_z")
  <2>5. b1 \in Seq(T) /\ b2 \in Seq(T) /\ b3 \in Seq(T) /\ b4 \in Seq(T)
    BY <2>2 DEF Names
  <2>6. i1 \in Seq(T) /\ i2 \in Seq(T) /\ i3 \in Seq(T)
    <3> DEFINE bx == "base_x"  by == "base_y"  bz == "base_z"  lx == "link1_x"  ly == "link1_y"  lz == "link1_z"
               mx == "link2_x"  my == "link2_y"  mz == "link2_z"
    <3>1. /\ bx \in Names /\ by \in Names /\ bz \in Names /\ bx # by /\ bx # bz /\ by # bz
          /\ lx \in Names /\ ly \in Names /\ lz \in Names /\ lx # ly /\ lx # lz /\ ly # lz
          /\ mx \in Names /\ my \in Names /\ mz \in Names /\ mx # my /\ mx # mz /\ my # mz
      BY DEF Names
    <3> HIDE DEF bx, by, bz, lx, ly, lz, mx, my, mz, T
    <3>2. V3(bx, by, bz) \in Seq(T) /\ V3(lx, ly, lz) \in Seq(T) /\ V3(mx, my, mz) \in Seq(T)
      BY <2>3, <3>1
    <3> QED
      BY <3>2, Zenon DEF bx, by, bz, lx, ly, lz, mx, my, mz
  <2>7. Actuators = ArmTarget \o b1 \o b2 \o b3 \o b4 /\ Imus = i1 \o i2 \o i3
    BY Zenon DEF Actuators, Imus
  <2> HIDE DEF b1, b2, b3, b4, i1, i2, i3, T
  <2>8. Actuators \in Seq(T) /\ Imus \in Seq(T) /\ <<>> \in Seq(T)
    BY <2>4, <2>5, <2>6, <2>7
  <2>9. DOMAIN TelemetryLayouts = {"FlightHeartbeat", "LandedHeartbeat", "Actuators", "GNSS", "System", "Orientations"}
    BY DEF TelemetryLayouts
  <2>10. \A x \in DOMAIN TelemetryLayouts : x \notin Beats => TelemetryLayouts[x] \in {Actuators, Imus}
    BY <2>9 DEF TelemetryLayouts, Beats
  <2>11. L = IF typ \in DOMAIN TelemetryLayouts THEN TelemetryLayouts[typ] ELSE <<>>
    BY Zenon DEF TelemetryLayout, LayoutIn
  <2> HIDE DEF L
  <2> QED
    BY <2>8, <2>10, <2>11
<1> DEFINE set == IF typ = "FlightHeartbeat" THEN FlightHeartbeatOf(s)
                  ELSE IF typ = "LandedHeartbeat" THEN LandedHeartbeatOf(s)
                  ELSE IF typ = "Orientations" THEN OrientationsOf(s) ELSE << >>
           v == Filled(set, [f \in Fields(TelemetryLayout(typ)) |-> stray])
<1>2. PacketForTelemetry(typ, s, stray) = TelemetryPacket(typ, v)
  BY Zenon DEF PacketForTelemetry, TelemetryPacket, Headed
<1> HIDE DEF v, T
<1>3. Good(Down(TelemetryPacket(typ, v), truth))
  BY <1>1, OtherTelemetryGood
<1> QED
  BY <1>2, <1>3, Zenon

(* The metadata of a picture reads as what is so.                          *)
LEMMA MetadataGood ==
  ASSUME NEW meta \in MetadataTypes
  PROVE  Good(Down(Headed(2, 0, PackResponse("ImageMetadata", Pack(ImageMetadata, meta))), meta))
<1> DEFINE L == ImageMetadata  s == Pack(L, meta)  cmd == "ImageMetadata"  e == 0
           B == Headed(2, e, PackResponse(cmd, s))  r == GroundUnpacks(B)  d == Down(B, meta)
           u == Unpacked(L, Len(L), s, 0)
           F == {"image_id", "timestamp", "num_blocks", "shoulder_yaw", "shoulder_pitch", "elbow_pitch",
                 "wrist_pitch", "left", "right", "top", "bottom", "output_width", "quality", "latitude",
                 "longitude"}
<1>1. DOMAIN meta = F
  BY DEF MetadataTypes
<1>2. Carried(L, meta, F)
  <2>1. /\ meta["image_id"] \in Octet /\ meta["timestamp"] \in Quad /\ meta["num_blocks"] \in Word
        /\ meta["shoulder_yaw"] \in Octet /\ meta["shoulder_pitch"] \in Octet /\ meta["elbow_pitch"] \in Octet
        /\ meta["wrist_pitch"] \in Octet /\ meta["left"] \in Word /\ meta["right"] \in Word
        /\ meta["top"] \in Word /\ meta["bottom"] \in Word
        /\ meta["latitude"] \in Quad /\ meta["longitude"] \in Quad
    BY DEF MetadataTypes
  <2>2. meta["output_width"] \in Widths /\ meta["quality"] \in Qualities
    <3> DEFINE W == 0..8191  Q == 0..7
    <3>1. meta["output_width"] \in W /\ meta["quality"] \in Q
      BY DEF MetadataTypes
    <3>2. W \subseteq Widths /\ Q \subseteq Qualities
      BY DEF Widths, Qualities
    <3> HIDE DEF W, Q
    <3> QED
      BY <3>1, <3>2
  <2> QED
    BY <2>1, <2>2, ImageMetadataCarried, Zenon
<1>3. cmd \in Range(Commands) /\ e \in 0..63
  <2>1. Commands[11] = "ImageMetadata" /\ 11 \in DOMAIN Commands
    BY DEF Commands
  <2> QED
    BY <2>1 DEF Range
<1>4. UnpackedImageMetadata = L
  <2>1. UnpackedArmTarget = ArmTarget /\ UnpackedPhotoTransform = PhotoTransform
    BY Zenon DEF ArmTarget, UnpackedArmTarget, PhotoTransform, UnpackedPhotoTransform
  <2> QED
    BY <2>1, Zenon DEF ImageMetadata, UnpackedImageMetadata
<1>5. d.bytes = B /\ d.truth = meta
  BY Zenon DEF Down
<1>6. cmd = "ImageMetadata"
  OBVIOUS
<1> HIDE DEF F, L, s, cmd, e, B, d
<1>7. s \in Seq(Octet)
  BY <1>2, Zenon DEF Carried, s
<1>8. r = Response(cmd, "none", u)
  <2> DEFINE O == Octet
  <2>1. Octet \subseteq O /\ s \in Seq(O)
    BY <1>7
  <2> HIDE DEF O
  <2>2. GroundUnpacks(Headed(2, e, PackResponse(cmd, s))) =
          Response(cmd, "none", Unpacked(UnpackedImageMetadata, Len(UnpackedImageMetadata), s, 0))
    BY <1>3, <1>6, <2>1, ResponseRead
  <2> QED
    BY <1>4, <2>2, Zenon DEF B
<1>9. u.res = "AllGood" /\ u.data = [f \in F |-> meta[f]]
  <2>1. u = Unpacked(L, Len(L), Pack(L, meta), 0)
    BY Zenon DEF s
  <2> HIDE DEF u
  <2> QED
    BY <1>2, <2>1, CarriedRead
<1> HIDE DEF u, r
<1>10. r.cmd = "ImageMetadata" /\ r.res = u.res /\ r.data = u.data
  BY <1>6, <1>8 DEF Response
<1>11. Agreed(r, meta)
  BY <1>1, <1>9, <1>10 DEF Agreed
<1>12. r.cmd # "TelemetryRequest"
  BY <1>10
<1>13. Good(d)
  BY <1>5, <1>11, <1>12, Zenon DEF Good, Reads, r
<1> QED
  BY <1>13, Zenon DEF d, B, s, cmd, e, L

(* The bytes of a block that are looked at.                                *)
LEMMA BlockLength == Len(ImageBlock) = 128 /\ ImageDataSize = 128
<1> DEFINE T == SUBSET Pieces  v == Zeros  a == Skip(6)  b == Byte("image_id")  c == Be("block_index", 2)  d == Skip(ImageDataSize - 9)
<1>1. ImageDataSize = 128
  BY DEF ImageDataSize
<1>2. "image_id" \in Names /\ "block_index" \in Names
  BY DEF Names
<1>3. a \in Seq(T) /\ Len(a) = 6
  <2>1. Carried(a, v, {})
    BY SkipCarried
  <2> QED
    BY <2>1 DEF Carried, Layout, Skip
<1>4. d \in Seq(T) /\ Len(d) = 119
  <2> DEFINE k == ImageDataSize - 9
  <2>0. k = 119
    BY <1>1
  <2> HIDE DEF k
  <2>1. Carried(d, v, {})
    BY <2>0, SkipCarried DEF k
  <2> QED
    BY <1>1, <2>1 DEF Carried, Layout, Skip
<1>5. b \in Seq(T) /\ Len(b) = 1
  <2>1. v["image_id"] \in Octet
    BY <1>2, ZeroTyped
  <2>2. Carried(b, v, {"image_id"})
    BY <1>2, <2>1, ByteCarried
  <2> QED
    BY <2>2 DEF Carried, Layout, Byte
<1>6. c \in Seq(T) /\ Len(c) = 2
  <2>1. v["block_index"] \in Word
    BY <1>2, ZeroTyped
  <2>2. Carried(c, v, {"block_index"})
    BY <1>2, <2>1, Be2Carried
  <2> QED
    BY <2>2 DEF Carried, Layout, Be
<1>7. ImageBlock = a \o b \o c \o d
  BY Zenon DEF ImageBlock
<1> HIDE DEF T, a, b, c, d
<1>8. \A x \in Seq(T), y \in Seq(T) : Len(x \o y) = Len(x) + Len(y) /\ x \o y \in Seq(T)
  BY JoinIs
<1> DEFINE ab == a \o b  abc == ab \o c  abcd == abc \o d
<1>9. ab \in Seq(T) /\ Len(ab) = 6 + 1
  BY <1>3, <1>5, <1>8, Zenon
<1> HIDE DEF ab
<1>10. abc \in Seq(T) /\ Len(abc) = Len(ab) + 2
  BY <1>6, <1>8, <1>9, Zenon
<1> HIDE DEF abc
<1>11. Len(abcd) = Len(abc) + Len(d)
  BY <1>4, <1>8, <1>10, Zenon
<1>12. ImageBlock = abcd
  BY <1>7, Zenon DEF ab, abc
<1> HIDE DEF abcd
<1>13. Len(abcd) = 128
  BY <1>4, <1>9, <1>10, <1>11
<1> QED
  BY <1>1, <1>12, <1>13

(* A block has its own names.                                              *)
LEMMA BlockGood ==
  ASSUME NEW id \in Octet, NEW b \in Word
  PROVE  Good(BlockPacket(id, b, b))
<1> DEFINE v == [image_id |-> id, block_index |-> b]  L == ImageBlock  s == Pack(L, v)
           e == 0  B == Headed(3, e, s)  r == GroundUnpacks(B)  d == BlockPacket(id, b, b)
           u == Unpacked(L, Len(L), s, 0)  F == {"image_id", "block_index"}
<1>1. DOMAIN v = F /\ v["image_id"] \in Octet /\ v["block_index"] \in Word
  OBVIOUS
<1>2. d.bytes = B /\ d.truth = v
  BY Zenon DEF BlockPacket, Down, Headed
<1> HIDE DEF v
<1>3. Carried(L, v, F)
  BY <1>1, ImageBlockCarried
<1>4. e \in 0..63 /\ e = 0
  OBVIOUS
<1>5. UnpackedImageData = L /\ ImageDataSize = Len(L)
  <2>1. UnpackedImageData = L
    BY Zenon DEF ImageBlock, UnpackedImageData
  <2> QED
    BY <2>1, BlockLength
<1> HIDE DEF L, s, e, B, d, F
<1>6. s \in Seq(Octet)
  BY <1>3, Zenon DEF Carried, s
<1>7. r = Response("Image", "none", u)
  <2> DEFINE O == Octet  h == Unpack(UnpackedHeader, B, 0)
  <2>1. Octet \subseteq O /\ s \in Seq(O) /\ 3 \in 0..3
    BY <1>6
  <2> HIDE DEF O
  <2>2. Tail(B) = s /\ Unpack(UnpackedHeader, B, 0).packet_type = 3
    BY <1>4, <2>1, HeaderRead, Zenon DEF B
  <2>3. 3 # 2 /\ 3 # 1
    OBVIOUS
  <2> QED
    BY <1>5, <2>2, <2>3, Zenon DEF GroundUnpacks
<1>8. u.res = "AllGood" /\ u.data = [f \in F |-> v[f]]
  <2>1. u = Unpacked(L, Len(L), Pack(L, v), 0)
    BY Zenon DEF s
  <2> HIDE DEF u
  <2> QED
    BY <1>3, <2>1, CarriedRead
<1> HIDE DEF u, r
<1>9. r.cmd = "Image" /\ r.res = u.res /\ r.data = u.data
  BY <1>7 DEF Response
<1>10. Agreed(r, v)
  BY <1>1, <1>8, <1>9 DEF Agreed
<1>11. r.cmd # "TelemetryRequest"
  BY <1>9
<1>12. Good(d)
  BY <1>2, <1>10, <1>11, Zenon DEF Good, Reads, r
<1> QED
  BY <1>12 DEF d

(* The acknowledge of a change is a change, of the profile taken.          *)
LEMMA AcknowledgeTyped ==
  ASSUME NEW c \in LinkTypes, NEW p, p = ProfileOf(c), NEW a, a = Acknowledge(p)
  PROVE  /\ a \in LinkTypes /\ a.freq = p.frequency_hz /\ a.dbm = p.tx_power_dbm
         /\ a.sf = p.spreading_factor - 5 /\ a.cr = p.coding_rate - 5
<1>1. c.sf \in 0..7 /\ c.bw \in 0..3 /\ c.cr \in 0..3 /\ c.dbm \in Octet /\ c.freq \in Quad
  BY DEF LinkTypes
<1>2. p.spreading_factor \in 7..12 /\ p.coding_rate \in 5..8 /\ p.bandwidth_hz = Hertz[c.bw + 1]
      /\ p.frequency_hz = c.freq /\ p.tx_power_dbm = c.dbm
  BY <1>1 DEF ProfileOf
<1>3. \A i \in 1..4 : Hertz[i] \in Nat /\ Hertz[i] >= 62500 /\ Hertz[1] = 62500
  BY DEF Hertz
<1> DEFINE hz == p.bandwidth_hz  S == {i \in 1..4 : hz >= Hertz[i]}  m == Max(S)  w == Bandwidth(hz)
<1>4. hz \in Nat /\ hz >= 62500
  <2>1. c.bw + 1 \in 1..4
    BY <1>1
  <2> QED
    BY <1>2, <1>3, <2>1
<1> HIDE DEF hz
<1>5. S \in SUBSET (1..4) /\ 1 \in S /\ S # {} /\ 4 \in Nat
  BY <1>3, <1>4
<1>6. m \in 1..4
  <2> HIDE DEF S
  <2>1. m \in S
    BY <1>5, HasMax
  <2> QED
    BY <1>5, <2>1
<1>7. w = m - 1
  BY <1>4 DEF Bandwidth
<1> HIDE DEF m, w
<1>8. w \in 0..3
  BY <1>6, <1>7
<1>9. /\ a.num_test_packets = 1 /\ a.dbm = p.tx_power_dbm /\ a.freq = p.frequency_hz
      /\ a.sf = SpreadingFactor(p.spreading_factor) /\ a.bw = w /\ a.cr = CodingRate(p.coding_rate)
      /\ a = [num_test_packets |-> 1, dbm |-> a.dbm, freq |-> a.freq, sf |-> a.sf, bw |-> a.bw, cr |-> a.cr]
  BY DEF Acknowledge, w, hz
<1>10. a.sf = p.spreading_factor - 5 /\ a.cr = p.coding_rate - 5
  BY <1>2, <1>9 DEF SpreadingFactor, CodingRate
<1>11. a.sf \in 0..7 /\ a.cr \in 0..3 /\ 1 \in Octet
  BY <1>2, <1>10, SmallNumbers
<1> QED
  BY <1>1, <1>2, <1>8, <1>9, <1>10, <1>11 DEF LinkTypes

AckPacket(p) ==
  Down(Headed(1, 0, Pack(LinkChange, Acknowledge(p))),
       [freq |-> p.frequency_hz, dbm |-> p.tx_power_dbm,
        sf |-> p.spreading_factor - 5, cr |-> p.coding_rate - 5])

(* It reads as what was taken.                                             *)
LEMMA AckGood ==
  ASSUME NEW c \in LinkTypes
  PROVE  Good(AckPacket(ProfileOf(c)))
<1> DEFINE p == ProfileOf(c)  a == Acknowledge(p)  s == Pack(LinkChange, a)  e == 0
           B == Headed(1, e, s)  r == GroundUnpacks(B)  d == AckPacket(p)
           u == Unpacked(UnpackedLinkChange, Len(UnpackedLinkChange), s, 0)
           t == [freq |-> p.frequency_hz, dbm |-> p.tx_power_dbm,
                 sf |-> p.spreading_factor - 5, cr |-> p.coding_rate - 5]
<1>1. /\ a \in LinkTypes /\ a.freq = p.frequency_hz /\ a.dbm = p.tx_power_dbm
      /\ a.sf = p.spreading_factor - 5 /\ a.cr = p.coding_rate - 5
  <2>1. p = ProfileOf(c) /\ a = Acknowledge(p)
    OBVIOUS
  <2> HIDE DEF a, p
  <2> QED
    BY <2>1, AcknowledgeTyped
<1>2. d.bytes = B /\ d.truth = t
  BY Zenon DEF AckPacket, Down
<1>3. e \in 0..63 /\ e = 0
  OBVIOUS
<1> HIDE DEF a, p, s, e, B, d
<1>4. s \in Seq(Octet) /\ u = [res |-> "AllGood", data |-> a]
  BY <1>1, WholeChange, Zenon DEF s
<1>5. DOMAIN t = {"freq", "dbm", "sf", "cr"} /\ \A f \in DOMAIN t : a[f] = t[f]
  BY <1>1
<1> HIDE DEF t
<1>6. r = Response("Link", "none", u)
  <2> DEFINE O == Octet
  <2>1. Octet \subseteq O /\ s \in Seq(O) /\ 1 \in 0..3
    BY <1>4
  <2> HIDE DEF O
  <2>2. Tail(B) = s /\ Unpack(UnpackedHeader, B, 0).packet_type = 1
    BY <1>3, <2>1, HeaderRead, Zenon DEF B
  <2>3. 1 # 2
    OBVIOUS
  <2> QED
    BY <2>2, <2>3, Zenon DEF GroundUnpacks
<1> HIDE DEF u, r
<1>7. u.res = "AllGood" /\ u.data = a
  BY <1>4
<1>8. r.cmd = "Link" /\ r.res = u.res /\ r.data = u.data
  BY <1>6 DEF Response
<1>9. Agreed(r, t)
  BY <1>5, <1>7, <1>8, Zenon DEF Agreed
<1>10. r.cmd # "TelemetryRequest"
  BY <1>8
<1>11. Good(d)
  BY <1>2, <1>9, <1>10, Zenon DEF Good, Reads, r
<1> QED
  BY <1>11, Zenon DEF d, p

(* What was packed down is good to read.                                   *)
GoodList(q) == \E D : q \in Seq(D) /\ \A d \in D : Good(d)

(* The packets of the blocks of d, as the fold of the community modules    *)
(* makes them.                                                             *)
Appends(id, ids, meant, d) ==
  CHOOSE it : it = [s \in SUBSET d |->
    IF s = {} THEN <<>>
    ELSE Append(it[s \ {Max(s)}], BlockPacket(id, ids[Max(s)], meant[Max(s)]))]

(* The fold of the packets is a list of them.                              *)
LEMMA PacketsAppended ==
  ASSUME NEW n \in Nat, NEW here \in SUBSET (1..n), NEW id, NEW ids, NEW meant, NEW D,
         \A i \in here : BlockPacket(id, ids[i], meant[i]) \in D
  PROVE  Appends(id, ids, meant, here)[here] \in Seq(D)
<1> DEFINE A == Seq(D)  c == Tops(here)  P(i) == BlockPacket(id, ids[i], meant[i])
           G == [x \in here |-> [a \in A |-> Append(a, P(x))]]
           st == Appends(id, ids, meant, here)
<1>0. IsFiniteSet(here)
  <2>1. IsFiniteSet(1..n)
    BY FS_Interval
  <2> QED
    BY <2>1, FS_Subset
<1>1. \A s \in SUBSET here : s # {} => Max(s) \in s
  BY HasMax
<1>2. \A s \in SUBSET here : c[s] = Max(s)
  BY DEF Tops
<1>3. <<>> \in A /\ \A x \in here, a \in A : Append(a, P(x)) \in A
  <2>1. \A x \in here : P(x) \in D
    OBVIOUS
  <2> HIDE DEF P
  <2> QED
    BY <2>1
<1> HIDE DEF P
<1>4. \A x \in here, a \in A : G[x][a] = Append(a, P(x))
  <2> HIDE DEF A
  <2> QED
    OBVIOUS
<1> HIDE DEF A, G, c
<1>5. PICK it : Solves(it, here, A, <<>>, c, G)
  <2>1. \A s \in SUBSET here : s # {} => c[s] \in s
    BY <1>1, <1>2
  <2>2. \A x \in here, a \in A : G[x][a] \in A
    BY <1>3, <1>4, Zenon
  <2> QED
    BY <1>0, <1>3, <2>1, <2>2, FoldIsThere, Zenon
<1>6. it \in [SUBSET here -> A]
  BY <1>5, Zenon DEF Solves
<1>7. ASSUME NEW s \in SUBSET here
      PROVE  it[s] = IF s = {} THEN <<>> ELSE Append(it[s \ {Max(s)}], P(Max(s)))
  <2>1. it[s] = Step(c, G, <<>>, it, s)
    BY <1>5, Zenon DEF Solves
  <2>2. CASE s = {}
    BY <2>1, <2>2, Zenon DEF Step
  <2>3. CASE s # {}
    <3>1. Max(s) \in here /\ s \ {Max(s)} \in SUBSET here
      BY <1>1, <2>3
    <3>2. it[s \ {Max(s)}] \in A
      BY <1>6, <3>1
    <3>3. it[s] = G[Max(s)][it[s \ {Max(s)}]]
      BY <1>2, <2>1, <2>3, Zenon DEF Step
    <3> QED
      BY <1>4, <2>3, <3>1, <3>2, <3>3, Zenon
  <2> QED
    BY <2>2, <2>3
<1>8. it = [s \in SUBSET here |-> IF s = {} THEN <<>> ELSE Append(it[s \ {Max(s)}], P(Max(s)))]
  BY <1>6, <1>7
<1>9. st = [s \in SUBSET here |-> IF s = {} THEN <<>> ELSE Append(st[s \ {Max(s)}], P(Max(s)))]
  BY <1>8, Zenon DEF Appends, P
<1> HIDE DEF st
<1> DEFINE F == {s \in SUBSET here : st[s] \in A}
<1>10. ASSUME NEW s \in SUBSET here, \A u \in SUBSET s : u # s => u \in F PROVE s \in F
  <2>1. st[s] = IF s = {} THEN <<>> ELSE Append(st[s \ {Max(s)}], P(Max(s)))
    BY <1>9, Zenon
  <2>2. CASE s = {}
    BY <1>3, <2>1, <2>2
  <2>3. CASE s # {}
    <3>1. Max(s) \in here /\ s \ {Max(s)} \in SUBSET s /\ s \ {Max(s)} # s
      BY <1>1, <2>3
    <3>2. st[s \ {Max(s)}] \in A
      BY <1>10, <3>1
    <3>3. Append(st[s \ {Max(s)}], P(Max(s))) \in A
      BY <1>3, <3>1, <3>2, Zenon
    <3> QED
      BY <2>1, <2>3, <3>3
  <2> QED
    BY <2>2, <2>3
<1>11. SUBSET here \subseteq F
  <2> HIDE DEF F
  <2> QED
    BY <1>0, <1>10, SubsetInduction, Zenon
<1> QED
  BY <1>11 DEF A, st

(* The blocks of a picture read as what they are.                          *)
LEMMA BlocksGood ==
  ASSUME NEW id \in Octet, NEW n \in Nat, NEW ids \in [1..n -> Word]
  PROVE  GoodList(BlockPackets(id, ids, ids))
<1> DEFINE here == {i \in DOMAIN ids : <<id, ids[i]>> \in OnDisk}
           D == {BlockPacket(id, ids[i], ids[i]) : i \in 1..n}
           q == Appends(id, ids, ids, here)[here]
<1>1. DOMAIN ids = 1..n /\ \A i \in 1..n : ids[i] \in Word
  OBVIOUS
<1>2. here \in SUBSET (1..n)
  BY <1>1
<1>3. \A i \in 1..n : Good(BlockPacket(id, ids[i], ids[i]))
  BY <1>1, BlockGood
<1>4. \A d \in D : Good(d)
  BY <1>3
<1>5. \A i \in here : BlockPacket(id, ids[i], ids[i]) \in D
  BY <1>2
<1>6. BlockPackets(id, ids, ids) = q
  BY Zenon DEF BlockPackets, MapThenFoldSet, Appends
<1> HIDE DEF here, D
<1>7. q \in Seq(D)
  BY <1>2, <1>5, PacketsAppended
<1> QED
  BY <1>4, <1>6, <1>7, Zenon DEF GoodList

(* So do those of the emergency.                                           *)
LEMMA BurstGood == ASSUME NEW phase PROVE GoodList(FirstBlocks(phase))
<1> DEFINE all == [i \in 1..60 |-> i - 1]  n == 60
<1>1. all \in [1..n -> Word] /\ n \in Nat
  <2>1. \A i \in 1..n : i - 1 \in Word
    BY SmallNumbers
  <2> QED
    BY <2>1
<1>2. 0 \in Octet
  BY SmallNumbers
<1> HIDE DEF all, n
<1>3. GoodList(BlockPackets(0, all, all))
  BY <1>1, <1>2, BlocksGood
<1>4. GoodList(<<>>)
  <2> DEFINE D == {}
  <2>1. <<>> \in Seq(D) /\ \A d \in D : Good(d)
    OBVIOUS
  <2> HIDE DEF D
  <2> QED
    BY <2>1, Zenon DEF GoodList
<1> QED
  BY <1>3, <1>4, Zenon DEF FirstBlocks, all

(* Lists of good packets: one after the other,                             *)
LEMMA GoodJoins ==
  ASSUME NEW p, GoodList(p), NEW q, GoodList(q)
  PROVE  GoodList(p \o q)
<1>1. PICK D : p \in Seq(D) /\ \A d \in D : Good(d)
  BY Zenon DEF GoodList
<1>2. PICK E : q \in Seq(E) /\ \A d \in E : Good(d)
  BY Zenon DEF GoodList
<1> DEFINE T == D \cup E
<1>3. p \in Seq(T) /\ q \in Seq(T)
  <2>1. D \subseteq T /\ E \subseteq T
    OBVIOUS
  <2> HIDE DEF T
  <2> QED
    BY <1>1, <1>2, <2>1
<1>4. p \o q \in Seq(T)
  <2> HIDE DEF T
  <2> QED
    BY <1>3, JoinIs
<1>5. \A d \in T : Good(d)
  BY <1>1, <1>2, Zenon
<1> QED
  BY <1>4, <1>5, Zenon DEF GoodList

(* of one packet,                                                          *)
LEMMA GoodAlone == ASSUME NEW d, Good(d) PROVE GoodList(<<d>>)
<1> DEFINE D == {d}
<1>1. <<d>> \in Seq(D)
  OBVIOUS
<1>2. \A x \in D : Good(x)
  BY Zenon
<1> HIDE DEF D
<1> QED
  BY <1>1, <1>2, Zenon DEF GoodList

(* and of one packet more.                                                 *)
LEMMA GoodAppended == ASSUME NEW q, GoodList(q), NEW d, Good(d) PROVE GoodList(Append(q, d))
<1>1. PICK D : q \in Seq(D) /\ \A x \in D : Good(x)
  BY Zenon DEF GoodList
<1> DEFINE T == D \cup {d}
<1>3. q \in Seq(T) /\ d \in T
  <2>1. D \subseteq T /\ d \in T
    OBVIOUS
  <2> HIDE DEF T
  <2> QED
    BY <1>1, <2>1
<1>4. Append(q, d) \in Seq(T)
  <2> HIDE DEF T
  <2> QED
    BY <1>3
<1>5. \A x \in T : Good(x)
  BY <1>1, Zenon
<1> QED
  BY <1>4, <1>5, Zenon DEF GoodList

(* The history knows when a state was entered.                             *)
Timed(h) == \A i \in DOMAIN h : h[i].kind = "phase" => h[i].value.at \in Times

(* One entry more.                                                         *)
LEMMA TimedGrows ==
  ASSUME NEW D, NEW h \in Seq(D), Timed(h), NEW e, e.kind = "phase" => e.value.at \in Times
  PROVE  Timed(Append(h, e))
<1> DEFINE g == Append(h, e)  n == Len(h)
<1>1. n \in Nat /\ DOMAIN h = 1..n /\ DOMAIN g = 1..(n + 1) /\ g[n + 1] = e /\ \A i \in 1..n : g[i] = h[i]
  BY Grown
<1> HIDE DEF g, n
<1>2. ASSUME NEW i \in DOMAIN g, g[i].kind = "phase" PROVE g[i].value.at \in Times
  <2>1. CASE i = n + 1
    BY <1>1, <1>2, <2>1
  <2>2. CASE i # n + 1
    <3>1. i \in DOMAIN h /\ g[i] = h[i]
      BY <1>1, <2>2
    <3> QED
      BY <1>2, <3>1, Zenon DEF Timed
  <2> QED
    BY <2>1, <2>2
<1> QED
  BY <1>2, Zenon DEF Timed, g

(* The heartbeats tell what the history tells: the seconds since boost,    *)
LEMMA SinceAgrees ==
  ASSUME NEW s \in StatusTypes, NEW h, Recalls(s, h), Timed(h), clock \in Nat
  PROVE  /\ DOMAIN SinceIn(h) \subseteq {"s_since_boost"}
         /\ \A f \in DOMAIN SinceIn(h) : SinceIn(h)[f] = SinceBoost(s)
<1> DEFINE turns == TurnsIn(h)  last == h[Max(turns)].value  t == s.takeoff_time
           a == clock - last.at  m == Min({a, 65535})
           flown == ~(turns = {} \/ last.phase # "Flight")
<1>1. SinceIn(h) = IF ~flown THEN [s_since_boost |-> 0] ELSE IF clock < last.at THEN << >> ELSE [s_since_boost |-> m]
  BY DEF SinceIn
<1>2. t = IF ~flown THEN 0 ELSE last.at
  BY Zenon DEF Recalls, TakeoffIn
<1>3. SinceBoost(s) = IF t = 0 THEN 0 ELSE IF clock < t \/ clock - t > 65535 THEN 65535 ELSE clock - t
  BY DEF SinceBoost
<1>4. flown => last.at \in Nat /\ last.at # 0
  <2> SUFFICES ASSUME flown PROVE last.at \in Nat /\ last.at # 0
    OBVIOUS
  <2>1. PICK D : h \in Seq(D)
    BY Zenon DEF Recalls
  <2>2. Len(h) \in Nat /\ turns \in SUBSET (1..Len(h)) /\ turns # {}
    BY <2>1 DEF TurnsIn
  <2>3. Max(turns) \in turns
    <3> HIDE DEF turns
    <3> QED
      BY <2>2, HasMax
  <2>4. Max(turns) \in DOMAIN h /\ h[Max(turns)].kind = "phase"
    BY <2>3 DEF TurnsIn
  <2>5. last.at \in Times
    BY <2>4, Zenon DEF Timed
  <2> QED
    BY <2>5, CommsAssumption
<1>5. flown /\ ~(clock < last.at) => m = IF a > 65535 THEN 65535 ELSE a
  <2> DEFINE k == 65535
  <2>1. k \in Nat
    OBVIOUS
  <2>2. flown /\ ~(clock < last.at) => a \in Nat
    BY <1>4
  <2> HIDE DEF k, a, flown
  <2>3. flown /\ ~(clock < last.at) => Min({a, k}) = IF a > k THEN k ELSE a
    BY <2>1, <2>2, MinOfTwo
  <2> QED
    BY <2>3 DEF k
<1> HIDE DEF m, flown, last, turns
<1>6. CASE ~flown
  BY <1>1, <1>2, <1>3, <1>6
<1>7. CASE flown /\ clock < last.at
  <2>1. DOMAIN SinceIn(h) = {}
    BY <1>1, <1>7
  <2> QED
    BY <2>1
<1>8. CASE flown /\ ~(clock < last.at)
  <2>1. m = SinceBoost(s)
    BY <1>2, <1>3, <1>4, <1>5, <1>8
  <2>2. SinceIn(h) = [s_since_boost |-> m]
    BY <1>1, <1>8, Zenon
  <2> QED
    BY <2>1, <2>2
<1> QED
  BY <1>6, <1>7, <1>8

(* the bus voltage,                                                        *)
LEMMA BatteryAgrees ==
  ASSUME NEW s \in StatusTypes, NEW h, Recalls(s, h)
  PROVE  MvFromVolts(s.mV) = BatteryIn(h)
<1> DEFINE p == LastIn(h, "power", 0)
<1>1. s.mV = p /\ s.mV \in Nat
  BY DEF Recalls, StatusTypes
<1>2. BatteryIn(h) = IF p < 32767 THEN p ELSE 32767
  BY DEF BatteryIn
<1> HIDE DEF p
<1> QED
  BY <1>1, <1>2 DEF MvFromVolts

(* the last position with a fix,                                           *)
LEMMA PositionAgrees ==
  ASSUME NEW s \in StatusTypes, NEW h, Recalls(s, h)
  PROVE  LastGoodPosition(s) = PositionIn(h)
<1>1. s.good = PositionIn(h) /\ (s.gps.fix_type # 0 => s.gps = s.good)
  BY Zenon DEF Recalls
<1>2. LastGoodPosition(s) = IF s.gps.fix_type # 0 THEN s.gps ELSE s.good
  BY DEF LastGoodPosition, HasGps
<1> QED
  BY <1>1, <1>2, Zenon

(* the status bits,                                                        *)
LEMMA BitsAgree ==
  ASSUME NEW s \in StatusTypes, NEW h, Recalls(s, h)
  PROVE  StatusBits(s) = BitsIn(h)
<1> DEFINE arm == LastIn(h, "arm", Still)  gps == LastIn(h, "gps", NoFix)
           m == arm.motor_en  f == arm.flip_servo_en  c == arm.cant_trust  b == arm.booted
           fix == gps.fix_type # 0  on == FilmedIn(h)
<1>1. s.arm = arm /\ s.gps = gps /\ s.runcam_on = on
  BY Zenon DEF Recalls
<1>2. m \in {0, 1} /\ f \in {0, 1} /\ c \in {0, 1} /\ b \in {0, 1}
  BY <1>1 DEF StatusTypes, ArmTypes
<1>3. BitsIn(h) = Bit(4, m = 1) + Bit(5, f = 1) + Bit(9, fix) + Bit(10, on) + Bit(11, c = 1) + Bit(12, b = 1)
  BY Zenon DEF BitsIn
<1> DEFINE x == IF fix THEN 1 ELSE 0  y == IF on THEN 2^10 ELSE 0
<1>4. StatusBits(s) = x * 2^9 + m * 2^4 + y + f * 2^5 + c * 2^11 + b * 2^12
  BY <1>1, Zenon DEF StatusBits, HasGps
<1> HIDE DEF m, f, c, b, fix, on
<1>5. 2^9 = 512 /\ 2^4 = 16 /\ 2^5 = 32 /\ 2^11 = 2048 /\ 2^12 = 4096 /\ 2^10 = 1024
  BY SMT
<1>6. /\ Bit(4, m = 1) = m * 16 /\ Bit(5, f = 1) = f * 32
      /\ Bit(11, c = 1) = c * 2048 /\ Bit(12, b = 1) = b * 4096
  BY <1>2, <1>5 DEF Bit
<1>7. Bit(9, fix) = x * 512 /\ Bit(10, on) = y /\ x \in Int /\ y \in Int
  <2>1. Bit(9, fix) = (IF fix THEN 2^9 ELSE 0) /\ Bit(10, on) = y
    BY Zenon DEF Bit
  <2>2. Bit(9, fix) = x * 512 /\ x \in Int
    <3>1. ASSUME fix PROVE Bit(9, fix) = x * 512 /\ x \in Int
      <4>1. x = 1 /\ Bit(9, fix) = 2^9
        BY <2>1, <3>1, Zenon
      <4> HIDE DEF x, y
      <4> QED
        BY <1>5, <4>1
    <3>2. ASSUME ~fix PROVE Bit(9, fix) = x * 512 /\ x \in Int
      <4>1. x = 0 /\ Bit(9, fix) = 0
        BY <2>1, <3>2, Zenon
      <4> HIDE DEF x, y
      <4> QED
        BY <4>1
    <3> QED
      BY <3>1, <3>2, Zenon
  <2>3. y \in Int
    <3>1. 2^10 \in Int /\ 0 \in Int
      BY <1>5
    <3> QED
      BY <3>1, Zenon
  <2> QED
    BY <2>1, <2>2, <2>3, Zenon
<1> HIDE DEF x, y
<1> QED
  BY <1>2, <1>3, <1>4, <1>5, <1>6, <1>7

(* all of the flight heartbeat,                                            *)
LEMMA FlightTruth ==
  ASSUME NEW s \in StatusTypes, NEW h, Recalls(s, h), Timed(h), clock \in Nat,
         NEW truth, truth = Truth("FlightHeartbeat", h)
  PROVE  /\ DOMAIN truth \subseteq FlightFields
         /\ \A f \in DOMAIN truth : truth[f] = FlightHeartbeatOf(s)[f]
<1> DEFINE battery == BatteryIn(h)  bits == BitsIn(h)
           p == FlightPhase(PhaseIn(h))  al == IF PositionIn(h).altitude_m > 0 THEN PositionIn(h).altitude_m ELSE 0
           g == [phase |-> p, status_bits |-> bits, battery_mV |-> battery, latitude |-> PositionIn(h).latitude,
                 longitude |-> PositionIn(h).longitude, altitude |-> al]
           b == FlightHeartbeatOf(s)  S == SinceIn(h)
<1>1. truth = Filled(g, S)
  BY DEF Truth
<1>2. battery = MvFromVolts(s.mV) /\ bits = StatusBits(s) /\ p = FlightPhase(s.phase)
  <2>1. s.phase = PhaseIn(h)
    BY Zenon DEF Recalls
  <2> QED
    BY <2>1, BatteryAgrees, BitsAgree, Zenon
<1>3. al = Max({0, LastGoodPosition(s).altitude_m})
  BY PositionAgrees, PositionTyped, Zenon
<1>4. /\ b["phase"] = p /\ b["status_bits"] = bits /\ b["battery_mV"] = battery /\ b["altitude"] = al
      /\ b["latitude"] = PositionIn(h).latitude /\ b["longitude"] = PositionIn(h).longitude
      /\ b["s_since_boost"] = SinceBoost(s)
  BY <1>2, <1>3, PositionAgrees DEF FlightHeartbeatOf
<1>5. DOMAIN S \subseteq {"s_since_boost"} /\ \A f \in DOMAIN S : S[f] = SinceBoost(s)
  BY SinceAgrees
<1> HIDE DEF battery, bits, p, al, b, S
<1>6. DOMAIN g = {"phase", "status_bits", "battery_mV", "latitude", "longitude", "altitude"} /\ \A f \in DOMAIN g : g[f] = b[f]
  BY <1>4
<1> HIDE DEF g
<1>7. /\ DOMAIN truth = DOMAIN g \cup DOMAIN S
      /\ \A f \in DOMAIN truth : truth[f] = IF f \in DOMAIN g THEN g[f] ELSE S[f]
  BY <1>1, Zenon DEF Filled
<1>8. DOMAIN truth \subseteq FlightFields
  BY <1>5, <1>6, <1>7 DEF FlightFields
<1>9. ASSUME NEW f \in DOMAIN truth PROVE truth[f] = b[f]
  <2>1. CASE f \in DOMAIN g
    BY <1>6, <1>7, <2>1, Zenon
  <2>2. CASE f \notin DOMAIN g
    <3>1. f \in DOMAIN S /\ truth[f] = S[f]
      BY <1>7, <2>2, Zenon
    <3>2. f = "s_since_boost" /\ S[f] = SinceBoost(s)
      BY <1>5, <3>1
    <3> QED
      BY <1>4, <3>1, <3>2, Zenon
  <2> QED
    BY <2>1, <2>2
<1> QED
  BY <1>8, <1>9 DEF b

(* all of the landed one.                                                  *)
LEMMA LandedTruth ==
  ASSUME NEW s \in StatusTypes, NEW h, Recalls(s, h), NEW truth, truth = Truth("LandedHeartbeat", h)
  PROVE  /\ DOMAIN truth \subseteq DOMAIN LandedHeartbeatOf(s)
         /\ \A f \in DOMAIN truth : truth[f] = LandedHeartbeatOf(s)[f]
<1> DEFINE battery == BatteryIn(h)  bits == BitsIn(h)
           p == FlightPhase(PhaseIn(h))  arm == LastIn(h, "arm", Still)  I == ImagesIn(h)
           last == Max({0} \cup I)  b == LandedHeartbeatOf(s)
<1>1. truth = [phase |-> p, status_bits |-> bits, battery_mV |-> battery,
           next_image_id |-> last, shoulder_yaw |-> arm.yaw,
           shoulder_pitch |-> arm.pitch, elbow_pitch |-> arm.elbow, wrist_pitch |-> arm.wrist]
  <2>1. "LandedHeartbeat" # "FlightHeartbeat"
    OBVIOUS
  <2> QED
    BY <2>1 DEF Truth
<1>2. battery = MvFromVolts(s.mV) /\ bits = StatusBits(s) /\ p = FlightPhase(s.phase)
  <2>1. s.phase = PhaseIn(h)
    BY Zenon DEF Recalls
  <2> QED
    BY <2>1, BatteryAgrees, BitsAgree, Zenon
<1>3. arm = s.arm
  BY Zenon DEF Recalls
<1>4. last = s.last_image_id
  <2> DEFINE n == s.last_image_id  J == {0} \cup I
  <2>1. n \in J /\ \A k \in I : k \in Octet /\ k <= n
    BY Zenon DEF Recalls
  <2>2. n \in Nat
    BY OctetIsNat DEF StatusTypes
  <2>3. \A k \in I : k \in Nat
    BY <2>1, OctetIsNat
  <2> HIDE DEF n, I
  <2>4. \A k \in J : k \in Nat /\ n >= k
    BY <2>1, <2>2, <2>3
  <2> HIDE DEF J
  <2>5. Max(J) \in J /\ \A k \in J : Max(J) >= k
    BY <2>1, <2>4, Zenon DEF Max
  <2>6. Max(J) = n
    <3>1. Max(J) \in Nat /\ n >= Max(J) /\ Max(J) >= n
      BY <2>1, <2>4, <2>5, Zenon
    <3> QED
      BY <2>2, <3>1
  <2> QED
    BY <2>6 DEF J, n
<1>5. /\ b["phase"] = p /\ b["status_bits"] = bits /\ b["battery_mV"] = battery /\ b["next_image_id"] = last
      /\ b["shoulder_yaw"] = arm.yaw /\ b["shoulder_pitch"] = arm.pitch /\ b["elbow_pitch"] = arm.elbow
      /\ b["wrist_pitch"] = arm.wrist
      /\ {"phase", "status_bits", "battery_mV", "next_image_id", "shoulder_yaw", "shoulder_pitch", "elbow_pitch", "wrist_pitch"}
           \subseteq DOMAIN b
  BY <1>2, <1>3, <1>4 DEF LandedHeartbeatOf
<1> HIDE DEF battery, bits, p, arm, last, b
<1>6. DOMAIN truth = {"phase", "status_bits", "battery_mV", "next_image_id", "shoulder_yaw", "shoulder_pitch", "elbow_pitch", "wrist_pitch"}
      /\ \A f \in DOMAIN truth : truth[f] = b[f]
  BY <1>1, <1>5
<1> QED
  BY <1>5, <1>6 DEF b

(* Whatever is emitted tells what was so.                                  *)
LEMMA TelemetryGood ==
  ASSUME NEW s \in StatusTypes, NEW h, Recalls(s, h), Timed(h), clock \in Nat,
         NEW typ \in Range(TelemetryTypes), NEW stray \in Strays
  PROVE  Good(Telemetry(typ, s, h, stray))
<1> DEFINE t == Truth(typ, h)  d == Telemetry(typ, s, h, stray)
<1>1. d = Down(PacketForTelemetry(typ, s, stray), t)
  BY Zenon DEF Telemetry
<1>2. stray \in Octet
  BY CommsAssumption
<1> HIDE DEF d
<1>3. CASE typ \notin Beats
  BY <1>1, <1>3, OtherBeatGood DEF d
<1>4. CASE typ = "FlightHeartbeat"
  <2>1. t = Truth("FlightHeartbeat", h)
    BY <1>4
  <2> HIDE DEF t
  <2>2. DOMAIN t \subseteq FlightFields /\ \A f \in DOMAIN t : t[f] = FlightHeartbeatOf(s)[f]
    BY <2>1, FlightTruth
  <2>3. Good(Down(PacketForTelemetry("FlightHeartbeat", s, stray), t))
    BY <1>2, <2>2, FlightBeatGood
  <2> QED
    BY <1>1, <1>4, <2>3 DEF d
<1>5. CASE typ = "LandedHeartbeat"
  <2>1. t = Truth("LandedHeartbeat", h)
    BY <1>5
  <2> HIDE DEF t
  <2>2. DOMAIN t \subseteq DOMAIN LandedHeartbeatOf(s) /\ \A f \in DOMAIN t : t[f] = LandedHeartbeatOf(s)[f]
    BY <2>1, LandedTruth
  <2>3. Good(Down(PacketForTelemetry("LandedHeartbeat", s, stray), t))
    BY <1>2, <2>2, LandedBeatGood
  <2> QED
    BY <1>1, <1>5, <2>3 DEF d
<1> QED
  BY <1>3, <1>4, <1>5 DEF d, Beats

(* What keeps the ground's readings true: the status is what the history   *)
(* tells, and every packet on its way down reads as what was so.           *)
Follows(s, h, p, now, q) ==
  /\ s \in StatusTypes /\ Recalls(s, h) /\ Timed(h)
  /\ p \in Beats /\ now \in Times /\ GoodList(q)
Keeping == Follows(status, past, primary, clock, downlink)
Kept == Follows(status', past', primary', clock', downlink')

HeardInv == CommsInv /\ Keeping /\ HeardIsSo

(* What is kept of the next state.                                         *)
LEMMA KeepingKept == Kept => Keeping'
BY Zenon DEF Kept, Keeping

(* A step that changes none of it.                                         *)
LEMMA NothingNew ==
  ASSUME Keeping, UNCHANGED <<status, primary, past, clock, downlink>>
  PROVE  Kept
<1>1. status' = status /\ primary' = primary /\ past' = past /\ clock' = clock /\ downlink' = downlink
  OBVIOUS
<1> QED
  BY <1>1, Zenon DEF Keeping, Kept

(* A captain that has just started.                                        *)
LEMMA FreshFollows == Fresh \in StatusTypes /\ Recalls(Fresh, <<>>) /\ Timed(<<>>) /\ GoodList(<<>>)
<1>1. NoFix \in GpsTypes /\ Still \in ArmTypes
  BY DEF NoFix, Still, GpsTypes, ArmTypes, Octet, Quad
<1>2. "Pad" \in Range(PhaseNames)
  BY DEF Range, PhaseNames
<1>3. 0 \in Octet
  BY DEF Octet
<1>4. Fresh \in StatusTypes
  BY <1>1, <1>2, <1>3 DEF Fresh, StatusTypes
<1> DEFINE h == << >>
<1>5. DOMAIN h = {} /\ h \in Seq({})
  OBVIOUS
<1> HIDE DEF h
<1>6. \A kind, default : LastIn(h, kind, default) = default
  BY <1>5, Zenon DEF LastIn
<1>7. FixesIn(h) = {} /\ TurnsIn(h) = {} /\ ImagesIn(h) = {} /\ ShotsIn(h) = {}
  BY <1>5 DEF FixesIn, TurnsIn, ImagesIn, PicturesIn, ShotsIn
<1>8. PositionIn(h) = NoFix /\ TakeoffIn(h) = 0 /\ FilmedIn(h) = FALSE /\ PhaseIn(h) = "Pad"
  <2>1. [phase |-> "Pad", at |-> 0].phase = "Pad"
    OBVIOUS
  <2> QED
    BY <1>6, <1>7, <2>1, Zenon DEF PositionIn, TakeoffIn, FilmedIn, PhaseIn
<1>9. /\ Fresh.mV = 0 /\ Fresh.arm = Still /\ Fresh.last_image_id = 0 /\ Fresh.good = NoFix
      /\ Fresh.gps = NoFix /\ Fresh.gps = Fresh.good /\ Fresh.takeoff_time = 0
      /\ Fresh.phase = "Pad" /\ Fresh.runcam_on = FALSE
  BY DEF Fresh
<1>10. Recalls(Fresh, h)
  BY <1>5, <1>6, <1>7, <1>8, <1>9 DEF Recalls
<1>11. Timed(h) /\ GoodList(h)
  BY <1>5 DEF Timed, GoodList
<1> QED
  BY <1>4, <1>10, <1>11 DEF h

(* Entering a state, with the status and the history of before.            *)
Turned(h, phase, now) == Append(h, Entry("phase", [phase |-> phase, at |-> now]))

(* The status and the history of before, after a state was entered.        *)
LEMMA EnteredKeeps ==
  ASSUME NEW s \in StatusTypes, NEW h, Recalls(s, h), Timed(h), clock \in Times, NEW final \in Range(PhaseNames)
  PROVE  /\ Entered(s, final) \in StatusTypes /\ Recalls(Entered(s, final), Turned(h, final, clock))
         /\ Timed(Turned(h, final, clock)) /\ Entered(s, final).phase = final
<1>1. clock \in Nat
  BY CommsAssumption
<1>2. Entered(s, final) \in StatusTypes /\ Recalls(Entered(s, final), Turned(h, final, clock))
  BY <1>1, PhaseRecalled, Zenon DEF Entered, Turned
<1>3. Entered(s, final).phase = final
  BY DEF Entered, StatusTypes
<1>4. PICK D : h \in Seq(D)
  BY Zenon DEF Recalls
<1> DEFINE e == Entry("phase", [phase |-> final, at |-> clock])
<1>5. e.value.at \in Times
  BY DEF Entry
<1>6. Turned(h, final, clock) = Append(h, e)
  BY DEF Turned
<1> HIDE DEF e
<1>7. Timed(Append(h, e))
  BY <1>4, <1>5, TimedGrows, Zenon
<1> QED
  BY <1>2, <1>3, <1>6, <1>7, Zenon

(* The primary heartbeat is one of the two.                                *)
LEMMA PrimaryIsBeat ==
  ASSUME primary \in Beats, NEW phase
  PROVE  PrimaryAfter(phase) \in Beats /\ (IF phase = "Flight" THEN "FlightHeartbeat" ELSE PrimaryAfter(phase)) \in Beats
BY DEF PrimaryAfter, Beats

(* Entering a state, with the packets that tell of it.                     *)
LEMMA EntersKeeps ==
  ASSUME Keeping, NEW phase \in Range(PhaseNames), Enters(phase), clock' = clock
  PROVE  Kept
<1>1. PICK stray \in Strays, fallsBack \in IF phase \in ArmPhases THEN BOOLEAN ELSE {FALSE} :
        LET final == IF fallsBack THEN "Emergency" ELSE phase
            new == Entered(status, final)
            then == With(past, "phase", [phase |-> final, at |-> clock])
            hb == Telemetry(PrimaryAfter(final), new, then, stray)
        IN /\ status' = new /\ primary' = PrimaryAfter(final) /\ past' = then
           /\ downlink' = downlink \o FirstBlocks(final) \o <<hb>> \o (IF fallsBack THEN <<hb>> ELSE <<>>)
  BY Zenon DEF Enters
<1> DEFINE final == IF fallsBack THEN "Emergency" ELSE phase
           new == Entered(status, final)
           g == Turned(past, final, clock)
           hb == Telemetry(PrimaryAfter(final), new, g, stray)
           more == IF fallsBack THEN <<hb>> ELSE <<>>
<1>2. /\ status' = new /\ primary' = PrimaryAfter(final) /\ past' = g
      /\ downlink' = downlink \o FirstBlocks(final) \o <<hb>> \o more
  BY <1>1, Zenon DEF With, Entry, Turned
<1>3. final \in Range(PhaseNames)
  <2>1. "Emergency" \in Range(PhaseNames)
    BY DEF Range, PhaseNames
  <2> QED
    BY <2>1
<1>4. /\ status \in StatusTypes /\ Recalls(status, past) /\ Timed(past)
      /\ primary \in Beats /\ clock \in Times /\ GoodList(downlink)
  BY Zenon DEF Keeping, Follows
<1>11. new = Entered(status, final) /\ g = Turned(past, final, clock)
       /\ hb = Telemetry(PrimaryAfter(final), new, g, stray)
  OBVIOUS
<1> HIDE DEF final, new, g, hb
<1>5. new \in StatusTypes /\ Recalls(new, g) /\ Timed(g) /\ new.phase = final
  BY <1>3, <1>4, <1>11, EnteredKeeps, Zenon
<1>6. PrimaryAfter(final) \in Beats
  BY <1>4, PrimaryIsBeat, Zenon
<1>7. Good(hb)
  <2> DEFINE beat == PrimaryAfter(final)
  <2>1. beat \in Beats
    BY <1>6
  <2>2. hb = Telemetry(beat, new, g, stray)
    BY <1>11, Zenon
  <2>3. clock \in Nat /\ beat \in Range(TelemetryTypes)
    BY <1>4, <2>1, CommsAssumption, BeatLayouts DEF Beats
  <2> HIDE DEF beat
  <2> QED
    BY <1>5, <2>2, <2>3, TelemetryGood, Zenon
<1>8. GoodList(<<hb>>) /\ GoodList(more)
  BY <1>7, GoodAlone, FreshFollows, Zenon
<1>9. GoodList(downlink')
  <2> HIDE DEF more
  <2>1. GoodList(downlink \o FirstBlocks(final))
    BY <1>4, BurstGood, GoodJoins, Zenon
  <2>2. GoodList(downlink \o FirstBlocks(final) \o <<hb>>)
    BY <1>8, <2>1, GoodJoins, Zenon
  <2>3. GoodList(downlink \o FirstBlocks(final) \o <<hb>> \o more)
    BY <1>8, <2>2, GoodJoins, Zenon
  <2> QED
    BY <1>2, <2>3, Zenon
<1> QED
  BY <1>2, <1>4, <1>5, <1>6, <1>9, Zenon DEF Kept, Follows

(* The captain starts again.                                               *)
LEMMA RestartsKeeps ==
  ASSUME Keeping, Restarts
  PROVE  Kept
<1>1. PICK fallsBack \in IF status.phase \in ArmPhases THEN BOOLEAN ELSE {FALSE}, stray \in Strays :
    LET final == IF fallsBack THEN "Emergency" ELSE status.phase
        new == Entered(Fresh, final)
        then == With(<<>>, "phase", [phase |-> final, at |-> clock])
    IN /\ status' = new /\ past' = then
       /\ primary' = IF final = "Flight" THEN "FlightHeartbeat" ELSE PrimaryAfter(final)
       /\ downlink' = IF ~fallsBack THEN <<>>
                      ELSE Append(FirstBlocks(final), Telemetry("LandedHeartbeat", new, then, stray))
       /\ UNCHANGED clock
  BY Zenon DEF Restarts
<1> DEFINE final == IF fallsBack THEN "Emergency" ELSE status.phase
           new == Entered(Fresh, final)
           none == << >>
           g == Turned(none, final, clock)
           hb == Telemetry("LandedHeartbeat", new, g, stray)
<1>2. /\ status' = new /\ primary' = IF final = "Flight" THEN "FlightHeartbeat" ELSE PrimaryAfter(final)
      /\ downlink' = IF ~fallsBack THEN <<>> ELSE Append(FirstBlocks(final), hb)
      /\ past' = g /\ clock' = clock
  BY <1>1, Zenon DEF With, Entry, Turned
<1>4. /\ status \in StatusTypes /\ primary \in Beats /\ clock \in Times
  BY Zenon DEF Keeping, Follows
<1>3. final \in Range(PhaseNames)
  <2>1. "Emergency" \in Range(PhaseNames)
    BY DEF Range, PhaseNames
  <2>2. status.phase \in Range(PhaseNames)
    BY <1>4 DEF StatusTypes
  <2> QED
    BY <2>1, <2>2
<1>11. new = Entered(Fresh, final) /\ g = Turned(none, final, clock)
       /\ hb = Telemetry("LandedHeartbeat", new, g, stray)
  OBVIOUS
<1>12. Fresh \in StatusTypes /\ Recalls(Fresh, none) /\ Timed(none) /\ GoodList(none)
  BY FreshFollows
<1> HIDE DEF final, new, g, hb, none
<1>5. new \in StatusTypes /\ Recalls(new, g) /\ Timed(g) /\ new.phase = final
  BY <1>3, <1>4, <1>11, <1>12, EnteredKeeps, Zenon
<1>6. primary' \in Beats
  BY <1>2, <1>4, PrimaryIsBeat, Zenon
<1>7. Good(hb)
  <2> DEFINE beat == "LandedHeartbeat"
  <2>1. beat \in Beats
    BY DEF Beats
  <2>2. hb = Telemetry(beat, new, g, stray)
    BY <1>11, Zenon
  <2>3. clock \in Nat /\ beat \in Range(TelemetryTypes)
    BY <1>4, <2>1, CommsAssumption, BeatLayouts DEF Beats
  <2> HIDE DEF beat
  <2> QED
    BY <1>5, <2>2, <2>3, TelemetryGood, Zenon
<1>9. GoodList(downlink')
  <2>1. GoodList(Append(FirstBlocks(final), hb))
    BY <1>7, BurstGood, GoodAppended, Zenon
  <2> QED
    BY <1>2, <1>12, <2>1, Zenon DEF none
<1> QED
  BY <1>2, <1>4, <1>5, <1>6, <1>9, Zenon DEF Kept, Follows

(* Telemetry is sent.                                                      *)
LEMMA EmitKeeps ==
  ASSUME Keeping, NEW typ \in Range(TelemetryTypes), EmitTelemetry(typ),
         UNCHANGED <<status, primary, past, clock>>
  PROVE  Kept
<1>1. /\ status \in StatusTypes /\ Recalls(status, past) /\ Timed(past)
      /\ primary \in Beats /\ clock \in Times /\ GoodList(downlink)
  BY Zenon DEF Keeping, Follows
<1>2. clock \in Nat
  BY <1>1, CommsAssumption
<1>3. PICK stray \in Strays : downlink' = Append(downlink, Telemetry(typ, status, past, stray))
  BY Zenon DEF EmitTelemetry
<1>4. GoodList(downlink')
  BY <1>1, <1>2, <1>3, TelemetryGood, GoodAppended, Zenon
<1>5. status' = status /\ primary' = primary /\ past' = past /\ clock' = clock
  OBVIOUS
<1> QED
  BY <1>1, <1>4, <1>5, Zenon DEF Kept, Follows

(* Metadata is sent.                                                       *)
LEMMA MetadataAppended ==
  ASSUME NEW meta \in Shots, EmitMetadata(meta), GoodList(downlink)
  PROVE  GoodList(downlink')
<1>1. meta \in MetadataTypes
  BY CommsAssumption
<1>2. downlink' = Append(downlink,
        Down(Headed(2, 0, PackResponse("ImageMetadata", Pack(ImageMetadata, meta))), meta))
  BY Zenon DEF EmitMetadata, Headed
<1> QED
  BY <1>1, <1>2, MetadataGood, GoodAppended, Zenon

(* A code that names a type.                                               *)
LEMMA TypeNamed ==
  ASSUME NEW code \in Nat, code + 1 \in DOMAIN TelemetryTypes
  PROVE  TelemetryTypes[code + 1] \in Range(TelemetryTypes)
BY DEF Range

(* A step that measures something.                                         *)
LEMMA KeepsWith ==
  ASSUME NEW s \in StatusTypes, NEW h, Keeping, NEW e, (e.kind = "phase" => e.value.at \in Times),
         Recalls(s, Append(past, e)), status' = s, past' = Append(past, e),
         primary' = primary, clock' \in Times, GoodList(downlink')
  PROVE  Kept
<1>1. PICK D : past \in Seq(D)
  BY Zenon DEF Keeping, Follows, Recalls
<1>2. Timed(past) /\ primary \in Beats
  BY Zenon DEF Keeping, Follows
<1>3. Timed(Append(past, e))
  BY <1>1, <1>2, TimedGrows, Zenon
<1> QED
  BY <1>2, <1>3, Zenon DEF Kept, Follows

(* The camera is switched by a command.                                    *)
LEMMA CameraKeeps ==
  ASSUME Keeping, NEW on \in BOOLEAN, status' = [status EXCEPT !.runcam_on = on],
         Measures("camera", on), UNCHANGED <<primary, downlink, clock>>
  PROVE  Kept
<1>0. /\ status \in StatusTypes /\ Recalls(status, past) /\ clock \in Times /\ GoodList(downlink)
  BY Zenon DEF Keeping, Follows
<1> DEFINE e == Entry("camera", on)  s == [status EXCEPT !.runcam_on = on]
<1>1. e.kind # "phase"
  BY DEF Entry
<1>2. s \in StatusTypes /\ Recalls(s, Append(past, e))
  BY <1>0, CameraRecalled, Zenon
<1>3. status' = s /\ past' = Append(past, e) /\ primary' = primary /\ clock' = clock /\ downlink' = downlink
  <2>1. status' = s /\ past' = Append(past, e)
    BY Zenon DEF Measures, With, Entry
  <2> QED
    BY <2>1
<1> HIDE DEF e, s
<1> QED
  BY <1>0, <1>1, <1>2, <1>3, KeepsWith, Zenon

(* What the captain does for a command, with any data.                     *)
LEMMA ObeysKeeps ==
  ASSUME Keeping, NEW cmd, NEW d, Obeys(cmd, d), clock' = clock
  PROVE  Kept
<1>0. GoodList(downlink)
  BY Zenon DEF Keeping, Follows
<1>1. CASE cmd \in DOMAIN StateCommands
  <2>1. Enters(StateCommands[cmd])
    BY <1>1, Zenon DEF Obeys
  <2>2. StateCommands[cmd] \in Range(PhaseNames)
    BY <1>1 DEF StateCommands, Range, PhaseNames
  <2> QED
    BY <2>1, <2>2, EntersKeeps, Zenon
<1>2. CASE cmd \notin DOMAIN StateCommands /\ cmd \in {"StartVideo", "StopVideo"}
  <2> DEFINE on == cmd = "StartVideo"
  <2>1. on \in BOOLEAN
    OBVIOUS
  <2>2. status' = [status EXCEPT !.runcam_on = on] /\ Measures("camera", on) /\ UNCHANGED <<primary, downlink>>
    BY <1>2, Zenon DEF Obeys
  <2>3. UNCHANGED <<primary, downlink, clock>>
    BY <2>2
  <2> HIDE DEF on
  <2> QED
    BY <2>1, <2>2, <2>3, CameraKeeps, Zenon
<1>3. CASE cmd \notin DOMAIN StateCommands /\ cmd \notin {"StartVideo", "StopVideo"}
  <2>1. \/ /\ d.telem_type + 1 \in DOMAIN TelemetryTypes
           /\ EmitTelemetry(TelemetryTypes[d.telem_type + 1]) /\ UNCHANGED <<status, primary, past>>
        \/ /\ \E m \in Shots : m.image_id = d.image_id
           /\ EmitMetadata(CHOOSE m \in Shots : m.image_id = d.image_id)
           /\ UNCHANGED <<status, primary, past>>
        \/ Quiet
    BY <1>3, Zenon DEF Obeys
  <2>2. CASE /\ d.telem_type + 1 \in DOMAIN TelemetryTypes
             /\ EmitTelemetry(TelemetryTypes[d.telem_type + 1]) /\ UNCHANGED <<status, primary, past>>
    <3> DEFINE k == d.telem_type + 1
    <3>1. TelemetryTypes[k] \in Range(TelemetryTypes)
      BY <2>2, Zenon DEF Range
    <3>2. UNCHANGED <<status, primary, past, clock>>
      BY <2>2
    <3> QED
      BY <2>2, <3>1, <3>2, EmitKeeps, Zenon
  <2>3. CASE /\ \E m \in Shots : m.image_id = d.image_id
             /\ EmitMetadata(CHOOSE m \in Shots : m.image_id = d.image_id)
             /\ UNCHANGED <<status, primary, past>>
    <3> DEFINE m == CHOOSE m \in Shots : m.image_id = d.image_id
    <3>1. m \in Shots
      BY <2>3, Zenon
    <3> HIDE DEF m
    <3>2. EmitMetadata(m)
      BY <2>3 DEF m
    <3>3. GoodList(downlink')
      BY <1>0, <3>1, <3>2, MetadataAppended, Zenon
    <3>4. status' = status /\ primary' = primary /\ past' = past /\ clock' = clock
      BY <2>3
    <3> QED
      BY <3>3, <3>4, Zenon DEF Keeping, Kept, Follows
  <2>4. CASE Quiet
    <3>1. UNCHANGED <<status, primary, past, clock, downlink>>
      BY <2>4 DEF Quiet
    <3> QED
      BY <3>1, NothingNew, Zenon
  <2> QED
    BY <2>1, <2>2, <2>3, <2>4, Zenon
<1> QED
  BY <1>1, <1>2, <1>3, Zenon

(* What arrives of a command is taken for a command, if at all.            *)
LEMMA CommandTaken ==
  ASSUME NEW cmd \in DOMAIN Arguments, NEW v \in Arguments[cmd], SentCommand(uplink, cmd, v), HandlePacket
  PROVE  Quiet \/ \E body : HandleCommand(body)
<1> DEFINE body == PackCommand(cmd, v)  P == Packet(2, body)
<1>1. PICK n \in 0..Len(P) : uplink = [bytes |-> SubSeq(P, 1, n), whole |-> n = Len(P), what |-> cmd,
                                       meant |-> Args(cmd, Clipped(v))]
  BY Zenon DEF SentCommand, Sent
<1>2. body \in Seq(Octet)
  BY BodiesAreBytes, Zenon
<1>3. uplink.bytes = SubSeq(P, 1, n)
  BY <1>1
<1> HIDE DEF body
<1>4. /\ Len(P) = Len(body) + 1 /\ Len(body) \in Nat
      /\ n = 0 => Refuses /\ Quiet
      /\ n > 0 => HandleCommand(SubSeq(body, 1, n - 1))
  <2>1. 2 \in 1..3 /\ 2 = 2
    OBVIOUS
  <2> QED
    BY <1>2, <1>3, <2>1, PacketHandled, Zenon DEF P
<1>5. n = 0 \/ n > 0
  BY <1>4
<1> QED
  BY <1>4, <1>5, Zenon

(* What it does for any packet.                                            *)
LEMMA PacketKeeps ==
  ASSUME Keeping, UplinkSent, HandlePacket
  PROVE  Kept
<1>1. WasSent(uplink) /\ clock' = clock
  <2>1. uplink # None /\ UNCHANGED <<clock, sent>>
    BY Zenon DEF HandlePacket
  <2> QED
    BY <2>1, Zenon DEF UplinkSent
<1>0. GoodList(downlink)
  BY Zenon DEF Keeping, Follows
<1>2. CASE Quiet
  <2>1. UNCHANGED <<status, primary, past, clock, downlink>>
    BY <1>1, <1>2 DEF Quiet
  <2> QED
    BY <2>1, NothingNew, Zenon
<1>3. ASSUME NEW body, HandleCommand(body) PROVE Kept
  <2>1. (\E cmd, d : Obeys(cmd, d)) \/ Quiet
    BY <1>3, Zenon DEF HandleCommand, Ignored
  <2> QED
    BY <1>1, <1>2, <2>1, ObeysKeeps, Zenon
<1>4. GoodList(downlink') /\ UNCHANGED <<status, primary, past>> => Kept
  <2>1. ASSUME GoodList(downlink'), UNCHANGED <<status, primary, past>> PROVE Kept
    <3>1. status' = status /\ primary' = primary /\ past' = past
      BY <2>1
    <3> QED
      BY <1>1, <2>1, <3>1, Zenon DEF Keeping, Kept, Follows
  <2> QED
    BY <2>1
<1>5. ASSUME NEW m \in Nat, NEW id \in Octet, NEW ids \in [1..m -> Word], Answers(id, ids) PROVE Kept
  <2>1. GoodList(BlockPackets(id, ids, ids))
    BY BlocksGood, Zenon
  <2>2. GoodList(downlink')
    BY <1>0, <1>5, <2>1, GoodJoins, Zenon DEF Answers
  <2> QED
    BY <1>4, <1>5, <2>2, Zenon DEF Answers
<1>6. ASSUME NEW c \in LinkChanges, Acknowledges(c) PROVE Kept
  <2>1. c \in LinkTypes
    BY CommsAssumption
  <2>2. downlink' = Append(downlink, AckPacket(ProfileOf(c))) /\ UNCHANGED <<status, primary, past>>
    BY <1>6, Zenon DEF Acknowledges, AckPacket
  <2>3. GoodList(downlink')
    BY <1>0, <2>1, <2>2, AckGood, GoodAppended, Zenon
  <2> QED
    BY <1>4, <2>2, <2>3, Zenon
<1>7. CASE \E cmd \in DOMAIN Arguments : \E v \in Arguments[cmd] : SentCommand(uplink, cmd, v)
  <2>1. Quiet \/ \E body : HandleCommand(body)
    BY <1>7, CommandTaken, Zenon
  <2> QED
    BY <1>2, <1>3, <2>1, Zenon
<1>8. CASE \E q \in Requests : SentRequest(uplink, q)
  <2>1. Quiet \/ \E m \in Nat : \E id \in Octet, ids \in [1..m -> Word] : Answers(id, ids)
    BY <1>8, RequestDone, Zenon
  <2> QED
    BY <1>2, <1>5, <2>1, Zenon
<1>9. CASE \E c \in LinkChanges : SentChange(uplink, c)
  <2>1. \E c \in LinkChanges : Quiet \/ Acknowledges(c)
    BY <1>9, ChangeDone, Zenon
  <2> QED
    BY <1>2, <1>6, <2>1, Zenon
<1> QED
  BY <1>1, <1>7, <1>8, <1>9, Zenon DEF WasSent

(* The samples.                                                            *)
LEMMA SamplesKeeps ==
  ASSUME Keeping, Samples
  PROVE  Kept
<1>0. /\ status \in StatusTypes /\ Recalls(status, past) /\ clock \in Times /\ GoodList(downlink)
  BY Zenon DEF Keeping, Follows
<1>1. ASSUME NEW v \in GpsSamples, HandleGnss(v) PROVE Kept
  <2> DEFINE e == Entry("gps", v)  s == UpdateGpsSample(v)
  <2>1. v \in GpsTypes
    BY CommsAssumption
  <2>2. e.kind # "phase"
    BY DEF Entry
  <2>3. s \in StatusTypes /\ Recalls(s, Append(past, e))
    BY <1>0, <2>1, GpsRecalled, Zenon DEF UpdateGpsSample
  <2>4. status' = s /\ past' = Append(past, e) /\ primary' = primary /\ clock' = clock /\ downlink' = downlink
    <3>1. status' = s /\ past' = Append(past, e) /\ UNCHANGED <<primary, clock, uplink, downlink, sent>>
      BY <1>1, Zenon DEF HandleGnss, Measures, With, Entry
    <3> QED
      BY <3>1
  <2> HIDE DEF e, s
  <2> QED
    BY <1>0, <2>2, <2>3, <2>4, KeepsWith, Zenon
<1>2. ASSUME NEW v \in MilliVolts, HandlePower(v) PROVE Kept
  <2> DEFINE e == Entry("power", v)  s == [status EXCEPT !.mV = v]
  <2>1. v \in Nat
    BY CommsAssumption
  <2>2. e.kind # "phase"
    BY DEF Entry
  <2>3. s \in StatusTypes /\ Recalls(s, Append(past, e))
    BY <1>0, <2>1, PowerRecalled, Zenon
  <2>4. status' = s /\ past' = Append(past, e) /\ primary' = primary /\ clock' = clock /\ downlink' = downlink
    <3>1. status' = s /\ past' = Append(past, e) /\ UNCHANGED <<primary, clock, uplink, downlink, sent>>
      BY <1>2, Zenon DEF HandlePower, Measures, With, Entry
    <3> QED
      BY <3>1
  <2> HIDE DEF e, s
  <2> QED
    BY <1>0, <2>2, <2>3, <2>4, KeepsWith, Zenon
<1>3. ASSUME NEW v \in ArmStatuses, HandleArmStatus(v) PROVE Kept
  <2> DEFINE e == Entry("arm", v)  s == [status EXCEPT !.arm = v]
  <2>1. v \in ArmTypes
    BY CommsAssumption
  <2>2. e.kind # "phase"
    BY DEF Entry
  <2>3. s \in StatusTypes /\ Recalls(s, Append(past, e))
    BY <1>0, <2>1, ArmRecalled, Zenon
  <2>4. status' = s /\ past' = Append(past, e) /\ primary' = primary /\ clock' = clock /\ downlink' = downlink
    <3>1. status' = s /\ past' = Append(past, e) /\ UNCHANGED <<primary, clock, uplink, downlink, sent>>
      BY <1>3, Zenon DEF HandleArmStatus, Measures, With, Entry
    <3> QED
      BY <3>1
  <2> HIDE DEF e, s
  <2> QED
    BY <1>0, <2>2, <2>3, <2>4, KeepsWith, Zenon
<1>4. ASSUME NEW v \in Accels, HandleImu(v) PROVE Kept
  <2> DEFINE e == Entry("accel", v)  s == [status EXCEPT !.accel = v]
  <2>2. e.kind # "phase"
    BY DEF Entry
  <2>3. s \in StatusTypes /\ Recalls(s, Append(past, e))
    BY <1>0, ImuRecalled, Zenon
  <2>4. status' = s /\ past' = Append(past, e) /\ primary' = primary /\ clock' = clock /\ downlink' = downlink
    <3>1. status' = s /\ past' = Append(past, e) /\ UNCHANGED <<primary, clock, uplink, downlink, sent>>
      BY <1>4, Zenon DEF HandleImu, Measures, With, Entry
    <3> QED
      BY <3>1
  <2> HIDE DEF e, s
  <2> QED
    BY <1>0, <2>2, <2>3, <2>4, KeepsWith, Zenon
<1>5. ASSUME NEW v \in Shots, HandleMetadata(v) PROVE Kept
  <2> DEFINE e == Entry("image", v)  s == [status EXCEPT !.last_image_id = Max({v.image_id, @})]
  <2>1. v.image_id \in Octet
    BY CommsAssumption DEF MetadataTypes
  <2>2. e.kind # "phase"
    BY DEF Entry
  <2>3. s \in StatusTypes /\ Recalls(s, Append(past, e))
    BY <1>0, <2>1, ImageRecalled, Zenon
  <2>4. status' = s /\ past' = Append(past, e) /\ primary' = primary /\ clock' = clock
    <3>1. status' = s /\ past' = Append(past, e) /\ UNCHANGED <<primary, clock, uplink, sent>>
      BY <1>5, Zenon DEF HandleMetadata, Measures, With, Entry
    <3> QED
      BY <3>1
  <2>5. GoodList(downlink')
    BY <1>0, <1>5, MetadataAppended, Zenon DEF HandleMetadata
  <2> HIDE DEF e, s
  <2> QED
    BY <1>0, <2>2, <2>3, <2>4, <2>5, KeepsWith, Zenon
<1>6. ASSUME NEW phase \in Phases, Changes(phase) PROVE Kept
  <2>1. phase \in Range(PhaseNames)
    BY CommsAssumption
  <2>2. Enters(phase) /\ UNCHANGED <<clock, uplink, sent>>
    BY <1>6, Zenon DEF Changes
  <2>3. clock' = clock
    BY <2>2
  <2> QED
    BY <2>1, <2>2, <2>3, EntersKeeps, Zenon
<1>7. ASSUME NEW now \in Times, ClockIsSet(now) PROVE Kept
  <2> DEFINE e == Entry("clock", now)
  <2>2. e.kind # "phase"
    BY DEF Entry
  <2>3. status \in StatusTypes /\ Recalls(status, Append(past, e))
    BY <1>0, ClockRecalled, Zenon
  <2>4. status' = status /\ past' = Append(past, e) /\ primary' = primary /\ clock' = now /\ downlink' = downlink
    <3>1. /\ clock' = now /\ past' = Append(past, e)
          /\ UNCHANGED <<status, primary, uplink, downlink, sent>>
      BY <1>7, Zenon DEF ClockIsSet, Measures, With, Entry
    <3> QED
      BY <3>1
  <2> HIDE DEF e
  <2> QED
    BY <1>0, <2>2, <2>3, <2>4, KeepsWith, Zenon
<1> QED
  BY <1>1, <1>2, <1>3, <1>4, <1>5, <1>6, <1>7, Zenon DEF Samples

(* The timers and the service.                                             *)
LEMMA EmissionsKeeps ==
  ASSUME Keeping, Emissions
  PROVE  Kept
<1>1. primary \in Beats
  BY Zenon DEF Keeping, Follows
<1>2. Beats \subseteq Range(TelemetryTypes) /\ Secondary \in Beats
  <2>1. Secondary \in Beats
    BY DEF Secondary, Beats
  <2> QED
    BY <2>1, BeatLayouts, Zenon
<1>3. CASE Heartbeats
  <2>1. /\ \E typ \in Beats : EmitTelemetry(typ)
        /\ UNCHANGED <<status, primary, clock, uplink, past, sent>>
    BY <1>1, <1>2, <1>3, Zenon DEF Heartbeats, OnPrimaryHeartbeatTimer, OnSecondaryHeartbeatTimer
  <2>2. UNCHANGED <<status, primary, past, clock>>
    BY <2>1
  <2> QED
    BY <1>2, <2>1, <2>2, EmitKeeps, Zenon
<1>4. ASSUME NEW code \in 0 .. Len(TelemetryTypes), RequestTelemetry(code) PROVE Kept
  <2>1. UNCHANGED <<status, primary, clock, uplink, past, sent>>
    BY <1>4, Zenon DEF RequestTelemetry
  <2>2. UNCHANGED <<status, primary, past, clock>>
    BY <2>1
  <2>3. CASE code + 1 \in DOMAIN TelemetryTypes
    <3>1. TelemetryTypes[code + 1] \in Range(TelemetryTypes)
      BY <2>3, Zenon DEF Range
    <3>2. EmitTelemetry(TelemetryTypes[code + 1])
      BY <1>4, <2>3, Zenon DEF RequestTelemetry
    <3> QED
      BY <2>2, <3>1, <3>2, EmitKeeps, Zenon
  <2>4. CASE code + 1 \notin DOMAIN TelemetryTypes
    <3>1. UNCHANGED downlink
      BY <1>4, <2>4, Zenon DEF RequestTelemetry
    <3>2. UNCHANGED <<status, primary, past, clock, downlink>>
      BY <2>2, <3>1
    <3> QED
      BY <3>2, NothingNew, Zenon
  <2> QED
    BY <2>3, <2>4
<1> QED
  BY <1>3, <1>4, Zenon DEF Emissions

(* The ground reads a good packet.                                         *)
LEMMA HearsKeeps ==
  ASSUME Keeping, GroundHears
  PROVE  Kept /\ HeardIsSo'
<1>1. PICK D : downlink \in Seq(D) /\ \A d \in D : Good(d)
  BY Zenon DEF Keeping, Follows, GoodList
<1> DEFINE d == Head(downlink)  r == GroundUnpacks(d.bytes)
<1>2. /\ downlink # <<>> /\ downlink' = Tail(downlink)
      /\ heard' = [cmd |-> r.cmd, typ |-> r.typ, res |-> r.res, data |-> r.data, truth |-> d.truth]
      /\ UNCHANGED <<status, primary, clock, uplink, past, sent>>
  BY Zenon DEF GroundHears
<1>3. d \in D /\ Tail(downlink) \in Seq(D)
  BY <1>1, <1>2
<1>4. Reads(r, d.truth)
  BY <1>1, <1>3, Zenon DEF Good
<1>5. GoodList(downlink')
  BY <1>1, <1>2, <1>3, Zenon DEF GoodList
<1>6. status' = status /\ primary' = primary /\ past' = past /\ clock' = clock
  BY <1>2
<1>7. Kept
  BY <1>5, <1>6, Zenon DEF Keeping, Kept, Follows
<1> HIDE DEF r, d
<1>8. /\ heard'.cmd = r.cmd /\ heard'.typ = r.typ /\ heard'.res = r.res /\ heard'.data = r.data
      /\ heard'.truth = d.truth
  BY <1>2
<1>9. HeardIsSo'
  BY <1>4, <1>8, Zenon DEF HeardIsSo, Heartbeat, Agrees, Reads, Agreed, Beats
<1> QED
  BY <1>7, <1>9

(* Each step keeps the invariant.                                          *)
LEMMA HeardKept == HeardInv /\ [CommsNext]_comms => HeardInv'
<1> SUFFICES ASSUME HeardInv, [CommsNext]_comms PROVE HeardInv'
  OBVIOUS
<1>0. CommsInv /\ Keeping /\ HeardIsSo /\ UplinkSent
  BY Zenon DEF HeardInv, CommsInv
<1>1. CommsInv'
  BY <1>0, CalledKept
<1>2. heard' = None => HeardIsSo'
  BY Zenon DEF HeardIsSo, Heartbeat, Agrees
<1>3. CASE Samples
  <2>1. heard' = None
    BY <1>3, Zenon DEF Samples, HandleGnss, HandlePower, HandleArmStatus, HandleImu, HandleMetadata,
                       Changes, ClockIsSet, Silent
  <2> QED
    BY <1>0, <1>1, <1>2, <1>3, <2>1, SamplesKeeps, KeepingKept, Zenon DEF HeardInv
<1>4. CASE Emissions
  <2>1. heard' = None
    BY <1>4, Zenon DEF Emissions, Heartbeats, RequestTelemetry, Silent
  <2> QED
    BY <1>0, <1>1, <1>2, <1>4, <2>1, EmissionsKeeps, KeepingKept, Zenon DEF HeardInv
<1>5. CASE Restarts
  <2>1. heard' = None
    BY <1>5, Zenon DEF Restarts, Silent
  <2> QED
    BY <1>0, <1>1, <1>2, <1>5, <2>1, RestartsKeeps, KeepingKept, Zenon DEF HeardInv
<1>6. CASE Ground
  <2>1. heard' = None /\ UNCHANGED <<status, primary, clock, downlink, past>>
    BY <1>6, Zenon DEF Ground, Silent
  <2>2. UNCHANGED <<status, primary, past, clock, downlink>>
    BY <2>1
  <2> QED
    BY <1>0, <1>1, <1>2, <2>1, <2>2, NothingNew, KeepingKept, Zenon DEF HeardInv
<1>7. CASE HandlePacket
  <2>1. heard' = None
    BY <1>7, Zenon DEF HandlePacket
  <2> QED
    BY <1>0, <1>1, <1>2, <1>7, <2>1, PacketKeeps, KeepingKept, Zenon DEF HeardInv
<1>8. CASE GroundHears
  BY <1>0, <1>1, <1>8, HearsKeeps, KeepingKept, Zenon DEF HeardInv
<1>9. CASE UNCHANGED comms
  <2>1. heard' = heard /\ UNCHANGED <<status, primary, past, clock, downlink>>
    BY <1>9 DEF comms
  <2>2. HeardIsSo'
    BY <1>0, <2>1, Zenon DEF HeardIsSo, Heartbeat, Agrees
  <2> QED
    BY <1>0, <1>1, <2>1, <2>2, NothingNew, KeepingKept, Zenon DEF HeardInv
<1> QED
  BY <1>3, <1>4, <1>5, <1>6, <1>7, <1>8, <1>9, Zenon DEF CommsNext

(* What the ground reads in a picture's metadata, a block or an            *)
(* acknowledge, and in a heartbeat the phase, status bits, position,       *)
(* seconds since boost, angles, voltage and highest picture, is what was   *)
(* so when the captain sent it: by a timer, on a restart or on a change of *)
(* state. Nothing is said of the accelerations of the landed heartbeat,    *)
(* which the code leaves unset.                                            *)
THEOREM EveryReadIsSo == CommsSpec => []HeardIsSo
<1>1. CommsInit => HeardInv
  <2> SUFFICES ASSUME CommsInit PROVE HeardInv
    OBVIOUS
  <2>1. /\ status = Fresh /\ primary = "FlightHeartbeat" /\ clock \in Times /\ downlink = <<>>
        /\ uplink = None /\ called = None /\ heard = None /\ past = <<>>
    BY Zenon DEF CommsInit
  <2>2. "FlightHeartbeat" \in Beats
    BY DEF Beats
  <2>3. Keeping
    BY <2>1, <2>2, FreshFollows, Zenon DEF Keeping, Follows
  <2> QED
    BY <2>1, <2>3, Zenon DEF HeardInv, CommsInv, UplinkSent, DoneAsMeant, HeardIsSo, Heartbeat, Agrees
<1>2. HeardInv => HeardIsSo
  BY Zenon DEF HeardInv
<1> QED
  BY <1>1, <1>2, HeardKept, PTL DEF CommsSpec

===============================================================================
