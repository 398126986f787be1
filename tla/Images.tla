------------------------------- MODULE Images -------------------------------
(***************************************************************************)
(* The pictures of the payload, from the request to the downlink.          *)
(*                                                                         *)
(* The watcher (ImageHandlerNode) serves one request per process: it makes *)
(* a folder, shoots, writes the picture as blocks of 128 bytes, saves and  *)
(* publishes the metadata and shuts down; the launch file brings it back.  *)
(* The captain reads the same folders to send blocks and metadata down.    *)
(* A picture is named by the request it was taken for.                     *)
(***************************************************************************)
EXTENDS Naturals, Sequences, FiniteSets, FiniteSetsExt, SequencesExt

CONSTANTS
  MaxAsked,      \* requests (bound of the model)
  MaxBlocks,     \* blocks of an image (bound of the model)
  IdModulus,     \* image ids on air and in packet paths are uint8_t: 256
  BurstBlocks,   \* blocks of each image sent on entering Emergency: 60
  QueueDepth,    \* history depth of the subscription: 10
  BurstThreads   \* detached threads of Emergency entries

ASSUME ImagesAssumption ==
  /\ {MaxAsked, MaxBlocks, BurstBlocks} \subseteq Nat
  /\ {IdModulus, QueueDepth} \subseteq Nat \ {0}

VARIABLES
  asked,                              \* requests made so far
  pc, inbox, image, shot, frame, block,   \* the watcher's process
  folders, blocks, metas,             \* the images directory
  news,                               \* metadata on its way to the captain
  lastImage, jobs, told, onAir        \* the captain, and what it sent (history)

process == <<pc, inbox, image, shot, frame, block>>
disk == <<folders, blocks, metas>>
captainSide == <<lastImage, jobs, told, onAir>>
imageVars == <<asked, process, disk, news, captainSide>>

NoPicture == 0
Pictures == 1..MaxAsked
Ids == 0..MaxAsked
BlockIds == 0..(MaxBlocks - 1)
Absent == [state |-> "absent", of |-> NoPicture]
Torn == [state |-> "torn", of |-> NoPicture]
Whole(p) == [state |-> "whole", of |-> p]

Metadata == [image : 0..(IdModulus - 1), of : Pictures, blocks : 0..MaxBlocks]
Senders == {"executor"} \cup BurstThreads
Idle == [image |-> 0, todo |-> <<>>, later |-> <<>>]

ImagesTypeOK ==
  /\ asked \in 0..MaxAsked
  /\ pc \in {"away", "ready", "shooting", "encoding", "opened", "saving",
             "publishing", "leaving"}
  /\ inbox \in Seq(Pictures) /\ Len(inbox) <= QueueDepth
  /\ image \in Ids /\ block \in 0..MaxBlocks
  /\ {shot, frame} \subseteq Pictures \cup {NoPicture}
  /\ folders \in SUBSET Ids
  /\ blocks \in [Ids \X BlockIds -> {Absent, Torn} \cup {Whole(p) : p \in Pictures}]
  /\ DOMAIN metas \subseteq folders
  /\ \A i \in DOMAIN metas : metas[i] \in Metadata
  /\ news \in Seq(Metadata)
  /\ lastImage \in 0..(IdModulus - 1)
  /\ DOMAIN jobs = Senders
  /\ told \subseteq Metadata
  /\ onAir \subseteq [image : Nat, block : BlockIds, file : {Torn} \cup {Whole(p) : p \in Pictures}]

ImagesInit ==
  /\ asked = 0
  /\ pc = "away" /\ inbox = <<>> /\ image = 0
  /\ shot = NoPicture /\ frame = NoPicture /\ block = 0
  /\ folders = {} /\ metas = <<>>
  /\ blocks = [f \in Ids \X BlockIds |-> Absent]
  /\ news = <<>> /\ lastImage = 0 /\ told = {} /\ onAir = {}
  /\ jobs = [s \in Senders |-> Idle]
-----------------------------------------------------------------------------
(* The watcher.                                                            *)

NextId == IF folders = {} THEN 0 ELSE Max(folders) + 1

(* Faulty: a path one bit too narrow.                                      *)
PacketIdNarrow(i) == i % (IdModulus \div 2)

(* compressAndSave takes the id as a uint8_t: the folder of the packets.   *)
PacketId(i) == i % IdModulus

(* A process that ended: its memory and its waiting requests are gone.     *)
Gone ==
  /\ pc' = "away" /\ inbox' = <<>> /\ image' = 0
  /\ shot' = NoPicture /\ frame' = NoPicture /\ block' = 0

(* loadImageMetadata fails on a file that is missing or cut short, so a    *)
(* torn metadata file counts as none.                                      *)
Loadable(i) == i \in DOMAIN metas

(* The metadata of the newest image is published again; the captain may    *)
(* not be connected yet.                                                   *)
Start ==
  /\ pc = "away"
  /\ pc' = "ready"
  /\ LET newest == IF NextId > 0 THEN NextId - 1 ELSE 0 IN
     \/ Loadable(newest) /\ news' = Append(news, metas[newest])
     \/ UNCHANGED news
  /\ UNCHANGED <<asked, inbox, image, shot, frame, block, disk, captainSide>>

HandleImageRequest ==
  /\ pc = "ready" /\ inbox # <<>>
  /\ inbox' = Tail(inbox)
  /\ IF NextId \in folders
     THEN UNCHANGED <<pc, image, shot, folders>>
     ELSE /\ pc' = "shooting" /\ image' = NextId /\ shot' = Head(inbox)
          /\ folders' = folders \cup {NextId}
  /\ UNCHANGED <<asked, frame, block, blocks, metas, news, captainSide>>

FrameArrives ==
  /\ pc = "shooting"
  /\ frame' = shot /\ pc' = "encoding" /\ block' = 0
  /\ UNCHANGED <<asked, inbox, image, shot, disk, news, captainSide>>

(* Faulty: the wait for a frame has no end.                                *)
FrameNeverTimesOut == pc = "shooting" /\ FALSE /\ UNCHANGED imageVars

(* After 5 s without a frame the image is what the process has, which is   *)
(* empty in a new process.                                                 *)
FrameTimesOut ==
  /\ pc = "shooting"
  /\ IF frame = NoPicture
     THEN Gone
     ELSE pc' = "encoding" /\ block' = 0 /\ UNCHANGED <<inbox, image, shot, frame>>
  /\ UNCHANGED <<asked, disk, news, captainSide>>

OpenBlock ==
  /\ pc = "encoding" /\ block < MaxBlocks
  /\ pc' = "opened"
  /\ blocks' = IF PacketId(image) \in folders
               THEN [blocks EXCEPT ![<<PacketId(image), block>>] = Torn] ELSE blocks
  /\ UNCHANGED <<asked, inbox, image, shot, frame, block, folders, metas, news, captainSide>>

SavePacket ==
  /\ pc = "opened"
  /\ pc' = "encoding" /\ block' = block + 1
  /\ blocks' = IF PacketId(image) \in folders
               THEN [blocks EXCEPT ![<<PacketId(image), block>>] = Whole(frame)] ELSE blocks
  /\ UNCHANGED <<asked, inbox, image, shot, frame, folders, metas, news, captainSide>>

(* The encoder is through, or fails and no block counts.                   *)
EncodingEnds(count) ==
  /\ pc = "encoding" /\ count \in {0, block}
  /\ pc' = "saving" /\ block' = count
  /\ UNCHANGED <<asked, inbox, image, shot, frame, disk, news, captainSide>>

NewMetadata == [image |-> image % IdModulus, of |-> shot, blocks |-> block]

SaveImageMetadata ==
  /\ pc = "saving"
  /\ pc' = "publishing"
  /\ metas' = [i \in DOMAIN metas \cup {image} |->
                 IF i = image THEN NewMetadata ELSE metas[i]]
  /\ UNCHANGED <<asked, inbox, image, shot, frame, block, folders, blocks, news, captainSide>>

PublishMetadata ==
  /\ pc = "publishing"
  /\ pc' = "leaving"
  /\ news' = Append(news, NewMetadata)
  /\ UNCHANGED <<asked, inbox, image, shot, frame, block, disk, captainSide>>

(* Faulty: the process goes on to serve a second request.                  *)
LeaveToTheNext ==
  /\ pc = "leaving" /\ pc' = "ready"
  /\ UNCHANGED <<asked, inbox, image, shot, frame, block, disk, news, captainSide>>

(* "I know i cant take another image": requests that wait are lost.        *)
Leave ==
  /\ pc = "leaving"
  /\ Gone
  /\ UNCHANGED <<asked, disk, news, captainSide>>

WatcherCrash ==
  /\ pc # "away"
  /\ Gone
  /\ UNCHANGED <<asked, disk, news, captainSide>>
-----------------------------------------------------------------------------
(* The captain's side. Its executor runs one callback at a time.           *)

ExecutorFree == jobs["executor"].todo = <<>>

LastOf(n, s) == IF Len(s) <= n THEN s ELSE SubSeq(s, Len(s) - n + 1, Len(s))

(* A request is lost while the watcher is away or not connected yet.       *)
AskForImage ==
  /\ asked < MaxAsked
  /\ asked' = asked + 1
  /\ \/ pc # "away" /\ inbox' = LastOf(QueueDepth, Append(inbox, asked + 1))
     \/ UNCHANGED inbox
  /\ UNCHANGED <<pc, image, shot, frame, block, disk, news, captainSide>>

EmitImageMetadata(meta) == told' = told \cup {meta}

HandleImageMetadata ==
  /\ ExecutorFree /\ news # <<>>
  /\ news' = Tail(news)
  /\ lastImage' = Max({lastImage, Head(news).image})
  /\ EmitImageMetadata(Head(news))
  /\ UNCHANGED <<asked, process, disk, jobs, onAir>>

MetadataAsked(i) ==
  /\ ExecutorFree /\ i < IdModulus /\ Loadable(i)
  /\ EmitImageMetadata(metas[i])
  /\ UNCHANGED <<asked, process, disk, news, lastImage, jobs, onAir>>

EmitImageData(i, list, later) == [image |-> i, todo |-> list, later |-> later]

ImageControl(i, b) ==
  /\ ExecutorFree /\ i < IdModulus
  /\ jobs' = [jobs EXCEPT !["executor"] = EmitImageData(i, <<b>>, <<>>)]
  /\ UNCHANGED <<asked, process, disk, news, lastImage, told, onAir>>

Burst == [b \in 1..BurstBlocks |-> b - 1]

(* Image 0 at once; images 1 and 2 from a detached thread, a minute apart. *)
EnterEmergency(t) ==
  /\ ExecutorFree /\ jobs[t] = Idle
  /\ jobs' = [jobs EXCEPT !["executor"] = EmitImageData(0, Burst, <<>>),
                          ![t] = EmitImageData(0, <<>>, <<1, 2>>)]
  /\ UNCHANGED <<asked, process, disk, news, lastImage, told, onAir>>

AMinuteLater(t) ==
  /\ jobs[t].todo = <<>> /\ jobs[t].later # <<>>
  /\ jobs' = [jobs EXCEPT ![t] = EmitImageData(Head(@.later), Burst, Tail(@.later))]
  /\ UNCHANGED <<asked, process, disk, news, lastImage, told, onAir>>

FileOf(i, b) == IF <<i, b>> \in DOMAIN blocks THEN blocks[<<i, b>>] ELSE Absent

(* Faulty: a block is read whatever its size.                              *)
LoadsAnything(file) == file.state # "absent"

(* load_block_data: only a file of exactly 128 bytes is read.              *)
Loads(file) == file.state = "whole"

EmitBlock(s) ==
  /\ jobs[s].todo # <<>>
  /\ LET b == Head(jobs[s].todo)  file == FileOf(jobs[s].image, b) IN
     onAir' = IF Loads(file)
              THEN onAir \cup {[image |-> jobs[s].image, block |-> b, file |-> file]}
              ELSE onAir
  /\ jobs' = [jobs EXCEPT ![s] = IF Tail(@.todo) = <<>> /\ @.later = <<>>
                                 THEN Idle ELSE EmitImageData(@.image, Tail(@.todo), @.later)]
  /\ UNCHANGED <<asked, process, disk, news, lastImage, told>>

(* A captain that dies forgets its jobs, its last image and what it had    *)
(* not heard yet; the launch file starts it again.                         *)
CaptainRestart ==
  /\ lastImage' = 0 /\ news' = <<>>
  /\ jobs' = [s \in Senders |-> Idle]
  /\ UNCHANGED <<asked, process, disk, told, onAir>>
-----------------------------------------------------------------------------
WatcherStep ==
  \/ Start \/ HandleImageRequest \/ FrameTimesOut
  \/ OpenBlock \/ SavePacket \/ EncodingEnds(0) \/ EncodingEnds(block)
  \/ SaveImageMetadata \/ PublishMetadata \/ Leave

Downlink ==
  \/ HandleImageMetadata
  \/ \E i \in Ids : MetadataAsked(i)
  \/ \E i \in Ids, b \in BlockIds : ImageControl(i, b)
  \/ \E t \in BurstThreads : EnterEmergency(t) \/ AMinuteLater(t)
  \/ \E s \in Senders : EmitBlock(s)

ImagesNext ==
  \/ AskForImage
  \/ WatcherStep \/ FrameArrives
  \/ Downlink
  \/ WatcherCrash
  \/ CaptainRestart

(* The watcher's thread runs, a wait for a frame ends, and the launch file *)
(* starts the process again after 0.2 s. Nobody promises a frame.          *)
ImagesFairness == WF_imageVars(WatcherStep)

ImagesSpec == ImagesInit /\ [][ImagesNext]_imageVars
-----------------------------------------------------------------------------
(* Metadata on disk is a promise to the ground: the blocks it counts are   *)
(* whole on disk, and they show the picture of the request it names, at    *)
(* any moment, whatever crashed before (saveImageMetadata after            *)
(* compressAndSave; one request per process, so that no frame is stale).   *)
MetadataIsWhole ==
  \A i \in DOMAIN metas : \A b \in 0..(metas[i].blocks - 1) :
    blocks[<<PacketId(i), b>>] = Whole(metas[i].of)

(* Whatever the ground received under one image id, from bursts, block     *)
(* requests and metadata together, belongs to one picture, and no block is *)
(* a part of a file that was being written (load_block_data).              *)
DownlinkIsOnePicture ==
  \A i \in 0..(IdModulus - 1) :
    Cardinality({r.file : r \in {r \in onAir : r.image = i}}
                \cup {Whole(m.of) : m \in {m \in told : m.image = i /\ m.blocks > 0}}) <= 1

(* What the captain was told of an image the ground can ask for: its       *)
(* metadata is on disk, and the last image of the telemetry exists.        *)
ToldIsOnDisk ==
  /\ told \cup ToSet(news) \subseteq {metas[i] : i \in DOMAIN metas}
  /\ lastImage # 0 => lastImage \in DOMAIN metas

(* What the ground is told of a picture is true of the disk, whatever      *)
(* crashed before: told metadata is saved metadata, and saved metadata     *)
(* counts blocks that are whole and of its own picture.                    *)
MetadataIsTrue == ToldIsOnDisk /\ MetadataIsWhole

(* No restart ever takes an id again: blocks and metadata are written once *)
(* (nextImageIdForDir counts folders, made before anything can fail).      *)
PicturesAreKept ==
  [][/\ folders \subseteq folders'
     /\ \A f \in DOMAIN blocks :
          blocks[f].state = "whole" => blocks'[f] = blocks[f]
     /\ \A i \in DOMAIN metas : i \in DOMAIN metas' /\ metas'[i] = metas[i]]_imageVars

(* A camera that gives no frame, a request that failed and a served one    *)
(* all end in a watcher that waits for the next request.                   *)
WatcherComesBack == []<>(pc = "ready")
=============================================================================
