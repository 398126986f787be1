------------------------------- MODULE MCGround -------------------------------
(***************************************************************************)
(* What the ground gets and gives: the pictures, with a budget of crashes  *)
(* of the watcher or the captain and of commands, and the packets of the   *)
(* captain.  Neither part uses the other's state, so a behaviour picks its *)
(* topic.  Bounds of the model.                                            *)
(***************************************************************************)
EXTENDS Images, MCComms

CONSTANTS MaxCrashes, MaxCommands

VARIABLES topic, crashes, commands

MCInit ==
  /\ ImagesInit /\ CommsInit /\ crashes = 0 /\ commands = 0
  /\ topic \in {"pictures", "packets"}
  /\ topic # "packets" => clock = Min(Times)

OfPictures ==
  \/ /\ \/ AskForImage \/ WatcherStep \/ FrameArrives \/ HandleImageMetadata
        \/ \E t \in BurstThreads : AMinuteLater(t)
        \/ \E s \in Senders : EmitBlock(s)
     /\ UNCHANGED <<crashes, commands>>
  \/ /\ commands < MaxCommands /\ commands' = commands + 1
     /\ \/ \E i \in Ids : MetadataAsked(i)
        \/ \E i \in Ids, b \in BlockIds : ImageControl(i, b)
        \/ \E t \in BurstThreads : EnterEmergency(t)
     /\ UNCHANGED crashes
  \/ /\ crashes < MaxCrashes /\ crashes' = crashes + 1
     /\ WatcherCrash \/ CaptainRestart
     /\ UNCHANGED commands

MCNext ==
  /\ UNCHANGED topic
  /\ \/ topic = "pictures" /\ OfPictures /\ UNCHANGED comms
     \/ topic = "packets" /\ CommsNext /\ UNCHANGED <<imageVars, crashes, commands>>

MCSpec == MCInit /\ [][MCNext]_<<imageVars, comms, topic, crashes, commands>> /\ ImagesFairness
=============================================================================
