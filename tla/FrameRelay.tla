----------------------------- MODULE FrameRelay -----------------------------
(***************************************************************************)
(* How a stereo frame gets from the camera process (salmon) into an answer *)
(* of the frame service (main.cpp: mutexIdsInit, mutexFramesInit,          *)
(* readFrame, readAndCompress).                                            *)
(*                                                                         *)
(* The camera fills a ring of frames in shared memory and then publishes   *)
(* the index of the last one.  Each slot and the index have a mutex in the *)
(* shared memory, but the service maps it for reading only and locks       *)
(* private copies made at its start, so nothing keeps the camera out of    *)
(* the slot that is being copied.                                          *)
(*                                                                         *)
(* Frames are numbered in the order they are taken; 0 is an empty slot and *)
(* the time of an answer without one.                                      *)
(***************************************************************************)
EXTENDS Integers

CONSTANTS
  N,          \* SALMON_SIZE
  MaxFrames,  \* bound: frames ever taken
  Mode        \* the argument of readAndCompress

Modes == {"VERIFY_TIME", "VERIFY_COORD", "VERIFY_DIST", "MODE_TIME"}

ASSUME RelayAssumption == /\ N \in Nat \ {0, 1}
                          /\ MaxFrames \in Nat
                          /\ Mode \in Modes

VARIABLES
  camera,     \* what the camera process is doing
  published,  \* the frame whose index ids_buffer holds
  ring,       \* img_buffer: what each slot's parts belong to
  shm,        \* the shared memory objects that existed when they were mapped
  pc,         \* where thrVerifyServer is
  idsBusy,    \* whether the copy ids_mutex was made of a locked mutex
  busy,       \* the slots whose copy ipc_mutex[i] was
  lastIndex,  \* _last_index
  index,      \* readFrame's last_index
  picture,    \* the frames that the halves of imgsum belong to
  time,       \* readAndCompress's time, as a frame
  want,       \* the frame that was published when index was read
  shown,      \* the time of the last answer that had one
  before      \* what was published and wanted when the round began

cameraVars == <<camera, published, ring>>
copies == <<shm, idsBusy, busy>>
vars == <<cameraVars, copies, pc, lastIndex, index, picture, time, want,
          shown, before>>

Slots == 0..(N - 1)
Frames == 0..MaxFrames
Junk == -1  \* what malloc returned
NoPicture == [left |-> Junk, right |-> Junk]
Objects == {"ids", "frames"}  \* SALMON_IDS_PATH, SALMON_PATH

TypeOK ==
  /\ camera \in {"idle", "left", "right", "meta", "filled", "index"}
  /\ published \in Frames
  /\ ring \in [Slots -> [left: Frames, right: Frames, meta: Frames]]
  /\ shm \subseteq Objects
  /\ pc \in {"mapIds", "mapFrames", "begin", "ids", "backoff", "frame",
             "left", "right", "meta", "encode", "dead"}
  /\ idsBusy \in BOOLEAN
  /\ busy \subseteq Slots
  /\ lastIndex \in Slots /\ index \in Slots
  /\ picture \in [left: Frames \cup {Junk}, right: Frames \cup {Junk}]
  /\ time \in Frames /\ want \in Frames /\ shown \in Frames
  /\ before \in [published: Frames, want: Frames]

Init ==
  /\ camera = "idle" /\ published = 0
  /\ ring = [i \in Slots |-> [left |-> 0, right |-> 0, meta |-> 0]]
  /\ shm \in SUBSET Objects
  /\ pc = "mapIds"
  /\ idsBusy = FALSE /\ busy = {}
  /\ lastIndex = 0 /\ index = 0
  /\ picture = NoPicture
  /\ time = 0 /\ want = 0 /\ shown = 0
  /\ before = [published |-> 0, want |-> 0]

-----------------------------------------------------------------------------
(* The camera process: it locks a slot, fills it, unlocks it, and then     *)
(* publishes the index under the other mutex.                              *)

Slot(f) == f % N
Filling == {"left", "right", "meta"}

Camera(from, to) == camera = from /\ camera' = to
Service == UNCHANGED <<copies, pc, lastIndex, index, picture, time, want,
                       shown, before>>

TakeFrame ==
  /\ published < MaxFrames
  /\ Camera("idle", "left")
  /\ UNCHANGED <<published, ring>> /\ Service

Fill(part, to) ==
  /\ Camera(part, to)
  /\ ring' = [ring EXCEPT ![Slot(published + 1)][part] = published + 1]
  /\ UNCHANGED published /\ Service

FillSlot == Fill("left", "right") \/ Fill("right", "meta") \/ Fill("meta", "filled")

LockIds ==
  /\ Camera("filled", "index")
  /\ UNCHANGED <<published, ring>> /\ Service

Publish ==
  /\ Camera("index", "idle")
  /\ published' = published + 1
  /\ UNCHANGED ring /\ Service

(* Frames begun so far.                                                    *)
Begun == IF camera = "idle" THEN published ELSE published + 1

-----------------------------------------------------------------------------
(* The service.                                                            *)

Goto(from, to) == pc = from /\ pc' = to

(* The mutexes are copied in whatever state they are.  Nothing is copied   *)
(* from memory that is not there, and nobody looks at the result.          *)
MapIds ==
  /\ Goto("mapIds", "mapFrames")
  /\ idsBusy' = ("ids" \in shm /\ camera = "index")
  /\ UNCHANGED <<cameraVars, shm, busy, lastIndex, index, picture, time, want,
                 shown, before>>

MapFrames ==
  /\ Goto("mapFrames", "begin")
  /\ busy' = IF "frames" \in shm /\ camera \in Filling
             THEN {Slot(published + 1)} ELSE {}
  /\ UNCHANGED <<cameraVars, shm, idsBusy, lastIndex, index, picture, time,
                 want, shown, before>>

(* readAndCompress(mode): only VERIFY_TIME calls readFrame.  The GPS of    *)
(* VERIFY_COORD is never set and has no time either.                       *)
Begin ==
  /\ Goto("begin", IF Mode = "VERIFY_TIME" THEN "ids" ELSE "encode")
  /\ time' = 0
  /\ before' = [published |-> published, want |-> want]
  /\ UNCHANGED <<cameraVars, copies, lastIndex, index, picture, want, shown>>

IdsBusy ==
  /\ Goto("ids", "backoff") /\ idsBusy
  /\ UNCHANGED <<cameraVars, copies, lastIndex, index, picture, time, want,
                 shown, before>>

Backoff ==
  /\ Goto("backoff", "ids")
  /\ UNCHANGED <<cameraVars, copies, lastIndex, index, picture, time, want,
                 shown, before>>

(* ids_buffer is a null pointer.                                           *)
IdsMissing ==
  /\ Goto("ids", "dead") /\ ~idsBusy /\ "ids" \notin shm
  /\ UNCHANGED <<cameraVars, copies, lastIndex, index, picture, time, want,
                 shown, before>>

AtIds == pc = "ids" /\ ~idsBusy /\ "ids" \in shm

(* Faulty variant: the frame's number is kept in place of its slot.        *)
NewIndexByFrame(i) ==
  /\ index' = i /\ lastIndex' = published /\ want' = published
  /\ pc' = "frame"

NewIndex(i) ==
  /\ index' = i /\ lastIndex' = i /\ want' = published
  /\ pc' = "frame"

(* Faulty variant: no comparison with the index of the round before.       *)
ReadIdsUnfiltered ==
  /\ AtIds
  /\ NewIndex(Slot(published))
  /\ UNCHANGED <<cameraVars, copies, picture, time, shown, before>>

(* Faulty variant: the slot after the published one.                       *)
ReadIdsAhead ==
  /\ AtIds
  /\ \/ Slot(published) # lastIndex /\ NewIndex(Slot(published + 1))
     \/ Slot(published) = lastIndex /\ pc' = "encode"
        /\ UNCHANGED <<index, lastIndex, want>>
  /\ UNCHANGED <<cameraVars, copies, picture, time, shown, before>>

(* Faulty variant: the lock is kept when there is nothing new.             *)
ReadIdsLocked ==
  /\ AtIds
  /\ \/ Slot(published) # lastIndex /\ NewIndex(Slot(published))
        /\ UNCHANGED idsBusy
     \/ Slot(published) = lastIndex /\ pc' = "encode" /\ idsBusy' = TRUE
        /\ UNCHANGED <<index, lastIndex, want>>
  /\ UNCHANGED <<cameraVars, shm, busy, picture, time, shown, before>>

(* Faulty variant: _last_index is set before it is compared.               *)
ReadIdsLate ==
  /\ AtIds
  /\ lastIndex' = Slot(published) /\ pc' = "encode"
  /\ UNCHANGED <<index, want>>
  /\ UNCHANGED <<cameraVars, copies, picture, time, shown, before>>

(* Under the copied ids_mutex: the index is new, or readFrame returns -1,  *)
(* which readAndCompress does not look at.                                 *)
ReadIds ==
  /\ AtIds
  /\ \/ Slot(published) # lastIndex /\ NewIndex(Slot(published))
     \/ Slot(published) = lastIndex /\ pc' = "encode"
        /\ UNCHANGED <<index, lastIndex, want>>
  /\ UNCHANGED <<cameraVars, copies, picture, time, shown, before>>

(* The frame is given up, and not tried again.                             *)
FrameBusy ==
  /\ Goto("frame", "encode") /\ index \in busy
  /\ UNCHANGED <<cameraVars, copies, lastIndex, index, picture, time, want,
                 shown, before>>

LockFrame ==
  /\ Goto("frame", "left") /\ index \notin busy
  /\ UNCHANGED <<cameraVars, copies, lastIndex, index, picture, time, want,
                 shown, before>>

(* img_buffer is a null pointer; the mutex, all zeros, could be locked.    *)
FrameMissing ==
  /\ Goto("left", "dead") /\ "frames" \notin shm
  /\ UNCHANGED <<cameraVars, copies, lastIndex, index, picture, time, want,
                 shown, before>>

(* The memcpy, a half at a time.                                           *)
Copy(half, to) ==
  /\ Goto(half, to) /\ "frames" \in shm
  /\ picture' = [picture EXCEPT ![half] = ring[index][half]]
  /\ UNCHANGED <<cameraVars, copies, lastIndex, index, time, want, shown,
                 before>>

CopyFrame == Copy("left", "right") \/ Copy("right", "meta")

ReadMeta ==
  /\ Goto("meta", "encode")
  /\ time' = ring[index].meta
  /\ UNCHANGED <<cameraVars, copies, lastIndex, index, picture, want, shown,
                 before>>

(* savePassage, jpegProc, convertToBase64 and sendToClient: the answer has *)
(* the picture and the time as they are now.                               *)
Encode ==
  /\ Goto("encode", "begin")
  /\ shown' = IF time = 0 THEN shown ELSE time
  /\ UNCHANGED <<cameraVars, copies, lastIndex, index, picture, time, want,
                 before>>

CameraStep == TakeFrame \/ FillSlot \/ LockIds \/ Publish
Read == IdsBusy \/ Backoff \/ IdsMissing \/ ReadIds
        \/ FrameBusy \/ LockFrame \/ FrameMissing \/ CopyFrame \/ ReadMeta
ServiceStep == MapIds \/ MapFrames \/ Begin \/ Read \/ Encode

Next == CameraStep \/ ServiceStep

Spec == Init /\ [][Next]_vars

(* The thread runs; the camera may stop anywhere, even with a mutex held.  *)
FairSpec == Spec /\ WF_vars(ServiceStep)

-----------------------------------------------------------------------------
(* Properties.                                                             *)

Answering == pc = "encode"
Timed == Answering /\ time # 0

(* The halves of an answered picture and its time belong to the frame that *)
(* was published when readFrame looked, unless the camera has since begun  *)
(* to write the same slot again, N frames on.  This is all the exclusion   *)
(* there is: no mutex of the camera's is ever taken.                       *)
TornOnlyWhenLapped ==
  Timed => \/ picture.left = want /\ picture.right = want /\ time = want
           \/ Begun >= want + N

(* Successive answers with a time never repeat it, and go back by at most  *)
(* one frame, which takes a camera that laps the reader.  A slot whose     *)
(* copied mutex was locked can come between two answers and undo this.     *)
TimesAdvance ==
  Timed /\ shown # 0 /\ busy = {} => time # shown /\ time >= shown - 1

(* When something was published between two rounds, but not so much that   *)
(* the ring came round, and no copied mutex was caught locked, the answer  *)
(* has a time ("time verify, get time and ccord from shared memory",       *)
(* main.cpp:1442).                                                         *)
NewFrameShown ==
  Answering /\ shm = Objects /\ busy = {} /\ before.want < before.published
            /\ published < before.want + N
    => time # 0

(* An answer without a time means that readFrame saw the slot of the frame *)
(* it wanted last: nothing was published since, or frames by the length of *)
(* the ring, or the very first one in slot 0.  Whatever readAndCompress    *)
(* makes of the -1 it does not look at, the picture of that answer is the  *)
(* last one copied, or the memory as malloc returned it before the first.  *)
UntimedIsOld ==
  Mode = "VERIFY_TIME" /\ Answering /\ time = 0 /\ busy = {} =>
    /\ \E f \in before.published..published : Slot(f) = Slot(want)
    /\ want = 0 => picture = NoPicture
    /\ want > 0 => \/ picture.left = want /\ picture.right = want
                   \/ Begun >= want + N

(* If the mutex of the index was free when it was copied, no round of the  *)
(* service waits for ever, whatever state the camera stops in.             *)
RoundsGoOn == [](pc = "mapFrames" /\ shm = Objects /\ ~idsBusy => []<>Answering)
=============================================================================
