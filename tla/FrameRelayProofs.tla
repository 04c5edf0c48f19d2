-------------------------- MODULE FrameRelayProofs --------------------------
(***************************************************************************)
(* Theorems about FrameRelay: for a ring of any size, any number of frames *)
(* and any timing of the two processes, an answer is torn only when the    *)
(* camera comes round to the slot, and times advance as promised.          *)
(***************************************************************************)
EXTENDS FrameRelay, TLAPS

-----------------------------------------------------------------------------
(* The inductive invariant.                                                *)

(* The last frame of which a part is in the ring, by the camera states in  *)
(* which that part of the next one is.                                     *)
Filled(states) == IF camera \in states THEN published + 1 ELSE published
Lefts == Filled({"right", "meta", "filled", "index"})
Rights == Filled({"meta", "filled", "index"})
Metas == Filled({"filled", "index"})

(* The cells of one part, up to frame w: each has a frame of its own slot, *)
(* and none older than any frame that was put there.                       *)
Kept(cells, w) ==
  /\ \A i \in Slots : cells[i] = 0 \/ (Slot(cells[i]) = i /\ cells[i] <= w)
  /\ \A f \in 1..w : f <= cells[Slot(f)]

LeftCells == [i \in Slots |-> ring[i].left]
RightCells == [i \in Slots |-> ring[i].right]
MetaCells == [i \in Slots |-> ring[i].meta]

RingKept == /\ Kept(LeftCells, Lefts) /\ Kept(RightCells, Rights)
            /\ Kept(MetaCells, Metas)
            /\ camera # "idle" => published < MaxFrames

(* readFrame has a frame in hand, or its time.                             *)
Copying == pc \in {"frame", "left", "right", "meta"}
InHand == Copying \/ Timed

(* What the service knows of the ring: lastIndex is the slot of the last   *)
(* frame it wanted.                                                        *)
Wanted ==
  /\ lastIndex = Slot(want) /\ want <= published
  /\ pc \in {"ids", "backoff"} => time = 0
  /\ Copying => index = lastIndex /\ want > 0 /\ time = 0

(* A value that was copied is of the frame wanted, or of one a whole ring  *)
(* on.                                                                     *)
Copied(value) == value = want \/ Begun >= want + N

Untorn ==
  /\ pc \in {"right", "meta"} \/ Timed => Copied(picture.left)
  /\ pc = "meta" \/ Timed => Copied(picture.right)
  /\ Timed => Copied(time)

(* Each time is of the slot last wanted, and not of an earlier frame; one  *)
(* that was shown is not ahead of the camera.                              *)
Times ==
  /\ Timed => Slot(time) = Slot(want) /\ want <= time /\ time <= published + 1
  /\ shown <= published + 1
  /\ busy = {} /\ shown # 0 /\ ~InHand /\ pc # "dead" => Slot(shown) = lastIndex
  /\ busy = {} /\ shown # 0 /\ InHand => Slot(shown) # Slot(want) /\ shown <= want + 1
  /\ pc \in {"mapIds", "mapFrames"} => shown = 0

(* A round that ends without a time, though no slot was found locked, saw  *)
(* published in the slot of the last frame wanted.                         *)
NothingNew ==
  /\ before.published <= published
  /\ pc \in {"ids", "backoff"} => want = before.want
  /\ Mode = "VERIFY_TIME" /\ pc = "encode" /\ time = 0 /\ busy = {} =>
       /\ want = before.want
       /\ \E f \in before.published..published : Slot(f) = Slot(want)

(* Between the copies imgsum has the last frame wanted, if there was one.  *)
OldPicture ==
  /\ pc \in {"mapIds", "mapFrames"} => want = 0 /\ picture = NoPicture
  /\ busy = {} /\ ~Copying /\ pc # "dead" =>
       IF want = 0 THEN picture = NoPicture
                   ELSE Copied(picture.left) /\ Copied(picture.right)

InductiveInv == /\ TypeOK /\ RingKept /\ Wanted /\ Untorn /\ Times
                /\ NothingNew /\ OldPicture

-----------------------------------------------------------------------------
(* The slots of the ring.                                                  *)

LEMMA SlotType ==
  /\ \A f \in Nat : Slot(f) \in Slots
  /\ Slot(0) = 0
  BY RelayAssumption DEF Slot, Slots

(* Two frames of one slot are a whole ring apart.                          *)
LEMMA SameSlot ==
  ASSUME NEW f \in Nat, NEW g \in Nat, f < g, Slot(f) = Slot(g)
  PROVE  g >= f + N
<1> DEFINE p == f \div N
           q == g \div N
<1>1. N \in Nat \ {0}
  BY RelayAssumption
<1>2. /\ p \in Int /\ q \in Int
      /\ f = N * p + (f % N) /\ g = N * q + (g % N)
  BY <1>1
<1>3. f % N = g % N
  BY DEF Slot
<1> HIDE DEF p, q
<1>4. g - f = N * (q - p)
  BY <1>1, <1>2, <1>3
<1>5. q - p >= 1
  BY <1>1, <1>2, <1>4
<1>6. N * (q - p) >= N
  BY <1>1, <1>2, <1>5
<1> QED
  BY <1>1, <1>2, <1>4, <1>6

(* A part of the next frame is put in its slot.                            *)
LEMMA PutKept ==
  ASSUME NEW cells, NEW new, NEW w \in Nat, Kept(cells, w),
         cells \in [Slots -> Nat], new = [cells EXCEPT ![Slot(w + 1)] = w + 1]
  PROVE  Kept(new, w + 1)
<1>1. \A f \in 1..(w + 1) : Slot(f) \in Slots
  BY SlotType
<1>2. ASSUME NEW i \in Slots
      PROVE  new[i] = 0 \/ (Slot(new[i]) = i /\ new[i] <= w + 1)
  BY DEF Kept
<1>3. ASSUME NEW f \in 1..(w + 1)
      PROVE  f <= new[Slot(f)]
  <2>1. CASE Slot(f) = Slot(w + 1)
    BY <1>1, <2>1
  <2>2. CASE Slot(f) # Slot(w + 1)
    <3>1. f \in 1..w
      BY <2>2
    <3> QED
      BY <1>1, <2>2, <3>1 DEF Kept
  <2> QED
    BY <2>1, <2>2
<1> QED
  BY <1>2, <1>3 DEF Kept

(* What is found where a frame was put is that frame, or one of its slot   *)
(* a whole ring on.                                                        *)
LEMMA FoundInSlot ==
  ASSUME NEW cells \in [Slots -> Nat], NEW w \in Nat, Kept(cells, w),
         NEW f \in 1..w
  PROVE  LET g == cells[Slot(f)]
         IN  /\ g \in Nat /\ g # 0 /\ f <= g /\ g <= w /\ Slot(g) = Slot(f)
             /\ g = f \/ w >= f + N
<1> DEFINE g == cells[Slot(f)]
<1>1. Slot(f) \in Slots
  BY SlotType
<1>2. g \in Nat /\ f <= g
  BY <1>1 DEF Kept
<1>3. g # 0 /\ Slot(g) = Slot(f) /\ g <= w
  BY <1>1, <1>2 DEF Kept
<1>4. g = f \/ g >= f + N
  BY <1>2, <1>3, SameSlot
<1> HIDE DEF g
<1>5. /\ g \in Nat /\ g # 0 /\ f <= g /\ g <= w /\ Slot(g) = Slot(f)
      /\ g = f \/ w >= f + N
  BY <1>2, <1>3, <1>4, RelayAssumption
<1> QED
  BY <1>5 DEF g

(* The ring's parts as the lemmas above have them.                         *)
LEMMA Cells ==
  ASSUME TypeOK
  PROVE  /\ LeftCells \in [Slots -> Nat] /\ RightCells \in [Slots -> Nat]
         /\ MetaCells \in [Slots -> Nat]
         /\ Lefts \in Nat /\ Rights \in Nat /\ Metas \in Nat
         /\ Begun \in Nat /\ published \in Nat
         /\ published <= Lefts /\ published <= Rights /\ published <= Metas
         /\ Lefts <= Begun /\ Rights <= Begun /\ Metas <= Begun
         /\ Begun <= published + 1
<1>1. Frames \subseteq Nat
  BY RelayAssumption DEF Frames
<1>2. published \in Nat
  BY <1>1 DEF TypeOK
<1>3. /\ LeftCells \in [Slots -> Nat] /\ RightCells \in [Slots -> Nat]
      /\ MetaCells \in [Slots -> Nat]
  BY <1>1 DEF TypeOK, LeftCells, RightCells, MetaCells
<1> QED
  BY <1>2, <1>3 DEF Lefts, Rights, Metas, Filled, Begun

LEMMA Numbers ==
  ASSUME TypeOK
  PROVE  /\ published \in Nat /\ want \in Nat /\ time \in Nat /\ shown \in Nat
         /\ before.published \in Nat /\ before.want \in Nat
         /\ N \in Nat /\ N > 1
  BY RelayAssumption DEF TypeOK, Frames

-----------------------------------------------------------------------------
(* The initial states, and each action.                                    *)

LEMMA InitInductive == Init => InductiveInv
<1> SUFFICES ASSUME Init PROVE InductiveInv
  OBVIOUS
<1>1. 0 \in Frames /\ 0 \in Slots
  BY RelayAssumption DEF Frames, Slots
<1>2. TypeOK
  BY <1>1 DEF Init, TypeOK, NoPicture, Objects
<1>3. \A cells : (\A i \in Slots : cells[i] = 0) => Kept(cells, 0)
  BY DEF Kept
<1>4. RingKept
  <2>1. Lefts = 0 /\ Rights = 0 /\ Metas = 0 /\ camera = "idle"
    BY DEF Init, Lefts, Rights, Metas, Filled
  <2>2. \A i \in Slots : LeftCells[i] = 0 /\ RightCells[i] = 0 /\ MetaCells[i] = 0
    BY DEF Init, LeftCells, RightCells, MetaCells
  <2> QED
    BY <1>3, <2>1, <2>2 DEF RingKept
<1>5. Wanted /\ Untorn /\ Times /\ NothingNew /\ OldPicture
  BY SlotType DEF Init, OldPicture, Wanted, Untorn, Times, NothingNew, Copying, InHand, Timed, Answering
<1> QED
  BY <1>2, <1>4, <1>5 DEF InductiveInv

(* A step of the camera only widens what the service has to reckon with.   *)
LEMMA CameraKeeps ==
  ASSUME InductiveInv, Service, TypeOK', RingKept', published <= published',
         Begun <= Begun'
  PROVE  InductiveInv'
<1> USE DEF InductiveInv, Service, copies
<1>1. published \in Nat /\ published' \in Nat /\ Begun \in Nat /\ Begun' \in Nat
  <2>1. published \in Nat /\ Begun \in Nat
    BY Cells
  <2>2. PICK p \in Nat : published' = p
    BY RelayAssumption DEF TypeOK, Frames
  <2>3. Begun' \in {p, p + 1}
    BY <2>2 DEF Begun
  <2> QED
    BY <2>1, <2>2, <2>3
<1>2. Wanted'
  BY <1>1, Numbers DEF Wanted, Copying
<1>3. /\ Copied(picture.left) => Copied(picture.left)'
      /\ Copied(picture.right) => Copied(picture.right)'
      /\ Copied(time) => Copied(time)'
  BY <1>1, Numbers DEF Copied
<1>4. Untorn'
  BY <1>3 DEF Untorn, Timed, Answering
<1>5. Times'
  BY <1>1, Numbers DEF Times, InHand, Copying, Timed, Answering
<1>6. NothingNew'
  <2>1. before.published..published \subseteq before.published..published'
    BY <1>1, Numbers
  <2> QED
    BY <1>1, <2>1, Numbers DEF NothingNew
<1>7. OldPicture'
  BY <1>3 DEF OldPicture, Copying
<1> QED
  BY <1>2, <1>4, <1>5, <1>6, <1>7

LEMMA StepTakeFrame ==
  ASSUME InductiveInv, TakeFrame
  PROVE  InductiveInv'
<1> USE DEF InductiveInv
<1>1. /\ camera = "idle" /\ camera' = "left" /\ published < MaxFrames
      /\ UNCHANGED <<published, ring>> /\ Service
  BY DEF TakeFrame, Camera
<1>2. TypeOK'
  BY <1>1 DEF TypeOK, Service, copies
<1>3. /\ Lefts' = Lefts /\ Rights' = Rights /\ Metas' = Metas
      /\ LeftCells' = LeftCells /\ RightCells' = RightCells /\ MetaCells' = MetaCells
  BY <1>1 DEF Lefts, Rights, Metas, Filled, LeftCells, RightCells, MetaCells
<1>4. RingKept'
  BY <1>1, <1>3 DEF RingKept, Kept
<1>5. published <= published' /\ Begun <= Begun'
  BY <1>1, Cells DEF Begun
<1> QED
  BY <1>1, <1>2, <1>4, <1>5, CameraKeeps

LEMMA StepLockIdsOrPublish ==
  ASSUME InductiveInv, LockIds \/ Publish
  PROVE  InductiveInv'
<1> USE DEF InductiveInv
<1>1. /\ \/ camera = "filled" /\ camera' = "index" /\ published' = published
         \/ camera = "index" /\ camera' = "idle" /\ published' = published + 1
      /\ ring' = ring /\ Service
  BY DEF LockIds, Publish, Camera
<1>2. published < MaxFrames
  BY <1>1 DEF RingKept
<1>3. TypeOK'
  <2>1. published + 1 \in Frames
    BY <1>2, RelayAssumption DEF TypeOK, Frames
  <2> QED
    BY <1>1, <2>1 DEF TypeOK, Service, copies
<1>4. /\ Lefts' = Lefts /\ Rights' = Rights /\ Metas' = Metas
      /\ LeftCells' = LeftCells /\ RightCells' = RightCells /\ MetaCells' = MetaCells
  BY <1>1 DEF Lefts, Rights, Metas, Filled, LeftCells, RightCells, MetaCells
<1>5. RingKept'
  BY <1>1, <1>2, <1>4 DEF RingKept, Kept
<1>6. published <= published' /\ Begun <= Begun'
  BY <1>1, Cells DEF Begun
<1> QED
  BY <1>1, <1>3, <1>5, <1>6, CameraKeeps

(* A part is filled: the other two stay as they are.                       *)
LEMMA StepFill ==
  ASSUME InductiveInv, FillSlot
  PROVE  InductiveInv'
<1> USE DEF InductiveInv
<1> DEFINE i == Slot(published + 1)
<1>1. /\ published' = published /\ Service /\ published < MaxFrames
      /\ i \in Slots /\ published + 1 \in Frames /\ published \in Nat
  <2>1. published' = published /\ Service /\ camera # "idle"
    BY DEF FillSlot, Fill, Camera
  <2>2. published < MaxFrames /\ published \in Nat
    BY <2>1, Numbers DEF RingKept
  <2> QED
    BY <2>1, <2>2, SlotType, RelayAssumption DEF Frames
<1> HIDE DEF i
<1>2. /\ published <= published' /\ Begun <= Begun'
  BY <1>1, Cells DEF FillSlot, Fill, Camera, Begun
<1>3. CASE Fill("left", "right")
  <2>1. /\ camera = "left" /\ camera' = "right"
        /\ ring' = [ring EXCEPT ![i].left = published + 1]
    BY <1>3 DEF Fill, Camera, i
  <2>2. /\ TypeOK'
        /\ LeftCells' = [LeftCells EXCEPT ![i] = published + 1]
        /\ RightCells' = RightCells /\ MetaCells' = MetaCells
    BY <1>1, <2>1 DEF TypeOK, Service, copies, LeftCells, RightCells, MetaCells
  <2>3. /\ Lefts = published /\ Lefts' = published + 1
        /\ Rights' = Rights /\ Metas' = Metas
    BY <1>1, <2>1 DEF Lefts, Rights, Metas, Filled
  <2>4. Kept(LeftCells', published + 1)
    BY <1>1, <2>2, <2>3, Cells, PutKept DEF RingKept, i
  <2>5. RingKept'
    BY <1>1, <2>2, <2>3, <2>4 DEF RingKept, Kept
  <2> QED
    BY <1>1, <1>2, <2>2, <2>5, CameraKeeps
<1>4. CASE Fill("right", "meta")
  <2>1. /\ camera = "right" /\ camera' = "meta"
        /\ ring' = [ring EXCEPT ![i].right = published + 1]
    BY <1>4 DEF Fill, Camera, i
  <2>2. /\ TypeOK'
        /\ RightCells' = [RightCells EXCEPT ![i] = published + 1]
        /\ LeftCells' = LeftCells /\ MetaCells' = MetaCells
    BY <1>1, <2>1 DEF TypeOK, Service, copies, LeftCells, RightCells, MetaCells
  <2>3. /\ Rights = published /\ Rights' = published + 1
        /\ Lefts' = Lefts /\ Metas' = Metas
    BY <1>1, <2>1 DEF Lefts, Rights, Metas, Filled
  <2>4. Kept(RightCells', published + 1)
    BY <1>1, <2>2, <2>3, Cells, PutKept DEF RingKept, i
  <2>5. RingKept'
    BY <1>1, <2>2, <2>3, <2>4 DEF RingKept, Kept
  <2> QED
    BY <1>1, <1>2, <2>2, <2>5, CameraKeeps
<1>5. CASE Fill("meta", "filled")
  <2>1. /\ camera = "meta" /\ camera' = "filled"
        /\ ring' = [ring EXCEPT ![i].meta = published + 1]
    BY <1>5 DEF Fill, Camera, i
  <2>2. /\ TypeOK'
        /\ MetaCells' = [MetaCells EXCEPT ![i] = published + 1]
        /\ LeftCells' = LeftCells /\ RightCells' = RightCells
    BY <1>1, <2>1 DEF TypeOK, Service, copies, LeftCells, RightCells, MetaCells
  <2>3. /\ Metas = published /\ Metas' = published + 1
        /\ Lefts' = Lefts /\ Rights' = Rights
    BY <1>1, <2>1 DEF Lefts, Rights, Metas, Filled
  <2>4. Kept(MetaCells', published + 1)
    BY <1>1, <2>2, <2>3, Cells, PutKept DEF RingKept, i
  <2>5. RingKept'
    BY <1>1, <2>2, <2>3, <2>4 DEF RingKept, Kept
  <2> QED
    BY <1>1, <1>2, <2>2, <2>5, CameraKeeps
<1> QED
  BY <1>3, <1>4, <1>5 DEF FillSlot

(* A step of the service leaves the ring as it is.                         *)
LEMMA RingSeen ==
  ASSUME RingKept, UNCHANGED cameraVars
  PROVE  RingKept' /\ Begun' = Begun
  BY DEF RingKept, Kept, LeftCells, RightCells, MetaCells, Lefts, Rights,
         Metas, Filled, Begun, cameraVars

(* The steps before the first round, and those of a wait.                  *)
LEMMA StepAside ==
  ASSUME InductiveInv,
         MapIds \/ MapFrames \/ IdsBusy \/ Backoff \/ IdsMissing \/ FrameMissing
  PROVE  InductiveInv'
<1> USE DEF InductiveInv, MapIds, MapFrames, IdsBusy, Backoff, IdsMissing,
            FrameMissing, Goto, copies
<1>1. UNCHANGED cameraVars /\ RingKept' /\ Begun' = Begun
  BY RingSeen
<1>2. TypeOK'
  <2>1. published + 1 \in Nat
    BY Numbers
  <2>2. Slot(published + 1) \in Slots
    BY <2>1, SlotType
  <2> QED
    BY <2>2 DEF TypeOK, cameraVars
<1>3. Wanted'
  BY DEF Wanted, Copying, cameraVars
<1>4. Untorn'
  BY DEF Untorn, Timed, Answering
<1>5. Times'
  BY DEF Times, InHand, Copying, Timed, Answering, cameraVars
<1>6. NothingNew'
  BY DEF NothingNew, cameraVars
<1>7. OldPicture'
  BY <1>1 DEF OldPicture, Copied, Copying, cameraVars
<1> QED
  BY <1>1, <1>2, <1>3, <1>4, <1>5, <1>6, <1>7

LEMMA StepBegin ==
  ASSUME InductiveInv, Begin
  PROVE  InductiveInv'
<1> USE DEF InductiveInv, Begin, Goto, copies
<1>1. UNCHANGED cameraVars /\ RingKept' /\ Begun' = Begun
  BY RingSeen
<1>2. TypeOK'
  BY RelayAssumption DEF TypeOK, cameraVars, Frames
<1>3. Wanted'
  BY DEF Wanted, Copying, cameraVars
<1>4. Untorn'
  BY DEF Untorn, Timed, Answering
<1>5. Times'
  BY DEF Times, InHand, Copying, Timed, Answering, cameraVars
<1>6. NothingNew'
  <2>1. before' = [published |-> published, want |-> want] /\ want' = want
        /\ published' = published /\ (pc' = "encode" => Mode # "VERIFY_TIME")
    BY DEF cameraVars
  <2> QED
    BY <2>1, Numbers DEF NothingNew
<1>7. OldPicture'
  BY <1>1 DEF OldPicture, Copied, Copying, cameraVars
<1> QED
  BY <1>1, <1>2, <1>3, <1>4, <1>5, <1>6, <1>7

(* A new index is of another slot than what was wanted, and shown, last;   *)
(* an old one says that published is of the slot wanted.                   *)
LEMMA StepReadIds ==
  ASSUME InductiveInv, ReadIds
  PROVE  InductiveInv'
<1> USE DEF InductiveInv
<1>1. /\ pc = "ids"
      /\ UNCHANGED <<cameraVars, copies, picture, time, shown, before>>
  BY DEF ReadIds, AtIds
<1>2. RingKept' /\ Begun' = Begun /\ published' = published
  BY <1>1, RingSeen DEF cameraVars
<1>3. time = 0 /\ lastIndex = Slot(want) /\ ~InHand /\ want = before.want
  BY <1>1 DEF Wanted, InHand, Copying, Timed, Answering, NothingNew
<1>4. CASE Slot(published) # lastIndex /\ NewIndex(Slot(published))
  <2>1. /\ index' = Slot(published) /\ lastIndex' = Slot(published)
        /\ want' = published /\ pc' = "frame"
    BY <1>4 DEF NewIndex
  <2>2. published > 0
    BY <1>3, <1>4, Numbers DEF Wanted
  <2>3. TypeOK'
    BY <1>1, <2>1, SlotType, Numbers DEF TypeOK, cameraVars, copies
  <2>4. Wanted'
    BY <1>1, <1>2, <1>3, <2>1, <2>2, Numbers DEF Wanted, Copying
  <2>5. Untorn'
    BY <2>1 DEF Untorn, Timed, Answering
  <2>6. Times'
    BY <1>1, <1>2, <1>3, <1>4, <2>1, Numbers DEF Times, InHand, Copying, Timed, Answering, copies
  <2>7. NothingNew' /\ OldPicture'
    BY <1>1, <1>2, <2>1 DEF NothingNew, OldPicture, Copying
  <2> QED
    BY <1>2, <2>3, <2>4, <2>5, <2>6, <2>7
<1>5. CASE /\ Slot(published) = lastIndex /\ pc' = "encode"
           /\ UNCHANGED <<index, lastIndex, want>>
  <2>1. TypeOK'
    BY <1>1, <1>5 DEF TypeOK, cameraVars, copies
  <2>2. Wanted' /\ Untorn' /\ Times'
    BY <1>1, <1>2, <1>3, <1>5
    DEF Wanted, Untorn, Times, InHand, Copying, Timed, Answering, copies
  <2>3. published \in before.published..published
    BY Numbers DEF NothingNew
  <2>4. NothingNew'
    BY <1>1, <1>2, <1>3, <1>5, <2>3 DEF NothingNew
  <2>5. OldPicture'
    BY <1>1, <1>2, <1>5 DEF OldPicture, Copied, Copying, copies
  <2> QED
    BY <1>2, <2>1, <2>2, <2>4, <2>5
<1> QED
  BY <1>4, <1>5 DEF ReadIds

(* A frame is given up only where a copied mutex was locked.               *)
LEMMA StepFrame ==
  ASSUME InductiveInv, FrameBusy \/ LockFrame
  PROVE  InductiveInv'
<1> USE DEF InductiveInv, FrameBusy, LockFrame, Goto, copies
<1>1. UNCHANGED cameraVars /\ RingKept' /\ Begun' = Begun
  BY RingSeen
<1>2. TypeOK'
  BY DEF TypeOK, cameraVars
<1>3. Wanted'
  BY DEF Wanted, Copying, cameraVars
<1>4. Untorn'
  BY DEF Untorn, Wanted, Copying, Timed, Answering
<1>5. Times'
  BY DEF Times, Wanted, InHand, Copying, Timed, Answering, cameraVars
<1>6. NothingNew'
  BY DEF NothingNew, cameraVars
<1>7. OldPicture'
  BY <1>1 DEF OldPicture, Copied, Copying, cameraVars
<1> QED
  BY <1>1, <1>2, <1>3, <1>4, <1>5, <1>6, <1>7

(* What a copy finds, and when it is not the frame wanted.                 *)
LEMMA WhatIsCopied ==
  ASSUME InductiveInv, Copying
  PROVE  /\ Copied(ring[index].left) /\ Copied(ring[index].right)
         /\ Copied(ring[index].meta)
         /\ ring[index].left \in Frames /\ ring[index].right \in Frames
         /\ ring[index].meta \in Frames /\ ring[index].meta # 0
         /\ want <= ring[index].meta /\ ring[index].meta <= published + 1
         /\ Slot(ring[index].meta) = Slot(want)
<1> USE DEF InductiveInv
<1>1. /\ index = Slot(want) /\ want \in Nat /\ want > 0 /\ want <= published
      /\ index \in Slots
  BY Numbers DEF Wanted, TypeOK
<1>2. /\ want \in 1..Lefts /\ want \in 1..Rights /\ want \in 1..Metas
      /\ Kept(LeftCells, Lefts) /\ Kept(RightCells, Rights) /\ Kept(MetaCells, Metas)
  BY <1>1, Cells DEF RingKept
<1>3. /\ ring[index].left = LeftCells[Slot(want)]
      /\ ring[index].right = RightCells[Slot(want)]
      /\ ring[index].meta = MetaCells[Slot(want)]
  BY <1>1 DEF LeftCells, RightCells, MetaCells
<1>4. /\ ring[index].left \in Frames /\ ring[index].right \in Frames
      /\ ring[index].meta \in Frames
  BY <1>1 DEF TypeOK
<1>5. ring[index].left = want \/ Lefts >= want + N
  BY <1>2, <1>3, FoundInSlot, Cells
<1>6. ring[index].right = want \/ Rights >= want + N
  BY <1>2, <1>3, FoundInSlot, Cells
<1>7. /\ ring[index].meta = want \/ Metas >= want + N
      /\ ring[index].meta # 0 /\ Slot(ring[index].meta) = Slot(want)
      /\ want <= ring[index].meta /\ ring[index].meta <= Metas
  BY <1>2, <1>3, FoundInSlot, Cells
<1>8. ring[index].meta <= published + 1
  BY <1>4, <1>7, Cells, RelayAssumption DEF Frames
<1> QED
  BY <1>4, <1>5, <1>6, <1>7, <1>8, Cells, Numbers DEF Copied

LEMMA StepCopyFrame ==
  ASSUME InductiveInv, CopyFrame
  PROVE  InductiveInv'
<1> USE DEF InductiveInv
<1>1. /\ UNCHANGED <<cameraVars, copies, lastIndex, index, time, want, shown, before>>
      /\ \/ /\ pc = "left" /\ pc' = "right"
            /\ picture' = [picture EXCEPT !.left = ring[index].left]
         \/ /\ pc = "right" /\ pc' = "meta"
            /\ picture' = [picture EXCEPT !.right = ring[index].right]
  BY DEF CopyFrame, Copy, Goto
<1>2. RingKept' /\ Begun' = Begun /\ published' = published
  BY <1>1, RingSeen DEF cameraVars
<1>3. Copying
  BY <1>1 DEF Copying
<1>4. TypeOK'
  BY <1>1, <1>3, WhatIsCopied DEF TypeOK, cameraVars, copies
<1>5. Wanted'
  BY <1>1, <1>2 DEF Wanted, Copying
<1>6. Untorn'
  <2>1. \/ /\ pc' = "right" /\ picture'.left = ring[index].left
        \/ /\ pc' = "meta" /\ picture'.left = picture.left
           /\ picture'.right = ring[index].right /\ Copied(picture.left)
    BY <1>1 DEF TypeOK, Untorn
  <2> QED
    BY <1>1, <1>2, <1>3, <2>1, WhatIsCopied DEF Untorn, Copied, Timed, Answering
<1>7. Times'
  BY <1>1, <1>2 DEF Times, InHand, Copying, Timed, Answering, copies
<1>8. NothingNew' /\ OldPicture'
  BY <1>1, <1>2 DEF NothingNew, OldPicture, Copying
<1> QED
  BY <1>2, <1>4, <1>5, <1>6, <1>7, <1>8

LEMMA StepReadMeta ==
  ASSUME InductiveInv, ReadMeta
  PROVE  InductiveInv'
<1> USE DEF InductiveInv
<1>1. /\ UNCHANGED <<cameraVars, copies, lastIndex, index, picture, want, shown, before>>
      /\ pc = "meta" /\ pc' = "encode" /\ time' = ring[index].meta
  BY DEF ReadMeta, Goto
<1>2. RingKept' /\ Begun' = Begun /\ published' = published
  BY <1>1, RingSeen DEF cameraVars
<1>3. Copying
  BY <1>1 DEF Copying
<1>4. /\ time' \in Frames /\ time' # 0 /\ Copied(time') /\ Slot(time') = Slot(want)
      /\ want <= time' /\ time' <= published + 1
  BY <1>1, <1>3, WhatIsCopied DEF Copied
<1>5. TypeOK'
  BY <1>1, <1>4 DEF TypeOK, cameraVars, copies
<1>6. Wanted'
  BY <1>1, <1>2 DEF Wanted, Copying
<1>7. Untorn'
  BY <1>1, <1>2, <1>4 DEF Untorn, Copied, Timed, Answering
<1>8. Times'
  BY <1>1, <1>2, <1>3, <1>4 DEF Times, InHand, Copying, Timed, Answering, copies
<1>9. NothingNew'
  BY <1>1, <1>2, <1>4 DEF NothingNew
<1>10. OldPicture'
  BY <1>1, <1>2, <1>3 DEF OldPicture, Untorn, Copied, Copying, Wanted, copies
<1> QED
  BY <1>2, <1>5, <1>6, <1>7, <1>8, <1>9, <1>10

LEMMA StepEncode ==
  ASSUME InductiveInv, Encode
  PROVE  InductiveInv'
<1> USE DEF InductiveInv
<1>1. /\ UNCHANGED <<cameraVars, copies, lastIndex, index, picture, time, want, before>>
      /\ pc = "encode" /\ pc' = "begin"
      /\ shown' = IF time = 0 THEN shown ELSE time
  BY DEF Encode, Goto
<1>2. RingKept' /\ Begun' = Begun /\ published' = published
  BY <1>1, RingSeen DEF cameraVars
<1>3. TypeOK'
  BY <1>1 DEF TypeOK, cameraVars, copies
<1>4. Wanted' /\ Untorn' /\ NothingNew'
  BY <1>1, <1>2 DEF Wanted, Untorn, NothingNew, Copying, Timed, Answering
<1>5. Times'
  BY <1>1, <1>2 DEF Times, Wanted, InHand, Copying, Timed, Answering, copies
<1>6. OldPicture'
  BY <1>1, <1>2 DEF OldPicture, Copied, Copying, copies
<1> QED
  BY <1>2, <1>3, <1>4, <1>5, <1>6

LEMMA Stutter ==
  ASSUME InductiveInv, UNCHANGED vars
  PROVE  InductiveInv'
<1> USE DEF InductiveInv, vars
<1>1. RingKept' /\ Begun' = Begun
  BY RingSeen
<1>2. TypeOK'
  BY DEF TypeOK, cameraVars, copies
<1>3. Wanted' /\ Untorn' /\ Times' /\ NothingNew' /\ OldPicture'
  BY <1>1 DEF OldPicture, Wanted, Untorn, Times, NothingNew, Copied, InHand, Copying, Timed,
              Answering, cameraVars, copies
<1> QED
  BY <1>1, <1>2, <1>3

LEMMA NextInductive == InductiveInv /\ [Next]_vars => InductiveInv'
<1> SUFFICES ASSUME InductiveInv, Next
             PROVE  InductiveInv'
  BY Stutter
<1>1. ASSUME CameraStep PROVE InductiveInv'
  BY <1>1, StepTakeFrame, StepFill, StepLockIdsOrPublish DEF CameraStep
<1>2. ASSUME Read PROVE InductiveInv'
  BY <1>2, StepAside, StepReadIds, StepFrame, StepCopyFrame, StepReadMeta DEF Read
<1>3. ASSUME MapIds \/ MapFrames \/ Begin \/ Encode PROVE InductiveInv'
  BY <1>3, StepAside, StepBegin, StepEncode
<1> QED
  BY <1>1, <1>2, <1>3 DEF Next, ServiceStep

THEOREM Inductive == Spec => []InductiveInv
  BY InitInductive, NextInductive, PTL DEF Spec

-----------------------------------------------------------------------------
(* What follows for every run of the two processes.                        *)

(* Every variable has its type.                                            *)
THEOREM TypeCorrect == Spec => []TypeOK
<1>1. InductiveInv => TypeOK
  BY DEF InductiveInv
<1> QED
  BY <1>1, Inductive, PTL

(* Without any exclusion between the two processes, the halves of an       *)
(* answered picture and its time are of the frame that was published when  *)
(* readFrame looked, unless the camera has begun the frame a whole ring    *)
(* on: the size of the ring is what protects the reader.                   *)
THEOREM RingProtects == Spec => []TornOnlyWhenLapped
<1>1. InductiveInv => TornOnlyWhenLapped
  BY DEF InductiveInv, Untorn, Copied, TornOnlyWhenLapped
<1> QED
  BY <1>1, Inductive, PTL

(* Successive answers with a time never repeat it, and go back by at most  *)
(* one frame, as long as no copied mutex was locked.                       *)
THEOREM TimesDoAdvance == Spec => []TimesAdvance
<1>1. ASSUME InductiveInv, Timed, shown # 0, busy = {}
      PROVE  time # shown /\ time >= shown - 1
  <2>1. /\ Slot(time) = Slot(want) /\ want <= time
        /\ Slot(shown) # Slot(want) /\ shown <= want + 1
    BY <1>1 DEF InductiveInv, Times, InHand
  <2> QED
    BY <1>1, <2>1, Numbers DEF InductiveInv
<1>2. InductiveInv => TimesAdvance
  BY <1>1 DEF TimesAdvance
<1> QED
  BY <1>2, Inductive, PTL

(* A round before which something was published, and during which the ring *)
(* did not come round, answers with a time; in the mode that reads frames, *)
(* as long as no copied mutex was locked.                                  *)
THEOREM NewFrameDoesShow ==
  ASSUME Mode = "VERIFY_TIME"
  PROVE  Spec => []NewFrameShown
<1>1. ASSUME InductiveInv, Answering, busy = {}, before.want < before.published,
             published < before.want + N, time = 0
      PROVE  FALSE
  <2>1. want = before.want
    BY <1>1 DEF InductiveInv, NothingNew, Answering
  <2>2. PICK f \in before.published..published : Slot(f) = Slot(want)
    BY <1>1 DEF InductiveInv, NothingNew, Answering
  <2>3. f \in Nat /\ want \in Nat /\ want < f /\ f < want + N
    BY <1>1, <2>1, <2>2, Numbers DEF InductiveInv
  <2>4. f >= want + N
    BY <2>2, <2>3, SameSlot
  <2> QED
    BY <2>3, <2>4, RelayAssumption
<1>2. InductiveInv => NewFrameShown
  BY <1>1 DEF NewFrameShown
<1> QED
  BY <1>2, Inductive, PTL

(* Without a time in the mode that reads frames, the published frame was   *)
(* in the slot wanted last, and the picture is the one copied from there,  *)
(* or none: a frame that is passed over is never shown by halves.          *)
THEOREM UntimedAnswersAreOld == Spec => []UntimedIsOld
<1>1. ASSUME InductiveInv, Mode = "VERIFY_TIME", Answering, time = 0, busy = {}
      PROVE  /\ \E f \in before.published..published : Slot(f) = Slot(want)
             /\ want = 0 => picture = NoPicture
             /\ want > 0 => \/ picture.left = want /\ picture.right = want
                            \/ Begun >= want + N
  <2>1. \E f \in before.published..published : Slot(f) = Slot(want)
    BY <1>1 DEF InductiveInv, NothingNew, Answering
  <2>2. IF want = 0 THEN picture = NoPicture
                    ELSE Copied(picture.left) /\ Copied(picture.right)
    BY <1>1 DEF InductiveInv, OldPicture, Answering, Copying
  <2> QED
    BY <2>1, <2>2 DEF Copied
<1>2. InductiveInv => UntimedIsOld
  BY <1>1 DEF UntimedIsOld
<1> QED
  BY <1>2, Inductive, PTL
=============================================================================
