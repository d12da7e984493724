---------------------------- MODULE VisualTracker ---------------------------
(***************************************************************************)
(* Head camera and tracker (vision/).  What the camera sees of an object   *)
(* is 0 when it is near the centre of the image, 1 when it is to the side, *)
(* or Unseen when there is no box or one too small.  Its range is left to  *)
(* who needs it.  SORTTracker is a library: it gives each box of a frame a *)
(* track id, -1 as long as it is not sure.                                 *)
(***************************************************************************)
EXTENDS Integers, Sequences, FiniteSets

CONSTANTS
  Classes,    \* object classes, numbers
  TrackIds,   \* ids SORTTracker may give; -1 is one that several boxes may have
  MaxAge,     \* age_frames beyond which a track not seen is dropped (15)
  NoTrack, Unseen

ASSUME TrackerAssumption ==
  /\ Classes \subseteq Int /\ IsFiniteSet(Classes) /\ 0 \in Classes
  /\ TrackIds \subseteq Int /\ MaxAge \in Nat
  /\ NoTrack \notin TrackIds
  /\ NoTrack \notin [class : Classes, sight : 0 .. 1, age : 1 .. MaxAge + 1]

Sights == 0 .. 1

\* HeadCamera.detect_objects: one box for each class that is in view, in the
\* order of the classes (the set of the one such sequence).
DetectObjects(scene) ==
  LET visible == {c \in Classes : scene[c] # Unseen}
      orders  == {f \in [1 .. Cardinality(visible) -> visible] :
                    \A i, j \in DOMAIN f : i < j => f[i] < f[j]}
  IN  {[i \in DOMAIN order |-> [class |-> order[i], sight |-> scene[order[i]]]] : order \in orders}

\* What SORTTracker.update may do with the boxes; it is not called without any.
TrackedFrames(boxes) ==
  {[i \in DOMAIN boxes |-> [box |-> boxes[i], id |-> ids[i]]] :
     ids \in {f \in [DOMAIN boxes -> TrackIds] :
                \A i, j \in DOMAIN boxes : f[i] = f[j] /\ i # j => f[i] = -1}}

\* The frames the camera and the SORT tracker may deliver
CameraFrames ==
  UNION {TrackedFrames(boxes) :
           boxes \in UNION {DetectObjects(scene) : scene \in [Classes -> Sights \union {Unseen}]}}

NewTracker ==
  [tracks |-> [id \in TrackIds |-> NoTrack], target |-> NoTrack, class |-> 0,
   locked |-> FALSE, sight |-> 1, now |-> {}]

Tracks(v) == {id \in TrackIds : v.tracks[id] # NoTrack}

SetTargetClass_KeepsTarget(v, class) == [v EXCEPT !.class = class]

SetTargetClass(v, class) ==
  IF v.class = class THEN v ELSE [v EXCEPT !.class = class, !.target = NoTrack]

\* A track keeps the class of its first box and has the sight of its last.  age
\* counts the boxes it was matched to, and matters up to MaxAge + 1.
Match(tracks, frame) ==
  [id \in TrackIds |->
     LET boxes == {i \in DOMAIN frame : frame[i].id = id}
         first == CHOOSE i \in boxes : \A j \in boxes : i <= j
         last  == CHOOSE i \in boxes : \A j \in boxes : j <= i
         old   == IF tracks[id] # NoTrack THEN tracks[id]
                  ELSE [class |-> frame[first].box.class, sight |-> 1, age |-> 0]
         age   == old.age + Cardinality(boxes)
     IN  IF boxes = {} THEN tracks[id]
         ELSE [old EXCEPT !.sight = frame[last].box.sight,
                          !.age = IF age > MaxAge THEN MaxAge + 1 ELSE age]]

Prune_Keeps(tracks, now) == tracks

\* "Drop after 10 frames of disappearance": at once when old, never when young.
Prune(tracks, now) ==
  [id \in TrackIds |->
     IF tracks[id] # NoTrack /\ id \notin now /\ tracks[id].age > MaxAge
     THEN NoTrack ELSE tracks[id]]

\* The tracks a free lock may go to: the nearest to the centre of those with a
\* real id, or else of the unconfirmed ones.
Choices(v) ==
  LET ofClass    == {id \in Tracks(v) : v.tracks[id].class = v.class}
      confirmed  == {id \in ofClass : id >= 0}
      candidates == IF confirmed # {} THEN confirmed ELSE ofClass
  IN  {id \in candidates : \A o \in candidates : v.tracks[id].sight <= v.tracks[o].sight}

Lock_Jumps(v) ==
  IF Choices(v) = {} THEN {NoTrack} ELSE Choices(v)

\* The target the tracker may hold next.
Lock(v) ==
  IF v.target # NoTrack /\ v.target \in Tracks(v) THEN {v.target}
  ELSE IF Choices(v) # {} THEN Choices(v) ELSE {NoTrack}

\* The tracks matched and pruned, and the target given up if it was dropped.
Refresh(v, frame) ==
  LET now  == {frame[i].id : i \in DOMAIN frame}
      kept == [v EXCEPT !.tracks = Prune(Match(@, frame), now), !.now = now]
  IN  [kept EXCEPT !.target = IF @ \in Tracks(kept) THEN @ ELSE NoTrack]

\* update(): the states it may leave, one for each tie between candidates.
Updates(v, frame) ==
  LET freed == Refresh(v, frame)
  IN  {[freed EXCEPT !.target = target, !.locked = target # NoTrack,
                     !.sight = IF target = NoTrack THEN 1 ELSE freed.tracks[target].sight] :
         target \in Lock(freed)}

Trackers ==
  [tracks : [TrackIds -> [class : Classes, sight : Sights, age : 1 .. MaxAge + 1] \union {NoTrack}],
   target : TrackIds \union {NoTrack}, class : Classes, locked : BOOLEAN,
   sight : Sights, now : SUBSET TrackIds]
=============================================================================
