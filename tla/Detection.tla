----------------------------- MODULE Detection ------------------------------
(***************************************************************************)
(* One inference of the recognition pipeline, from an image to the faces   *)
(* that are embedded: letterboxing, what the network yields above the      *)
(* threshold, greedy suppression as the loop it is, the choice of the most *)
(* prominent face, the check of the size, and the thumbnail's crop.        *)
(*                                                                         *)
(* Coordinates are integers of the image (the code's are floats); the      *)
(* network, the alignment and the embedding are abstracted: a run of the   *)
(* model is any set of scored boxes.  Sorting has no order among equal     *)
(* scores.                                                                 *)
(***************************************************************************)
EXTENDS Integers, FiniteSets

CONSTANTS
    Detections,     \* scored boxes: [x1, y1, x2, y2, score]
    Yields,         \* what the network may yield: sets of detections
    Sizes,          \* images: [w, h]
    Nets,           \* numbers of outputs of the model file
    Side,           \* DETECTION_INPUT_SIZE
    Threshold,      \* DETECTION_THRESHOLD
    NmsNum, NmsDen, \* DETECTION_NMS_THRESHOLD, as a fraction
    MinFace,        \* MIN_FACE_SIZE
    None

ASSUME DetectionAssumption ==
    /\ Detections \subseteq [x1 : Int, y1 : Int, x2 : Int, y2 : Int, score : Int]
    /\ Yields \subseteq SUBSET Detections
    /\ Sizes \subseteq [w : Nat \ {0}, h : Nat \ {0}]
    /\ Nets \subseteq Nat /\ Side \in Nat \ {0}
    /\ Threshold \in Int /\ MinFace \in Nat
    /\ NmsNum \in Nat /\ NmsDen \in Nat \ {0}
    /\ None \notin {"exception", "no_face", "multiple_faces", "low_quality"}

VARIABLES
    mode,       \* process_single, process_largest or process_all
    image,      \* the size of the image
    net,        \* the outputs of the model
    yield,      \* what the network yields for this image
    dets,       \* the detections above the threshold
    order,      \* those the suppression has still to look at
    keep,       \* those it keeps
    faces,      \* the faces that are embedded
    pc,         \* the stage
    error       \* the exception, or None

input == <<mode, image, net, yield>>
vars == <<input, dets, order, keep, faces, pc, error>>

-----------------------------------------------------------------------------
(***************************************************************************)
(* Boxes                                                                   *)
(***************************************************************************)

Larger(a, b) == IF a >= b THEN a ELSE b
Smaller(a, b) == IF a <= b THEN a ELSE b

\* The suppression counts pixels at both ends of a side; width and height of
\* a face, and its area in the choice of a face, do not.
Pixels(a) == (a.x2 - a.x1 + 1) * (a.y2 - a.y1 + 1)

Shared(a, b) ==
    Larger(0, Smaller(a.x2, b.x2) - Larger(a.x1, b.x1) + 1)
    * Larger(0, Smaller(a.y2, b.y2) - Larger(a.y1, b.y1) + 1)

\* The ratio of overlap is above the threshold.  (0 / 0 is above any: NaN is
\* not <= thresh.)
Suppresses(a, b) ==
    LET union == Pixels(a) + Pixels(b) - Shared(a, b)
    IN  union = 0 \/ (union > 0 /\ Shared(a, b) * NmsDen > NmsNum * union)

\* Twice the score of _keep_top: area against the distance from the centre.
Prominence(a) ==
    LET dx == a.x1 + a.x2 - image.w
        dy == a.y1 + a.y2 - image.h
    IN  2 * (a.x2 - a.x1) * (a.y2 - a.y1) - (dx * dx + dy * dy)

BigEnough(a) == Smaller(a.x2 - a.x1, a.y2 - a.y1) >= MinFace

\* Mutant: the shorter side fills the network's input.
ScaledByTheShorter ==
    IF image.h < image.w THEN [w |-> (Side * image.w) \div image.h, h |-> Side]
                         ELSE [w |-> Side, h |-> (Side * image.h) \div image.w]

\* The scaled image, by the longer side; the shorter may come out as zero.
Scaled ==
    IF image.h > image.w THEN [w |-> (Side * image.w) \div image.h, h |-> Side]
                         ELSE [w |-> Side, h |-> (Side * image.h) \div image.w]

\* _init_anchor_config: the levels counted, whether there are landmarks, and
\* how many outputs the three strides then read.
Levels == CASE net \in {6, 9} -> 3 [] net = 15 -> net \div 3 [] OTHER -> net \div 2
Landmarks == net >= 9
OutputsRead == IF Landmarks THEN 2 * Levels + 3 ELSE Levels + 3

\* int(): towards zero.
Truncated(a, b) == IF a >= 0 THEN a \div b ELSE -((-a) \div b)

\* Mutant: only the far sides are cut to the image.
CropUnclamped(a) ==
    [x1 |-> Truncated(10 * a.x1 - 3 * (a.x2 - a.x1), 10),
     y1 |-> Truncated(10 * a.y1 - 3 * (a.y2 - a.y1), 10),
     x2 |-> Smaller(image.w, Truncated(10 * a.x2 + 3 * (a.x2 - a.x1), 10)),
     y2 |-> Smaller(image.h, Truncated(10 * a.y2 + 3 * (a.y2 - a.y1), 10))]

\* make_face_thumbnail: the box with a margin of 0.3, cut to the image.
Crop(a) ==
    [x1 |-> Larger(0, Truncated(10 * a.x1 - 3 * (a.x2 - a.x1), 10)),
     y1 |-> Larger(0, Truncated(10 * a.y1 - 3 * (a.y2 - a.y1), 10)),
     x2 |-> Smaller(image.w, Truncated(10 * a.x2 + 3 * (a.x2 - a.x1), 10)),
     y2 |-> Smaller(image.h, Truncated(10 * a.y2 + 3 * (a.y2 - a.y1), 10))]

NoThumbnail(a) == Crop(a).x2 <= Crop(a).x1 \/ Crop(a).y2 <= Crop(a).y1

-----------------------------------------------------------------------------
(***************************************************************************)
(* The stages                                                              *)
(***************************************************************************)

TypeOK ==
    /\ mode \in {"single", "largest", "all"} /\ image \in Sizes /\ net \in Nets
    /\ yield \in Yields
    /\ dets \subseteq yield
    /\ order \subseteq dets /\ keep \subseteq dets /\ order \cap keep = {}
    /\ faces \subseteq keep
    /\ pc \in {"scale", "forward", "suppress", "choose", "done"}
    /\ error \in {None, "exception", "no_face", "multiple_faces", "low_quality"}
    /\ error # None => pc = "done" /\ faces = {}

Init ==
    /\ mode \in {"single", "largest", "all"} /\ image \in Sizes /\ net \in Nets
    /\ yield \in Yields
    /\ dets = {} /\ order = {} /\ keep = {} /\ faces = {}
    /\ pc = "scale"
    /\ error = None

Raise(e) ==
    /\ pc' = "done"
    /\ error' = e
    /\ UNCHANGED faces

\* cv2.resize refuses a side of no pixels.
Scale ==
    /\ pc = "scale"
    /\ IF Scaled.w = 0 \/ Scaled.h = 0
       THEN Raise("exception")
       ELSE pc' = "forward" /\ UNCHANGED <<faces, error>>
    /\ UNCHANGED <<input, dets, order, keep>>

\* Reading past the model's outputs raises; else the scores above the threshold.
Forward ==
    /\ pc = "forward"
    /\ IF OutputsRead > net
       THEN Raise("exception") /\ UNCHANGED <<dets, order>>
       ELSE /\ dets' = {d \in yield : d.score >= Threshold}
            /\ order' = dets'
            /\ pc' = "suppress"
            /\ UNCHANGED <<faces, error>>
    /\ UNCHANGED <<input, keep>>

\* Mutants: a box suppresses only smaller scores, or the worst box goes first.
SuppressUnequal ==
    /\ pc = "suppress"
    /\ \E d \in order :
          /\ \A e \in order : e.score <= d.score
          /\ keep' = keep \cup {d}
          /\ order' = {e \in order \ {d} : ~Suppresses(d, e) \/ e.score = d.score}
    /\ UNCHANGED <<input, dets, faces, pc, error>>

SuppressWorstFirst ==
    /\ pc = "suppress"
    /\ \E d \in order :
          /\ \A e \in order : e.score >= d.score
          /\ keep' = keep \cup {d}
          /\ order' = {e \in order \ {d} : ~Suppresses(d, e)}
    /\ UNCHANGED <<input, dets, faces, pc, error>>

\* One turn of the loop of _nms: a best one is kept, what it overlaps goes.
Suppress ==
    /\ pc = "suppress"
    /\ \E d \in order :
          /\ \A e \in order : e.score <= d.score
          /\ keep' = keep \cup {d}
          /\ order' = {e \in order \ {d} : ~Suppresses(d, e)}
    /\ UNCHANGED <<input, dets, faces, pc, error>>

Suppressed ==
    /\ pc = "suppress" /\ order = {}
    /\ pc' = "choose"
    /\ UNCHANGED <<input, dets, order, keep, faces, error>>

\* _check_quality of the chosen face.
Judge(d) ==
    IF BigEnough(d)
    THEN faces' = {d} /\ pc' = "done" /\ UNCHANGED error
    ELSE Raise("low_quality")

\* Mutant: one of several faces is enrolled.
ChooseSingleFirst ==
    /\ mode = "single"
    /\ IF keep = {} THEN Raise("no_face") ELSE \E d \in keep : Judge(d)

\* process_single, process_largest (with _keep_top) and process_all.
ChooseSingle ==
    /\ mode = "single"
    /\ \/ keep = {} /\ Raise("no_face")
       \/ Cardinality(keep) > 1 /\ Raise("multiple_faces")
       \/ \E d \in keep : keep = {d} /\ Judge(d)

\* Mutant: any face is taken for the most prominent.
ChooseLargestAny ==
    /\ mode = "largest"
    /\ IF keep = {} THEN Raise("no_face") ELSE \E d \in keep : Judge(d)

ChooseLargest ==
    /\ mode = "largest"
    /\ IF keep = {}
       THEN Raise("no_face")
       ELSE \E d \in keep :
              (\A e \in keep : Prominence(e) <= Prominence(d)) /\ Judge(d)

\* Mutant: all the detections are embedded, not only those kept.
ChooseAllDetections ==
    /\ mode = "all"
    /\ faces' = {d \in dets : BigEnough(d)}
    /\ pc' = "done"
    /\ UNCHANGED error

ChooseAll ==
    /\ mode = "all"
    /\ faces' = {d \in keep : BigEnough(d)}
    /\ pc' = "done"
    /\ UNCHANGED error

Choose ==
    /\ pc = "choose"
    /\ ChooseSingle \/ ChooseLargest \/ ChooseAll
    /\ UNCHANGED <<input, dets, order, keep>>

Next == Scale \/ Forward \/ Suppress \/ Suppressed \/ Choose

Spec == Init /\ [][Next]_vars

-----------------------------------------------------------------------------
(***************************************************************************)
(* Properties                                                              *)
(***************************************************************************)

\* No kept face overlaps another, nor one that is still to be looked at.
KeptAreApart ==
    \A d \in keep : \A e \in keep \cup order : d # e => ~Suppresses(d, e)

\* No face is lost: what was dropped overlaps a kept face that is as good.
DroppedHaveABetter ==
    \A e \in dets \ (keep \cup order) :
        \E d \in keep : Suppresses(d, e) /\ e.score <= d.score

\* An enrolment is unambiguous: the face it stores is as good as any detection
\* of the image, and all the others overlap it.
EnrolmentIsUnambiguous ==
    (mode = "single" /\ faces # {}) =>
        \E d \in faces :
            \A e \in dets \ {d} : Suppresses(d, e) /\ e.score <= d.score

\* A search by an image of several faces takes one that no other face beats,
\* large enough, or none.
SearchTakesTheMostProminent ==
    (mode = "largest" /\ pc = "done" /\ error # "exception") =>
        \/ dets = {} /\ error = "no_face"
        \/ \E d \in keep :
              /\ \A e \in keep : Prominence(e) <= Prominence(d)
              /\ IF BigEnough(d) THEN faces = {d} ELSE error = "low_quality"

\* The thumbnail lies in the image and shows all of the face that does; there
\* is none only for a face outside the image, or one of no width or height,
\* which is large enough only for a minimum of 0.
ThumbnailShowsTheFace ==
    \A d \in faces :
        IF NoThumbnail(d)
        THEN \/ d.x2 <= 0 \/ d.y2 <= 0 \/ d.x1 >= image.w \/ d.y1 >= image.h
             \/ MinFace = 0 /\ (d.x1 = d.x2 \/ d.y1 = d.y2)
        ELSE LET c == Crop(d)
             IN  /\ 0 <= c.x1 /\ c.x1 <= Larger(0, d.x1)
                 /\ 0 <= c.y1 /\ c.y1 <= Larger(0, d.y1)
                 /\ c.x2 <= image.w /\ c.x2 >= Smaller(image.w, d.x2)
                 /\ c.y2 <= image.h /\ c.y2 >= Smaller(image.h, d.y2)

\* An image can be scaled unless one side is over Side times the other.  Boxes
\* are scaled back by the factor of the height alone: the right edge of the
\* scaled image comes back up to 1 / s.h of the width past that of a wide image,
\* and less than one scaled pixel before that of a tall one.
ScalesAlike ==
    LET w == image.w
        h == image.h
        s == Scaled
    IN  /\ (s.w = 0 \/ s.h = 0) <=> (w > Side * h \/ h > Side * w)
        /\ s.w <= Side /\ s.h <= Side
        /\ IF h > w THEN w * s.h - s.w * h \in 0 .. h - 1
                    ELSE s.w * h - w * s.h \in 0 .. w - 1
=============================================================================
