--------------------------- MODULE DetectionProofs --------------------------
(***************************************************************************)
(* Proofs about Detection, for any boxes, images and settings: the greedy  *)
(* suppression leaves faces that are apart and loses none for a worse one, *)
(* an enrolment is unambiguous, a search takes the most prominent face, a  *)
(* thumbnail shows its face and the letterbox keeps the proportions.       *)
(*                                                                         *)
(* The argument: overlapping is symmetric, so what the loop drops for a    *)
(* kept box would have dropped that box as well; and a box that is kept    *)
(* had the best score of all that were still to be looked at.              *)
(***************************************************************************)
EXTENDS Detection, TLAPS

Boxes == [x1 : Int, y1 : Int, x2 : Int, y2 : Int, score : Int]

\* What holds of the stages: nothing is detected before the network has run,
\* everything has been looked at once the suppression is over.
Staged ==
    /\ pc \in {"scale", "forward"} => dets = {} /\ order = {} /\ keep = {}
    /\ pc \in {"choose", "done"} => order = {}
    /\ pc # "done" => faces = {} /\ error = None

\* The outcome of the choice, by its mode.
Chosen ==
    (pc = "done" /\ error # "exception") =>
        /\ mode = "single" /\ faces # {} => \E d \in keep : keep = {d} /\ faces = {d}
        /\ mode = "largest" =>
              \/ keep = {} /\ error = "no_face"
              \/ \E d \in keep :
                    /\ \A e \in keep : Prominence(e) <= Prominence(d)
                    /\ IF BigEnough(d) THEN faces = {d} ELSE error = "low_quality"

\* Only faces that are large enough are embedded.
LargeEnough == \A d \in faces : BigEnough(d)

IInv ==
    TypeOK /\ Staged /\ KeptAreApart /\ DroppedHaveABetter /\ Chosen /\ LargeEnough

-----------------------------------------------------------------------------
(***************************************************************************)
(* Boxes                                                                   *)
(***************************************************************************)

\* The pixels two boxes share do not depend on which comes first.
LEMMA SharedIsSymmetric ==
    ASSUME NEW a \in Boxes, NEW b \in Boxes
    PROVE  Shared(a, b) = Shared(b, a)
<1>1. /\ Smaller(a.x2, b.x2) = Smaller(b.x2, a.x2)
      /\ Larger(a.x1, b.x1) = Larger(b.x1, a.x1)
      /\ Smaller(a.y2, b.y2) = Smaller(b.y2, a.y2)
      /\ Larger(a.y1, b.y1) = Larger(b.y1, a.y1)
  BY DEF Smaller, Larger, Boxes
<1>2. QED  BY <1>1, Zenon DEF Shared

LEMMA SharedIsANumber ==
    ASSUME NEW a \in Boxes, NEW b \in Boxes
    PROVE  Shared(a, b) \in Int
<1>1. \A i \in Int, j \in Int : Larger(i, j) \in Int /\ Smaller(i, j) \in Int
  BY DEF Larger, Smaller
<1>2. /\ 0 \in Int
      /\ a.x1 \in Int /\ a.y1 \in Int /\ a.x2 \in Int /\ a.y2 \in Int
      /\ b.x1 \in Int /\ b.y1 \in Int /\ b.x2 \in Int /\ b.y2 \in Int
  BY DEF Boxes
<1>3. /\ Smaller(a.x2, b.x2) \in Int /\ Larger(a.x1, b.x1) \in Int
      /\ Smaller(a.y2, b.y2) \in Int /\ Larger(a.y1, b.y1) \in Int
  BY <1>1, <1>2, Zenon
<1>4. \A i \in Int, j \in Int : i - j + 1 \in Int /\ i * j \in Int
  OBVIOUS
<1>5. /\ Larger(0, Smaller(a.x2, b.x2) - Larger(a.x1, b.x1) + 1) \in Int
      /\ Larger(0, Smaller(a.y2, b.y2) - Larger(a.y1, b.y1) + 1) \in Int
  BY <1>1, <1>2, <1>3, <1>4, Zenon
<1>6. QED  BY <1>4, <1>5, Zenon DEF Shared

\* A box drops exactly the boxes that would drop it.
LEMMA SuppressesIsSymmetric ==
    ASSUME NEW a \in Boxes, NEW b \in Boxes
    PROVE  Suppresses(a, b) <=> Suppresses(b, a)
<1>1. Pixels(a) \in Int /\ Pixels(b) \in Int
  BY DEF Pixels, Boxes
<1>2. Shared(a, b) \in Int /\ Shared(a, b) = Shared(b, a)
  BY SharedIsSymmetric, SharedIsANumber
<1>3. Pixels(a) + Pixels(b) - Shared(a, b) = Pixels(b) + Pixels(a) - Shared(b, a)
  BY <1>1, <1>2
<1>4. QED  BY <1>2, <1>3, Zenon DEF Suppresses

\* A detection is a box.
LEMMA DetectionsAreBoxes ==
    ASSUME TypeOK
    PROVE  dets \subseteq Boxes
BY DetectionAssumption DEF TypeOK, Boxes

-----------------------------------------------------------------------------
(***************************************************************************)
(* The invariant                                                           *)
(***************************************************************************)

LEMMA InitInv == Init => IInv
BY DEF Init, IInv, TypeOK, Staged, KeptAreApart, DroppedHaveABetter, Chosen,
       LargeEnough

\* The loop keeps the best box and drops what it overlaps.
LEMMA SuppressInv ==
    ASSUME IInv, Suppress
    PROVE  IInv'
<1>1. PICK d \in order :
          /\ \A e \in order : e.score <= d.score
          /\ keep' = keep \cup {d}
          /\ order' = {e \in order \ {d} : ~Suppresses(d, e)}
  BY DEF Suppress
<1>2. /\ pc = "suppress" /\ pc' = pc
      /\ UNCHANGED <<input, dets, faces, error>>
  BY DEF Suppress
<1>3. TypeOK /\ KeptAreApart /\ DroppedHaveABetter /\ faces = {} /\ error = None
  BY <1>2 DEF IInv, Staged
<1>4. d \in dets /\ order \subseteq dets /\ keep \subseteq dets /\ dets \subseteq Boxes
  BY <1>1, <1>3, DetectionsAreBoxes DEF TypeOK
<1>5. TypeOK'
  BY <1>1, <1>2, <1>3, <1>4 DEF TypeOK, input
<1>6. KeptAreApart'
  <2>1. SUFFICES ASSUME NEW k \in keep', NEW e \in keep' \cup order', k # e
                 PROVE  ~Suppresses(k, e)
    BY DEF KeptAreApart
  <2>2. CASE k = d /\ e \in order'
    BY <2>2, <1>1
  <2>3. CASE k = d /\ e \in keep'
    <3>1. e \in keep
      BY <1>1, <2>1, <2>3
    <3>2. ~Suppresses(e, d)
      BY <3>1, <1>1, <1>3, <2>1, <2>3 DEF KeptAreApart
    <3>3. QED  BY <3>1, <3>2, <2>3, <1>4, SuppressesIsSymmetric
  <2>4. CASE k # d
    <3>1. k \in keep /\ e \in keep \cup order
      BY <1>1, <2>1, <2>4
    <3>2. QED  BY <3>1, <2>1, <1>3 DEF KeptAreApart
  <2>5. QED  BY <2>1, <2>2, <2>3, <2>4
<1>7. DroppedHaveABetter'
  <2>1. SUFFICES ASSUME NEW e \in dets \ (keep' \cup order')
                 PROVE  \E k \in keep' : Suppresses(k, e) /\ e.score <= k.score
    BY <1>2 DEF DroppedHaveABetter
  <2>2. CASE e \in order
    BY <2>1, <2>2, <1>1
  <2>3. CASE e \notin order
    BY <2>1, <2>3, <1>1, <1>3 DEF DroppedHaveABetter
  <2>4. QED  BY <2>2, <2>3
<1>8. Staged' /\ Chosen' /\ LargeEnough'
  BY <1>2, <1>3 DEF Staged, Chosen, LargeEnough
<1>9. QED  BY <1>5, <1>6, <1>7, <1>8 DEF IInv

\* The choice takes its faces from those kept.
LEMMA ChooseInv ==
    ASSUME IInv, Choose
    PROVE  IInv'
<1>1. /\ pc = "choose" /\ order = {} /\ error = None /\ faces = {}
      /\ UNCHANGED <<mode, image, net, yield, dets, order, keep>>
      /\ TypeOK /\ KeptAreApart /\ DroppedHaveABetter
  BY DEF Choose, input, IInv, Staged
<1>2. pc' = "done" /\ faces' \subseteq keep
  BY <1>1 DEF Choose, ChooseSingle, ChooseLargest, ChooseAll, Judge, Raise
<1>3. /\ error' \in {None, "no_face", "multiple_faces", "low_quality"}
      /\ error' # None => faces' = {}
  BY <1>1 DEF Choose, ChooseSingle, ChooseLargest, ChooseAll, Judge, Raise
<1>4. TypeOK'
  BY <1>1, <1>2, <1>3 DEF TypeOK
<1>5. KeptAreApart' /\ DroppedHaveABetter'
  BY <1>1 DEF KeptAreApart, DroppedHaveABetter
<1>6. Staged'
  BY <1>1, <1>2 DEF Staged
<1>7. \A d : Prominence(d)' = Prominence(d) /\ BigEnough(d)' = BigEnough(d)
  BY <1>1 DEF Prominence, BigEnough
<1>8. Chosen'
  <2>1. CASE mode = "single"
    <3>1. ChooseSingle
      BY <2>1 DEF Choose, ChooseLargest, ChooseAll
    <3>2. faces' # {} => \E d \in keep : keep = {d} /\ faces' = {d}
      BY <3>1, <1>1 DEF ChooseSingle, Judge, Raise
    <3>3. QED  BY <3>2, <2>1, <1>1 DEF Chosen
  <2>2. CASE mode = "largest"
    <3>1. ChooseLargest
      BY <2>2 DEF Choose, ChooseSingle, ChooseAll
    <3>2. CASE keep = {}
      BY <3>1, <3>2, <2>2, <1>1 DEF ChooseLargest, Raise, Chosen
    <3>3. CASE keep # {}
      <4>1. PICK d \in keep :
                (\A e \in keep : Prominence(e) <= Prominence(d)) /\ Judge(d)
        BY <3>1, <3>3 DEF ChooseLargest
      <4>2. IF BigEnough(d) THEN faces' = {d} ELSE error' = "low_quality"
        BY <4>1 DEF Judge, Raise
      <4>3. QED  BY <4>1, <4>2, <2>2, <1>1, <1>7 DEF Chosen
    <3>4. QED  BY <3>2, <3>3
  <2>3. CASE mode = "all"
    BY <2>3, <1>1 DEF Chosen
  <2>4. QED  BY <2>1, <2>2, <2>3, <1>1 DEF TypeOK
<1>9. LargeEnough'
  BY <1>1, <1>7 DEF LargeEnough, Choose, ChooseSingle, ChooseLargest, ChooseAll, Judge, Raise
<1>10. QED  BY <1>4, <1>5, <1>6, <1>8, <1>9 DEF IInv

\* Every step preserves the invariant.
LEMMA NextInv == IInv /\ [Next]_vars => IInv'
<1>1. SUFFICES ASSUME IInv, [Next]_vars PROVE IInv'
  OBVIOUS
<1>2. CASE Scale
  BY <1>1, <1>2 DEF Scale, Raise, IInv, input, TypeOK, Staged, KeptAreApart,
                    DroppedHaveABetter, Chosen, LargeEnough
<1>3. CASE Forward
  BY <1>1, <1>3 DEF Forward, Raise, IInv, input, TypeOK, Staged, KeptAreApart,
                    DroppedHaveABetter, Chosen, LargeEnough
<1>4. CASE Suppress
  BY <1>1, <1>4, SuppressInv
<1>5. CASE Suppressed
  BY <1>1, <1>5 DEF Suppressed, IInv, input, TypeOK, Staged, KeptAreApart,
                    DroppedHaveABetter, Chosen, LargeEnough
<1>6. CASE Choose
  BY <1>1, <1>6, ChooseInv
<1>7. CASE UNCHANGED vars
  BY <1>1, <1>7 DEF vars, input, IInv, TypeOK, Staged, KeptAreApart,
                    DroppedHaveABetter, Chosen, LargeEnough, Prominence, BigEnough
<1>8. QED  BY <1>1, <1>2, <1>3, <1>4, <1>5, <1>6, <1>7 DEF Next

\* The invariant holds of every inference.
THEOREM Invariance == Spec => []IInv
BY InitInv, NextInv, PTL DEF Spec

-----------------------------------------------------------------------------
(***************************************************************************)
(* The properties                                                          *)
(***************************************************************************)

\* The stages of an inference keep their types (detect, process_*).
THEOREM TypeCorrect == Spec => []TypeOK
<1>1. IInv => TypeOK
  BY DEF IInv
<1>2. QED  BY <1>1, Invariance, PTL

\* No two of the faces _nms keeps overlap.
THEOREM FacesAreApart == Spec => []KeptAreApart
<1>1. IInv => KeptAreApart
  BY DEF IInv
<1>2. QED  BY <1>1, Invariance, PTL

\* _nms drops a face only for one that is as good and overlaps it.
THEOREM NoFaceIsLost == Spec => []DroppedHaveABetter
<1>1. IInv => DroppedHaveABetter
  BY DEF IInv
<1>2. QED  BY <1>1, Invariance, PTL

\* process_single embeds a face only if all detections are of that face.
THEOREM Unambiguous == Spec => []EnrolmentIsUnambiguous
<1>1. IInv => EnrolmentIsUnambiguous
  <2>1. SUFFICES ASSUME IInv, mode = "single", faces # {}
                 PROVE  \E d \in faces : \A e \in dets \ {d} :
                            Suppresses(d, e) /\ e.score <= d.score
    BY DEF EnrolmentIsUnambiguous
  <2>2. pc = "done" /\ error # "exception" /\ order = {}
    BY <2>1, DetectionAssumption DEF IInv, Staged, TypeOK
  <2>3. PICK d \in keep : keep = {d} /\ faces = {d}
    BY <2>1, <2>2 DEF IInv, Chosen
  <2>4. \A e \in dets \ {d} : Suppresses(d, e) /\ e.score <= d.score
    BY <2>1, <2>2, <2>3 DEF IInv, DroppedHaveABetter
  <2>5. QED  BY <2>3, <2>4
<1>2. QED  BY <1>1, Invariance, PTL

\* process_largest embeds a face that no other kept face beats, or none.
THEOREM MostProminent == Spec => []SearchTakesTheMostProminent
<1>1. IInv => SearchTakesTheMostProminent
  <2>1. SUFFICES ASSUME IInv, mode = "largest", pc = "done", error # "exception"
                 PROVE  SearchTakesTheMostProminent
    BY DEF SearchTakesTheMostProminent
  <2>2. keep = {} => dets = {}
    BY <2>1 DEF IInv, Staged, DroppedHaveABetter
  <2>3. QED  BY <2>1, <2>2 DEF IInv, Chosen, SearchTakesTheMostProminent
<1>2. QED  BY <1>1, Invariance, PTL

-----------------------------------------------------------------------------
(***************************************************************************)
(* The thumbnail and the letterbox                                         *)
(***************************************************************************)

\* int() of a tenth is less than one away from it, on the side of zero.
LEMMA Tenth ==
    ASSUME NEW a \in Int
    PROVE  /\ Truncated(a, 10) \in Int
           /\ a >= 0 => 10 * Truncated(a, 10) <= a /\ a < 10 * Truncated(a, 10) + 10
           /\ a < 0 => a <= 10 * Truncated(a, 10) /\ 10 * Truncated(a, 10) < a + 10
BY DEF Truncated

\* One side of the crop: from l to r in an image of n pixels.
LEMMA CroppedSide ==
    ASSUME NEW l \in Int, NEW r \in Int, NEW n \in Nat \ {0}, l <= r
    PROVE  LET c1 == Larger(0, Truncated(10 * l - 3 * (r - l), 10))
               c2 == Smaller(n, Truncated(10 * r + 3 * (r - l), 10))
           IN  /\ 0 <= c1 /\ c1 <= Larger(0, l)
               /\ c2 <= n /\ c2 >= Smaller(n, r)
               /\ c2 <= c1 => r <= 0 \/ l >= n \/ l = r
<1> DEFINE a == 10 * l - 3 * (r - l)
           b == 10 * r + 3 * (r - l)
<1>1. a \in Int /\ b \in Int
  OBVIOUS
<1>2. PICK u \in Int, v \in Int : u = Truncated(a, 10) /\ v = Truncated(b, 10)
  BY <1>1, Tenth
<1>3. /\ a >= 0 => 10 * u <= a /\ a < 10 * u + 10
      /\ a < 0 => a <= 10 * u /\ 10 * u < a + 10
      /\ b >= 0 => 10 * v <= b /\ b < 10 * v + 10
      /\ b < 0 => b <= 10 * v /\ 10 * v < b + 10
  BY <1>1, <1>2, Tenth
<1>4. /\ 0 <= Larger(0, u) /\ Larger(0, u) <= Larger(0, l)
      /\ Smaller(n, v) <= n /\ Smaller(n, v) >= Smaller(n, r)
      /\ Smaller(n, v) <= Larger(0, u) => r <= 0 \/ l >= n \/ l = r
  BY <1>3 DEF Larger, Smaller
<1>5. QED  BY <1>2, <1>4

\* The thumbnail of a stored face shows it (make_face_thumbnail).
THEOREM ThumbnailIsOfTheFace == Spec => []ThumbnailShowsTheFace
<1>1. IInv => ThumbnailShowsTheFace
  <2>1. SUFFICES ASSUME IInv, NEW d \in faces
                 PROVE  IF NoThumbnail(d)
                        THEN \/ d.x2 <= 0 \/ d.y2 <= 0 \/ d.x1 >= image.w \/ d.y1 >= image.h
                             \/ MinFace = 0 /\ (d.x1 = d.x2 \/ d.y1 = d.y2)
                        ELSE LET c == Crop(d)
                             IN  /\ 0 <= c.x1 /\ c.x1 <= Larger(0, d.x1)
                                 /\ 0 <= c.y1 /\ c.y1 <= Larger(0, d.y1)
                                 /\ c.x2 <= image.w /\ c.x2 >= Smaller(image.w, d.x2)
                                 /\ c.y2 <= image.h /\ c.y2 >= Smaller(image.h, d.y2)
    BY DEF ThumbnailShowsTheFace
  <2>2. d \in Boxes /\ BigEnough(d) /\ image \in Sizes
    <3>1. TypeOK /\ BigEnough(d)
      BY <2>1 DEF IInv, LargeEnough
    <3>2. dets \subseteq Boxes /\ d \in dets
      BY <2>1, <3>1, DetectionsAreBoxes DEF TypeOK
    <3>3. QED  BY <3>1, <3>2 DEF TypeOK
  <2>3. image.w \in Nat \ {0} /\ image.h \in Nat \ {0} /\ MinFace \in Nat
    BY <2>2, DetectionAssumption
  <2>4. d.x1 \in Int /\ d.y1 \in Int /\ d.x2 \in Int /\ d.y2 \in Int
    BY <2>2 DEF Boxes
  <2>5. d.x2 - d.x1 >= MinFace /\ d.y2 - d.y1 >= MinFace
    BY <2>2, <2>3, <2>4 DEF BigEnough, Smaller
  <2>6. d.x1 <= d.x2 /\ d.y1 <= d.y2 /\ (d.x1 = d.x2 \/ d.y1 = d.y2 => MinFace = 0)
    BY <2>3, <2>4, <2>5
  <2>7. /\ 0 <= Crop(d).x1 /\ Crop(d).x1 <= Larger(0, d.x1)
        /\ Crop(d).x2 <= image.w /\ Crop(d).x2 >= Smaller(image.w, d.x2)
        /\ Crop(d).x2 <= Crop(d).x1 => d.x2 <= 0 \/ d.x1 >= image.w \/ d.x1 = d.x2
    BY <2>3, <2>4, <2>6, CroppedSide DEF Crop
  <2>8. /\ 0 <= Crop(d).y1 /\ Crop(d).y1 <= Larger(0, d.y1)
        /\ Crop(d).y2 <= image.h /\ Crop(d).y2 >= Smaller(image.h, d.y2)
        /\ Crop(d).y2 <= Crop(d).y1 => d.y2 <= 0 \/ d.y1 >= image.h \/ d.y1 = d.y2
    BY <2>3, <2>4, <2>6, CroppedSide DEF Crop
  <2>9. QED  BY <2>6, <2>7, <2>8 DEF NoThumbnail
<1>2. QED  BY <1>1, Invariance, PTL

LEMMA Quotient ==
    ASSUME NEW x \in Nat, NEW b \in Nat \ {0}
    PROVE  x \div b \in Nat /\ (x \div b) * b <= x /\ x < (x \div b + 1) * b
OBVIOUS

\* The scaled shorter side a of a longer one b that is scaled to k.
LEMMA ScaledSide ==
    ASSUME NEW k \in Nat \ {0}, NEW a \in Nat \ {0}, NEW b \in Nat \ {0}, a <= b
    PROVE  \E q \in Nat :
               /\ q = (k * a) \div b /\ q <= k /\ k <= k /\ k # 0
               /\ q = 0 <=> b > k * a
               /\ ~(a > k * b)
               /\ a * k - q * b \in 0 .. b - 1
               /\ k * a - b * q \in 0 .. b - 1
<1>1. PICK p \in Nat : p = k * a /\ p = a * k
  OBVIOUS
<1>2. PICK q \in Nat : q = p \div b /\ q * b <= p /\ p < (q + 1) * b
  BY Quotient
<1>3. p <= k * b /\ a <= k * b
  <2>1. k * (b - a) >= 0 /\ k * (b - a) = k * b - k * a
    OBVIOUS
  <2>2. (k - 1) * b >= 0 /\ (k - 1) * b = k * b - b
    OBVIOUS
  <2>3. QED  BY <1>1, <2>1, <2>2
<1>4. q <= k
  <2>1. SUFFICES ASSUME q >= k + 1 PROVE FALSE
    BY <1>2
  <2>2. (q - (k + 1)) * b >= 0 /\ (q - (k + 1)) * b = q * b - (k * b + b)
    BY <1>2, <2>1
  <2>3. QED  BY <1>2, <1>3, <2>2
<1>5. q = 0 <=> b > p
  <2>1. q = 0 => p < b
    BY <1>2
  <2>2. q >= 1 => q * b >= b
    BY <1>2
  <2>3. QED  BY <1>2, <2>1, <2>2
<1>6. p - q * b \in 0 .. b - 1
  <2>1. (q + 1) * b = q * b + b /\ q * b \in Int
    BY <1>2
  <2>2. QED  BY <1>2, <2>1
<1>7. q * b = b * q
  OBVIOUS
<1>8. QED  BY <1>1, <1>2, <1>3, <1>4, <1>5, <1>6, <1>7

\* The letterbox scales any image it accepts (SCRFD.detect).
THEOREM LetterboxScalesAlike == Spec => []ScalesAlike
<1>1. IInv => ScalesAlike
  <2>1. SUFFICES ASSUME IInv PROVE ScalesAlike
    OBVIOUS
  <2>2. image.w \in Nat \ {0} /\ image.h \in Nat \ {0} /\ Side \in Nat \ {0}
    BY <2>1, DetectionAssumption DEF IInv, TypeOK
  <2>3. PICK w \in Nat \ {0}, h \in Nat \ {0} : w = image.w /\ h = image.h
    BY <2>2
  <2>4. CASE h > w
    <3>1. Scaled = [w |-> (Side * w) \div h, h |-> Side]
      BY <2>3, <2>4 DEF Scaled
    <3>2. Scaled.w = (Side * w) \div h /\ Scaled.h = Side
      BY <3>1
    <3>3. w <= h
      BY <2>4
    <3>4. PICK q \in Nat :
              /\ q = (Side * w) \div h /\ q <= Side /\ Side <= Side /\ Side # 0
              /\ q = 0 <=> h > Side * w
              /\ ~(w > Side * h)
              /\ w * Side - q * h \in 0 .. h - 1
      BY <2>2, <3>3, ScaledSide, Zenon
    <3>5. QED  BY <2>3, <2>4, <3>2, <3>4, Zenon DEF ScalesAlike
  <2>5. CASE ~(h > w)
    <3>1. Scaled = [w |-> Side, h |-> (Side * h) \div w]
      BY <2>3, <2>5 DEF Scaled
    <3>2. Scaled.w = Side /\ Scaled.h = (Side * h) \div w
      BY <3>1
    <3>3. h <= w
      BY <2>5
    <3>4. PICK q \in Nat :
              /\ q = (Side * h) \div w /\ q <= Side /\ Side <= Side /\ Side # 0
              /\ q = 0 <=> w > Side * h
              /\ ~(h > Side * w)
              /\ Side * h - w * q \in 0 .. w - 1
      BY <2>2, <3>3, ScaledSide, Zenon
    <3>5. QED  BY <2>3, <2>5, <3>2, <3>4, Zenon DEF ScalesAlike
  <2>6. QED  BY <2>4, <2>5
<1>2. QED  BY <1>1, Invariance, PTL
=============================================================================
