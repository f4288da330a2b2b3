--------------------------------- MODULE Crop ---------------------------------
(***************************************************************************)
(* The format "C<width>x<height>+<x>+<y>" of autothumb/thumbnail.c: the    *)
(* image is scaled until it just covers a rectangle of width x height, and *)
(* the rectangle is cut out at a place that x and y choose along the side  *)
(* that is too long.  All numbers are unsigned machine words.              *)
(***************************************************************************)
EXTENDS Integers, Sequences, FiniteSets

CONSTANTS
    Sides,                  \* widths and heights of images and of rectangles
    Places,                 \* values of x and y
    SizeModulus             \* 2^64 in the code: a size_t is below

CropAssumption ==
    /\ Sides \subseteq Nat /\ Places \subseteq Nat /\ SizeModulus \in Nat \ {0}
    /\ \A s \in Sides, p \in Places : s * s + s < SizeModulus /\ s * s * p < SizeModulus

VARIABLES
    image,                  \* width and height of the image
    format,                 \* the numbers of the format string
    scaled, offset,         \* width and height after scaling; place of the rectangle
    pc                      \* "begin", "parse", "scale", "done", or "failed"

vars == <<image, format, scaled, offset, pc>>

TypeOK ==
    /\ image \in [width : Sides, height : Sides]
    /\ Len(format) \in 1..5 /\ pc \in {"begin", "parse", "scale", "done", "failed"}
    /\ scaled \in [width : 0..SizeModulus - 1, height : 0..SizeModulus - 1]
    /\ offset \in [x : 0..SizeModulus - 1, y : 0..SizeModulus - 1]

Word(n) == n % SizeModulus
Greatest(a, b) == IF a < b THEN b ELSE a \* mutant: IMAGE_FOR_MAX
Least(a, b) == IF a < b THEN a ELSE b

\* mutant: what is left over is dropped
Truncated(a, b, c) == IF c = 0 THEN 0 ELSE (a * b) \div c

\* a * b / c, rounded up
get_pixels_by_rate(a, b, c) ==
    IF c = 0 THEN 0
    ELSE IF a * b % c # 0 THEN (a * b) \div c + 1 ELSE (a * b) \div c

\* mutant: no place is left for the rectangle itself
ToTheEnd(length, cut, x, y) ==
    IF x = 0 THEN Word(length * Word(100 - y)) \div 100
    ELSE IF y = 0 THEN Least((length * x) \div 100, length)
    ELSE (length * x) \div (x + y)

\* where a rectangle of length "cut" begins on the side of the given length: y
\* per cent from the end, x per cent from the beginning, or in the ratio x : y
Offset(length, cut, x, y) ==
    CASE x = 0 /\ y = 0 -> 0
      [] x = 0 /\ y # 0 -> LET from == Word(length * Word(100 - y)) \div 100
                           IN  from - Least(from, cut)
      [] x # 0 /\ y = 0 -> Least((length * x) \div 100, length - cut)
      [] x # 0 /\ y # 0 -> ((length - cut) * x) \div (x + y)

\* the numbers of a format: the last two may be left out
Parsed(f) == [cw |-> f[1], ch |-> f[2], x |-> IF Len(f) > 2 THEN f[3] ELSE 0,
              y |-> IF Len(f) > 3 THEN f[4] ELSE 0]

Formats == {f \in UNION {[1..n -> Sides \cup Places] : n \in 1..4} :
                 \A i \in DOMAIN f : f[i] \in IF i <= 2 THEN Sides ELSE Places}
           \cup {<<1, 1, 1, 1, 1>>}

Init ==
    /\ image = [width |-> 1, height |-> 1] /\ format = <<1>>
    /\ scaled = [width |-> 0, height |-> 0] /\ offset = [x |-> 0, y |-> 0]
    /\ pc = "begin"

\* any image, any format that a request asks for
Begin ==
    /\ pc = "begin" /\ pc' = "parse"
    /\ image' \in [width : Sides \ {0}, height : Sides \ {0}] /\ format' \in Formats
    /\ UNCHANGED <<scaled, offset>>

\* get_Crop_width_height()
Parse ==
    /\ pc = "parse"
    /\ pc' = IF Len(format) \in 2..4 THEN "scale" ELSE "failed"
    /\ UNCHANGED <<image, format, scaled, offset>>

\* is the image relatively higher than the rectangle?
Higher(i, p) == p.cw * i.height >= p.ch * i.width

\* get_Crop_offset_and_wh(), and the check of the scaled size in covert_image()
Scale ==
    /\ pc = "scale"
    /\ LET p == Parsed(format)
           h == get_pixels_by_rate(p.cw, image.height, image.width)
           w == get_pixels_by_rate(p.ch, image.width, image.height)
       IN  IF Higher(image, p)
           THEN /\ scaled' = [width |-> p.cw, height |-> h]
                /\ offset' = [x |-> 0, y |-> Offset(h, p.ch, p.x, p.y)]
           ELSE /\ scaled' = [width |-> w, height |-> p.ch]
                /\ offset' = [x |-> Offset(w, p.cw, p.x, p.y), y |-> 0]
    /\ pc' = IF scaled'.width = 0 \/ scaled'.height = 0 THEN "failed" ELSE "done"
    /\ UNCHANGED <<image, format>>

Next == Begin \/ Parse \/ Scale

Spec == Init /\ [][Next]_vars

-----------------------------------------------------------------------------
(***************************************************************************)
(* Properties of the image that is handed to MagickCropImage().            *)
(***************************************************************************)
\* The place is one the arithmetic is made for: y is no more than 100 per cent.
Sensible == Parsed(format).x > 0 \/ Parsed(format).y <= 100

(***************************************************************************)
(* The rectangle lies inside of the scaled image, whatever the rounding of *)
(* scaling and of the offset have done.                                    *)
(***************************************************************************)
RectangleInside ==
    LET p == Parsed(format) IN
    offset.x + p.cw <= scaled.width /\ offset.y + p.ch <= scaled.height

CutInside == pc = "done" /\ Sensible => RectangleInside

(***************************************************************************)
(* The scaled image is the smallest that covers the rectangle with the     *)
(* proportions of the original: one side is that of the rectangle, the     *)
(* other the least that is not shorter than the proportions demand.        *)
(***************************************************************************)
JustCovers ==
    pc = "done" =>
        LET p == Parsed(format) IN
        /\ scaled.width >= p.cw /\ scaled.height >= p.ch
        /\ \/ /\ scaled.width = p.cw
              /\ scaled.height * image.width >= p.cw * image.height
              /\ (scaled.height - 1) * image.width < p.cw * image.height
           \/ /\ scaled.height = p.ch
              /\ scaled.width * image.height >= p.ch * image.width
              /\ (scaled.width - 1) * image.height < p.ch * image.width
=============================================================================
