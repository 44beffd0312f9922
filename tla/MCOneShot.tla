----------------------------- MODULE MCOneShot -----------------------------
(***************************************************************************)
(* OneShot on files of one frame with up to three blocks, or two frames of *)
(* one block, cut anywhere.                                                *)
(***************************************************************************)
EXTENDS OneShot

Raw(n) == [kind |-> "block", type |-> "Raw", size |-> n]
Rle(n) == [kind |-> "block", type |-> "Rle", size |-> n]
Compressed(n, decoded, corrupt) ==
  [kind |-> "block", type |-> "Compressed", size |-> n, decoded |-> decoded, corrupt |-> corrupt]

GoodBlocks == {Raw(0), Rle(8), Compressed(1, 8, FALSE), Compressed(2, 3, FALSE)}
BadBlocks ==
  {Compressed(1, 3, TRUE), Raw(9), [kind |-> "block", type |-> "Reserved", size |-> 1]}

Bodies ==
  UNION {[1..n -> GoodBlocks] : n \in 1..2}
    \cup [1..3 -> GoodBlocks \ {Raw(0)}]
    \cup {<<b>> : b \in BadBlocks}
    \cup {<<b, g>> : b \in BadBlocks, g \in GoodBlocks}
    \cup {<<g, b>> : b \in BadBlocks, g \in GoodBlocks}

FrameOf(body, size, checksum, right, good) ==
  [kind |-> "frame", size |-> size, checksum |-> checksum, right |-> right,
   good |-> good, blocks |-> body]

BodyLength(body) == FrameLength(FrameOf(body, NoSize, FALSE, TRUE, TRUE))

Skippables == {[kind |-> "skippable", size |-> n] : n \in 0..1}

Frames ==
  {FrameOf(body, NoSize, checksum, TRUE, TRUE) : body \in Bodies, checksum \in BOOLEAN}
    \cup {FrameOf(body, BodyLength(body), checksum, TRUE, TRUE) : body \in Bodies, checksum \in BOOLEAN}

SmallBodies == {<<Rle(8)>>, <<Compressed(1, 8, FALSE), Compressed(2, 3, FALSE)>>}

SmallFrames ==
  Skippables
    \cup {FrameOf(body, NoSize, FALSE, TRUE, FALSE) : body \in SmallBodies}
    \cup UNION {{FrameOf(body, size, FALSE, TRUE, TRUE), FrameOf(body, size, TRUE, TRUE, TRUE),
                 FrameOf(body, size, TRUE, FALSE, TRUE)} :
                  body \in SmallBodies, size \in {NoSize, 8, 30}}

MCFiles == {<<f>> : f \in Frames} \cup {<<f, g>> : f, g \in SmallFrames}
=============================================================================
