-------------------------- MODULE MCFirstTouchdown --------------------------
(***************************************************************************)
(* Two users post the same WEBP.                                           *)
(***************************************************************************)
EXTENDS FirstTouchdown

CONSTANTS hash, exact, w1, w2, u1, u2, s1

MCAuthor == [m \in Msgs |-> IF m = w2 THEN u2 ELSE u1]
MCSig    == [m \in Msgs |-> s1]
MCShape  == [m \in Msgs |-> "webp"]

\* In one WEBP one detector finds a confirmed hash and the other a learned one; in its copy
\* one of them finds a learned hash.
MixedHits == [e \in Detectors \X Msgs |->
    IF e = <<exact, w1>> THEN "phash" ELSE IF e = <<exact, w2>> THEN "none" ELSE "learned"]

\* Every detector finds a confirmed hash.
Confirmed == [e \in Detectors \X Msgs |-> "phash"]
=============================================================================
