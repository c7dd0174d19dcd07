------------------------- MODULE MCUploadLifecycle -------------------------
(* Instances of UploadLifecycle: uploads for one object.                    *)
EXTENDS UploadLifecycle, TLC

CONSTANTS u1, u2, o1, p1, p2, t1, t2, w1

MCTarget == [u \in Uploads |-> o1]
\* All of one mode and for one object, the uploads are interchangeable as well.
MCSymmetry == Permutations(Uploads) \cup Permutations(Tasks)
=============================================================================
