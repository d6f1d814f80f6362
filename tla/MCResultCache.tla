---------------------------- MODULE MCResultCache ----------------------------
(* ResultCache with two or three steps of one node: an upscaler, with one     *)
(* image; an image editor, with an image and a prompt.                        *)
EXTENDS ResultCache, TLC

CONSTANTS s1, s2, s3

MCTwoSteps == {s1, s2}
MCThreeSteps == {s1, s2, s3}
MCSymmetry == Permutations(Steps)
=============================================================================
