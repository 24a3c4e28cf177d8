---------------------------- MODULE MCProjection ----------------------------
(* Instances of Projection for TLC.                                          *)
EXTENDS Projection, TLC

\* Replicas of one deployment are interchangeable.
MCReplicas == Permutations(Workers)
=============================================================================
