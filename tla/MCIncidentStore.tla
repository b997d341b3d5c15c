--------------------------- MODULE MCIncidentStore ---------------------------
(* Bounds for IncidentReads, with digests that never collide.               *)
EXTENDS IncidentReads

MCDigest(key, seq, now) == <<key, now>>

ASSUME NoCollision

=============================================================================
