------------------------ MODULE MCGarbageCollector -------------------------
(* Instances of GarbageCollector for TLC. *)
EXTENDS GarbageCollector, TLC
=============================================================================
