---------------------------- MODULE MCMemoryRing ----------------------------
(* MemoryRing on a small instance: two fragment sizes, one of them over the *)
(* byte cap alone, unreadable and rounded lengths, chunks of up to two      *)
(* fragments, and a stream long enough to evict by duration while a clip    *)
(* waits for its post-roll.                                                 *)
EXTENDS MemoryRing

BothWindows == {<<1, 2>>, <<0, 1>>}
=============================================================================
