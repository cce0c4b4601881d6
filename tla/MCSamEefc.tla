----------------------------- MODULE MCSamEefc -----------------------------
(* Constants of the SamEefc runs that a .cfg cannot write directly.        *)
EXTENDS SamEefcFlashOps

(* No lock bit set.                                                        *)
MCNoLocks == {}
(* SAM4: two 8-page blocks, the second under a lock bit.                   *)
MCSam4Locked == 8 .. 15
(* SAM3: four one-page blocks, the last one locked.                        *)
MCSam3Locked == {3}
(* gpnvm_set bit arguments: the one GPNVM bit and the first one past it.   *)
MCGpnvmArgs == {0, 1}
(* ... and one that does not fit the uint16_t command argument.            *)
MCGpnvmWideArgs == {1, 65536}
=============================================================================
