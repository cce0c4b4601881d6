----------------------------- MODULE MCSamProbe -----------------------------
(* Constants for model checking the probes of sam3x.c.                     *)
EXTENDS SamProbe

(* Every ARCH code a case of the two probes names, and one no case names.  *)
MCArchs == ARCH_SAMX7X \cup ARCH_SAM3X \cup ARCH_SAM3NS \cup ARCH_SAM3U \cup ARCH_SAM4S \cup {0}
MCEprocs == {EPROC_CM7, EPROC_CM3, EPROC_CM4}
MCNvpsiz == 0 .. 15
(* 384K, 256K and a code the SRAM switch does not name.                    *)
MCSram == {2, 13, 0}
MCVersions == {0, 1, 2}
(* EXID low bits: each pin code with version-field values 0, 1 and other. *)
MCExid == {0, 1, 2, 3, 6}
(* Narrow sets for the runs that look at one family.                       *)
MCArchsSam3U == ARCH_SAM3U
MCArchsX7x == ARCH_SAMX7X \cup {0}
MCNvpsizSome == {0, 10, 14}
=============================================================================
