------------------------------ MODULE SamProbe ------------------------------
(***************************************************************************)
(* Identification and region building of src/target/sam3x.c:              *)
(*   sam_flash_size, sam_sram_size, samx7x_parse_id   (pure decoders)      *)
(*   samx7x_probe, sam3x_probe                        (build the target)   *)
(*   sam3x_flash_base                (which EEFC the GPNVM commands use)   *)
(* A probe runs once, on the single debug thread, against a target whose   *)
(* identification registers do not change, so each probe is one atomic    *)
(* step.  Each calloc it makes may fail.                                   *)
(*                                                                         *)
(* A chip-ID register is a record of the bit fields the code masks out:   *)
(* `cidr & CHIPID_CIDR_xxx_MASK` compared against a shifted constant is    *)
(* the field compared against the unshifted code.  EXID is kept as its low *)
(* five bits, the only ones the code reads.  t->driver is kept as the      *)
(* string literal, or "variant" when it points at the sprintf'd            *)
(* sam_variant_string, whose fields are kept in `storage`.                *)
(***************************************************************************)
EXTENDS Integers, Sequences, TLC

CONSTANTS
  Archs,         \* CHIPID_CIDR.ARCH values to try
  Eprocs,        \* CHIPID_CIDR.EPROC values to try
  NvpsizCodes,   \* CHIPID_CIDR.NVPSIZ values to try
  SramCodes,     \* CHIPID_CIDR.SRAMSIZ values to try
  VersionCodes,  \* CHIPID_CIDR.VERSION values to try
  ExidValues,    \* CHIPID_EXID[4:0] values to try
  AllocMayFail   \* whether calloc may return NULL

ASSUME ProbeConstAssumption ==
  /\ Archs \subseteq 0 .. 255
  /\ Eprocs \subseteq 0 .. 7
  /\ NvpsizCodes \subseteq 0 .. 15
  /\ SramCodes \subseteq 0 .. 15
  /\ VersionCodes \subseteq 0 .. 31
  /\ ExidValues \subseteq 0 .. 31
  /\ AllocMayFail \in BOOLEAN

-----------------------------------------------------------------------------
(* Field codes (sam3x.c lines 83-145).                                     *)
EPROC_CM7 == 0
EPROC_CM3 == 3
EPROC_CM4 == 7
ARCH_SAME70 == 16
ARCH_SAMS70 == 17
ARCH_SAMV71 == 18
ARCH_SAMV70 == 19
ARCH_SAMX7X == {ARCH_SAME70, ARCH_SAMS70, ARCH_SAMV71, ARCH_SAMV70}
ARCH_SAM3X == {132, 133, 134}           \* 0x84 .. 0x86: SAM3XxC/E/G
ARCH_SAM3NS == {147, 148, 149, 136, 137, 138}  \* 0x93 .. 0x95, 0x88 .. 0x8A
ARCH_SAM3U == {128, 129}                \* 0x80, 0x81
ARCH_SAM4S == {136, 137, 138, 153, 154} \* 0x88 .. 0x8A, 0x99, 0x9A

SAMX7X_EEFC_BASE == 1074662400          \* 0x400E0C00
SAM3N_EEFC_BASE == 1074661888           \* 0x400E0A00
SAM3X_EEFC_BASE(x) == 1074661888 + x * 512
SAM3U_EEFC_BASE(x) == 1074661376 + x * 512
SAM4S_EEFC_BASE(x) == 1074661888 + x * 512
(* The t->driver strings sam3x_probe assigns and sam3x_flash_base compares. *)
DRV_SAM3X == "Atmel SAM3X"
DRV_SAM3U == "Atmel SAM3U"
DRV_SAM4S == "Atmel SAM4S"
DRV_SAM3NS == "Atmel SAM3N/S"
(* The generic driver string cortexm_probe leaves in t->driver.           *)
DRV_CORTEXM == "ARM Cortex-M"
FCMD_WP == 1
FCMD_EWP == 3
SAM3_PAGE_SIZE == 256
SAM4_PAGE_SIZE == 512
KB == 1024

(* sam_flash_size (lines 206-229) and sam_sram_size (lines 231-241).       *)
NvpsizBytes == [c \in {1, 2, 3, 5, 7, 9, 10, 12, 14} |->
                 CASE c = 1 -> 8 [] c = 2 -> 16 [] c = 3 -> 32 [] c = 5 -> 64 [] c = 7 -> 128
                   [] c = 9 -> 256 [] c = 10 -> 512 [] c = 12 -> 1024 [] c = 14 -> 2048]
sam_flash_size(cidr) ==
  IF cidr.nvpsiz \in DOMAIN NvpsizBytes THEN NvpsizBytes[cidr.nvpsiz] * KB ELSE 0
sam_sram_size(cidr) ==
  CASE cidr.sramsiz = 13 -> 256 * KB
    [] cidr.sramsiz = 2 -> 384 * KB
    [] OTHER -> 0

(* samx7x_parse_id (lines 253-328).  Fields the switches leave alone keep  *)
(* the zero of `descr = {0}`: "NUL" for a char, 0 for a number.            *)
ProductOf == (ARCH_SAME70 :> <<"E", 70>> @@ ARCH_SAMS70 :> <<"S", 70>>
              @@ ARCH_SAMV71 :> <<"V", 71>> @@ ARCH_SAMV70 :> <<"V", 70>>)
PinsOf == (2 :> "Q" @@ 1 :> "N" @@ 0 :> "J")
DensityOf == (2048 * KB :> 21 @@ 1024 * KB :> 20 @@ 512 * KB :> 19)
samx7x_parse_id(cidr, exid) ==
  LET prod == IF cidr.arch \in DOMAIN ProductOf THEN ProductOf[cidr.arch] ELSE <<"NUL", 0>>
      fsize == sam_flash_size(cidr)
  IN [product_code |-> prod[1],
      product_id   |-> prod[2],
      revision     |-> CASE exid % 32 = 0 -> "A" [] exid % 32 = 1 -> "B" [] OTHER -> "_",
      pins         |-> IF exid % 4 \in DOMAIN PinsOf THEN PinsOf[exid % 4] ELSE "NUL",
      ram_size     |-> sam_sram_size(cidr),
      flash_size   |-> fsize,
      density      |-> IF fsize \in DOMAIN DensityOf THEN DensityOf[fsize] ELSE 0]

(* The flash region records sam3_add_flash (lines 160-181) and             *)
(* sam4_add_flash (lines 183-204) fill in.                                 *)
Sam3Region(eefc, addr, length) ==
  [start |-> addr, length |-> length, blocksize |-> SAM3_PAGE_SIZE,
   buf_size |-> SAM3_PAGE_SIZE, erase |-> "sam3", eefc_base |-> eefc, write_cmd |-> FCMD_EWP]
Sam4RegionPageBlocks(eefc, addr, length) ==   \* mutant: blocksize one page
  [start |-> addr, length |-> length, blocksize |-> SAM4_PAGE_SIZE,
   buf_size |-> SAM4_PAGE_SIZE, erase |-> "sam4", eefc_base |-> eefc, write_cmd |-> FCMD_WP]
Sam4Region(eefc, addr, length) ==
  [start |-> addr, length |-> length, blocksize |-> SAM4_PAGE_SIZE * 8,
   buf_size |-> SAM4_PAGE_SIZE, erase |-> "sam4", eefc_base |-> eefc, write_cmd |-> FCMD_WP]

(* sam3x_flash_base (lines 460-475): strcmp of t->driver.                  *)
sam3x_flash_baseNoSam3U(driver) ==   \* mutant: the SAM3U case is missing
  CASE driver = DRV_SAM3X -> SAM3X_EEFC_BASE(0)
    [] driver = DRV_SAM4S -> SAM4S_EEFC_BASE(0)
    [] driver = DRV_SAM3NS -> SAM3N_EEFC_BASE
    [] OTHER -> SAMX7X_EEFC_BASE
sam3x_flash_base(driver) ==
  CASE driver = DRV_SAM3X -> SAM3X_EEFC_BASE(0)
    [] driver = DRV_SAM3U -> SAM3U_EEFC_BASE(0)
    [] driver = DRV_SAM4S -> SAM4S_EEFC_BASE(0)
    [] driver = DRV_SAM3NS -> SAM3N_EEFC_BASE
    [] OTHER -> SAMX7X_EEFC_BASE

Cidrs == [arch : Archs, eproc : Eprocs, nvpsiz : NvpsizCodes, sramsiz : SramCodes,
          version : VersionCodes, ext : BOOLEAN]
NoCidr == [arch |-> 0, eproc |-> 0, nvpsiz |-> 0, sramsiz |-> 0, version |-> 0, ext |-> FALSE]
AllocResults == IF AllocMayFail THEN BOOLEAN ELSE {TRUE}

VARIABLES
  cidr940,   \* what reads at SAM3X_CHIPID_CIDR (0x400E0940) return
  cidr740,   \* what reads at SAM34NSU_CHIPID_CIDR (0x400E0740) return
  exid,      \* what reads at SAMX_CHIPID_EXID return (bits 4:0)
  flash,     \* t's flash regions, in the order they were added
  ram,       \* t's RAM regions
  cmds,      \* labels of the command lists added with target_add_commands
  driver,    \* t->driver
  storage,   \* t->target_storage: {} (NULL) or {the descriptor printed into it}
  probed,    \* which probe ran: "none", "samx7x" or "sam3x"
  result,    \* what it returned
  firstEefc  \* history: eefc_base of the probe's first add_flash call

probeVars == <<cidr940, cidr740, exid, flash, ram, cmds, driver, storage, probed, result, firstEefc>>

(* target_add_flash: append only (the spec's registration contract).       *)
AddFlash(ok, r) == IF ok THEN <<r>> ELSE <<>>

(* samx7x_probe (lines 330-372).  An unknown ARCH returns false untouched. *)
(* Otherwise RAM, the flash region (its calloc may fail) and the commands  *)
(* are added before the private storage is allocated; if that calloc       *)
(* fails the probe returns false with them in place.                       *)
Samx7xProbe ==
  /\ probed = "none"
  /\ probed' = "samx7x"
  /\ LET c == cidr940
         d == samx7x_parse_id(c, IF c.ext THEN exid ELSE 0)
     IN \/ /\ c.arch \notin ARCH_SAMX7X
           /\ result' = FALSE
           /\ UNCHANGED <<flash, ram, cmds, driver, storage, firstEefc>>
        \/ /\ c.arch \in ARCH_SAMX7X
           /\ ram' = Append(ram, [start |-> 541065216, length |-> d.ram_size])
           /\ \E ok \in AllocResults :
                flash' = flash \o AddFlash(ok, Sam4Region(SAMX7X_EEFC_BASE, 4194304, d.flash_size))
           /\ cmds' = Append(cmds, "SAMX7X")
           /\ firstEefc' = SAMX7X_EEFC_BASE
           /\ \/ /\ storage' = {d}
                 /\ driver' = "variant"
                 /\ result' = TRUE
              \/ /\ AllocMayFail
                 /\ result' = FALSE
                 /\ UNCHANGED <<storage, driver>>
  /\ UNCHANGED <<cidr940, cidr740, exid>>

(* The registrations every matching case of sam3x_probe makes.             *)
Sam3xRegister(drv, ramLen, regs, label, eefc0) ==
  /\ driver' = drv
  /\ ram' = Append(ram, [start |-> 536870912, length |-> ramLen])
  /\ flash' = flash \o regs
  /\ cmds' = Append(cmds, label)
  /\ firstEefc' = eefc0
  /\ result' = TRUE
  /\ UNCHANGED storage

Matches(c, archs, eproc) == c.arch \in archs /\ c.eproc = eproc

(* sam3x_probe lines 376-389: two banks back to back at 0x80000.           *)
Sam3xProbeSAM3X(ok) ==
  LET size == sam_flash_size(cidr940) IN
  /\ Matches(cidr940, ARCH_SAM3X, EPROC_CM3)
  /\ Sam3xRegister(DRV_SAM3X, 2097152,
       AddFlash(ok[1], Sam3Region(SAM3X_EEFC_BASE(0), 524288, size \div 2))
         \o AddFlash(ok[2], Sam3Region(SAM3X_EEFC_BASE(1), 524288 + size \div 2, size \div 2)),
       "SAM3X", SAM3X_EEFC_BASE(0))

(* sam3x_probe lines 391-406: a single bank at 0x400000.                   *)
Sam3xProbeSAM3NS(ok) ==
  LET size == sam_flash_size(cidr740) IN
  /\ ~Matches(cidr940, ARCH_SAM3X, EPROC_CM3)
  /\ Matches(cidr740, ARCH_SAM3NS, EPROC_CM3)
  /\ Sam3xRegister(DRV_SAM3NS, 2097152,
       AddFlash(ok[1], Sam3Region(SAM3N_EEFC_BASE, 4194304, size)),
       "SAM3N/S", SAM3N_EEFC_BASE)

(* sam3x_probe lines 407-419: up to 512K at 0x80000, and a second 512K     *)
(* bank at 0x100000 when the size is at least 512K.                        *)
Sam3xProbeSAM3U(ok) ==
  LET size == sam_flash_size(cidr740) IN
  /\ ~Matches(cidr940, ARCH_SAM3X, EPROC_CM3)
  /\ Matches(cidr740, ARCH_SAM3U, EPROC_CM3)
  /\ Sam3xRegister(DRV_SAM3U, 2097152,
       AddFlash(ok[1], Sam3Region(SAM3U_EEFC_BASE(0), 524288, IF size < 524288 THEN size ELSE 524288))
         \o (IF size >= 524288
               THEN AddFlash(ok[2], Sam3Region(SAM3U_EEFC_BASE(1), 1048576, 524288))
               ELSE <<>>),
       "SAM3U", SAM3U_EEFC_BASE(0))

(* Mutant: the second SAM4S bank starts a whole size after the first.      *)
Sam3xProbeSAM4SGap(ok) ==
  LET size == sam_flash_size(cidr740) IN
  /\ ~Matches(cidr940, ARCH_SAM3X, EPROC_CM3)
  /\ Matches(cidr740, ARCH_SAM4S, EPROC_CM4)
  /\ Sam3xRegister(DRV_SAM4S, 4194304,
       IF size <= 524288
         THEN AddFlash(ok[1], Sam4Region(SAM4S_EEFC_BASE(0), 4194304, size))
         ELSE AddFlash(ok[1], Sam4Region(SAM4S_EEFC_BASE(0), 4194304, size \div 2))
                \o AddFlash(ok[2], Sam4Region(SAM4S_EEFC_BASE(1), 4194304 + size, size \div 2)),
       "SAM4S", SAM4S_EEFC_BASE(0))

(* sam3x_probe lines 420-438: one bank up to 512K, else two even halves.   *)
Sam3xProbeSAM4S(ok) ==
  LET size == sam_flash_size(cidr740) IN
  /\ ~Matches(cidr940, ARCH_SAM3X, EPROC_CM3)
  /\ Matches(cidr740, ARCH_SAM4S, EPROC_CM4)
  /\ Sam3xRegister(DRV_SAM4S, 4194304,
       IF size <= 524288
         THEN AddFlash(ok[1], Sam4Region(SAM4S_EEFC_BASE(0), 4194304, size))
         ELSE AddFlash(ok[1], Sam4Region(SAM4S_EEFC_BASE(0), 4194304, size \div 2))
                \o AddFlash(ok[2], Sam4Region(SAM4S_EEFC_BASE(1), 4194304 + size \div 2, size \div 2)),
       "SAM4S", SAM4S_EEFC_BASE(0))

(* sam3x_probe line 441: no case matched.                                  *)
Sam3xProbeNone ==
  /\ ~Matches(cidr940, ARCH_SAM3X, EPROC_CM3)
  /\ ~Matches(cidr740, ARCH_SAM3NS, EPROC_CM3)
  /\ ~Matches(cidr740, ARCH_SAM3U, EPROC_CM3)
  /\ ~Matches(cidr740, ARCH_SAM4S, EPROC_CM4)
  /\ result' = FALSE
  /\ UNCHANGED <<flash, ram, cmds, driver, storage, firstEefc>>

Sam3xProbe ==
  /\ probed = "none"
  /\ probed' = "sam3x"
  /\ \/ \E ok \in [1 .. 2 -> AllocResults] :
          Sam3xProbeSAM3X(ok) \/ Sam3xProbeSAM3NS(ok) \/ Sam3xProbeSAM3U(ok) \/ Sam3xProbeSAM4S(ok)
     \/ Sam3xProbeNone
  /\ UNCHANGED <<cidr940, cidr740, exid>>

-----------------------------------------------------------------------------
(* The device answers with its CIDR at one of the two addresses; the other *)
(* address reads as zero.  The cortexm dispatcher gives the probe a fresh  *)
(* target whose driver is still the generic one.                           *)
ProbeInit ==
  /\ \/ cidr940 \in Cidrs /\ cidr740 = NoCidr
     \/ cidr940 = NoCidr /\ cidr740 \in Cidrs
  /\ exid \in ExidValues
  /\ flash = <<>>
  /\ ram = <<>>
  /\ cmds = <<>>
  /\ driver = DRV_CORTEXM
  /\ storage = {}
  /\ probed = "none"
  /\ result = FALSE
  /\ firstEefc = 0

(* The probe has returned; the target stays as it left it.                 *)
ProbeDone == probed # "none" /\ UNCHANGED probeVars

ProbeNext == Samx7xProbe \/ Sam3xProbe \/ ProbeDone

ProbeSpec == ProbeInit /\ [][ProbeNext]_probeVars

-----------------------------------------------------------------------------
IdCidr == IF cidr940 = NoCidr THEN cidr740 ELSE cidr940

SumLengths(s) ==
  LET acc[i \in 0 .. Len(s)] == IF i = 0 THEN 0 ELSE acc[i - 1] + s[i].length
  IN  acc[Len(s)]

Regions == [start : Nat, length : Nat, blocksize : {SAM3_PAGE_SIZE, SAM4_PAGE_SIZE * 8},
            buf_size : {SAM3_PAGE_SIZE, SAM4_PAGE_SIZE}, erase : {"sam3", "sam4"},
            eefc_base : Nat, write_cmd : {FCMD_WP, FCMD_EWP}]

ProbeTypeOK ==
  /\ cidr940 \in Cidrs \cup {NoCidr}
  /\ cidr740 \in Cidrs \cup {NoCidr}
  /\ exid \in ExidValues
  /\ flash \in Seq(Regions)
  /\ ram \in Seq([start : Nat, length : Nat])
  /\ cmds \in Seq({"SAMX7X", "SAM3X", "SAM3N/S", "SAM3U", "SAM4S"})
  /\ driver \in {DRV_CORTEXM, DRV_SAM3X, DRV_SAM3NS, DRV_SAM3U, DRV_SAM4S, "variant"}
  /\ probed \in {"none", "samx7x", "sam3x"}
  /\ result \in BOOLEAN
  /\ firstEefc \in Nat
  /\ \A d \in storage : d = samx7x_parse_id(cidr940, IF cidr940.ext THEN exid ELSE 0)

(* The flash regions a probe registers tile the flash: each is a whole     *)
(* number of erase blocks and each starts where the one before it ends     *)
(* (bank base addresses contiguous and strictly ascending).                *)
RegionsTileFlash ==
  \A i \in 1 .. Len(flash) :
    /\ flash[i].length % flash[i].blocksize = 0
    /\ i < Len(flash) => flash[i].start + flash[i].length = flash[i + 1].start

(* The GPNVM console commands, which find their controller by comparing    *)
(* t->driver in sam3x_flash_base, talk to the controller of the first bank *)
(* the probe registered (EEFC0, which holds the GPNVM bits).               *)
GpnvmBaseIsBank0 ==
  result => sam3x_flash_base(driver) = firstEefc

(* The registered flash regions add up to the decoded flash size.          *)
FlashSizeAccounted ==
  result => SumLengths(flash) = sam_flash_size(IdCidr)

(* A probe that reports success has registered a usable (non-empty) flash  *)
(* region: a size code missing from the table means "no usable region".   *)
ProbeTrueMeansUsableRegion ==
  result => \E i \in 1 .. Len(flash) : flash[i].length > 0

(* A probe that reports "not this device" leaves the target as it found    *)
(* it, so the next probe the dispatcher tries starts clean.                *)
FailedProbeLeavesNoState ==
  probed # "none" /\ ~result => flash = <<>> /\ ram = <<>> /\ cmds = <<>>

(* The SAMx7x revision letter comes from the chip's version field (0: A,   *)
(* 1: B), independently of the pin-count field.                            *)
RevisionFromVersion ==
  \A d \in storage :
    d.revision = CASE IdCidr.version = 0 -> "A"
                   [] IdCidr.version = 1 -> "B"
                   [] OTHER -> "_"

=============================================================================
