--------------------------- MODULE SamProbeProofs ---------------------------
(***************************************************************************)
(* Proofs about the probes of sam3x.c (module SamProbe), for every set of  *)
(* identification codes the constants allow: the GPNVM commands address    *)
(* the first bank's EEFC (GpnvmBaseTheorem), the flash regions a probe     *)
(* registers tile the flash in whole erase blocks (RegionsTileTheorem,     *)
(* through the inductive invariant TileIInv) and every reachable state is  *)
(* well typed (ProbeTypeTheorem).                                          *)
(***************************************************************************)
EXTENDS SamProbe, SequenceTheorems, TLAPS

(* The controller sam3x_flash_base picks for each t->driver string a       *)
(* successful probe can leave (the strcmp chain of lines 460-475).         *)
LEMMA FlashBaseByDriver ==
  /\ sam3x_flash_base(DRV_SAM3X) = SAM3X_EEFC_BASE(0)
  /\ sam3x_flash_base(DRV_SAM3U) = SAM3U_EEFC_BASE(0)
  /\ sam3x_flash_base(DRV_SAM4S) = SAM4S_EEFC_BASE(0)
  /\ sam3x_flash_base(DRV_SAM3NS) = SAM3N_EEFC_BASE
  /\ sam3x_flash_base("variant") = SAMX7X_EEFC_BASE
<1>1. sam3x_flash_base(DRV_SAM3X) = SAM3X_EEFC_BASE(0)
  BY Zenon DEF sam3x_flash_base, DRV_SAM3X, DRV_SAM3U, DRV_SAM4S, DRV_SAM3NS
<1>2. sam3x_flash_base(DRV_SAM3U) = SAM3U_EEFC_BASE(0)
  BY Zenon DEF sam3x_flash_base, DRV_SAM3X, DRV_SAM3U, DRV_SAM4S, DRV_SAM3NS
<1>3. sam3x_flash_base(DRV_SAM4S) = SAM4S_EEFC_BASE(0)
  BY Zenon DEF sam3x_flash_base, DRV_SAM3X, DRV_SAM3U, DRV_SAM4S, DRV_SAM3NS
<1>4. sam3x_flash_base(DRV_SAM3NS) = SAM3N_EEFC_BASE
  BY Zenon DEF sam3x_flash_base, DRV_SAM3X, DRV_SAM3U, DRV_SAM4S, DRV_SAM3NS
<1>5. sam3x_flash_base("variant") = SAMX7X_EEFC_BASE
  BY Zenon DEF sam3x_flash_base, DRV_SAM3X, DRV_SAM3U, DRV_SAM4S, DRV_SAM3NS
<1>. QED  BY <1>1, <1>2, <1>3, <1>4, <1>5

(* Each case of sam3x_probe that returns true sets t->driver to the string *)
(* that sam3x_flash_base maps to the EEFC of the first bank it registered. *)
LEMMA Sam3xStep ==
  ASSUME Sam3xProbe
  PROVE  GpnvmBaseIsBank0'
<1>1. CASE Sam3xProbeNone
  BY <1>1 DEF Sam3xProbeNone, GpnvmBaseIsBank0
<1>2. CASE \E ok \in [1 .. 2 -> AllocResults] :
             Sam3xProbeSAM3X(ok) \/ Sam3xProbeSAM3NS(ok) \/ Sam3xProbeSAM3U(ok) \/ Sam3xProbeSAM4S(ok)
  <2>1. PICK ok \in [1 .. 2 -> AllocResults] :
           Sam3xProbeSAM3X(ok) \/ Sam3xProbeSAM3NS(ok) \/ Sam3xProbeSAM3U(ok) \/ Sam3xProbeSAM4S(ok)
    BY <1>2
  <2>2. CASE Sam3xProbeSAM3X(ok)
    <3>1. driver' = DRV_SAM3X /\ firstEefc' = SAM3X_EEFC_BASE(0)
      BY <2>2 DEF Sam3xProbeSAM3X, Sam3xRegister
    <3>. QED  BY <3>1, FlashBaseByDriver DEF GpnvmBaseIsBank0
  <2>3. CASE Sam3xProbeSAM3NS(ok)
    <3>1. driver' = DRV_SAM3NS /\ firstEefc' = SAM3N_EEFC_BASE
      BY <2>3 DEF Sam3xProbeSAM3NS, Sam3xRegister
    <3>. QED  BY <3>1, FlashBaseByDriver DEF GpnvmBaseIsBank0
  <2>4. CASE Sam3xProbeSAM3U(ok)
    <3>1. driver' = DRV_SAM3U /\ firstEefc' = SAM3U_EEFC_BASE(0)
      BY <2>4 DEF Sam3xProbeSAM3U, Sam3xRegister
    <3>. QED  BY <3>1, FlashBaseByDriver DEF GpnvmBaseIsBank0
  <2>5. CASE Sam3xProbeSAM4S(ok)
    <3>1. driver' = DRV_SAM4S /\ firstEefc' = SAM4S_EEFC_BASE(0)
      BY <2>5 DEF Sam3xProbeSAM4S, Sam3xRegister
    <3>. QED  BY <3>1, FlashBaseByDriver DEF GpnvmBaseIsBank0
  <2>. QED  BY <2>1, <2>2, <2>3, <2>4, <2>5
<1>. QED  BY <1>1, <1>2 DEF Sam3xProbe

(* samx7x_probe returns true only after pointing t->driver at the variant  *)
(* string, which sam3x_flash_base maps (OTHER) to the one SAMx7x EEFC.     *)
LEMMA Samx7xStep ==
  ASSUME Samx7xProbe
  PROVE  GpnvmBaseIsBank0'
<1>. DEFINE c == cidr940
            d == samx7x_parse_id(c, IF c.ext THEN exid ELSE 0)
<1>1. \/ /\ result' = FALSE
      \/ /\ firstEefc' = SAMX7X_EEFC_BASE
         /\ driver' = "variant"
  BY DEF Samx7xProbe
<1>. QED  BY <1>1, FlashBaseByDriver DEF GpnvmBaseIsBank0

(* The GPNVM commands, which find their EEFC through sam3x_flash_base, use *)
(* the controller of the first bank the probe registered, for every ARCH,  *)
(* EPROC and size code: GpnvmBaseIsBank0 is an inductive invariant.        *)
THEOREM GpnvmBaseTheorem == ProbeSpec => []GpnvmBaseIsBank0
<1>1. ProbeInit => GpnvmBaseIsBank0
  BY DEF ProbeInit, GpnvmBaseIsBank0
<1>2. GpnvmBaseIsBank0 /\ [ProbeNext]_probeVars => GpnvmBaseIsBank0'
  <2>. SUFFICES ASSUME GpnvmBaseIsBank0, [ProbeNext]_probeVars PROVE GpnvmBaseIsBank0'
    OBVIOUS
  <2>1. CASE Samx7xProbe  BY <2>1, Samx7xStep
  <2>2. CASE Sam3xProbe   BY <2>2, Sam3xStep
  <2>3. CASE ProbeDone \/ UNCHANGED probeVars
    BY <2>3 DEF ProbeDone, probeVars, GpnvmBaseIsBank0
  <2>. QED  BY <2>1, <2>2, <2>3 DEF ProbeNext
<1>. QED  BY <1>1, <1>2, PTL DEF ProbeSpec
-----------------------------------------------------------------------------
(* The regions of a list each cover whole erase blocks and follow one      *)
(* another without gap or overlap: RegionsTileFlash for any list.          *)
Tiles(s) ==
  \A i \in 1 .. Len(s) :
    /\ s[i].length % s[i].blocksize = 0
    /\ i < Len(s) => s[i].start + s[i].length = s[i + 1].start
(* A region record whose length is a whole number of its erase blocks.    *)
Aligned(r) == r.length % r.blocksize = 0
(* One target_add_flash call that may fail, made on an empty list.        *)
LEMMA TileOne ==
  ASSUME NEW o \in BOOLEAN, NEW r, Aligned(r)
  PROVE  Tiles(<<>> \o AddFlash(o, r))
<1>1. CASE o  BY <1>1 DEF Tiles, AddFlash, Aligned
<1>2. CASE ~o BY <1>2 DEF Tiles, AddFlash
<1>. QED BY <1>1, <1>2
(* Two calls, each of which may fail, for banks that are back to back.     *)
LEMMA TileTwo ==
  ASSUME NEW o1 \in BOOLEAN, NEW o2 \in BOOLEAN, NEW r1, NEW r2, Aligned(r1), Aligned(r2),
         r1.start + r1.length = r2.start
  PROVE  Tiles(<<>> \o (AddFlash(o1, r1) \o AddFlash(o2, r2)))
<1>1. CASE o1 /\ o2  BY <1>1 DEF Tiles, AddFlash, Aligned
<1>2. CASE o1 /\ ~o2  BY <1>2 DEF Tiles, AddFlash, Aligned
<1>3. CASE ~o1 /\ o2  BY <1>3 DEF Tiles, AddFlash, Aligned
<1>4. CASE ~o1 /\ ~o2  BY <1>4 DEF Tiles, AddFlash, Aligned
<1>. QED BY <1>1, <1>2, <1>3, <1>4
(* One call followed by nothing (sam3x_probe's SAM3U case below 512K).     *)
LEMMA TileOneEnd ==
  ASSUME NEW o \in BOOLEAN, NEW r, Aligned(r)
  PROVE  Tiles(<<>> \o (AddFlash(o, r) \o <<>>))
<1>1. CASE o  BY <1>1 DEF Tiles, AddFlash, Aligned
<1>2. CASE ~o BY <1>2 DEF Tiles, AddFlash
<1>. QED BY <1>1, <1>2
(* The NVPSIZ codes sam_flash_size names and the sizes it returns in KB.   *)
LEMMA NvpsizTable ==
  /\ DOMAIN NvpsizBytes = {1, 2, 3, 5, 7, 9, 10, 12, 14}
  /\ \A c \in DOMAIN NvpsizBytes : NvpsizBytes[c] \in {8, 16, 32, 64, 128, 256, 512, 1024, 2048}
BY DEF NvpsizBytes
(* Every size sam_flash_size returns, 0 included, is a multiple of 8K.     *)
LEMMA FlashSizeAligned ==
  ASSUME NEW c
  PROVE  /\ sam_flash_size(c) \in Nat
         /\ sam_flash_size(c) % 8192 = 0
BY NvpsizTable DEF sam_flash_size, KB
(* A multiple of 8K, and its half, are whole SAM3 pages and SAM4 blocks.   *)
LEMMA HalfAligned ==
  ASSUME NEW n \in Nat, n % 8192 = 0
  PROVE  /\ n % 4096 = 0 /\ n % 256 = 0
         /\ (n \div 2) % 4096 = 0 /\ (n \div 2) % 256 = 0
         /\ (n \div 2) + (n \div 2) = n
OBVIOUS
(* RegionsTileFlash is not inductive by itself: a probe appends to the list *)
(* it finds, so the list must be empty while no probe has run.             *)
TileIInv == RegionsTileFlash /\ (probed = "none" => flash = <<>>)
(* What a calloc in the model returns is a truth value.                    *)
LEMMA AllocBool == AllocResults \subseteq BOOLEAN
BY ProbeConstAssumption DEF AllocResults
(* The two calloc results a sam3x_probe case draws are truth values.       *)
LEMMA OkBool ==
  ASSUME NEW ok \in [1 .. 2 -> AllocResults]
  PROVE  ok[1] \in BOOLEAN /\ ok[2] \in BOOLEAN
BY AllocBool
(* Each case of sam3x_probe registers banks that are whole numbers of      *)
(* pages or blocks and sit back to back, whichever callocs fail.           *)
LEMMA Sam3xTiles ==
  ASSUME TileIInv, Sam3xProbe
  PROVE  TileIInv'
<1>0. probed = "none" /\ probed' = "sam3x" /\ flash = <<>>
  BY DEF Sam3xProbe, TileIInv
<1>1. CASE Sam3xProbeNone
  BY <1>0, <1>1 DEF Sam3xProbeNone, TileIInv, RegionsTileFlash
<1>2. CASE \E ok \in [1 .. 2 -> AllocResults] :
             Sam3xProbeSAM3X(ok) \/ Sam3xProbeSAM3NS(ok) \/ Sam3xProbeSAM3U(ok) \/ Sam3xProbeSAM4S(ok)
  <2>1. PICK ok \in [1 .. 2 -> AllocResults] :
           Sam3xProbeSAM3X(ok) \/ Sam3xProbeSAM3NS(ok) \/ Sam3xProbeSAM3U(ok) \/ Sam3xProbeSAM4S(ok)
    BY <1>2
  <2>0. ok[1] \in BOOLEAN /\ ok[2] \in BOOLEAN
    BY <2>1, OkBool
  <2>. SUFFICES Tiles(flash')
    BY <1>0 DEF TileIInv, RegionsTileFlash, Tiles
  <2>2. CASE Sam3xProbeSAM3X(ok)
    <3>. DEFINE size == sam_flash_size(cidr940)
    <3>1. size \in Nat /\ size % 8192 = 0  BY FlashSizeAligned
    <3>2. Tiles(<<>> \o (AddFlash(ok[1], Sam3Region(SAM3X_EEFC_BASE(0), 524288, size \div 2))
             \o AddFlash(ok[2], Sam3Region(SAM3X_EEFC_BASE(1), 524288 + size \div 2, size \div 2))))
      BY <2>0, <3>1, HalfAligned, TileTwo DEF Aligned, Sam3Region, SAM3_PAGE_SIZE
    <3>. QED  BY <1>0, <2>2, <3>2 DEF Sam3xProbeSAM3X, Sam3xRegister
  <2>3. CASE Sam3xProbeSAM3NS(ok)
    <3>. DEFINE size == sam_flash_size(cidr740)
    <3>1. size \in Nat /\ size % 8192 = 0  BY FlashSizeAligned
    <3>2. Tiles(<<>> \o AddFlash(ok[1], Sam3Region(SAM3N_EEFC_BASE, 4194304, size)))
      BY <2>0, <3>1, HalfAligned, TileOne DEF Aligned, Sam3Region, SAM3_PAGE_SIZE
    <3>. QED  BY <1>0, <2>3, <3>2 DEF Sam3xProbeSAM3NS, Sam3xRegister
  <2>4. CASE Sam3xProbeSAM3U(ok)
    <3>. DEFINE size == sam_flash_size(cidr740)
                len0 == IF size < 524288 THEN size ELSE 524288
                r0 == Sam3Region(SAM3U_EEFC_BASE(0), 524288, len0)
                r1 == Sam3Region(SAM3U_EEFC_BASE(1), 1048576, 524288)
    <3>1. size \in Nat /\ size % 8192 = 0  BY FlashSizeAligned
    <3>2. Aligned(r0)  BY <3>1, HalfAligned DEF Aligned, Sam3Region, SAM3_PAGE_SIZE
    <3>3. CASE size >= 524288
      <4>1. Aligned(r1) /\ r0.start + r0.length = r1.start
        BY <3>1, <3>3 DEF Aligned, Sam3Region, SAM3_PAGE_SIZE
      <4>2. Tiles(<<>> \o (AddFlash(ok[1], r0) \o AddFlash(ok[2], r1)))
        BY <2>0, <3>2, <4>1, TileTwo
      <4>. QED  BY <1>0, <2>4, <3>3, <4>2 DEF Sam3xProbeSAM3U, Sam3xRegister
    <3>4. CASE ~(size >= 524288)
      <4>2. Tiles(<<>> \o (AddFlash(ok[1], r0) \o <<>>))
        BY <2>0, <3>2, TileOneEnd
      <4>. QED  BY <1>0, <2>4, <3>4, <4>2 DEF Sam3xProbeSAM3U, Sam3xRegister
    <3>. QED  BY <3>3, <3>4
  <2>5. CASE Sam3xProbeSAM4S(ok)
    <3>. DEFINE size == sam_flash_size(cidr740)
    <3>1. size \in Nat /\ size % 8192 = 0  BY FlashSizeAligned
    <3>2. CASE size <= 524288
      <4>1. Tiles(<<>> \o AddFlash(ok[1], Sam4Region(SAM4S_EEFC_BASE(0), 4194304, size)))
        BY <2>0, <3>1, HalfAligned, TileOne DEF Aligned, Sam4Region, SAM4_PAGE_SIZE
      <4>. QED  BY <1>0, <2>5, <3>2, <4>1 DEF Sam3xProbeSAM4S, Sam3xRegister
    <3>3. CASE ~(size <= 524288)
      <4>1. Tiles(<<>> \o (AddFlash(ok[1], Sam4Region(SAM4S_EEFC_BASE(0), 4194304, size \div 2))
               \o AddFlash(ok[2], Sam4Region(SAM4S_EEFC_BASE(1), 4194304 + size \div 2, size \div 2))))
        BY <2>0, <3>1, HalfAligned, TileTwo DEF Aligned, Sam4Region, SAM4_PAGE_SIZE
      <4>. QED  BY <1>0, <2>5, <3>3, <4>1 DEF Sam3xProbeSAM4S, Sam3xRegister
    <3>. QED  BY <3>2, <3>3
  <2>. QED  BY <2>1, <2>2, <2>3, <2>4, <2>5
<1>. QED  BY <1>1, <1>2 DEF Sam3xProbe
(* samx7x_probe registers a single region of sam_flash_size bytes, a whole  *)
(* number of 4K SAM4 erase blocks.                                         *)
LEMMA Samx7xTiles ==
  ASSUME TileIInv, Samx7xProbe
  PROVE  TileIInv'
<1>. DEFINE c == cidr940
            d == samx7x_parse_id(c, IF c.ext THEN exid ELSE 0)
            r == Sam4Region(SAMX7X_EEFC_BASE, 4194304, d.flash_size)
<1>0. probed = "none" /\ probed' = "samx7x" /\ flash = <<>>
  BY DEF Samx7xProbe, TileIInv
<1>. SUFFICES Tiles(flash')
  BY <1>0 DEF TileIInv, RegionsTileFlash, Tiles
<1>1. CASE UNCHANGED flash
  BY <1>0, <1>1 DEF Tiles
<1>2. CASE \E ok \in AllocResults : flash' = flash \o AddFlash(ok, r)
  <2>1. PICK ok \in AllocResults : flash' = flash \o AddFlash(ok, r)
    BY <1>2
  <2>2. ok \in BOOLEAN  BY <2>1, AllocBool
  <2>3. d.flash_size = sam_flash_size(c)  BY Zenon DEF samx7x_parse_id
  <2>4. sam_flash_size(c) \in Nat /\ sam_flash_size(c) % 8192 = 0  BY FlashSizeAligned
  <2>5. Aligned(r)  BY <2>3, <2>4, HalfAligned DEF Aligned, Sam4Region, SAM4_PAGE_SIZE
  <2>. QED  BY <1>0, <2>1, <2>2, <2>5, TileOne
<1>. QED  BY <1>1, <1>2 DEF Samx7xProbe
(* For every ARCH, EPROC and NVPSIZ code and whichever callocs fail, the    *)
(* flash regions sam3x_probe and samx7x_probe register cover whole erase   *)
(* blocks and start where the one before ends (RegionsTileFlash).          *)
THEOREM RegionsTileTheorem == ProbeSpec => []RegionsTileFlash
<1>1. ProbeInit => TileIInv
  <2>. SUFFICES ASSUME ProbeInit PROVE TileIInv
    OBVIOUS
  <2>1. flash = <<>>  BY DEF ProbeInit
  <2>. QED  BY <2>1 DEF TileIInv, RegionsTileFlash
<1>2. TileIInv /\ [ProbeNext]_probeVars => TileIInv'
  <2>. SUFFICES ASSUME TileIInv, [ProbeNext]_probeVars PROVE TileIInv'
    OBVIOUS
  <2>1. CASE Samx7xProbe  BY <2>1, Samx7xTiles
  <2>2. CASE Sam3xProbe   BY <2>2, Sam3xTiles
  <2>3. CASE ProbeDone \/ UNCHANGED probeVars
    BY <2>3 DEF ProbeDone, probeVars, TileIInv, RegionsTileFlash
  <2>. QED  BY <2>1, <2>2, <2>3 DEF ProbeNext
<1>3. TileIInv => RegionsTileFlash  BY DEF TileIInv
<1>. QED  BY <1>1, <1>2, <1>3, PTL DEF ProbeSpec

-----------------------------------------------------------------------------
(* Type correctness of the target the probes build.                        *)

(* sam_sram_size returns one of its two sizes or 0.                        *)
LEMMA SramSizeNat ==
  ASSUME NEW c
  PROVE  sam_sram_size(c) \in Nat
<1>. DEFINE s256 == 256 * KB
            s384 == 384 * KB
<1>1. CASE c.sramsiz = 13
  <2>0. c.sramsiz # 2  BY <1>1
  <2>1. sam_sram_size(c) = s256  BY <1>1, <2>0, Zenon DEF sam_sram_size
  <2>. QED  BY <2>1 DEF KB
<1>2. CASE c.sramsiz = 2
  <2>0. c.sramsiz # 13  BY <1>2
  <2>1. sam_sram_size(c) = s384  BY <1>2, <2>0, Zenon DEF sam_sram_size
  <2>. QED  BY <2>1 DEF KB
<1>3. CASE c.sramsiz # 13 /\ c.sramsiz # 2
  <2>1. sam_sram_size(c) = 0  BY <1>3, Zenon DEF sam_sram_size
  <2>. QED  BY <2>1
<1>. QED  BY <1>1, <1>2, <1>3
(* sam3_add_flash and sam4_add_flash fill in well-formed region records.  *)
LEMMA RegionsNat ==
  ASSUME NEW e \in Nat, NEW a \in Nat, NEW l \in Nat
  PROVE  Sam3Region(e, a, l) \in Regions /\ Sam4Region(e, a, l) \in Regions
BY DEF Sam3Region, Sam4Region, Regions, SAM3_PAGE_SIZE, SAM4_PAGE_SIZE, FCMD_WP, FCMD_EWP
(* One target_add_flash call that may fail yields a list of regions.      *)
LEMMA AddFlashSeq ==
  ASSUME NEW o \in BOOLEAN, NEW r \in Regions
  PROVE  AddFlash(o, r) \in Seq(Regions)
BY DEF AddFlash
(* So do two calls one after the other.                                   *)
LEMMA AddFlashTwoSeq ==
  ASSUME NEW o1 \in BOOLEAN, NEW o2 \in BOOLEAN, NEW r1 \in Regions, NEW r2 \in Regions
  PROVE  AddFlash(o1, r1) \o AddFlash(o2, r2) \in Seq(Regions)
BY AddFlashSeq, ConcatProperties
(* The EEFC base addresses of every family are addresses.                 *)
LEMMA EefcNat ==
  /\ SAMX7X_EEFC_BASE \in Nat /\ SAM3N_EEFC_BASE \in Nat
  /\ \A x \in 0 .. 1 : SAM3X_EEFC_BASE(x) \in Nat /\ SAM3U_EEFC_BASE(x) \in Nat /\ SAM4S_EEFC_BASE(x) \in Nat
BY DEF SAMX7X_EEFC_BASE, SAM3N_EEFC_BASE, SAM3X_EEFC_BASE, SAM3U_EEFC_BASE, SAM4S_EEFC_BASE
(* samx7x_probe adds well-formed RAM and flash regions and, when its       *)
(* calloc succeeds, stores the descriptor parsed from the chip's CIDR/EXID. *)
LEMMA Samx7xType ==
  ASSUME ProbeTypeOK, Samx7xProbe
  PROVE  ProbeTypeOK'
<1>. DEFINE c == cidr940
            d == samx7x_parse_id(c, IF c.ext THEN exid ELSE 0)
            r == Sam4Region(SAMX7X_EEFC_BASE, 4194304, d.flash_size)
<1>0a. probed' = "samx7x"  BY DEF Samx7xProbe
<1>0b. UNCHANGED <<cidr940, cidr740, exid>>  BY DEF Samx7xProbe
<1>0c. result' = FALSE \/ result' = TRUE  BY DEF Samx7xProbe
<1>0. /\ probed' = "samx7x"
      /\ UNCHANGED <<cidr940, cidr740, exid>>
      /\ result' \in BOOLEAN
  BY <1>0a, <1>0b, <1>0c, Zenon
<1>1. CASE UNCHANGED <<flash, ram, cmds, driver, storage, firstEefc>>
  BY <1>0, <1>1 DEF ProbeTypeOK
<1>2. CASE /\ ram' = Append(ram, [start |-> 541065216, length |-> d.ram_size])
           /\ \E ok \in AllocResults : flash' = flash \o AddFlash(ok, r)
           /\ cmds' = Append(cmds, "SAMX7X")
           /\ firstEefc' = SAMX7X_EEFC_BASE
           /\ \/ storage' = {d} /\ driver' = "variant"
              \/ UNCHANGED <<storage, driver>>
  <2>1. d.ram_size = sam_sram_size(c) /\ d.flash_size = sam_flash_size(c)
    BY Zenon DEF samx7x_parse_id
  <2>2. d.ram_size \in Nat /\ d.flash_size \in Nat
    BY <2>1, SramSizeNat, FlashSizeAligned
  <2>3. r \in Regions  BY <2>2, EefcNat, RegionsNat
  <2>4. flash' \in Seq(Regions)
    <3>1. PICK ok \in AllocResults : flash' = flash \o AddFlash(ok, r)  BY <1>2
    <3>2. AddFlash(ok, r) \in Seq(Regions)  BY <3>1, <2>3, AllocBool, AddFlashSeq
    <3>. QED  BY <3>1, <3>2, ConcatProperties DEF ProbeTypeOK
  <2>5. ram' \in Seq([start : Nat, length : Nat])
    BY <1>2, <2>2, AppendProperties DEF ProbeTypeOK
  <2>6. cmds' \in Seq({"SAMX7X", "SAM3X", "SAM3N/S", "SAM3U", "SAM4S"})
    BY <1>2, AppendProperties DEF ProbeTypeOK
  <2>7. firstEefc' \in Nat  BY <1>2, EefcNat
  <2>8. /\ driver' \in {DRV_CORTEXM, DRV_SAM3X, DRV_SAM3NS, DRV_SAM3U, DRV_SAM4S, "variant"}
        /\ \A x \in storage' : x = samx7x_parse_id(cidr940', IF cidr940'.ext THEN exid' ELSE 0)
    BY <1>0, <1>2 DEF ProbeTypeOK
  <2>. QED  BY <1>0, <2>4, <2>5, <2>6, <2>7, <2>8 DEF ProbeTypeOK
<1>. QED  BY <1>1, <1>2 DEF Samx7xProbe
(* The registrations shared by the cases of sam3x_probe keep the types.   *)
LEMMA RegisterType ==
  ASSUME ProbeTypeOK,
         NEW drv \in {DRV_SAM3X, DRV_SAM3NS, DRV_SAM3U, DRV_SAM4S}, NEW ramLen \in Nat,
         NEW regs \in Seq(Regions), NEW label \in {"SAM3X", "SAM3N/S", "SAM3U", "SAM4S"},
         NEW eefc0 \in Nat,
         Sam3xRegister(drv, ramLen, regs, label, eefc0),
         probed' = "sam3x", UNCHANGED <<cidr940, cidr740, exid>>
  PROVE  ProbeTypeOK'
<1>1. flash' \in Seq(Regions)  BY ConcatProperties DEF Sam3xRegister, ProbeTypeOK
<1>2. ram' \in Seq([start : Nat, length : Nat])  BY AppendProperties DEF Sam3xRegister, ProbeTypeOK
<1>3. cmds' \in Seq({"SAMX7X", "SAM3X", "SAM3N/S", "SAM3U", "SAM4S"})
  BY AppendProperties DEF Sam3xRegister, ProbeTypeOK
<1>. QED  BY <1>1, <1>2, <1>3 DEF Sam3xRegister, ProbeTypeOK
(* Each case of sam3x_probe, and the fall-through, keep ProbeTypeOK.       *)
LEMMA Sam3xType ==
  ASSUME ProbeTypeOK, Sam3xProbe
  PROVE  ProbeTypeOK'
<1>0. probed' = "sam3x" /\ UNCHANGED <<cidr940, cidr740, exid>>
  BY DEF Sam3xProbe
<1>1. CASE Sam3xProbeNone
  <2>1. result' = FALSE /\ UNCHANGED <<flash, ram, cmds, driver, storage, firstEefc>>
    BY <1>1 DEF Sam3xProbeNone
  <2>2. result' \in BOOLEAN  BY <2>1, Zenon
  <2>. QED  BY <1>0, <2>1, <2>2 DEF ProbeTypeOK
<1>2. CASE \E ok \in [1 .. 2 -> AllocResults] :
             Sam3xProbeSAM3X(ok) \/ Sam3xProbeSAM3NS(ok) \/ Sam3xProbeSAM3U(ok) \/ Sam3xProbeSAM4S(ok)
  <2>1. PICK ok \in [1 .. 2 -> AllocResults] :
           Sam3xProbeSAM3X(ok) \/ Sam3xProbeSAM3NS(ok) \/ Sam3xProbeSAM3U(ok) \/ Sam3xProbeSAM4S(ok)
    BY <1>2
  <2>0. ok[1] \in BOOLEAN /\ ok[2] \in BOOLEAN
    BY <2>1, OkBool
  <2>e. EefcNat  BY EefcNat
  <2>2. CASE Sam3xProbeSAM3X(ok)
    <3>. DEFINE size == sam_flash_size(cidr940)
                half == size \div 2
                r0 == Sam3Region(SAM3X_EEFC_BASE(0), 524288, half)
                r1 == Sam3Region(SAM3X_EEFC_BASE(1), 524288 + half, half)
                regs == AddFlash(ok[1], r0) \o AddFlash(ok[2], r1)
    <3>1. half \in Nat  BY FlashSizeAligned
    <3>. HIDE DEF half
    <3>2. r0 \in Regions /\ r1 \in Regions  BY <2>e, <3>1, RegionsNat
    <3>3. regs \in Seq(Regions)  BY <2>0, <3>2, AddFlashTwoSeq
    <3>4. Sam3xRegister(DRV_SAM3X, 2097152, regs, "SAM3X", SAM3X_EEFC_BASE(0))
      BY <2>2 DEF Sam3xProbeSAM3X, half
    <3>5. SAM3X_EEFC_BASE(0) \in Nat  BY <2>e
    <3>. HIDE DEF regs
    <3>. QED  BY <1>0, <3>3, <3>4, <3>5, RegisterType
  <2>3. CASE Sam3xProbeSAM3NS(ok)
    <3>. DEFINE size == sam_flash_size(cidr740)
    <3>1. size \in Nat  BY FlashSizeAligned
    <3>2. AddFlash(ok[1], Sam3Region(SAM3N_EEFC_BASE, 4194304, size)) \in Seq(Regions)
      BY <2>0, <2>e, <3>1, RegionsNat, AddFlashSeq
    <3>. QED  BY <1>0, <2>3, <2>e, <3>2, RegisterType DEF Sam3xProbeSAM3NS
  <2>4. CASE Sam3xProbeSAM3U(ok)
    <3>. DEFINE size == sam_flash_size(cidr740)
                len0 == IF size < 524288 THEN size ELSE 524288
                s0 == AddFlash(ok[1], Sam3Region(SAM3U_EEFC_BASE(0), 524288, len0))
                s1 == IF size >= 524288
                        THEN AddFlash(ok[2], Sam3Region(SAM3U_EEFC_BASE(1), 1048576, 524288))
                        ELSE <<>>
                regs == s0 \o s1
    <3>1. size \in Nat /\ len0 \in Nat  BY FlashSizeAligned
    <3>. HIDE DEF len0
    <3>2. s0 \in Seq(Regions)  BY <2>0, <2>e, <3>1, RegionsNat, AddFlashSeq
    <3>3. s1 \in Seq(Regions)  BY <2>0, <2>e, RegionsNat, AddFlashSeq
    <3>4. regs \in Seq(Regions)  BY <3>2, <3>3, ConcatProperties
    <3>5. Sam3xRegister(DRV_SAM3U, 2097152, regs, "SAM3U", SAM3U_EEFC_BASE(0))
      BY <2>4 DEF Sam3xProbeSAM3U, len0
    <3>6. SAM3U_EEFC_BASE(0) \in Nat  BY <2>e
    <3>. HIDE DEF regs
    <3>. QED  BY <1>0, <3>4, <3>5, <3>6, RegisterType
  <2>5. CASE Sam3xProbeSAM4S(ok)
    <3>. DEFINE size == sam_flash_size(cidr740)
                half == size \div 2
                one == AddFlash(ok[1], Sam4Region(SAM4S_EEFC_BASE(0), 4194304, size))
                r0 == Sam4Region(SAM4S_EEFC_BASE(0), 4194304, half)
                r1 == Sam4Region(SAM4S_EEFC_BASE(1), 4194304 + half, half)
                two == AddFlash(ok[1], r0) \o AddFlash(ok[2], r1)
                regs == IF size <= 524288 THEN one ELSE two
    <3>1. size \in Nat /\ half \in Nat  BY FlashSizeAligned
    <3>. HIDE DEF half
    <3>2. one \in Seq(Regions)  BY <2>0, <2>e, <3>1, RegionsNat, AddFlashSeq
    <3>3. two \in Seq(Regions)
      <4>1. r0 \in Regions /\ r1 \in Regions  BY <2>e, <3>1, RegionsNat
      <4>. HIDE DEF r0, r1
      <4>. QED  BY <2>0, <4>1, AddFlashTwoSeq
    <3>4. regs \in Seq(Regions)  BY <3>2, <3>3
    <3>5. Sam3xRegister(DRV_SAM4S, 4194304, regs, "SAM4S", SAM4S_EEFC_BASE(0))
      BY <2>5 DEF Sam3xProbeSAM4S, half
    <3>6. SAM4S_EEFC_BASE(0) \in Nat  BY <2>e
    <3>. HIDE DEF regs
    <3>. QED  BY <1>0, <3>4, <3>5, <3>6, RegisterType
  <2>. QED  BY <2>1, <2>2, <2>3, <2>4, <2>5
<1>. QED  BY <1>1, <1>2 DEF Sam3xProbe
(* For every set of identification codes, the target the probes build is  *)
(* well formed (ProbeTypeOK): lists of region records, a driver string     *)
(* sam3x_flash_base can compare, and target_storage, when set, holding the *)
(* descriptor samx7x_parse_id makes of the CIDR and EXID the chip reports. *)
THEOREM ProbeTypeTheorem == ProbeSpec => []ProbeTypeOK
<1>1. ProbeInit => ProbeTypeOK
  <2>. SUFFICES ASSUME ProbeInit PROVE ProbeTypeOK
    OBVIOUS
  <2>2. /\ cidr940 \in Cidrs \cup {NoCidr} /\ cidr740 \in Cidrs \cup {NoCidr}
        /\ exid \in ExidValues
    BY DEF ProbeInit
  <2>3. /\ flash = <<>> /\ ram = <<>> /\ cmds = <<>> /\ driver = DRV_CORTEXM
        /\ storage = {} /\ probed = "none" /\ result = FALSE /\ firstEefc = 0
    BY DEF ProbeInit
  <2>4. /\ flash \in Seq(Regions)
        /\ ram \in Seq([start : Nat, length : Nat])
        /\ cmds \in Seq({"SAMX7X", "SAM3X", "SAM3N/S", "SAM3U", "SAM4S"})
    BY <2>3
  <2>5. \A d \in storage : d = samx7x_parse_id(cidr940, IF cidr940.ext THEN exid ELSE 0)
    BY <2>3
  <2>6. driver \in {DRV_CORTEXM, DRV_SAM3X, DRV_SAM3NS, DRV_SAM3U, DRV_SAM4S, "variant"}
    BY <2>3
  <2>7. result \in BOOLEAN  BY <2>3, Zenon
  <2>. QED  BY <2>2, <2>3, <2>4, <2>5, <2>6, <2>7 DEF ProbeTypeOK
<1>2. ProbeTypeOK /\ [ProbeNext]_probeVars => ProbeTypeOK'
  <2>. SUFFICES ASSUME ProbeTypeOK, [ProbeNext]_probeVars PROVE ProbeTypeOK'
    OBVIOUS
  <2>1. CASE Samx7xProbe  BY <2>1, Samx7xType
  <2>2. CASE Sam3xProbe   BY <2>2, Sam3xType
  <2>3. CASE ProbeDone \/ UNCHANGED probeVars
    BY <2>3 DEF ProbeDone, probeVars, ProbeTypeOK
  <2>. QED  BY <2>1, <2>2, <2>3 DEF ProbeNext
<1>. QED  BY <1>1, <1>2, PTL DEF ProbeSpec
=============================================================================
