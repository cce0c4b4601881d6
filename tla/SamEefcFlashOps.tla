---------------------------- MODULE SamEefcFlashOps ----------------------------
(***************************************************************************)
(* SamEefc implements FlashOps: the refinement mapping from the driver,    *)
(* the controller and the link to the requests, units and results a       *)
(* caller of sam4_flash_erase, sam3_flash_erase, sam3x_flash_write and the *)
(* GPNVM commands observes.                                                *)
(***************************************************************************)
EXTENDS SamEefc

(* The command of the current sam3x_flash_cmd has taken effect.            *)
CmdTookEffect == pc \in {"CmdPoll", "CmdFinal", "CmdDone"} /\ exec = "ok"

absReq == IF pc = "Idle" THEN [kind |-> "none"] ELSE opIn

(* The units left: for an erase, the blocks from chunk that len still      *)
(* covers, less the current one once its EPA ran; for a write its page    *)
(* until WP / EWP ran; for a set its bit until SGPB / CGPB ran.           *)
absTodo ==
  IF pc = "Idle" THEN {}
  ELSE IF opIn.kind = "erase"
    THEN LET b == chunk \div PagesPerBlock
             n == (elen + BlockSize - 1) \div BlockSize
         IN  IF pc # "EraseLoop" /\ CmdTookEffect THEN b + 1 .. b + n - 1 ELSE b .. b + n - 1
  ELSE IF opIn.kind = "write"
    THEN IF pc # "WriteIssue" /\ CmdTookEffect THEN {} ELSE {chunk}
  ELSE IF opIn.kind = "set" /\ caller = "set" /\ ~CmdTookEffect
    THEN {opIn.bit} \cap GpnvmIdx
  ELSE {}

Abs == INSTANCE FlashOps WITH
         req <- absReq, todo <- absTodo, PagesPerBlock <- PagesPerBlock

(* Every behaviour of the driver with the controller is one of FlashOps:   *)
(* an erase erases its blocks one by one from the lowest, a write programs *)
(* its page, gpnvm_set changes its bit, each returns 0 only after all of   *)
(* it took effect, a failure keeps what was done, gpnvm_get and gpnvm_set  *)
(* show the controller's GPNVM state, and every request completes.         *)
AbsSpec == Abs!Spec

-----------------------------------------------------------------------------
(* Inductive strengthening used to prove the refinement (with CmdInv, on a *)
(* reliable link with sticky error bits, block-aligned erases and command  *)
(* arguments that fit the uint16_t `arg`).                                 *)
Active == pc \in {"CmdPoll", "CmdFinal", "CmdDone"}
EraseBlocksLeft == (elen + BlockSize - 1) \div BlockSize

(* The word the current caller wrote to EEFC_FCR.                          *)
IssuedWord ==
  IF caller = "erase" THEN CmdWord(FCMD_EPA, U16(OrOne(chunk)))
  ELSE IF caller = "write" THEN CmdWord(WriteCmd, U16(chunk))
  ELSE IF caller = "set"
    THEN CmdWord(IF opIn.val # 0 THEN FCMD_SGPB ELSE FCMD_CGPB, U16(opIn.bit))
  ELSE CmdWord(FCMD_GGPB, 0)

(* The erase loop walks whole blocks inside the region; a write names a    *)
(* page of the region with the latch loaded; the pending command is the    *)
(* one its caller wrote; GGPB has refreshed FRR by the time gpnvm_get      *)
(* reads it; and only a GPNVM bit the device lacks makes SGPB / CGPB fail. *)
RefSync ==
  /\ pc = "EraseLoop" \/ (Active /\ caller = "erase") =>
       /\ opIn.kind = "erase" /\ Family = "SAM4"
       /\ chunk % PagesPerBlock = 0
       /\ chunk \div PagesPerBlock + EraseBlocksLeft <= NBlocks
  /\ Active /\ caller = "erase" => elen > 0
  /\ pc = "WriteIssue" \/ (Active /\ caller = "write") => opIn.kind = "write" /\ chunk \in Pages
  /\ pc = "WriteIssue" => latch = "loaded"
  /\ Active /\ caller = "set" => opIn.kind = "set" /\ opIn.argc = 3 /\ opIn.bit \in GpnvmArgs
  /\ Active => caller \in {"erase", "write", "set", "get"}
  /\ Active /\ caller = "get" => opIn.kind \in {"get", "set"}
  /\ ccmd # NoWord => ccmd = IssuedWord /\ (caller = "write" => latch = "loaded")
  /\ Active /\ caller = "get" /\ ccmd = NoWord => exec = "ok" /\ frr = gpnvm
  /\ Active /\ caller = "set" /\ ccmd = NoWord /\ exec # "ok" => opIn.bit \notin GpnvmIdx
RefInv == CmdInv /\ RefSync

-----------------------------------------------------------------------------
(* What the current operation has done to the flash and the GPNVM bits so  *)
(* far, relative to `prev`: used to prove EraseExact, WriteLands,         *)
(* GpnvmShown and GpnvmSetNamedBit under the same hypotheses as RefInv.    *)
EraseLo == (opIn.addr - FlashStart) \div BlockSize
EraseHi == (opIn.addr - FlashStart + opIn.len - 1) \div BlockSize
(* The blocks from EraseLo below chunk, and chunk's once its EPA ran.      *)
BlocksErased ==
  EraseLo .. (chunk \div PagesPerBlock - (IF CmdTookEffect THEN 0 ELSE 1))
MemAfterBlocks(S) ==
  [p \in Pages |-> IF p \div PagesPerBlock \in S THEN "erased" ELSE prev.mem[p]]
WriteTarget == (opIn.addr - FlashStart) \div BufSize
MemAfterWrite ==
  [prev.mem EXCEPT ![WriteTarget] =
     IF Family = "SAM3" \/ @ = "erased" THEN "written" ELSE "garbage"]

(* sam4_flash_erase has erased the blocks from the first one up to chunk  *)
(* (and chunk's own once its EPA ran), and chunk + len still reaches the   *)
(* last block of the request.                                              *)
EraseSync ==
  pc = "EraseLoop" \/ (Active /\ caller = "erase") =>
    /\ EraseLo \in 0 .. chunk \div PagesPerBlock
    /\ EraseHi = chunk \div PagesPerBlock + EraseBlocksLeft - 1
    /\ mem = MemAfterBlocks(BlocksErased)

(* sam3x_flash_write changes its own page, and only once WP / EWP ran.     *)
WriteSync ==
  pc = "WriteIssue" \/ (Active /\ caller = "write") =>
    /\ chunk = WriteTarget
    /\ mem = IF CmdTookEffect THEN MemAfterWrite ELSE prev.mem

(* gpnvm_set changes no bit but its own, and once SGPB / CGPB has run an   *)
(* existing bit has the requested value.                                   *)
SetSync ==
  pc # "Idle" /\ opIn.kind = "set" =>
    /\ gpnvm \ {opIn.bit} = prev.gpnvm \ {opIn.bit}
    /\ (caller = "get" \/ ccmd = NoWord) /\ opIn.bit \in GpnvmIdx =>
         (opIn.bit \in gpnvm <=> opIn.val # 0)

(* What each operation has done so far, and the four end-of-operation      *)
(* properties while the host is idle.                                      *)
OpSync ==
  /\ EraseSync /\ WriteSync /\ SetSync
  /\ EraseExact /\ WriteLands /\ GpnvmShown /\ GpnvmSetNamedBit
SafeInv == RefInv /\ OpSync

=============================================================================
