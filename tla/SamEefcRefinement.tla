-------------------------- MODULE SamEefcRefinement --------------------------
(***************************************************************************)
(* Proof that the driver with the controller implements FlashOps (safety):*)
(* every step of sam4_flash_erase, sam3_flash_erase, sam3x_flash_write,    *)
(* the GPNVM handlers, sam3x_flash_cmd and the EEFC is a step of FlashOps  *)
(* under the mapping of SamEefcFlashOps, or leaves what FlashOps sees      *)
(* unchanged.  It holds on a reliable link with sticky error bits, for     *)
(* block-aligned erases, and for regions and GPNVM arguments that fit the  *)
(* uint16_t `arg` of sam3x_flash_cmd.                                      *)
(***************************************************************************)
EXTENDS SamEefcFlashOps, SamEefcProofs

(* The hypotheses under which the refinement holds.                        *)
RefHyp ==
  /\ MaxFaults = 0
  /\ ErrorClearOnRead = FALSE
  /\ AlignedErase = TRUE
  /\ NPages <= 2^16
  /\ \A b \in GpnvmArgs : b < 2^16

-----------------------------------------------------------------------------
(* Integer division by a positive divisor.                                 *)
LEMMA DivShift ==
  ASSUME NEW d \in Nat \ {0}, NEW k \in Int, NEW x \in Int
  PROVE  (k * d + x) \div d = k + x \div d
  OBVIOUS

LEMMA DivSmall ==
  ASSUME NEW d \in Nat \ {0}, NEW x \in 0 .. d - 1
  PROVE  x \div d = 0
  OBVIOUS

LEMMA DivBound ==
  ASSUME NEW d \in Nat \ {0}, NEW x \in Nat, NEW m \in Nat, x < m * d
  PROVE  x \div d < m
  OBVIOUS

(* The controller decodes the opcode and the argument the driver packed    *)
(* into the EEFC_FCR word (sam3x.c lines 449-450), with the right key.    *)
LEMMA WordFields ==
  ASSUME NEW c \in 0 .. 255, NEW a \in 0 .. 2^16 - 1
  PROVE  /\ WordCmd(CmdWord(c, a)) = c
         /\ WordArg(CmdWord(c, a)) = a
         /\ WordKey(CmdWord(c, a)) = FKEY \div 2^24
<1>1. 2^24 = 16777216 /\ 2^16 = 65536
  OBVIOUS
<1>. QED
  BY <1>1 DEF WordCmd, WordArg, WordKey, CmdWord, FKEY

(* A value below 2^16 passes the uint16_t parameter unchanged.             *)
LEMMA U16Id ==
  ASSUME NEW x \in 0 .. 2^16 - 1
  PROVE  U16(x) = x
  BY DEF U16

(* EPA with chunk | 0x1 for a block-aligned chunk erases the 8 pages from  *)
(* chunk: FARG[1:0] = 1 selects 8 pages (sam3x.c line 490).               *)
LEMMA EpaBlock ==
  ASSUME NEW c \in Nat, c % 8 = 0
  PROVE  /\ OrOne(c) = c + 1
         /\ EpaPages(c + 1) = c .. c + 7
         /\ \A p \in Nat : p \in c .. c + 7 <=> p \div 8 = c \div 8
<1>1. (c + 1) % 4 = 1 /\ (c + 1) % 8 = 1
  OBVIOUS
<1>2. 4 * 2^((c + 1) % 4) = 8
  <2>1. 2^((c + 1) % 4) = 2^1
    BY <1>1, Zenon
  <2>2. 2^1 = 2
    OBVIOUS
  <2>. QED
    BY <2>1, <2>2
<1>. QED
  BY <1>1, <1>2 DEF OrOne, EpaPages

(* The number of blocks `len` still covers, (len + blocksize - 1) /       *)
(* blocksize, as the erase loop consumes one block per iteration.          *)
LEMMA CeilFacts ==
  ASSUME NEW d \in Nat \ {0}, NEW x \in Nat
  PROVE  /\ x = 0 => (x + d - 1) \div d = 0
         /\ x > 0 => (x + d - 1) \div d = 1 + (x - 1) \div d
         /\ x > d => ((x - d) + d - 1) \div d = (x + d - 1) \div d - 1
         /\ x > 0 /\ x <= d => (x + d - 1) \div d = 1
<1>1. x = 0 => (x + d - 1) \div d = 0
  BY DivSmall
<1>2. x > 0 => (x + d - 1) \div d = 1 + (x - 1) \div d
  <2>1. x > 0 => (1 * d + (x - 1)) \div d = 1 + (x - 1) \div d
    BY DivShift
  <2>. QED
    BY <2>1
<1>3. x > d => ((x - d) + d - 1) \div d = (x + d - 1) \div d - 1
  <2>1. x > d => (1 * d + (x - d - 1)) \div d = 1 + (x - d - 1) \div d
    BY DivShift
  <2>2. x > d => (2 * d + (x - d - 1)) \div d = 2 + (x - d - 1) \div d
    BY DivShift
  <2>. QED
    BY <2>1, <2>2
<1>4. x > 0 /\ x <= d => (x - 1) \div d = 0
  BY DivSmall
<1>. QED
  BY <1>1, <1>2, <1>3, <1>4

(* The geometry sam4_add_flash / sam3_add_flash gives a region.            *)
LEMMA Geometry ==
  /\ PagesPerBlock \in {1, 8}
  /\ BlockSize \in Nat \ {0}
  /\ BlockSize = PageSize * PagesPerBlock
  /\ NPages = NBlocks * PagesPerBlock
  /\ RegionEnd = FlashStart + NBlocks * BlockSize
  /\ Family = "SAM4" <=> PagesPerBlock = 8
  BY PageSizeAssumption, NBlocksAssumption, FamilyAssumption
  DEF PagesPerBlock, BlockSize, NPages, RegionEnd

(* The units FlashOps assigns to an erase, a write and a GPNVM request.    *)
LEMMA WorkFacts ==
  ASSUME NEW r
  PROVE  /\ r.kind = "erase" =>
              Abs!Work(r) = (r.addr - FlashStart) \div BlockSize ..
                            (r.addr - FlashStart + r.len - 1) \div BlockSize
         /\ r.kind = "write" => Abs!Work(r) = {(r.addr - FlashStart) \div PageSize}
         /\ r.kind = "set" => Abs!Work(r) = {r.bit} \cap GpnvmIdx
         /\ r.kind = "get" => Abs!Work(r) = {}
  BY DEF Abs!Work, Abs!BlockSize, BlockSize

-----------------------------------------------------------------------------
(* Under RefInv the host has no command in flight when it is idle.         *)
LEMMA IdleNoCmd ==
  ASSUME RefInv, pc = "Idle"
  PROVE  ccmd = NoWord /\ absReq = Abs!NoReq /\ absTodo = {}
  BY DEF RefInv, CmdInv, CmdSync, absReq, absTodo, Abs!NoReq

(* sam4_flash_erase called on a block boundary: FlashOps's request, whose  *)
(* blocks are the ones chunk and len cover.                                *)
LEMMA EraseStartStep ==
  ASSUME RefInv, RefHyp, NEW a \in EraseAddrs, NEW l \in EraseLens(a),
         Sam4EraseStart(a, l)
  PROVE  RefSync' /\ Abs!Request
<1> USE PageSizeAssumption, FlashStartAssumption, NBlocksAssumption
<1>1. Family = "SAM4" /\ pc = "Idle" /\ PagesPerBlock = 8 /\ BlockSize = PageSize * 8
  BY Geometry DEF Sam4EraseStart, StartOp
<1>2. PICK k \in 0 .. NBlocks - 1 : a = FlashStart + k * BlockSize
  BY DEF RefHyp, EraseAddrs
<1>3. BlockSize \in Nat \ {0} /\ PageSize \in Nat \ {0}
  BY Geometry, PageSizeAssumption
<1>4. chunk' = k * 8 /\ chunk' % 8 = 0 /\ chunk' \div 8 = k
  <2>1. ((k * 8) * PageSize + 0) \div PageSize = k * 8 + 0 \div PageSize
    BY <1>3, DivShift
  <2>2. chunk' = ((k * 8) * PageSize + 0) \div PageSize
    BY <1>1, <1>2 DEF Sam4EraseStart
  <2>. QED
    BY <2>1, <2>2
<1>5. l \in Nat /\ l >= 1 /\ l <= (NBlocks - k) * BlockSize /\ elen' = l
  BY <1>2, Geometry DEF EraseLens, Sam4EraseStart
<1>6. EraseBlocksLeft' = 1 + (l - 1) \div BlockSize
  <2>0. l \in Nat /\ l > 0
    BY <1>5
  <2>1. (l + BlockSize - 1) \div BlockSize = 1 + (l - 1) \div BlockSize
    BY <1>3, <2>0, CeilFacts, Zenon
  <2>. QED
    BY <1>5, <2>1 DEF EraseBlocksLeft
<1>7. (l - 1) \div BlockSize < NBlocks - k
  BY <1>3, <1>5, DivBound
<1>8. opIn' = [kind |-> "erase", addr |-> a, len |-> l] /\ pc' = "EraseLoop"
  BY DEF Sam4EraseStart, StartOp
<1>9. absReq' = opIn'
  BY <1>8 DEF absReq
<1>10. Abs!Work(absReq') = k .. k + (l - 1) \div BlockSize
  <2>1. (k * BlockSize + 0) \div BlockSize = k + 0 \div BlockSize
    BY <1>3, DivShift
  <2>2. (k * BlockSize + (l - 1)) \div BlockSize = k + (l - 1) \div BlockSize
    BY <1>3, <1>5, DivShift
  <2>3. opIn'.kind = "erase" /\ opIn'.addr = a /\ opIn'.len = l
    BY <1>8
  <2>4. Abs!Work(opIn') = (opIn'.addr - FlashStart) \div BlockSize ..
                          (opIn'.addr - FlashStart + opIn'.len - 1) \div BlockSize
    BY <2>3, WorkFacts, Zenon
  <2>5. Abs!Work(opIn') = k .. k + (l - 1) \div BlockSize
    BY <1>2, <1>3, <1>5, <2>1, <2>2, <2>3, <2>4
  <2>. QED
    BY <1>9, <2>5, Zenon
<1>11. absTodo' = k .. k + (l - 1) \div BlockSize
  BY <1>1, <1>4, <1>5, <1>6, <1>8 DEF absTodo, EraseBlocksLeft
<1>12. ccmd' = NoWord
  BY <1>1, IdleNoCmd DEF Sam4EraseStart, devVars
<1>13. RefSync'
  <2>1. ~Active' /\ pc' # "WriteIssue"
    BY <1>8 DEF Active
  <2>2. chunk' % PagesPerBlock = 0 /\ chunk' \div PagesPerBlock = k
    BY <1>1, <1>4
  <2>3. k + EraseBlocksLeft' <= NBlocks
    BY <1>2, <1>3, <1>5, <1>6, <1>7
  <2>4. chunk' \div PagesPerBlock + EraseBlocksLeft' <= NBlocks
    BY <2>2, <2>3
  <2>. QED
    BY <1>1, <1>8, <1>12, <2>1, <2>2, <2>4 DEF RefSync
<1>14. Abs!Request
  <2>1. absReq = Abs!NoReq
    BY <1>1, IdleNoCmd
  <2>2. UNCHANGED <<mem, gpnvm, display, opRet, hret>>
    BY DEF Sam4EraseStart, devVars
  <2>. QED
    BY <1>1, <1>8, <1>9, <1>10, <1>11, <2>1, <2>2 DEF Abs!Request
<1>. QED
  BY <1>13, <1>14

(* On a reliable link an idle controller takes the word the host writes.   *)
LEMMA IssueRef ==
  ASSUME CmdInv, MaxFaults = 0, pc \notin {"CmdPoll", "CmdFinal"},
         NEW c \in Nat, NEW a \in Nat, NEW who \in Callers, IssueCmd(c, a, who)
  PROVE  /\ ccmd' = CmdWord(c, a) /\ exec' = "pending"
         /\ pc' = "CmdPoll" /\ caller' = who
<1>1. ccmd = NoWord /\ Ready(fsr) /\ faults = 0
  BY DEF CmdInv, CmdSync, TypeOK, LinkTypeOK
<1>. QED
  BY <1>1 DEF IssueCmd

(* The erase loop: len = 0 is FlashOps's successful return, which all the  *)
(* blocks preceded; otherwise issuing EPA changes nothing FlashOps sees.   *)
LEMMA EraseLoopStep ==
  ASSUME RefInv, RefHyp, Sam4EraseLoop
  PROVE  RefSync' /\ [Abs!Next]_Abs!avars
<1> USE PageSizeAssumption, FlashStartAssumption, NBlocksAssumption
<1>1. /\ pc = "EraseLoop" /\ opIn.kind = "erase" /\ Family = "SAM4"
      /\ ccmd = NoWord /\ absReq = opIn
      /\ elen \in Nat /\ chunk \in Nat /\ BlockSize \in Nat \ {0}
      /\ PagesPerBlock = 8
  BY Geometry DEF Sam4EraseLoop, RefInv, RefSync, CmdInv, CmdSync, TypeOK,
     HostTypeOK, absReq
<1>2. CASE elen = 0
  <2>1. EraseBlocksLeft = 0
    BY <1>1, <1>2, CeilFacts, Zenon DEF EraseBlocksLeft
  <2>2. absTodo = {}
    BY <1>1, <2>1 DEF absTodo, EraseBlocksLeft
  <2>3. pc' = "Idle" /\ opRet' = 0 /\ UNCHANGED <<ccmd, mem, gpnvm, display, hret, opIn>>
    BY <1>2 DEF Sam4EraseLoop
  <2>4. absReq' = Abs!NoReq /\ absTodo' = {}
    BY <2>3 DEF absReq, absTodo, Abs!NoReq
  <2>5. Abs!Return(0)
    BY <1>1, <2>2, <2>3, <2>4 DEF Abs!Return
  <2>6. RefSync'
    BY <1>1, <2>3 DEF RefSync, Active
  <2>. QED
    BY <2>5, <2>6 DEF Abs!Next, Abs!Progress
<1>3. CASE elen # 0
  <2>1. U16(OrOne(chunk)) \in Nat
    BY <1>1 DEF U16, OrOne
  <2>2. /\ ccmd' = CmdWord(FCMD_EPA, U16(OrOne(chunk))) /\ exec' = "pending"
        /\ pc' = "CmdPoll" /\ caller' = "erase"
    BY <1>1, <1>3, <2>1, IssueRef DEF Sam4EraseLoop, RefInv, RefHyp, FCMD_EPA,
       Callers
  <2>3. UNCHANGED <<elen, chunk, opIn, mem, gpnvm, display, opRet, hret>>
    BY <1>3 DEF Sam4EraseLoop
  <2>4. ~CmdTookEffect'
    BY <2>2 DEF CmdTookEffect
  <2>5. UNCHANGED <<absReq, absTodo>>
    BY <1>1, <2>2, <2>3, <2>4 DEF absReq, absTodo
  <2>6. RefSync'
    <3>1. elen > 0 /\ chunk % PagesPerBlock = 0
          /\ chunk \div PagesPerBlock + EraseBlocksLeft <= NBlocks
      BY <1>1, <1>3 DEF RefInv, RefSync
    <3>2. ccmd' = IssuedWord'
      BY <2>2, <2>3 DEF IssuedWord
    <3>. QED
      BY <1>1, <2>2, <2>3, <3>1, <3>2 DEF RefSync, Active, EraseBlocksLeft
  <2>. QED
    BY <2>3, <2>5, <2>6 DEF Abs!avars
<1>. QED
  BY <1>2, <1>3

(* After an EPA: a failure is FlashOps's failed return, keeping the blocks *)
(* already erased; a success moves chunk and len to the next block, which  *)
(* changes nothing FlashOps sees.                                          *)
LEMMA EraseNextStep ==
  ASSUME RefInv, RefHyp, Sam4EraseNext
  PROVE  RefSync' /\ [Abs!Next]_Abs!avars
<1> USE PageSizeAssumption, FlashStartAssumption, NBlocksAssumption
<1>1. /\ pc = "CmdDone" /\ caller = "erase" /\ opIn.kind = "erase"
      /\ Family = "SAM4" /\ PagesPerBlock = 8
      /\ ccmd = NoWord /\ absReq = opIn
      /\ elen \in Nat /\ elen > 0 /\ chunk \in Nat /\ BlockSize \in Nat \ {0}
      /\ chunk % 8 = 0 /\ chunk \div 8 + EraseBlocksLeft <= NBlocks
      /\ (exec = "ok" <=> cmdRet = 0)
  BY Geometry DEF Sam4EraseNext, RefInv, RefSync, Active, CmdInv, CmdSync,
     TypeOK, HostTypeOK, absReq
<1>2. CASE cmdRet # 0
  <2>1. pc' = "Idle" /\ opRet' = -1 /\ UNCHANGED <<ccmd, mem, gpnvm, display, hret, opIn>>
    BY <1>2 DEF Sam4EraseNext, devVars, histVars
  <2>2. absReq' = Abs!NoReq /\ absTodo' = {}
    BY <2>1 DEF absReq, absTodo, Abs!NoReq
  <2>3. Abs!Return(-1)
    BY <1>1, <2>1, <2>2 DEF Abs!Return
  <2>4. RefSync'
    BY <1>1, <2>1 DEF RefSync, Active
  <2>. QED
    BY <2>3, <2>4 DEF Abs!Next, Abs!Progress
<1>3. CASE cmdRet = 0
  <2>1. /\ pc' = "EraseLoop" /\ chunk' = chunk + 8
        /\ elen' = IF elen > BlockSize THEN elen - BlockSize ELSE 0
        /\ UNCHANGED <<ccmd, exec, mem, gpnvm, display, opRet, hret, opIn>>
    BY <1>3 DEF Sam4EraseNext, devVars, histVars
  <2>2. EraseBlocksLeft' = EraseBlocksLeft - 1
    <3>1. CASE elen > BlockSize
      <4>1. ((elen - BlockSize) + BlockSize - 1) \div BlockSize
              = (elen + BlockSize - 1) \div BlockSize - 1
        BY <1>1, <3>1, CeilFacts, Zenon
      <4>. QED
        BY <2>1, <3>1, <4>1 DEF EraseBlocksLeft
    <3>2. CASE ~(elen > BlockSize)
      <4>1. (elen + BlockSize - 1) \div BlockSize = 1
        <5>1. elen > 0 /\ elen <= BlockSize
          BY <1>1, <3>2
        <5>. QED
          BY <1>1, <5>1, CeilFacts, Zenon
      <4>2. (0 + BlockSize - 1) \div BlockSize = 0
        BY <1>1, CeilFacts, Zenon
      <4>. QED
        BY <1>1, <2>1, <3>2, <4>1, <4>2 DEF EraseBlocksLeft
    <3>. QED
      BY <3>1, <3>2
  <2>3. EraseBlocksLeft \in Nat
    BY <1>1 DEF EraseBlocksLeft
  <2>4. (chunk + 8) \div 8 = chunk \div 8 + 1
    BY <1>1
  <2>5. absTodo = chunk \div 8 + 1 .. chunk \div 8 + EraseBlocksLeft - 1
    BY <1>1, <1>3 DEF absTodo, CmdTookEffect, EraseBlocksLeft
  <2>6. absTodo' = chunk \div 8 + 1 .. chunk \div 8 + 1 + EraseBlocksLeft' - 1
    BY <1>1, <2>1, <2>4 DEF absTodo, EraseBlocksLeft
  <2>7. UNCHANGED <<absReq, absTodo>>
    BY <1>1, <2>1, <2>2, <2>3, <2>5, <2>6 DEF absReq
  <2>8. RefSync'
    BY <1>1, <2>1, <2>2, <2>3, <2>4 DEF RefSync, Active
  <2>. QED
    BY <2>1, <2>7, <2>8 DEF Abs!avars
<1>. QED
  BY <1>2, <1>3

(* A step inside sam3x_flash_cmd that moves only pc, cmdRet and the link's *)
(* error latch changes nothing FlashOps sees and keeps RefSync.            *)
LEMMA InCmdStutter ==
  ASSUME RefInv, Active, Active',
         UNCHANGED <<caller, elen, chunk, ccmd, exec, mem, latch, gpnvm, frr,
                     display, opIn, opRet, hret>>
  PROVE  RefSync' /\ UNCHANGED Abs!avars
<1>1. pc # "Idle" /\ pc' # "Idle" /\ pc # "EraseLoop" /\ pc' # "EraseLoop"
      /\ pc # "WriteIssue" /\ pc' # "WriteIssue"
  BY DEF Active
<1>2. CmdTookEffect' = CmdTookEffect
  BY DEF CmdTookEffect, Active
<1>3. UNCHANGED <<absReq, absTodo>>
  BY <1>1, <1>2 DEF absReq, absTodo
<1>4. RefSync'
  BY <1>1 DEF RefInv, RefSync, IssuedWord, EraseBlocksLeft
<1>. QED
  BY <1>3, <1>4 DEF Abs!avars

(* The poll of FSR and the final read (sam3x.c lines 452-457).             *)
LEMMA PollStep ==
  ASSUME RefInv, RefHyp, CmdPoll \/ CmdFinal
  PROVE  RefSync' /\ UNCHANGED Abs!avars
<1>1. TypeOK /\ MaxFaults = 0 /\ ErrorClearOnRead = FALSE
  BY DEF RefInv, CmdInv, RefHyp
<1>2. CASE CmdPoll
  <2>1. PICK fault \in FaultNow : \E v \in ReadValues(fault) : CmdPoll!2!(fault)!(v)
    BY <1>2 DEF CmdPoll
  <2>2. PICK v \in ReadValues(fault) : CmdPoll!2!(fault)!(v)
    BY <2>1
  <2>3. fault = FALSE /\ v = fsr
    BY <1>1, <2>2, ReliableRead
  <2>4. pc' \in {"CmdFinal", "CmdDone", "CmdPoll"}
    BY <1>2, <2>2 DEF CmdPoll
  <2>. QED
    BY <1>2, <2>4, InCmdStutter DEF CmdPoll, Active, histVars
<1>3. CASE CmdFinal
  BY <1>3, InCmdStutter DEF CmdFinal, Active, histVars
<1>. QED
  BY <1>2, <1>3

-----------------------------------------------------------------------------
(* When the controller finishes a command, the host is polling for the     *)
(* word its caller wrote, and only the device and exec change.             *)
LEMMA CtrlFacts ==
  ASSUME RefInv, Controller
  PROVE  /\ pc = "CmdPoll" /\ exec = "pending" /\ ccmd = IssuedWord
         /\ ccmd # NoWord /\ Active /\ caller \in {"erase", "write", "set", "get"}
         /\ ccmd' = NoWord
         /\ exec' \in {"ok", "failed"}
         /\ UNCHANGED <<pc, caller, elen, chunk, opIn, display, opRet, hret>>
         /\ UNCHANGED absReq
<1>1. Busy
  BY DEF Controller, CompleteRejected, CompleteLocked, CompleteFlash, CompleteGpnvm
<1>2. pc = "CmdPoll" /\ exec = "pending" /\ ccmd = IssuedWord /\ Active
      /\ caller \in {"erase", "write", "set", "get"}
  BY <1>1 DEF Busy, RefInv, CmdInv, CmdSync, RefSync, Active
<1>3. PICK err \in {0, FSR_FCMDE, FSR_FLOCKE} : Finish(err)
  BY DEF Controller, CompleteRejected, CompleteLocked, CompleteFlash, CompleteGpnvm
<1>4. ccmd' = NoWord /\ exec' \in {"ok", "failed"}
  BY <1>2, <1>3 DEF Finish
<1>5. UNCHANGED <<pc, caller, elen, chunk, opIn, display, opRet, hret>>
  BY DEF Controller, CompleteRejected, CompleteLocked, CompleteFlash,
     CompleteGpnvm, hostVars
<1>. QED
  BY <1>1, <1>2, <1>4, <1>5 DEF absReq, Busy

(* An EPA word for a block-aligned chunk is valid and names that block.    *)
LEMMA EpaWord ==
  ASSUME RefInv, RefHyp, Active, caller = "erase", exec = "pending"
  PROVE  /\ IssuedWord = CmdWord(FCMD_EPA, chunk + 1)
         /\ WordCmd(IssuedWord) = FCMD_EPA /\ WordArg(IssuedWord) = chunk + 1
         /\ ValidCmd(IssuedWord)
         /\ Touched(IssuedWord) = chunk .. chunk + 7
         /\ chunk \div 8 \in absTodo
         /\ \A c \in absTodo : chunk \div 8 <= c
         /\ PagesPerBlock = 8 /\ chunk \in Nat /\ chunk % 8 = 0
<1> USE PageSizeAssumption, FlashStartAssumption, NBlocksAssumption
<1>1. /\ opIn.kind = "erase" /\ Family = "SAM4" /\ PagesPerBlock = 8
      /\ chunk \in Nat /\ chunk % 8 = 0 /\ elen \in Nat /\ elen > 0
      /\ chunk \div 8 + EraseBlocksLeft <= NBlocks
      /\ BlockSize \in Nat \ {0} /\ NPages = NBlocks * 8
  BY Geometry DEF RefInv, RefSync, CmdInv, TypeOK, HostTypeOK
<1>2. EraseBlocksLeft = 1 + (elen - 1) \div BlockSize /\ (elen - 1) \div BlockSize \in Nat
  <2>1. (elen + BlockSize - 1) \div BlockSize = 1 + (elen - 1) \div BlockSize
    BY <1>1, CeilFacts, Zenon
  <2>. QED
    BY <1>1, <2>1 DEF EraseBlocksLeft
<1>3. chunk + 8 <= NPages /\ NPages <= 2^16
  BY <1>1, <1>2 DEF RefHyp
<1>4. OrOne(chunk) = chunk + 1 /\ EpaPages(chunk + 1) = chunk .. chunk + 7
  BY <1>1, EpaBlock
<1>5. U16(chunk + 1) = chunk + 1
  <2>1. chunk + 1 \in 0 .. 2^16 - 1
    BY <1>1, <1>3
  <2>. QED
    BY <2>1, U16Id, Zenon
<1>6. IssuedWord = CmdWord(FCMD_EPA, chunk + 1)
  BY <1>4, <1>5 DEF IssuedWord
<1>7. WordCmd(IssuedWord) = FCMD_EPA /\ WordArg(IssuedWord) = chunk + 1
      /\ WordKey(IssuedWord) = FKEY \div 2^24
  <2>1. chunk + 1 \in 0 .. 2^16 - 1 /\ FCMD_EPA \in 0 .. 255
    BY <1>1, <1>3 DEF FCMD_EPA
  <2>2. /\ WordCmd(CmdWord(FCMD_EPA, chunk + 1)) = FCMD_EPA
        /\ WordArg(CmdWord(FCMD_EPA, chunk + 1)) = chunk + 1
        /\ WordKey(CmdWord(FCMD_EPA, chunk + 1)) = FKEY \div 2^24
    BY <2>1, WordFields, Zenon
  <2>. QED
    BY <1>6, <2>2, Zenon
<1>8. ValidCmd(IssuedWord)
  BY <1>1, <1>3, <1>4, <1>7 DEF ValidCmd, Pages
<1>9. Touched(IssuedWord) = chunk .. chunk + 7
  BY <1>4, <1>7 DEF Touched, FCMD_EPA, FCMD_WP, FCMD_EWP
<1>10. absTodo = chunk \div 8 .. chunk \div 8 + EraseBlocksLeft - 1
  BY <1>1 DEF absTodo, CmdTookEffect, Active, EraseBlocksLeft
<1>. QED
  BY <1>1, <1>2, <1>6, <1>7, <1>8, <1>9, <1>10

(* The controller keeps RefSync when it leaves the GPNVM state gpnvm_get   *)
(* will print in FRR, and fails SGPB / CGPB only for a bit it lacks.       *)
LEMMA CtrlSync ==
  ASSUME RefInv, Controller,
         caller = "get" => exec' = "ok" /\ frr' = gpnvm',
         caller = "set" /\ exec' # "ok" => opIn.bit \notin GpnvmIdx
  PROVE  RefSync'
<1>1. /\ pc = "CmdPoll" /\ Active /\ ccmd' = NoWord
      /\ UNCHANGED <<pc, caller, elen, chunk, opIn>>
  BY CtrlFacts
<1>. QED
  BY <1>1 DEF RefInv, RefSync, Active, EraseBlocksLeft

(* The controller finishing EPA: FlashOps erases the lowest block left.    *)
(* A locked block fails and changes nothing FlashOps sees.                 *)
LEMMA CtrlEraseStep ==
  ASSUME RefInv, RefHyp, Controller, caller = "erase"
  PROVE  RefSync' /\ [Abs!Next]_Abs!avars
<1>1. /\ pc = "CmdPoll" /\ exec = "pending" /\ ccmd = IssuedWord /\ Active
      /\ ccmd' = NoWord /\ exec' \in {"ok", "failed"}
      /\ UNCHANGED <<pc, caller, elen, chunk, opIn, display, opRet, hret, absReq>>
  BY CtrlFacts
<1>2. /\ WordCmd(ccmd) = FCMD_EPA /\ WordArg(ccmd) = chunk + 1 /\ ValidCmd(ccmd)
      /\ Touched(ccmd) = chunk .. chunk + 7
      /\ chunk \div 8 \in absTodo /\ \A c \in absTodo : chunk \div 8 <= c
      /\ PagesPerBlock = 8 /\ chunk \in Nat /\ chunk % 8 = 0
  BY <1>1, EpaWord
<1>3. RefSync'
  BY <1>1, CtrlSync
<1>4. opIn.kind = "erase" /\ absReq = opIn
  BY <1>1 DEF RefInv, RefSync, absReq
<1>5. absTodo = chunk \div 8 .. chunk \div 8 + EraseBlocksLeft - 1
  BY <1>1, <1>2, <1>4 DEF absTodo, CmdTookEffect, EraseBlocksLeft
<1>6. CASE CompleteRejected
  BY <1>2, <1>6 DEF CompleteRejected
<1>7. CASE CompleteLocked
  <2>1. exec' = "failed" /\ UNCHANGED <<mem, gpnvm>>
    BY <1>1, <1>7 DEF CompleteLocked, Finish, FSR_FLOCKE
  <2>2. UNCHANGED absTodo
    BY <1>1, <1>4, <2>1 DEF absTodo, CmdTookEffect, EraseBlocksLeft
  <2>. QED
    BY <1>1, <1>3, <2>1, <2>2 DEF Abs!avars
<1>8. CASE CompleteFlash
  <2>1. /\ mem' = [p \in Pages |-> IF p \in chunk .. chunk + 7 THEN "erased" ELSE mem[p]]
        /\ exec' = "ok" /\ UNCHANGED gpnvm
    BY <1>1, <1>2, <1>8, EpaBlock DEF CompleteFlash, Finish, FCMD_EPA, FCMD_WP,
       FCMD_EWP
  <2>2. \A p \in Pages : p \in chunk .. chunk + 7 <=> p \div 8 = chunk \div 8
    BY <1>2, EpaBlock DEF Pages
  <2>3. mem' = [p \in Pages |-> IF p \div PagesPerBlock = chunk \div 8 THEN "erased" ELSE mem[p]]
    BY <1>2, <2>1, <2>2
  <2>4. absTodo' = absTodo \ {chunk \div 8}
    BY <1>1, <1>2, <1>4, <1>5, <2>1 DEF absTodo, CmdTookEffect, EraseBlocksLeft
  <2>5. Abs!EraseBlock
    BY <1>1, <1>2, <1>4, <2>1, <2>3, <2>4 DEF Abs!EraseBlock
  <2>. QED
    BY <1>3, <2>5 DEF Abs!Next, Abs!Progress
<1>9. CASE CompleteGpnvm
  BY <1>2, <1>9 DEF CompleteGpnvm, FCMD_EPA, FCMD_GGPB, FCMD_SGPB, FCMD_CGPB
<1>. QED
  BY <1>6, <1>7, <1>8, <1>9 DEF Controller

(* A WP / EWP word for a page of the region is valid and names that page.  *)
LEMMA WriteWord ==
  ASSUME RefInv, RefHyp, Active, caller = "write"
  PROVE  /\ WordCmd(IssuedWord) = WriteCmd /\ WordArg(IssuedWord) = chunk
         /\ ValidCmd(IssuedWord) /\ Touched(IssuedWord) = {chunk}
         /\ chunk \in Pages /\ opIn.kind = "write"
<1>1. chunk \in Pages /\ opIn.kind = "write" /\ NPages <= 2^16
  BY DEF RefInv, RefSync, RefHyp
<1>2. chunk \in 0 .. 2^16 - 1 /\ WriteCmd \in 0 .. 255
  <2>1. chunk \in 0 .. NPages - 1 /\ 2^16 = 65536
    BY <1>1 DEF Pages
  <2>2. WriteCmd \in {1, 3}
    BY DEF WriteCmd, FCMD_WP, FCMD_EWP
  <2>. QED
    BY <1>1, <2>1, <2>2, Geometry, NBlocksAssumption
<1>3. U16(chunk) = chunk
  BY <1>2, U16Id, Zenon
<1>4. IssuedWord = CmdWord(WriteCmd, chunk)
  BY <1>3 DEF IssuedWord
<1>5. /\ WordCmd(CmdWord(WriteCmd, chunk)) = WriteCmd
      /\ WordArg(CmdWord(WriteCmd, chunk)) = chunk
      /\ WordKey(CmdWord(WriteCmd, chunk)) = FKEY \div 2^24
  BY <1>2, WordFields, Zenon
<1>6. WordCmd(IssuedWord) = WriteCmd /\ WordArg(IssuedWord) = chunk
      /\ WordKey(IssuedWord) = FKEY \div 2^24
  BY <1>4, <1>5, Zenon
<1>7. WriteCmd \in {FCMD_WP, FCMD_EWP}
  BY DEF WriteCmd
<1>. QED
  BY <1>1, <1>6, <1>7 DEF ValidCmd, Touched, FCMD_WP, FCMD_EWP, FCMD_EPA

(* The controller finishing WP / EWP: FlashOps programs the page.  A       *)
(* locked page fails and changes nothing FlashOps sees.                    *)
LEMMA CtrlWriteStep ==
  ASSUME RefInv, RefHyp, Controller, caller = "write"
  PROVE  RefSync' /\ [Abs!Next]_Abs!avars
<1>1. /\ pc = "CmdPoll" /\ exec = "pending" /\ ccmd = IssuedWord /\ Active
      /\ ccmd' = NoWord /\ exec' \in {"ok", "failed"}
      /\ UNCHANGED <<pc, caller, elen, chunk, opIn, display, opRet, hret, absReq>>
  BY CtrlFacts
<1>2. /\ WordCmd(ccmd) = WriteCmd /\ WordArg(ccmd) = chunk
      /\ ValidCmd(ccmd) /\ Touched(ccmd) = {chunk}
      /\ chunk \in Pages /\ opIn.kind = "write"
  BY <1>1, WriteWord
<1>3. RefSync'
  BY <1>1, CtrlSync
<1>4. latch = "loaded" /\ absReq = opIn /\ absTodo = {chunk}
  BY <1>1, <1>2, CtrlFacts DEF RefInv, RefSync, absReq, absTodo, CmdTookEffect, NoWord
<1>5. CASE CompleteRejected
  BY <1>2, <1>5 DEF CompleteRejected
<1>6. CASE CompleteLocked
  <2>1. exec' = "failed" /\ UNCHANGED <<mem, gpnvm>>
    BY <1>1, <1>6 DEF CompleteLocked, Finish, FSR_FLOCKE
  <2>2. UNCHANGED absTodo
    BY <1>1, <1>2, <2>1 DEF absTodo, CmdTookEffect
  <2>. QED
    BY <1>1, <1>3, <2>1, <2>2 DEF Abs!avars
<1>7. CASE CompleteFlash
  <2>1. exec' = "ok" /\ UNCHANGED gpnvm
    BY <1>1, <1>7 DEF CompleteFlash, Finish
  <2>2. mem' = [mem EXCEPT ![chunk] = IF Family = "SAM3" \/ @ = "erased"
                                      THEN "written" ELSE "garbage"]
    <3>1. CASE Family = "SAM4"
      <4>1. WordCmd(ccmd) = FCMD_WP
        BY <1>2, <3>1 DEF WriteCmd
      <4>2. mem' = [mem EXCEPT ![chunk] = Program(@, latch)]
        BY <1>2, <1>7, <4>1 DEF CompleteFlash, FCMD_WP, FCMD_EWP, FCMD_EPA
      <4>3. Program(mem[chunk], latch) =
              IF mem[chunk] = "erased" THEN "written" ELSE "garbage"
        BY <1>4 DEF Program
      <4>. QED
        BY <3>1, <4>2, <4>3
    <3>2. CASE Family = "SAM3"
      <4>1. WordCmd(ccmd) = FCMD_EWP
        BY <1>2, <3>2 DEF WriteCmd
      <4>2. mem' = [mem EXCEPT ![chunk] = EraseProgram(latch)]
        BY <1>2, <1>7, <4>1 DEF CompleteFlash, FCMD_WP, FCMD_EWP, FCMD_EPA
      <4>3. EraseProgram(latch) = "written"
        BY <1>4 DEF EraseProgram
      <4>. QED
        BY <3>2, <4>2, <4>3
    <3>. QED
      BY <3>1, <3>2, FamilyAssumption
  <2>3. absTodo' = {}
    BY <1>1, <1>2, <2>1 DEF absTodo, CmdTookEffect
  <2>4. Abs!Program
    BY <1>1, <1>2, <1>4, <2>1, <2>2, <2>3 DEF Abs!Program
  <2>. QED
    BY <1>3, <2>4 DEF Abs!Next, Abs!Progress
<1>8. CASE CompleteGpnvm
  <2>1. WordCmd(ccmd) \in {FCMD_WP, FCMD_EWP}
    BY <1>2 DEF WriteCmd
  <2>. QED
    BY <1>8, <2>1 DEF CompleteGpnvm, FCMD_WP, FCMD_EWP, FCMD_GGPB, FCMD_SGPB,
       FCMD_CGPB
<1>. QED
  BY <1>5, <1>6, <1>7, <1>8 DEF Controller

(* The controller finishing SGPB / CGPB: FlashOps sets or clears the bit.  *)
(* A bit the device lacks is rejected with FCMDE, which FlashOps does not  *)
(* see (the request has no unit).                                          *)
LEMMA CtrlSetStep ==
  ASSUME RefInv, RefHyp, Controller, caller = "set"
  PROVE  RefSync' /\ [Abs!Next]_Abs!avars
<1>1. /\ pc = "CmdPoll" /\ exec = "pending" /\ ccmd = IssuedWord /\ Active
      /\ ccmd' = NoWord /\ exec' \in {"ok", "failed"}
      /\ UNCHANGED <<pc, caller, elen, chunk, opIn, display, opRet, hret, absReq>>
  BY CtrlFacts
<1>2. opIn.kind = "set" /\ opIn.bit \in GpnvmArgs /\ opIn.bit \in 0 .. 2^16 - 1
  <2>1. opIn.kind = "set" /\ opIn.bit \in GpnvmArgs
    BY <1>1 DEF RefInv, RefSync
  <2>2. opIn.bit \in Nat /\ opIn.bit < 2^16
    BY <2>1, GpnvmAssumption DEF RefHyp
  <2>. QED
    BY <2>1, <2>2
<1> DEFINE op == IF opIn.val # 0 THEN FCMD_SGPB ELSE FCMD_CGPB
<1>3. op \in 0 .. 255 /\ op \in {FCMD_SGPB, FCMD_CGPB}
  BY DEF FCMD_SGPB, FCMD_CGPB
<1>4. ccmd = CmdWord(op, opIn.bit)
  BY <1>1, <1>2, U16Id, Zenon DEF IssuedWord
<1>5. WordCmd(ccmd) = op /\ WordArg(ccmd) = opIn.bit /\ WordKey(ccmd) = FKEY \div 2^24
  <2>1. /\ WordCmd(CmdWord(op, opIn.bit)) = op
        /\ WordArg(CmdWord(op, opIn.bit)) = opIn.bit
        /\ WordKey(CmdWord(op, opIn.bit)) = FKEY \div 2^24
    BY <1>2, <1>3, WordFields, Zenon
  <2>. QED
    BY <1>4, <2>1, Zenon
<1>6. (ValidCmd(ccmd) <=> opIn.bit \in GpnvmIdx) /\ Touched(ccmd) = {}
  BY <1>3, <1>5 DEF ValidCmd, Touched, FCMD_SGPB, FCMD_CGPB, FCMD_EPA, FCMD_WP,
     FCMD_EWP, FCMD_GGPB
<1>7. absReq = opIn /\ absTodo = {opIn.bit} \cap GpnvmIdx
  BY <1>1, <1>2 DEF absReq, absTodo, CmdTookEffect
<1>8. CASE CompleteRejected
  <2>1. exec' = "failed" /\ UNCHANGED <<mem, gpnvm, frr>> /\ opIn.bit \notin GpnvmIdx
    BY <1>1, <1>6, <1>8 DEF CompleteRejected, Finish, FSR_FCMDE
  <2>2. RefSync'
    BY <2>1, CtrlSync
  <2>3. UNCHANGED absTodo
    BY <1>1, <1>2, <2>1 DEF absTodo, CmdTookEffect
  <2>. QED
    BY <1>1, <2>1, <2>2, <2>3 DEF Abs!avars
<1>9. CASE CompleteLocked \/ CompleteFlash
  BY <1>6, <1>9 DEF CompleteLocked, CompleteFlash
<1>10. CASE CompleteGpnvm
  <2>1. exec' = "ok" /\ opIn.bit \in GpnvmIdx /\ UNCHANGED mem
    BY <1>1, <1>6, <1>10 DEF CompleteGpnvm, Finish
  <2>2. gpnvm' = IF opIn.val # 0 THEN gpnvm \cup {opIn.bit} ELSE gpnvm \ {opIn.bit}
    BY <1>5, <1>10 DEF CompleteGpnvm, FCMD_SGPB, FCMD_CGPB, FCMD_GGPB
  <2>3. RefSync'
    BY <2>1, CtrlSync
  <2>4. absTodo' = {}
    BY <1>1, <1>2, <2>1 DEF absTodo, CmdTookEffect
  <2>5. Abs!SetBit
    BY <1>1, <1>2, <1>7, <2>1, <2>2, <2>4 DEF Abs!SetBit
  <2>. QED
    BY <2>3, <2>5 DEF Abs!Next, Abs!Progress
<1>. QED
  BY <1>8, <1>9, <1>10 DEF Controller

(* The controller finishing GGPB refreshes FRR, which FlashOps does not    *)
(* see; gpnvm_get prints it next.                                          *)
LEMMA CtrlGetStep ==
  ASSUME RefInv, RefHyp, Controller, caller = "get"
  PROVE  RefSync' /\ [Abs!Next]_Abs!avars
<1>1. /\ pc = "CmdPoll" /\ exec = "pending" /\ ccmd = IssuedWord /\ Active
      /\ ccmd' = NoWord /\ exec' \in {"ok", "failed"}
      /\ UNCHANGED <<pc, caller, elen, chunk, opIn, display, opRet, hret, absReq>>
  BY CtrlFacts
<1>2. ccmd = CmdWord(FCMD_GGPB, 0)
  BY <1>1 DEF IssuedWord
<1>3. WordCmd(ccmd) = FCMD_GGPB /\ WordArg(ccmd) = 0 /\ WordKey(ccmd) = FKEY \div 2^24
  <2>1. FCMD_GGPB \in 0 .. 255 /\ 0 \in 0 .. 2^16 - 1
    BY DEF FCMD_GGPB
  <2>2. /\ WordCmd(CmdWord(FCMD_GGPB, 0)) = FCMD_GGPB
        /\ WordArg(CmdWord(FCMD_GGPB, 0)) = 0
        /\ WordKey(CmdWord(FCMD_GGPB, 0)) = FKEY \div 2^24
    BY <2>1, WordFields, Zenon
  <2>. QED
    BY <1>2, <2>2, Zenon
<1>4. ValidCmd(ccmd) /\ Touched(ccmd) = {}
  BY <1>3 DEF ValidCmd, Touched, FCMD_GGPB, FCMD_EPA, FCMD_WP, FCMD_EWP
<1>5. CASE CompleteGpnvm
  <2>1. exec' = "ok" /\ frr' = gpnvm /\ UNCHANGED <<mem, gpnvm>>
    BY <1>1, <1>3, <1>5 DEF CompleteGpnvm, Finish, FCMD_GGPB, FCMD_SGPB, FCMD_CGPB
  <2>2. RefSync'
    BY <2>1, CtrlSync
  <2>3. absTodo = {} /\ absTodo' = {}
    BY <1>1 DEF absTodo, RefInv, RefSync
  <2>. QED
    BY <1>1, <2>1, <2>2, <2>3 DEF Abs!avars
<1>6. CASE CompleteRejected \/ CompleteLocked \/ CompleteFlash
  BY <1>4, <1>6 DEF CompleteRejected, CompleteLocked, CompleteFlash
<1>. QED
  BY <1>5, <1>6 DEF Controller

-----------------------------------------------------------------------------
(* sam3x_flash_write issuing WP / EWP changes nothing FlashOps sees.       *)
LEMMA WriteIssueStep ==
  ASSUME RefInv, RefHyp, WriteIssue
  PROVE  RefSync' /\ UNCHANGED Abs!avars
<1>1. /\ pc = "WriteIssue" /\ opIn.kind = "write" /\ chunk \in Pages
      /\ latch = "loaded" /\ chunk \in Nat
  BY DEF WriteIssue, RefInv, RefSync, CmdInv, TypeOK, HostTypeOK
<1>2. /\ ccmd' = CmdWord(WriteCmd, U16(chunk)) /\ exec' = "pending"
      /\ pc' = "CmdPoll" /\ caller' = "write"
  <2>1. U16(chunk) \in Nat /\ WriteCmd \in Nat
    BY <1>1 DEF U16, WriteCmd, FCMD_WP, FCMD_EWP
  <2>. QED
    BY <1>1, <2>1, IssueRef DEF WriteIssue, RefInv, RefHyp, Callers
<1>3. UNCHANGED <<elen, chunk, opIn, latch, mem, gpnvm, display, opRet, hret>>
  BY DEF WriteIssue
<1>4. UNCHANGED <<absReq, absTodo>>
  BY <1>1, <1>2, <1>3 DEF absReq, absTodo, CmdTookEffect
<1>5. RefSync'
  <2>1. ccmd' = IssuedWord'
    BY <1>2, <1>3 DEF IssuedWord
  <2>. QED
    BY <1>1, <1>2, <1>3, <2>1 DEF RefSync, Active
<1>. QED
  BY <1>3, <1>4, <1>5 DEF Abs!avars

(* sam3x_flash_write returning: FlashOps's return, 0 only after its page   *)
(* was programmed.                                                         *)
LEMMA WriteDoneStep ==
  ASSUME RefInv, RefHyp, WriteDone
  PROVE  RefSync' /\ [Abs!Next]_Abs!avars
<1>1. /\ pc = "CmdDone" /\ caller = "write" /\ opIn.kind = "write"
      /\ ccmd = NoWord /\ absReq = opIn
      /\ (exec = "ok" <=> cmdRet = 0)
  BY DEF WriteDone, RefInv, RefSync, Active, CmdInv, CmdSync, absReq
<1>2. cmdRet = 0 => absTodo = {}
  BY <1>1 DEF absTodo, CmdTookEffect
<1>3. /\ pc' = "Idle" /\ opRet' = IF cmdRet # 0 THEN -1 ELSE 0
      /\ UNCHANGED <<ccmd, mem, gpnvm, display, hret>>
  BY DEF WriteDone, devVars, histVars
<1>4. absReq' = Abs!NoReq /\ absTodo' = {}
  BY <1>3 DEF absReq, absTodo, Abs!NoReq
<1>5. RefSync'
  BY <1>1, <1>3 DEF RefSync, Active
<1>6. Abs!Return(0) \/ Abs!Return(-1)
  <2>1. CASE cmdRet = 0
    BY <1>1, <1>2, <1>3, <1>4, <2>1 DEF Abs!Return
  <2>2. CASE cmdRet # 0
    BY <1>1, <1>3, <1>4, <2>2 DEF Abs!Return
  <2>. QED
    BY <2>1, <2>2
<1>. QED
  BY <1>5, <1>6 DEF Abs!Next, Abs!Progress

(* gpnvm_get printing FRR: FlashOps shows the GPNVM state.                 *)
LEMMA GpnvmShowStep ==
  ASSUME RefInv, RefHyp, GpnvmShow
  PROVE  RefSync' /\ [Abs!Next]_Abs!avars
<1>1. /\ pc = "CmdDone" /\ caller = "get" /\ opIn.kind \in {"get", "set"}
      /\ ccmd = NoWord /\ frr = gpnvm /\ absReq = opIn /\ faults = 0
  BY DEF GpnvmShow, RefInv, RefSync, Active, CmdInv, CmdSync, TypeOK,
     LinkTypeOK, RefHyp, absReq
<1>2. /\ display' = gpnvm /\ hret' = TRUE /\ pc' = "Idle"
      /\ UNCHANGED <<ccmd, mem, gpnvm, opRet>>
  BY <1>1 DEF GpnvmShow, devVars, RefHyp
<1>3. absTodo = {} /\ absTodo' = {} /\ absReq' = Abs!NoReq
  BY <1>1, <1>2 DEF absTodo, absReq, Abs!NoReq
<1>4. Abs!Show
  BY <1>1, <1>2, <1>3 DEF Abs!Show
<1>5. RefSync'
  BY <1>1, <1>2 DEF RefSync, Active
<1>. QED
  BY <1>4, <1>5 DEF Abs!Next, Abs!Progress

(* gpnvm_set going on to gpnvm_get's GGPB changes nothing FlashOps sees.   *)
LEMMA GpnvmSetGetStep ==
  ASSUME RefInv, RefHyp, GpnvmSetGet
  PROVE  RefSync' /\ UNCHANGED Abs!avars
<1>1. /\ pc = "CmdDone" /\ caller = "set" /\ opIn.kind = "set"
      /\ ccmd = NoWord
      /\ exec # "ok" => opIn.bit \notin GpnvmIdx
  BY DEF GpnvmSetGet, RefInv, RefSync, Active, CmdInv, CmdSync
<1>2. /\ ccmd' = CmdWord(FCMD_GGPB, 0) /\ exec' = "pending"
      /\ pc' = "CmdPoll" /\ caller' = "get"
  BY <1>1, IssueRef DEF GpnvmSetGet, RefInv, RefHyp, FCMD_GGPB, Callers
<1>3. UNCHANGED <<elen, chunk, opIn, latch, mem, gpnvm, display, opRet, hret>>
  BY DEF GpnvmSetGet
<1>4. absTodo = {} /\ absTodo' = {}
  BY <1>1, <1>2, <1>3 DEF absTodo, CmdTookEffect
<1>5. UNCHANGED absReq
  BY <1>1, <1>2, <1>3 DEF absReq
<1>6. RefSync'
  <2>1. ccmd' = IssuedWord' /\ ccmd' # NoWord
    BY <1>2, CmdWordNotNoWord DEF IssuedWord, FCMD_GGPB
  <2>. QED
    BY <1>1, <1>2, <1>3, <2>1 DEF RefSync, Active
<1>. QED
  BY <1>3, <1>4, <1>5, <1>6 DEF Abs!avars

(* sam3_flash_erase: FlashOps's immediate successful return.               *)
LEMMA Sam3EraseStep ==
  ASSUME RefInv, NEW a, NEW l, Sam3Erase(a, l)
  PROVE  RefSync' /\ Abs!Instant
<1>1. pc = "Idle" /\ Family = "SAM3" /\ ccmd = NoWord
  BY IdleNoCmd DEF Sam3Erase, StartOp, RefInv
<1>2. pc' = "Idle" /\ opRet' = 0 /\ UNCHANGED <<ccmd, mem, gpnvm, display, hret>>
  BY <1>1 DEF Sam3Erase, devVars
<1>3. absReq = Abs!NoReq /\ absReq' = Abs!NoReq /\ absTodo = {} /\ absTodo' = {}
  BY <1>1, <1>2 DEF absReq, absTodo, Abs!NoReq
<1>. QED
  BY <1>1, <1>2, <1>3 DEF RefSync, Active, Abs!Instant

(* sam3x_flash_write called for a page of the region: FlashOps's request,  *)
(* whose unit is the page chunk names.                                     *)
LEMMA WriteStartStep ==
  ASSUME RefInv, RefHyp, NEW d \in WriteDests, NEW l, WriteStart(d, l)
  PROVE  RefSync' /\ Abs!Request
<1> USE PageSizeAssumption, FlashStartAssumption
<1>1. pc = "Idle" /\ ccmd = NoWord /\ absReq = Abs!NoReq /\ faults = 0
  BY IdleNoCmd DEF WriteStart, StartOp, RefInv, CmdInv, TypeOK, LinkTypeOK, RefHyp
<1>2. PICK p \in Pages : d = FlashStart + p * PageSize
  BY DEF WriteDests, BufSize
<1>3. p \in Nat
  BY DEF Pages
<1>4. (p * PageSize + 0) \div PageSize = p + 0 \div PageSize
  BY <1>3, DivShift
<1>5. /\ chunk' = p /\ pc' = "WriteIssue" /\ latch' = "loaded"
      /\ opIn' = [kind |-> "write", addr |-> d, len |-> l]
      /\ UNCHANGED <<ccmd, mem, gpnvm, display, opRet, hret>>
  <2>1. chunk' = (d - FlashStart) \div PageSize
    BY DEF WriteStart, BufSize
  <2>2. latch' = "loaded" /\ UNCHANGED <<ccmd, mem, gpnvm, display, opRet, hret>>
    BY <1>1 DEF WriteStart, RefHyp
  <2>3. pc' = "WriteIssue" /\ opIn' = [kind |-> "write", addr |-> d, len |-> l]
    BY DEF WriteStart, StartOp
  <2>4. d - FlashStart = p * PageSize + 0
    BY <1>2, <1>3
  <2>. QED
    BY <1>3, <1>4, <2>1, <2>2, <2>3, <2>4
<1>6. absReq' = opIn' /\ absTodo' = {p}
  BY <1>5 DEF absReq, absTodo
<1>7. Abs!Work(absReq') = {p}
  <2>1. Abs!Work(opIn') = {(opIn'.addr - FlashStart) \div PageSize}
    BY <1>5, WorkFacts, Zenon
  <2>2. (opIn'.addr - FlashStart) \div PageSize = p
    BY <1>2, <1>3, <1>4, <1>5
  <2>3. Abs!Work(opIn') = {p}
    BY <2>1, <2>2, Zenon
  <2>. QED
    BY <1>6, <2>3, Zenon
<1>8. RefSync'
  BY <1>1, <1>2, <1>5 DEF RefSync, Active
<1>. QED
  BY <1>1, <1>5, <1>6, <1>7, <1>8 DEF Abs!Request

(* gpnvm_get called: FlashOps's request, with no unit.                     *)
LEMMA GpnvmGetStep ==
  ASSUME RefInv, RefHyp, GpnvmGet
  PROVE  RefSync' /\ Abs!Request
<1>1. pc = "Idle" /\ ccmd = NoWord /\ absReq = Abs!NoReq
  BY IdleNoCmd DEF GpnvmGet, StartOp, RefInv
<1>2. /\ ccmd' = CmdWord(FCMD_GGPB, 0) /\ exec' = "pending"
      /\ pc' = "CmdPoll" /\ caller' = "get"
  BY <1>1, IssueRef DEF GpnvmGet, RefInv, RefHyp, FCMD_GGPB, Callers
<1>3. opIn' = [kind |-> "get"] /\ UNCHANGED <<mem, gpnvm, display, opRet, hret>>
  BY DEF GpnvmGet, StartOp
<1>4. absReq' = opIn' /\ absTodo' = {}
  BY <1>2, <1>3 DEF absReq, absTodo
<1>5. Abs!Work(absReq') = {}
  <2>1. Abs!Work(opIn') = {}
    BY <1>3, WorkFacts, Zenon
  <2>. QED
    BY <1>4, <2>1, Zenon
<1>6. RefSync'
  <2>1. ccmd' = IssuedWord' /\ ccmd' # NoWord
    BY <1>2, CmdWordNotNoWord DEF IssuedWord, FCMD_GGPB
  <2>. QED
    BY <1>2, <1>3, <2>1 DEF RefSync, Active
<1>. QED
  BY <1>1, <1>3, <1>4, <1>5, <1>6 DEF Abs!Request

(* gpnvm_set called: with argc # 3 FlashOps's immediate failure, with      *)
(* argc = 3 its request, whose unit is the bit if the device has it.       *)
LEMMA GpnvmSetStep ==
  ASSUME RefInv, RefHyp, NEW argc \in {2, 3}, NEW b \in GpnvmArgs,
         NEW v \in {0, 1}, GpnvmSet(argc, b, v)
  PROVE  RefSync' /\ (Abs!Request \/ Abs!Instant)
<1>1. pc = "Idle" /\ ccmd = NoWord /\ absReq = Abs!NoReq /\ absTodo = {}
  BY IdleNoCmd DEF GpnvmSet, StartOp, RefInv
<1>2. /\ opIn' = [kind |-> "set", argc |-> argc, bit |-> b, val |-> v]
      /\ UNCHANGED <<mem, gpnvm, display, opRet>>
  BY DEF GpnvmSet, StartOp
<1>3. CASE argc # 3
  <2>0. /\ hret' = FALSE
        /\ UNCHANGED <<pc, caller, ccmd, fsr, linkVars, exec>>
    BY <1>3, Zenon DEF GpnvmSet
  <2>1. pc' = "Idle" /\ hret' = FALSE /\ UNCHANGED ccmd
    BY <1>1, <2>0
  <2>2. absReq' = Abs!NoReq /\ absTodo' = {}
    BY <2>1 DEF absReq, absTodo, Abs!NoReq
  <2>. QED
    BY <1>1, <1>2, <2>1, <2>2 DEF RefSync, Active, Abs!Instant
<1>4. CASE argc = 3
  <2> DEFINE op == IF v # 0 THEN FCMD_SGPB ELSE FCMD_CGPB
  <2>1. U16(b) \in Nat /\ op \in Nat
    BY GpnvmAssumption DEF U16, FCMD_SGPB, FCMD_CGPB
  <2>2. IssueCmd(op, U16(b), "set") /\ UNCHANGED hret
    BY <1>4 DEF GpnvmSet
  <2>3. /\ ccmd' = CmdWord(op, U16(b)) /\ exec' = "pending"
        /\ pc' = "CmdPoll" /\ caller' = "set"
    BY <1>1, <2>1, <2>2, IssueRef DEF RefInv, RefHyp, Callers
  <2>4. absReq' = opIn' /\ absTodo' = {b} \cap GpnvmIdx
    BY <1>2, <2>3 DEF absReq, absTodo, CmdTookEffect
  <2>5. Abs!Work(absReq') = {b} \cap GpnvmIdx
    <3>1. Abs!Work(opIn') = {opIn'.bit} \cap GpnvmIdx
      BY <1>2, WorkFacts, Zenon
    <3>2. Abs!Work(opIn') = {b} \cap GpnvmIdx
      BY <1>2, <3>1
    <3>. QED
      BY <2>4, <3>2, Zenon
  <2>6. RefSync'
    <3>1. ccmd' = IssuedWord' /\ ccmd' # NoWord
      BY <1>2, <2>1, <2>3, CmdWordNotNoWord DEF IssuedWord
    <3>. QED
      BY <1>2, <1>4, <2>3, <3>1 DEF RefSync, Active
  <2>. QED
    BY <1>1, <1>2, <1>4, <2>2, <2>4, <2>5, <2>6 DEF Abs!Request
<1>. QED
  BY <1>3, <1>4

-----------------------------------------------------------------------------
(* Init establishes RefInv and maps to an initial state of FlashOps.       *)
LEMMA RefInit == Init => RefInv /\ Abs!Init
<1> SUFFICES ASSUME Init PROVE RefInv /\ Abs!Init
  OBVIOUS
<1>1. CmdInv
  BY SyncInit
<1>2. RefSync
  BY DEF Init, RefSync, Active, NoWord
<1>3. Abs!Init
  <2>1. mem \in [Pages -> Abs!PageStates] /\ gpnvm \in SUBSET GpnvmIdx
    BY DEF Init, Abs!PageStates
  <2>2. display = {} /\ absReq = Abs!NoReq /\ absTodo = {} /\ opRet = 0
    BY DEF Init, absReq, absTodo, Abs!NoReq
  <2>3. hret = TRUE
    BY DEF Init
  <2>. QED
    BY <2>1, <2>2, <2>3 DEF Abs!Init
<1>. QED
  BY <1>1, <1>2, <1>3 DEF RefInv

(* Every step of the driver, the controller and the link keeps RefInv and  *)
(* is a step of FlashOps or leaves what FlashOps sees unchanged.           *)
LEMMA RefStep ==
  ASSUME RefHyp
  PROVE  RefInv /\ [Next]_vars => RefInv' /\ [Abs!Next]_Abs!avars
<1> SUFFICES ASSUME RefInv, [Next]_vars PROVE RefInv' /\ [Abs!Next]_Abs!avars
  OBVIOUS
<1>1. CmdInv'
  BY SyncStep DEF RefInv, RefHyp
<1> SUFFICES RefSync' /\ [Abs!Next]_Abs!avars
  BY <1>1 DEF RefInv
<1>2. CASE Call
  <2>1. CASE \E a \in EraseAddrs : \E l \in EraseLens(a) : Sam4EraseStart(a, l)
    BY <2>1, EraseStartStep DEF Abs!Next
  <2>2. CASE \E a \in EraseAddrs : \E l \in EraseLens(a) : Sam3Erase(a, l)
    BY <2>2, Sam3EraseStep DEF Abs!Next
  <2>3. CASE \E d \in WriteDests : \E l \in 1 .. BufSize : WriteStart(d, l)
    BY <2>3, WriteStartStep DEF Abs!Next
  <2>4. CASE GpnvmGet
    BY <2>4, GpnvmGetStep DEF Abs!Next
  <2>5. CASE \E argc \in {2, 3}, b \in GpnvmArgs, v \in {0, 1} : GpnvmSet(argc, b, v)
    BY <2>5, GpnvmSetStep DEF Abs!Next
  <2>. QED
    BY <1>2, <2>1, <2>2, <2>3, <2>4, <2>5 DEF Call
<1>3. CASE Controller
  <2>1. caller \in {"erase", "write", "set", "get"}
    BY <1>3, CtrlFacts
  <2>. QED
    BY <1>3, <2>1, CtrlEraseStep, CtrlWriteStep, CtrlSetStep, CtrlGetStep
<1>4. CASE Sam4EraseLoop
  BY <1>4, EraseLoopStep
<1>5. CASE Sam4EraseNext
  BY <1>5, EraseNextStep
<1>6. CASE WriteIssue
  BY <1>6, WriteIssueStep
<1>7. CASE WriteDone
  BY <1>7, WriteDoneStep
<1>8. CASE CmdPoll \/ CmdFinal
  BY <1>8, PollStep
<1>9. CASE GpnvmShow
  BY <1>9, GpnvmShowStep
<1>10. CASE GpnvmSetGet
  BY <1>10, GpnvmSetGetStep
<1>11. CASE Quiescent \/ UNCHANGED vars
  <2>1. UNCHANGED vars
    BY <1>11 DEF Quiescent
  <2>2. UNCHANGED <<absReq, absTodo>>
    BY <2>1 DEF vars, hostVars, devVars, histVars, absReq, absTodo,
       CmdTookEffect
  <2>3. RefSync'
    BY <2>1 DEF vars, hostVars, devVars, linkVars, histVars, RefInv, RefSync,
       Active, EraseBlocksLeft, IssuedWord
  <2>. QED
    BY <2>1, <2>2, <2>3 DEF vars, hostVars, devVars, histVars, Abs!avars
<1>. QED
  BY <1>2, <1>3, <1>4, <1>5, <1>6, <1>7, <1>8, <1>9, <1>10, <1>11
  DEF Next, HostStep

(* On a reliable link with sticky error bits, for block-aligned erases and *)
(* a region and GPNVM arguments that fit sam3x_flash_cmd's uint16_t `arg`, *)
(* every reachable state satisfies RefInv: the erase loop walks whole      *)
(* blocks of the region, the pending EEFC_FCR word is the one its caller   *)
(* (erase, write, gpnvm_get or gpnvm_set) built, and gpnvm_get prints an   *)
(* FRR that GGPB refreshed.                                                *)
THEOREM RefInvariant ==
  ASSUME RefHyp
  PROVE  Spec => []RefInv
<1>1. RefInv /\ [Next]_vars => RefInv'
  BY RefStep
<1>. QED
  BY <1>1, RefInit, PTL DEF Spec

(* Under the same hypotheses, every behaviour of the driver with the       *)
(* controller is a behaviour of FlashOps (its safety part): erase, write   *)
(* and gpnvm_set take effect in their units, succeed only after all of     *)
(* them, and the GPNVM console prints the controller's state.              *)
THEOREM Refinement ==
  ASSUME RefHyp
  PROVE  Spec => Abs!Init /\ [][Abs!Next]_Abs!avars
<1>1. RefInv /\ [Next]_vars => RefInv' /\ [Abs!Next]_Abs!avars
  BY RefStep
<1>. QED
  BY <1>1, RefInit, PTL DEF Spec

=============================================================================
