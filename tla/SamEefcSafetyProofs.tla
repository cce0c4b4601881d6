------------------------- MODULE SamEefcSafetyProofs -------------------------
(***************************************************************************)
(* Proofs of the end-of-operation properties of SamEefc, under the         *)
(* hypotheses of the refinement (RefHyp): when sam4_flash_erase returns 0  *)
(* exactly the blocks of the request are erased (EraseExact), when         *)
(* sam3x_flash_write returns 0 its page holds what the family's protocol   *)
(* gives (WriteLands), the GPNVM console prints the controller's bits      *)
(* (GpnvmShown), and gpnvm_set changes its bit only (GpnvmSetNamedBit).    *)
(* The inductive invariant is SafeInv == RefInv /\ OpSync of               *)
(* SamEefcFlashOps: OpSync says what the running operation has done to     *)
(* the flash and the GPNVM bits so far, relative to the snapshot `prev`.   *)
(***************************************************************************)
EXTENDS SamEefcRefinement

(* The four properties of a finished operation.                            *)
DoneProps == EraseExact /\ WriteLands /\ GpnvmShown /\ GpnvmSetNamedBit

(* While an operation runs the four properties hold vacuously.             *)
LEMMA BusyDone ==
  ASSUME pc' # "Idle"
  PROVE  DoneProps'
  BY DEF DoneProps, EraseExact, WriteLands, GpnvmShown, GpnvmSetNamedBit

(* Once the host is idle the three progress conjuncts hold vacuously.      *)
LEMMA IdleSync ==
  ASSUME pc' = "Idle"
  PROVE  (EraseSync /\ WriteSync /\ SetSync)'
  BY DEF EraseSync, WriteSync, SetSync, Active

(* Init establishes OpSync: no operation has been called.                  *)
LEMMA SafeInit == Init => OpSync
<1> SUFFICES ASSUME Init PROVE OpSync
  OBVIOUS
<1>1. EraseSync /\ WriteSync /\ SetSync
  BY DEF Init, EraseSync, WriteSync, SetSync, Active
<1>2. DoneProps
  BY DEF Init, DoneProps, EraseExact, WriteLands, GpnvmShown, GpnvmSetNamedBit
<1>. QED
  BY <1>1, <1>2 DEF OpSync, DoneProps

-----------------------------------------------------------------------------
(* sam4_flash_erase starting: no block is erased yet, and chunk + len      *)
(* reaches the last block of the request.                                  *)
LEMMA SafeEraseStart ==
  ASSUME RefInv, RefHyp, NEW a \in EraseAddrs, NEW l \in EraseLens(a),
         Sam4EraseStart(a, l)
  PROVE  OpSync'
<1> USE PageSizeAssumption, FlashStartAssumption, NBlocksAssumption
<1>1. Family = "SAM4" /\ PagesPerBlock = 8 /\ BlockSize = PageSize * 8
      /\ BlockSize \in Nat \ {0} /\ PageSize \in Nat \ {0}
  BY Geometry DEF Sam4EraseStart
<1>2. PICK k \in 0 .. NBlocks - 1 : a = FlashStart + k * BlockSize
  BY DEF RefHyp, EraseAddrs
<1>3. /\ opIn' = [kind |-> "erase", addr |-> a, len |-> l] /\ pc' = "EraseLoop"
      /\ prev' = [mem |-> mem, gpnvm |-> gpnvm] /\ UNCHANGED mem
      /\ elen' = l /\ chunk' = (a - FlashStart) \div PageSize
  BY DEF Sam4EraseStart, StartOp, devVars
<1>4. l \in Nat /\ l >= 1
  BY <1>2 DEF EraseLens
<1>5. chunk' \div PagesPerBlock = k
  <2>1. ((k * 8) * PageSize + 0) \div PageSize = k * 8 + 0 \div PageSize
    BY <1>1, DivShift
  <2>2. chunk' = k * 8
    BY <1>1, <1>2, <1>3, <2>1
  <2>. QED
    BY <1>1, <2>2
<1>6. EraseLo' = k
  <2>1. (k * BlockSize + 0) \div BlockSize = k + 0 \div BlockSize
    BY <1>1, DivShift
  <2>. QED
    BY <1>1, <1>2, <1>3, <2>1 DEF EraseLo
<1>7. EraseHi' = k + (l - 1) \div BlockSize
  <2>1. (k * BlockSize + (l - 1)) \div BlockSize = k + (l - 1) \div BlockSize
    BY <1>1, <1>4, DivShift
  <2>. QED
    BY <1>1, <1>2, <1>3, <2>1 DEF EraseHi
<1>8. EraseBlocksLeft' = 1 + (l - 1) \div BlockSize
  <2>0. l \in Nat /\ l > 0
    BY <1>4
  <2>1. (l + BlockSize - 1) \div BlockSize = 1 + (l - 1) \div BlockSize
    BY <1>1, <2>0, CeilFacts, Zenon
  <2>. QED
    BY <1>3, <2>1 DEF EraseBlocksLeft
<1>9. BlocksErased' = {}
  BY <1>3, <1>5, <1>6 DEF BlocksErased, CmdTookEffect
<1>10. mem' = MemAfterBlocks({})'
  <2>1. mem \in [Pages -> PageStates]
    BY DEF RefInv, CmdInv, TypeOK, DevTypeOK
  <2>. QED
    BY <1>3, <2>1 DEF MemAfterBlocks
<1>11. EraseSync'
  <2>1. EraseLo' \in 0 .. chunk' \div PagesPerBlock
    BY <1>2, <1>5, <1>6
  <2>0. (l - 1) \div BlockSize \in Nat /\ k \in Nat
    BY <1>1, <1>2, <1>4
  <2>2. EraseHi' = chunk' \div PagesPerBlock + EraseBlocksLeft' - 1
    BY <2>0, <1>5, <1>7, <1>8
  <2>3. mem' = MemAfterBlocks(BlocksErased)'
    BY <1>9, <1>10
  <2>. QED
    BY <2>1, <2>2, <2>3 DEF EraseSync
<1>12. WriteSync' /\ SetSync'
  BY <1>3 DEF WriteSync, SetSync, Active
<1>. QED
  BY <1>3, <1>11, <1>12, BusyDone DEF OpSync, DoneProps

(* sam3_flash_erase returns 0 at once and changes nothing: for SAM3 the    *)
(* request erases no page.                                                 *)
LEMMA SafeSam3Erase ==
  ASSUME RefInv, NEW a, NEW l, Sam3Erase(a, l)
  PROVE  OpSync'
<1>1. /\ Family = "SAM3" /\ pc' = "Idle" /\ opIn'.kind = "erase"
      /\ prev'.mem = mem /\ UNCHANGED mem
  BY DEF Sam3Erase, StartOp, devVars
<1>2. mem \in [Pages -> PageStates]
  BY DEF RefInv, CmdInv, TypeOK, DevTypeOK
<1>3. EraseExact'
  BY <1>1, <1>2 DEF EraseExact, ErasedPages
<1>4. (WriteLands /\ GpnvmShown /\ GpnvmSetNamedBit)'
  BY <1>1 DEF WriteLands, GpnvmShown, GpnvmSetNamedBit
<1>. QED
  BY <1>1, <1>3, <1>4, IdleSync DEF OpSync, DoneProps

(* sam3x_flash_write starting: chunk is the page of dest, nothing written. *)
LEMMA SafeWriteStart ==
  ASSUME RefInv, NEW d, NEW l, WriteStart(d, l)
  PROVE  OpSync'
<1>1. /\ opIn' = [kind |-> "write", addr |-> d, len |-> l] /\ pc' = "WriteIssue"
      /\ prev' = [mem |-> mem, gpnvm |-> gpnvm] /\ UNCHANGED mem
      /\ chunk' = (d - FlashStart) \div BufSize
  BY DEF WriteStart, StartOp
<1>2. WriteSync'
  BY <1>1 DEF WriteSync, WriteTarget, CmdTookEffect
<1>3. EraseSync' /\ SetSync'
  BY <1>1 DEF EraseSync, SetSync, Active
<1>. QED
  BY <1>1, <1>2, <1>3, BusyDone DEF OpSync, DoneProps

(* sam3x_cmd_gpnvm_get issuing GGPB.                                       *)
LEMMA SafeGpnvmGet ==
  ASSUME GpnvmGet
  PROVE  OpSync'
<1>1. pc' = "CmdPoll" /\ caller' = "get" /\ opIn'.kind = "get"
  BY DEF GpnvmGet, StartOp, IssueCmd
<1>2. EraseSync' /\ WriteSync' /\ SetSync'
  BY <1>1 DEF EraseSync, WriteSync, SetSync, Active
<1>. QED
  BY <1>1, <1>2, BusyDone DEF OpSync, DoneProps

(* sam3x_cmd_gpnvm_set: with argc != 3 it returns false at once; else it   *)
(* issues SGPB / CGPB, and no GPNVM bit has changed yet.                   *)
LEMMA SafeGpnvmSet ==
  ASSUME RefInv, RefHyp, NEW argc \in {2, 3}, NEW b \in GpnvmArgs,
         NEW v \in {0, 1}, GpnvmSet(argc, b, v)
  PROVE  OpSync'
<1>1. opIn' = [kind |-> "set", argc |-> argc, bit |-> b, val |-> v]
      /\ prev' = [mem |-> mem, gpnvm |-> gpnvm] /\ UNCHANGED gpnvm
  BY DEF GpnvmSet, StartOp
<1>2. CASE argc # 3
  <2>1. pc' = "Idle" /\ hret' = FALSE /\ pc = "Idle"
    BY <1>2, Zenon DEF GpnvmSet, StartOp
  <2>2. DoneProps'
    BY <1>1, <2>1 DEF DoneProps, EraseExact, WriteLands, GpnvmShown,
       GpnvmSetNamedBit
  <2>. QED
    BY <2>1, <2>2, IdleSync DEF OpSync, DoneProps
<1>3. CASE argc = 3
  <2> DEFINE op == IF v # 0 THEN FCMD_SGPB ELSE FCMD_CGPB
  <2>1. U16(b) \in Nat /\ op \in Nat
    BY GpnvmAssumption DEF U16, FCMD_SGPB, FCMD_CGPB
  <2>2. IssueCmd(op, U16(b), "set") /\ pc = "Idle"
    BY <1>3 DEF GpnvmSet, StartOp
  <2>3. ccmd' = CmdWord(op, U16(b)) /\ pc' = "CmdPoll" /\ caller' = "set"
    BY <2>1, <2>2, IssueRef DEF RefInv, RefHyp, Callers
  <2>4. ccmd' # NoWord
    BY <2>1, <2>3, CmdWordNotNoWord
  <2>5. SetSync'
    BY <1>1, <2>3, <2>4 DEF SetSync
  <2>6. EraseSync' /\ WriteSync'
    BY <2>3 DEF EraseSync, WriteSync, Active
  <2>. QED
    BY <2>3, <2>5, <2>6, BusyDone DEF OpSync, DoneProps
<1>. QED
  BY <1>2, <1>3

-----------------------------------------------------------------------------
(* A step inside sam3x_flash_cmd that moves only pc, cmdRet, fsr and the   *)
(* link keeps what the operation has done.                                 *)
LEMMA SafeInCmd ==
  ASSUME OpSync, Active, Active',
         UNCHANGED <<caller, elen, chunk, ccmd, exec, mem, gpnvm, prev, opIn>>
  PROVE  OpSync'
<1>1. pc # "Idle" /\ pc' # "Idle" /\ pc # "EraseLoop" /\ pc' # "EraseLoop"
      /\ pc # "WriteIssue" /\ pc' # "WriteIssue"
  BY DEF Active
<1>2. CmdTookEffect' = CmdTookEffect
  BY DEF CmdTookEffect, Active
<1>3. (EraseSync /\ WriteSync /\ SetSync)'
  BY <1>1, <1>2 DEF OpSync, EraseSync, WriteSync, SetSync, EraseLo, EraseHi,
     BlocksErased, MemAfterBlocks, EraseBlocksLeft, WriteTarget, MemAfterWrite
<1>. QED
  BY <1>1, <1>3, BusyDone DEF OpSync, DoneProps

(* The poll of FSR and the final read (sam3x.c lines 452-457).             *)
LEMMA SafePoll ==
  ASSUME OpSync, CmdPoll \/ CmdFinal
  PROVE  OpSync'
<1>1. CASE CmdPoll
  <2>1. pc' \in {"CmdFinal", "CmdDone", "CmdPoll"}
    BY <1>1 DEF CmdPoll
  <2>. QED
    BY <1>1, <2>1, SafeInCmd DEF CmdPoll, Active, histVars
<1>2. CASE CmdFinal
  BY <1>2, SafeInCmd DEF CmdFinal, Active, histVars
<1>. QED
  BY <1>1, <1>2

(* The erase loop's test of len (sam4_flash_erase lines 489-492, 500): at  *)
(* len = 0 chunk has passed the last block, so every block of the request  *)
(* is erased when 0 is returned; otherwise EPA is issued for chunk.        *)
LEMMA SafeEraseLoop ==
  ASSUME RefInv, OpSync, RefHyp, Sam4EraseLoop
  PROVE  OpSync'
<1> USE PageSizeAssumption, FlashStartAssumption, NBlocksAssumption
<1>1. /\ pc = "EraseLoop" /\ opIn.kind = "erase" /\ Family = "SAM4"
      /\ elen \in Nat /\ BlockSize \in Nat \ {0} /\ CmdInv /\ MaxFaults = 0
      /\ chunk \in Nat /\ PagesPerBlock = 8
      /\ EraseLo \in 0 .. chunk \div PagesPerBlock
      /\ EraseHi = chunk \div PagesPerBlock + EraseBlocksLeft - 1
      /\ mem = MemAfterBlocks(EraseLo .. chunk \div PagesPerBlock - 1)
  BY Geometry DEF Sam4EraseLoop, RefInv, RefSync, OpSync, EraseSync, CmdInv,
     TypeOK, HostTypeOK, BlocksErased, CmdTookEffect, RefHyp
<1>2. UNCHANGED <<elen, chunk, mem, gpnvm, prev, opIn>>
  BY DEF Sam4EraseLoop
<1>3. CASE elen = 0
  <2>1. pc' = "Idle" /\ opRet' = 0
    BY <1>3 DEF Sam4EraseLoop
  <2>2. EraseBlocksLeft = 0
    BY <1>1, <1>3, CeilFacts, Zenon DEF EraseBlocksLeft
  <2>3. mem = MemAfterBlocks(EraseLo .. EraseHi)
    <3>1. chunk \div PagesPerBlock - 1 = EraseHi
      BY <1>1, <2>2
    <3>. QED
      BY <1>1, <3>1
  <2>4. ErasedPages(opIn) = {p \in Pages : p \div PagesPerBlock \in EraseLo .. EraseHi}
    BY <1>1 DEF ErasedPages, EraseLo, EraseHi
  <2>5. EraseExact'
    BY <1>1, <1>2, <2>1, <2>3, <2>4 DEF EraseExact, MemAfterBlocks
  <2>6. (WriteLands /\ GpnvmShown /\ GpnvmSetNamedBit)'
    BY <1>1, <1>2 DEF WriteLands, GpnvmShown, GpnvmSetNamedBit
  <2>. QED
    BY <2>1, <2>5, <2>6, IdleSync DEF OpSync, DoneProps
<1>4. CASE elen > 0
  <2>1. IssueCmd(FCMD_EPA, U16(OrOne(chunk)), "erase")
    BY <1>4 DEF Sam4EraseLoop
  <2>2. U16(OrOne(chunk)) \in Nat
    BY <1>1 DEF U16, OrOne
  <2>3. pc' = "CmdPoll" /\ caller' = "erase" /\ exec' = "pending"
    BY <1>1, <2>1, <2>2, IssueRef DEF FCMD_EPA, Callers
  <2>4. BlocksErased' = EraseLo .. chunk \div PagesPerBlock - 1
    BY <1>2, <2>3 DEF BlocksErased, CmdTookEffect, EraseLo
  <2>5. EraseSync'
    BY <1>1, <1>2, <2>4 DEF EraseSync, EraseLo, EraseHi, EraseBlocksLeft,
       MemAfterBlocks
  <2>6. WriteSync' /\ SetSync'
    BY <1>1, <1>2, <2>3 DEF WriteSync, SetSync, Active
  <2>. QED
    BY <2>3, <2>5, <2>6, BusyDone DEF OpSync, DoneProps
<1>. QED
  BY <1>1, <1>3, <1>4

(* sam4_flash_erase after EPA (lines 491-498): a failure returns -1; after *)
(* a success chunk moves to the next block and one block less is left, so  *)
(* the erased blocks are still the ones below chunk.                       *)
LEMMA SafeEraseNext ==
  ASSUME RefInv, OpSync, RefHyp, Sam4EraseNext
  PROVE  OpSync'
<1> USE PageSizeAssumption, FlashStartAssumption, NBlocksAssumption
<1>1. /\ pc = "CmdDone" /\ caller = "erase" /\ opIn.kind = "erase"
      /\ Family = "SAM4" /\ PagesPerBlock = 8
      /\ elen \in Nat /\ elen > 0 /\ chunk \in Nat /\ BlockSize \in Nat \ {0}
      /\ (exec = "ok" <=> cmdRet = 0)
      /\ EraseLo \in 0 .. chunk \div 8
      /\ EraseHi = chunk \div 8 + EraseBlocksLeft - 1
      /\ mem = MemAfterBlocks(BlocksErased)
  BY Geometry DEF Sam4EraseNext, RefInv, RefSync, Active, CmdInv, CmdSync,
     TypeOK, HostTypeOK, OpSync, EraseSync
<1>2. UNCHANGED <<mem, gpnvm, prev, opIn, exec>>
  BY DEF Sam4EraseNext, devVars, histVars
<1>3. CASE cmdRet # 0
  <2>1. pc' = "Idle" /\ opRet' = -1
    BY <1>3 DEF Sam4EraseNext
  <2>2. DoneProps'
    BY <1>1, <1>2, <2>1 DEF DoneProps, EraseExact, WriteLands, GpnvmShown,
       GpnvmSetNamedBit
  <2>. QED
    BY <2>1, <2>2, IdleSync DEF OpSync, DoneProps
<1>4. CASE cmdRet = 0
  <2>1. /\ pc' = "EraseLoop" /\ chunk' = chunk + 8
        /\ elen' = IF elen > BlockSize THEN elen - BlockSize ELSE 0
    BY <1>4 DEF Sam4EraseNext
  <2>2. EraseBlocksLeft' = EraseBlocksLeft - 1
    <3>1. CASE elen > BlockSize
      <4>1. ((elen - BlockSize) + BlockSize - 1) \div BlockSize
              = (elen + BlockSize - 1) \div BlockSize - 1
        BY <1>1, <3>1, CeilFacts, Zenon
      <4>. QED
        BY <2>1, <3>1, <4>1 DEF EraseBlocksLeft
    <3>2. CASE ~(elen > BlockSize)
      <4>1. (elen + BlockSize - 1) \div BlockSize = 1
        <5>1. elen > 0 /\ elen <= BlockSize
          BY <1>1, <3>2
        <5>. QED
          BY <1>1, <5>1, CeilFacts, Zenon
      <4>2. (0 + BlockSize - 1) \div BlockSize = 0
        BY <1>1, CeilFacts, Zenon
      <4>. QED
        BY <1>1, <2>1, <3>2, <4>1, <4>2 DEF EraseBlocksLeft
    <3>. QED
      BY <3>1, <3>2
  <2>3. EraseBlocksLeft \in Nat /\ (chunk + 8) \div 8 = chunk \div 8 + 1
    BY <1>1 DEF EraseBlocksLeft
  <2>4. BlocksErased = EraseLo .. chunk \div 8
    BY <1>1, <1>4 DEF BlocksErased, CmdTookEffect
  <2>5. BlocksErased' = EraseLo .. chunk \div 8
    BY <1>1, <1>2, <2>1, <2>3 DEF BlocksErased, CmdTookEffect, EraseLo
  <2>6. EraseSync'
    BY <1>1, <1>2, <2>1, <2>2, <2>3, <2>4, <2>5 DEF EraseSync, EraseLo, EraseHi,
       MemAfterBlocks
  <2>7. WriteSync' /\ SetSync'
    BY <1>1, <1>2, <2>1 DEF WriteSync, SetSync, Active, Sam4EraseNext
  <2>. QED
    BY <2>1, <2>6, <2>7, BusyDone DEF OpSync, DoneProps
<1>. QED
  BY <1>3, <1>4

(* sam3x_flash_write issuing WP / EWP (line 521): the page is unchanged.   *)
LEMMA SafeWriteIssue ==
  ASSUME RefInv, OpSync, RefHyp, WriteIssue
  PROVE  OpSync'
<1>1. /\ pc = "WriteIssue" /\ opIn.kind = "write" /\ chunk \in Nat
      /\ chunk = WriteTarget /\ mem = prev.mem /\ CmdInv /\ MaxFaults = 0
  BY DEF WriteIssue, RefInv, RefSync, OpSync, WriteSync, CmdTookEffect, RefHyp,
     Pages
<1>2. UNCHANGED <<chunk, mem, gpnvm, prev, opIn>>
  BY DEF WriteIssue
<1>3. pc' = "CmdPoll" /\ caller' = "write" /\ exec' = "pending"
  <2>1. WriteCmd \in Nat /\ U16(chunk) \in Nat
    BY <1>1 DEF WriteCmd, FCMD_WP, FCMD_EWP, U16
  <2>. QED
    BY <1>1, <2>1, IssueRef DEF WriteIssue, Callers
<1>4. WriteSync'
  BY <1>1, <1>2, <1>3 DEF WriteSync, CmdTookEffect, WriteTarget, MemAfterWrite
<1>5. EraseSync' /\ SetSync'
  BY <1>1, <1>2, <1>3 DEF EraseSync, SetSync, Active
<1>. QED
  BY <1>3, <1>4, <1>5, BusyDone DEF OpSync, DoneProps

(* sam3x_flash_write returning (lines 521-524): 0 only after WP / EWP ran, *)
(* so the page holds what the family's protocol gives.                     *)
LEMMA SafeWriteDone ==
  ASSUME RefInv, OpSync, WriteDone
  PROVE  OpSync'
<1>1. /\ pc = "CmdDone" /\ caller = "write" /\ opIn.kind = "write"
      /\ (exec = "ok" <=> cmdRet = 0)
      /\ mem = IF CmdTookEffect THEN MemAfterWrite ELSE prev.mem
  BY DEF WriteDone, RefInv, RefSync, Active, CmdInv, CmdSync, OpSync, WriteSync
<1>2. /\ pc' = "Idle" /\ opRet' = IF cmdRet # 0 THEN -1 ELSE 0
      /\ UNCHANGED <<mem, gpnvm, prev, opIn, hret, display>>
  BY DEF WriteDone, devVars, histVars
<1>3. WriteLands'
  <2>1. CASE cmdRet = 0
    <3>1. mem = MemAfterWrite
      BY <1>1, <2>1 DEF CmdTookEffect
    <3>. QED
      BY <1>2, <3>1 DEF WriteLands, MemAfterWrite, WriteTarget, BufSize
  <2>2. CASE cmdRet # 0
    BY <1>2, <2>2 DEF WriteLands
  <2>. QED
    BY <2>1, <2>2
<1>4. (EraseExact /\ GpnvmShown /\ GpnvmSetNamedBit)'
  BY <1>1, <1>2 DEF EraseExact, GpnvmShown, GpnvmSetNamedBit
<1>. QED
  BY <1>2, <1>3, <1>4, IdleSync DEF OpSync, DoneProps

(* sam3x_cmd_gpnvm_get printing EEFC_FRR (lines 534-536): on a reliable    *)
(* link the printed value is FRR, which GGPB refreshed from the GPNVM      *)
(* bits; after gpnvm_set, the bits are the ones SGPB / CGPB left.          *)
LEMMA SafeGpnvmShow ==
  ASSUME RefInv, OpSync, RefHyp, GpnvmShow
  PROVE  OpSync'
<1>1. /\ pc = "CmdDone" /\ caller = "get" /\ opIn.kind \in {"get", "set"}
      /\ ccmd = NoWord /\ frr = gpnvm /\ faults = 0 /\ MaxFaults = 0
  BY DEF GpnvmShow, RefInv, RefSync, Active, CmdInv, CmdSync, TypeOK,
     LinkTypeOK, RefHyp
<1>2. /\ pc' = "Idle" /\ hret' = TRUE /\ display' = frr
      /\ UNCHANGED <<mem, gpnvm, prev, opIn>>
  BY <1>1 DEF GpnvmShow, devVars
<1>3. GpnvmShown'
  BY <1>1, <1>2 DEF GpnvmShown
<1>4. GpnvmSetNamedBit'
  BY <1>1, <1>2 DEF GpnvmSetNamedBit, OpSync, SetSync
<1>5. (EraseExact /\ WriteLands)'
  BY <1>1, <1>2 DEF EraseExact, WriteLands
<1>. QED
  BY <1>2, <1>3, <1>4, <1>5, IdleSync DEF OpSync, DoneProps

(* sam3x_cmd_gpnvm_set calling sam3x_cmd_gpnvm_get (line 552): GGPB is     *)
(* issued after SGPB / CGPB finished.                                      *)
LEMMA SafeGpnvmSetGet ==
  ASSUME RefInv, OpSync, RefHyp, GpnvmSetGet
  PROVE  OpSync'
<1>1. /\ pc = "CmdDone" /\ caller = "set" /\ opIn.kind = "set" /\ ccmd = NoWord
      /\ CmdInv /\ MaxFaults = 0
  BY DEF GpnvmSetGet, RefInv, RefSync, Active, CmdInv, CmdSync, RefHyp
<1>2. UNCHANGED <<mem, gpnvm, prev, opIn>>
  BY DEF GpnvmSetGet
<1>3. pc' = "CmdPoll" /\ caller' = "get"
  BY <1>1, IssueRef DEF GpnvmSetGet, FCMD_GGPB, Callers
<1>4. SetSync'
  BY <1>1, <1>2, <1>3 DEF OpSync, SetSync
<1>5. EraseSync' /\ WriteSync'
  BY <1>3 DEF EraseSync, WriteSync, Active
<1>. QED
  BY <1>3, <1>4, <1>5, BusyDone DEF OpSync, DoneProps

-----------------------------------------------------------------------------
(* What every command completion keeps: the host's state, the snapshot,   *)
(* and pc = "CmdPoll", so the end-of-operation properties hold vacuously.  *)
LEMMA CtrlKeeps ==
  ASSUME RefInv, Controller
  PROVE  /\ pc = "CmdPoll" /\ pc' = "CmdPoll" /\ exec = "pending"
         /\ exec' \in {"ok", "failed"} /\ ccmd = IssuedWord
         /\ UNCHANGED <<caller, elen, chunk, opIn, prev>>
         /\ DoneProps'
<1>1. /\ pc = "CmdPoll" /\ exec = "pending" /\ ccmd = IssuedWord
      /\ exec' \in {"ok", "failed"}
      /\ UNCHANGED <<pc, caller, elen, chunk, opIn>>
  BY CtrlFacts
<1>2. UNCHANGED prev
  BY DEF Controller, CompleteRejected, CompleteLocked, CompleteFlash, CompleteGpnvm
<1>. QED
  BY <1>1, <1>2, BusyDone

(* The EEFC finishing EPA: a success erases block chunk / 8 and extends    *)
(* the erased run below chunk by that block; a locked block changes        *)
(* nothing.                                                                *)
LEMMA SafeCtrlErase ==
  ASSUME RefInv, OpSync, RefHyp, Controller, caller = "erase"
  PROVE  OpSync'
<1>1. /\ pc = "CmdPoll" /\ pc' = "CmdPoll" /\ exec = "pending"
      /\ exec' \in {"ok", "failed"} /\ ccmd = IssuedWord
      /\ UNCHANGED <<caller, elen, chunk, opIn, prev>>
      /\ DoneProps'
  BY CtrlKeeps
<1>2. /\ WordCmd(ccmd) = FCMD_EPA /\ WordArg(ccmd) = chunk + 1 /\ ValidCmd(ccmd)
      /\ Touched(ccmd) = chunk .. chunk + 7
      /\ PagesPerBlock = 8 /\ chunk \in Nat /\ chunk % 8 = 0
  BY <1>1, EpaWord DEF Active
<1>3. /\ opIn.kind = "erase"
      /\ EraseLo \in 0 .. chunk \div 8
      /\ EraseHi = chunk \div 8 + EraseBlocksLeft - 1
      /\ mem = MemAfterBlocks(EraseLo .. chunk \div 8 - 1)
  BY <1>1, <1>2 DEF RefInv, RefSync, OpSync, EraseSync, Active, BlocksErased,
     CmdTookEffect
<1>4. /\ EraseLo' = EraseLo /\ EraseHi' = EraseHi
      /\ EraseBlocksLeft' = EraseBlocksLeft
  BY <1>1 DEF EraseLo, EraseHi, EraseBlocksLeft
<1>5. (WriteSync /\ SetSync)'
  BY <1>1, <1>3 DEF WriteSync, SetSync
<1>6. CASE CompleteRejected
  BY <1>2, <1>6 DEF CompleteRejected
<1>7. CASE CompleteLocked
  <2>1. exec' = "failed" /\ UNCHANGED mem
    BY <1>1, <1>7 DEF CompleteLocked, Finish, FSR_FLOCKE
  <2>2. EraseSync'
    BY <1>1, <1>2, <1>3, <1>4, <2>1 DEF EraseSync, BlocksErased, CmdTookEffect,
       MemAfterBlocks
  <2>. QED
    BY <1>1, <1>5, <2>2 DEF OpSync, DoneProps
<1>8. CASE CompleteFlash
  <2>1. /\ mem' = [p \in Pages |-> IF p \in chunk .. chunk + 7 THEN "erased" ELSE mem[p]]
        /\ exec' = "ok"
    BY <1>1, <1>2, <1>8, EpaBlock DEF CompleteFlash, Finish, FCMD_EPA, FCMD_WP,
       FCMD_EWP
  <2>2. \A p \in Pages : p \in chunk .. chunk + 7 <=> p \div 8 = chunk \div 8
    BY <1>2, EpaBlock DEF Pages
  <2>3. \A p \in Pages : p \div 8 \in EraseLo .. chunk \div 8 <=>
                           p \div 8 = chunk \div 8 \/ p \div 8 \in EraseLo .. chunk \div 8 - 1
    BY <1>2, <1>3 DEF Pages
  <2>4. mem' = MemAfterBlocks(EraseLo .. chunk \div 8)
    BY <1>2, <1>3, <2>1, <2>2, <2>3 DEF MemAfterBlocks
  <2>5. BlocksErased' = EraseLo .. chunk \div 8
    BY <1>1, <1>2, <1>4, <2>1 DEF BlocksErased, CmdTookEffect
  <2>6. EraseSync'
    BY <1>1, <1>2, <1>3, <1>4, <2>4, <2>5 DEF EraseSync, MemAfterBlocks
  <2>. QED
    BY <1>1, <1>5, <2>6 DEF OpSync, DoneProps
<1>9. CASE CompleteGpnvm
  BY <1>2, <1>9 DEF CompleteGpnvm, FCMD_EPA, FCMD_GGPB, FCMD_SGPB, FCMD_CGPB
<1>. QED
  BY <1>6, <1>7, <1>8, <1>9 DEF Controller

(* The EEFC finishing WP / EWP: a success programs page chunk from the     *)
(* latch, which gives MemAfterWrite; a locked page changes nothing.        *)
LEMMA SafeCtrlWrite ==
  ASSUME RefInv, OpSync, RefHyp, Controller, caller = "write"
  PROVE  OpSync'
<1>1. /\ pc = "CmdPoll" /\ pc' = "CmdPoll" /\ exec = "pending"
      /\ exec' \in {"ok", "failed"} /\ ccmd = IssuedWord
      /\ UNCHANGED <<caller, elen, chunk, opIn, prev>>
      /\ DoneProps'
  BY CtrlKeeps
<1>2. /\ WordCmd(ccmd) = WriteCmd /\ WordArg(ccmd) = chunk
      /\ ValidCmd(ccmd) /\ Touched(ccmd) = {chunk}
      /\ chunk \in Pages /\ opIn.kind = "write"
  BY <1>1, WriteWord DEF Active
<1>3. latch = "loaded" /\ chunk = WriteTarget /\ mem = prev.mem
  <2>1. ccmd # NoWord /\ Active
    BY CtrlFacts
  <2>2. latch = "loaded"
    BY <2>1 DEF RefInv, RefSync
  <2>3. chunk = WriteTarget /\ mem = prev.mem
    BY <1>1, <2>1 DEF OpSync, WriteSync, CmdTookEffect
  <2>. QED
    BY <2>2, <2>3
<1>4. (EraseSync /\ SetSync)'
  BY <1>1, <1>2 DEF EraseSync, SetSync
<1>5. WriteTarget' = WriteTarget
  BY <1>1 DEF WriteTarget
<1>6. CASE CompleteRejected
  BY <1>2, <1>6 DEF CompleteRejected
<1>7. CASE CompleteLocked
  <2>1. exec' = "failed" /\ UNCHANGED mem
    BY <1>1, <1>7 DEF CompleteLocked, Finish, FSR_FLOCKE
  <2>2. WriteSync'
    BY <1>1, <1>3, <1>5, <2>1 DEF WriteSync, CmdTookEffect
  <2>. QED
    BY <1>1, <1>4, <2>2 DEF OpSync, DoneProps
<1>8. CASE CompleteFlash
  <2>1. exec' = "ok"
    BY <1>1, <1>8 DEF CompleteFlash, Finish
  <2>2. mem' = [mem EXCEPT ![chunk] = IF Family = "SAM3" \/ @ = "erased"
                                      THEN "written" ELSE "garbage"]
    <3>1. CASE Family = "SAM4"
      <4>1. WordCmd(ccmd) = FCMD_WP
        BY <1>2, <3>1 DEF WriteCmd
      <4>2. mem' = [mem EXCEPT ![chunk] = Program(@, latch)]
        BY <1>2, <1>8, <4>1 DEF CompleteFlash, FCMD_WP, FCMD_EWP, FCMD_EPA
      <4>3. Program(mem[chunk], latch) =
              IF mem[chunk] = "erased" THEN "written" ELSE "garbage"
        BY <1>3 DEF Program
      <4>. QED
        BY <3>1, <4>2, <4>3
    <3>2. CASE Family = "SAM3"
      <4>1. WordCmd(ccmd) = FCMD_EWP
        BY <1>2, <3>2 DEF WriteCmd
      <4>2. mem' = [mem EXCEPT ![chunk] = EraseProgram(latch)]
        BY <1>2, <1>8, <4>1 DEF CompleteFlash, FCMD_WP, FCMD_EWP, FCMD_EPA
      <4>3. EraseProgram(latch) = "written"
        BY <1>3 DEF EraseProgram
      <4>. QED
        BY <3>2, <4>2, <4>3
    <3>. QED
      BY <3>1, <3>2, FamilyAssumption
  <2>3. mem' = MemAfterWrite'
    BY <1>1, <1>3, <1>5, <2>2 DEF MemAfterWrite
  <2>4. WriteSync'
    BY <1>1, <1>3, <1>5, <2>1, <2>3 DEF WriteSync, CmdTookEffect
  <2>. QED
    BY <1>1, <1>4, <2>4 DEF OpSync, DoneProps
<1>9. CASE CompleteGpnvm
  <2>1. WordCmd(ccmd) \in {FCMD_WP, FCMD_EWP}
    BY <1>2 DEF WriteCmd
  <2>. QED
    BY <1>9, <2>1 DEF CompleteGpnvm, FCMD_WP, FCMD_EWP, FCMD_GGPB, FCMD_SGPB,
       FCMD_CGPB
<1>. QED
  BY <1>6, <1>7, <1>8, <1>9 DEF Controller

(* The EEFC finishing SGPB / CGPB: a success sets or clears the named bit  *)
(* and no other; a bit the device lacks is rejected and nothing changes.   *)
LEMMA SafeCtrlSet ==
  ASSUME RefInv, OpSync, RefHyp, Controller, caller = "set"
  PROVE  OpSync'
<1>1. /\ pc = "CmdPoll" /\ pc' = "CmdPoll" /\ exec = "pending"
      /\ exec' \in {"ok", "failed"} /\ ccmd = IssuedWord /\ ccmd' = NoWord
      /\ UNCHANGED <<caller, elen, chunk, opIn, prev>>
      /\ DoneProps'
  BY CtrlKeeps, CtrlFacts
<1>2. /\ opIn.kind = "set" /\ opIn.bit \in 0 .. 2^16 - 1
      /\ gpnvm \ {opIn.bit} = prev.gpnvm \ {opIn.bit}
  <2>1. opIn.kind = "set" /\ opIn.bit \in GpnvmArgs
    BY <1>1, CtrlFacts DEF RefInv, RefSync
  <2>2. opIn.bit \in Nat /\ opIn.bit < 2^16
    BY <2>1, GpnvmAssumption DEF RefHyp
  <2>3. gpnvm \ {opIn.bit} = prev.gpnvm \ {opIn.bit}
    BY <1>1, <2>1 DEF OpSync, SetSync
  <2>. QED
    BY <2>1, <2>2, <2>3
<1> DEFINE op == IF opIn.val # 0 THEN FCMD_SGPB ELSE FCMD_CGPB
<1>3. op \in 0 .. 255 /\ op \in {FCMD_SGPB, FCMD_CGPB}
  BY DEF FCMD_SGPB, FCMD_CGPB
<1>4. ccmd = CmdWord(op, opIn.bit)
  BY <1>1, <1>2, U16Id, Zenon DEF IssuedWord
<1>5. WordCmd(ccmd) = op /\ WordArg(ccmd) = opIn.bit /\ WordKey(ccmd) = FKEY \div 2^24
  <2>1. /\ WordCmd(CmdWord(op, opIn.bit)) = op
        /\ WordArg(CmdWord(op, opIn.bit)) = opIn.bit
        /\ WordKey(CmdWord(op, opIn.bit)) = FKEY \div 2^24
    BY <1>2, <1>3, WordFields, Zenon
  <2>. QED
    BY <1>4, <2>1, Zenon
<1>6. (ValidCmd(ccmd) <=> opIn.bit \in GpnvmIdx) /\ Touched(ccmd) = {}
  BY <1>3, <1>5 DEF ValidCmd, Touched, FCMD_SGPB, FCMD_CGPB, FCMD_EPA, FCMD_WP,
     FCMD_EWP, FCMD_GGPB
<1>7. (EraseSync /\ WriteSync)'
  BY <1>1, <1>2 DEF EraseSync, WriteSync
<1>8. CASE CompleteRejected
  <2>1. opIn.bit \notin GpnvmIdx /\ UNCHANGED gpnvm
    BY <1>6, <1>8 DEF CompleteRejected
  <2>2. SetSync'
    BY <1>1, <1>2, <2>1 DEF SetSync
  <2>. QED
    BY <1>1, <1>7, <2>2 DEF OpSync, DoneProps
<1>9. CASE CompleteLocked \/ CompleteFlash
  BY <1>6, <1>9 DEF CompleteLocked, CompleteFlash
<1>10. CASE CompleteGpnvm
  <2>1. gpnvm' = IF opIn.val # 0 THEN gpnvm \cup {opIn.bit} ELSE gpnvm \ {opIn.bit}
    BY <1>5, <1>10 DEF CompleteGpnvm, FCMD_SGPB, FCMD_CGPB, FCMD_GGPB
  <2>2. gpnvm' \ {opIn.bit} = prev.gpnvm \ {opIn.bit}
    BY <1>2, <2>1
  <2>3. opIn.bit \in gpnvm' <=> opIn.val # 0
    BY <2>1
  <2>4. SetSync'
    BY <1>1, <2>2, <2>3 DEF SetSync
  <2>. QED
    BY <1>1, <1>7, <2>4 DEF OpSync, DoneProps
<1>. QED
  BY <1>8, <1>9, <1>10 DEF Controller

(* The EEFC finishing GGPB refreshes FRR and leaves the GPNVM bits alone.  *)
LEMMA SafeCtrlGet ==
  ASSUME RefInv, OpSync, RefHyp, Controller, caller = "get"
  PROVE  OpSync'
<1>1. /\ pc = "CmdPoll" /\ pc' = "CmdPoll" /\ exec = "pending"
      /\ exec' \in {"ok", "failed"} /\ ccmd = IssuedWord
      /\ UNCHANGED <<caller, elen, chunk, opIn, prev>>
      /\ DoneProps'
  BY CtrlKeeps
<1>2. ccmd = CmdWord(FCMD_GGPB, 0)
  BY <1>1 DEF IssuedWord
<1>3. WordCmd(ccmd) = FCMD_GGPB /\ WordArg(ccmd) = 0 /\ WordKey(ccmd) = FKEY \div 2^24
  <2>1. FCMD_GGPB \in 0 .. 255 /\ 0 \in 0 .. 2^16 - 1
    BY DEF FCMD_GGPB
  <2>2. /\ WordCmd(CmdWord(FCMD_GGPB, 0)) = FCMD_GGPB
        /\ WordArg(CmdWord(FCMD_GGPB, 0)) = 0
        /\ WordKey(CmdWord(FCMD_GGPB, 0)) = FKEY \div 2^24
    BY <2>1, WordFields, Zenon
  <2>. QED
    BY <1>2, <2>2, Zenon
<1>4. ValidCmd(ccmd) /\ Touched(ccmd) = {}
  BY <1>3 DEF ValidCmd, Touched, FCMD_GGPB, FCMD_EPA, FCMD_WP, FCMD_EWP
<1>5. UNCHANGED gpnvm
  <2>1. CASE CompleteGpnvm
    BY <1>3, <2>1 DEF CompleteGpnvm, FCMD_GGPB, FCMD_SGPB, FCMD_CGPB
  <2>2. CASE CompleteRejected \/ CompleteLocked \/ CompleteFlash
    BY <1>4, <2>2 DEF CompleteRejected, CompleteLocked, CompleteFlash
  <2>. QED
    BY <2>1, <2>2 DEF Controller
<1>6. SetSync'
  BY <1>1, <1>5 DEF OpSync, SetSync
<1>7. (EraseSync /\ WriteSync)'
  BY <1>1 DEF EraseSync, WriteSync
<1>. QED
  BY <1>1, <1>6, <1>7 DEF OpSync, DoneProps

-----------------------------------------------------------------------------
(* Every step keeps SafeInv under the hypotheses of the refinement.        *)
LEMMA SafeStep ==
  ASSUME RefHyp
  PROVE  SafeInv /\ [Next]_vars => SafeInv'
<1> SUFFICES ASSUME RefInv, OpSync, [Next]_vars PROVE SafeInv'
  BY DEF SafeInv
<1>1. RefInv'
  BY RefStep
<1> SUFFICES OpSync'
  BY <1>1 DEF SafeInv
<1>2. CASE Call
  <2>1. CASE \E a \in EraseAddrs : \E l \in EraseLens(a) : Sam4EraseStart(a, l)
    BY <2>1, SafeEraseStart
  <2>2. CASE \E a \in EraseAddrs : \E l \in EraseLens(a) : Sam3Erase(a, l)
    BY <2>2, SafeSam3Erase
  <2>3. CASE \E d \in WriteDests : \E l \in 1 .. BufSize : WriteStart(d, l)
    BY <2>3, SafeWriteStart
  <2>4. CASE GpnvmGet
    BY <2>4, SafeGpnvmGet
  <2>5. CASE \E argc \in {2, 3}, b \in GpnvmArgs, v \in {0, 1} : GpnvmSet(argc, b, v)
    BY <2>5, SafeGpnvmSet
  <2>. QED
    BY <1>2, <2>1, <2>2, <2>3, <2>4, <2>5 DEF Call
<1>3. CASE Controller
  <2>1. caller \in {"erase", "write", "set", "get"}
    BY <1>3, CtrlFacts
  <2>. QED
    BY <1>3, <2>1, SafeCtrlErase, SafeCtrlWrite, SafeCtrlSet, SafeCtrlGet
<1>4. CASE Sam4EraseLoop
  BY <1>4, SafeEraseLoop
<1>5. CASE Sam4EraseNext
  BY <1>5, SafeEraseNext
<1>6. CASE WriteIssue
  BY <1>6, SafeWriteIssue
<1>7. CASE WriteDone
  BY <1>7, SafeWriteDone
<1>8. CASE CmdPoll \/ CmdFinal
  BY <1>8, SafePoll
<1>9. CASE GpnvmShow
  BY <1>9, SafeGpnvmShow
<1>10. CASE GpnvmSetGet
  BY <1>10, SafeGpnvmSetGet
<1>11. CASE Quiescent \/ UNCHANGED vars
  <2>1. UNCHANGED vars
    BY <1>11 DEF Quiescent
  <2>. QED
    BY <2>1 DEF vars, hostVars, devVars, linkVars, histVars, OpSync, EraseSync,
       WriteSync, SetSync, EraseExact, WriteLands, GpnvmShown, GpnvmSetNamedBit,
       Active, CmdTookEffect, EraseLo, EraseHi, BlocksErased, MemAfterBlocks,
       EraseBlocksLeft, WriteTarget, MemAfterWrite, ErasedPages
<1>. QED
  BY <1>2, <1>3, <1>4, <1>5, <1>6, <1>7, <1>8, <1>9, <1>10, <1>11
  DEF Next, HostStep

(* Under the hypotheses of the refinement (a reliable link with sticky     *)
(* error bits, block-aligned erases, arguments that fit the uint16_t       *)
(* `arg`), every reachable state satisfies SafeInv: the erase loop has     *)
(* erased exactly the blocks below chunk, a write has changed only its     *)
(* page and only after WP / EWP ran, and gpnvm_set only its bit.           *)
THEOREM SafeInvariant ==
  ASSUME RefHyp
  PROVE  Spec => []SafeInv
<1>1. Init => SafeInv
  BY RefInit, SafeInit DEF SafeInv
<1>2. SafeInv /\ [Next]_vars => SafeInv'
  BY SafeStep
<1>. QED
  BY <1>1, <1>2, PTL DEF Spec

(* Under the same hypotheses the running operation has always done what    *)
(* OpSync says: the erase loop's erased run, the write's one page, and     *)
(* gpnvm_set's one bit, relative to the state at the call.                 *)
THEOREM OpSyncInvariant ==
  ASSUME RefHyp
  PROVE  Spec => []OpSync
<1>1. SafeInv => OpSync
  BY DEF SafeInv
<1>. QED
  BY <1>1, SafeInvariant, PTL

(* When sam4_flash_erase / sam3_flash_erase returns 0, exactly the blocks  *)
(* covering [addr, addr + len) are erased and every other page of the      *)
(* region is as before the call.                                           *)
THEOREM EraseExactTheorem ==
  ASSUME RefHyp
  PROVE  Spec => []EraseExact
<1>1. SafeInv => EraseExact
  BY DEF SafeInv, OpSync
<1>. QED
  BY <1>1, SafeInvariant, PTL

(* When sam3x_flash_write returns 0 its page holds the data (SAM3; SAM4 if *)
(* the page was erased) and no other page changed.                         *)
THEOREM WriteLandsTheorem ==
  ASSUME RefHyp
  PROVE  Spec => []WriteLands
<1>1. SafeInv => WriteLands
  BY DEF SafeInv, OpSync
<1>. QED
  BY <1>1, SafeInvariant, PTL

(* The GPNVM value that sam3x_cmd_gpnvm_get prints when it returns true is *)
(* the controller's GPNVM state.                                           *)
THEOREM GpnvmShownTheorem ==
  ASSUME RefHyp
  PROVE  Spec => []GpnvmShown
<1>1. SafeInv => GpnvmShown
  BY DEF SafeInv, OpSync
<1>. QED
  BY <1>1, SafeInvariant, PTL

(* When `monitor gpnvm_set <bit> <val>` returns true, no other GPNVM bit   *)
(* changed and an existing <bit> is set iff <val> is non-zero.             *)
THEOREM GpnvmSetNamedBitTheorem ==
  ASSUME RefHyp
  PROVE  Spec => []GpnvmSetNamedBit
<1>1. SafeInv => GpnvmSetNamedBit
  BY DEF SafeInv, OpSync
<1>. QED
  BY <1>1, SafeInvariant, PTL

(* On a reliable link with sticky FSR error bits, the host writes          *)
(* EEFC_FCR only to an idle controller and, once a command finished, FSR's *)
(* error bits (and sam3x_flash_cmd's return value) say how it ended.       *)
THEOREM CmdInvariant ==
  ASSUME MaxFaults = 0, ErrorClearOnRead = FALSE
  PROVE  Spec => []CmdInv
<1>1. CmdInv /\ [Next]_vars => CmdInv'
  BY SyncStep
<1>. QED
  BY <1>1, SyncInit, PTL DEF Spec


(* A completing EEFC command changes only the pages its command word names:  *)
(* EPA erases its block, WP/EWP write the one page of its argument            *)
(* (the page-buffer commit of the EEFC behind sam3x_flash_cmd).               *)
LEMMA FlashTouched ==
  ASSUME TypeOK, CompleteFlash
  PROVE  \A p \in Pages : mem'[p] # mem[p] => p \in Touched(ccmd)
<1>. DEFINE a == WordArg(ccmd)
<1>1. mem \in [Pages -> PageStates]
  BY DEF TypeOK, DevTypeOK
<1>2. CASE /\ WordCmd(ccmd) = FCMD_EPA
           /\ mem' = [p \in Pages |-> IF p \in EpaPages(a) THEN "erased" ELSE mem[p]]
  <2>0. WordCmd(ccmd) \notin {FCMD_WP, FCMD_EWP}
    BY <1>2 DEF FCMD_WP, FCMD_EWP, FCMD_EPA
  <2>1. Touched(ccmd) = EpaPages(a)
    BY <1>2, <2>0, Zenon DEF Touched
  <2>. QED  BY <1>2, <2>1
<1>3. CASE /\ WordCmd(ccmd) \in {FCMD_WP, FCMD_EWP}
           /\ \E v : mem' = [mem EXCEPT ![a] = v]
  <2>1. WordCmd(ccmd) # FCMD_EPA
    BY <1>3 DEF FCMD_WP, FCMD_EWP, FCMD_EPA
  <2>2. Touched(ccmd) = {a}
    BY <1>3, <2>1, Zenon DEF Touched
  <2>. QED  BY <1>1, <1>3, <2>2
<1>. QED
  BY <1>2, <1>3 DEF CompleteFlash

(* The command word that sam3x_gpnvm_set/get issue (SGPB/CGPB/GGPB with a    *)
(* bit number below 2^16) names no flash page.                                *)
LEMMA GpnvmWordTouchesNothing ==
  ASSUME RefInv, RefHyp, Active, caller \in {"set", "get"}
  PROVE  Touched(IssuedWord) = {}
<1> DEFINE op == IF opIn.val # 0 THEN FCMD_SGPB ELSE FCMD_CGPB
           arg == IF caller = "set" THEN opIn.bit ELSE 0
           c == IF caller = "set" THEN op ELSE FCMD_GGPB
<1>1. arg \in 0 .. 2^16 - 1
  <2>1. CASE caller = "set"
    <3>1. opIn.bit \in GpnvmArgs  BY <2>1 DEF RefInv, RefSync
    <3>2. opIn.bit \in Nat /\ opIn.bit < 2^16  BY <3>1, GpnvmAssumption DEF RefHyp
    <3>3. arg = opIn.bit  BY <2>1
    <3>. QED  BY <3>2, <3>3
  <2>2. CASE caller = "get"
    <3>1. arg = 0  BY <2>2, Zenon
    <3>. QED  BY <3>1
  <2>. QED  BY <2>1, <2>2
<1>2. c \in 0 .. 255 /\ c \in {FCMD_SGPB, FCMD_CGPB, FCMD_GGPB}
  BY DEF FCMD_SGPB, FCMD_CGPB, FCMD_GGPB
<1>3. IssuedWord = CmdWord(c, arg)
  <2>1. CASE caller = "set"
    <3>1. U16(opIn.bit) = opIn.bit  BY <1>1, <2>1, U16Id, Zenon
    <3>. QED  BY <2>1, <3>1, Zenon DEF IssuedWord
  <2>2. CASE caller = "get"
    BY <2>2, Zenon DEF IssuedWord
  <2>. QED  BY <2>1, <2>2
<1>4. WordCmd(CmdWord(c, arg)) = c
  BY <1>1, <1>2, WordFields, Zenon
<1>. QED
  BY <1>2, <1>3, <1>4 DEF Touched, FCMD_SGPB, FCMD_CGPB, FCMD_GGPB, FCMD_EPA, FCMD_WP,
     FCMD_EWP

(* No host-side step (a driver call, a register access of sam3x_flash_cmd,   *)
(* the host returning) changes the flash contents.                            *)
LEMMA HostKeepsMem ==
  ASSUME Call \/ HostStep \/ Quiescent
  PROVE  UNCHANGED mem
<1>1. CASE \E a \in EraseAddrs : \E l \in EraseLens(a) : Sam4EraseStart(a, l) \/ Sam3Erase(a, l)
  BY <1>1 DEF Sam4EraseStart, Sam3Erase, devVars
<1>2. CASE \E d \in WriteDests : \E l \in 1 .. BufSize : WriteStart(d, l)
  BY <1>2 DEF WriteStart, devVars
<1>3. CASE GpnvmGet
  BY <1>3 DEF GpnvmGet, IssueCmd
<1>4. CASE \E argc \in {2, 3}, b \in GpnvmArgs, v \in {0, 1} : GpnvmSet(argc, b, v)
  BY <1>4 DEF GpnvmSet, IssueCmd, devVars
<1>5. CASE Sam4EraseLoop \/ Sam4EraseNext
  BY <1>5 DEF Sam4EraseLoop, Sam4EraseNext, devVars
<1>6. CASE WriteIssue \/ WriteDone
  BY <1>6 DEF WriteIssue, WriteDone, devVars
<1>7. CASE CmdPoll \/ CmdFinal
  BY <1>7 DEF CmdPoll, CmdFinal
<1>8. CASE GpnvmShow \/ GpnvmSetGet
  BY <1>8 DEF GpnvmShow, GpnvmSetGet, devVars
<1>9. CASE Quiescent
  BY <1>9 DEF Quiescent, vars, devVars
<1>. QED
  BY <1>1, <1>2, <1>3, <1>4, <1>5, <1>6, <1>7, <1>8, <1>9 DEF Call, HostStep

(* A controller step changes only pages inside the request that the host is *)
(* running: the erase blocks of sam4_flash_erase or the page of               *)
(* sam3x_flash_write.                                                          *)
LEMMA CtrlInRequest ==
  ASSUME SafeInv, RefHyp, Controller
  PROVE  FlashStepInRequest
<1>0. RefInv /\ OpSync /\ TypeOK
  BY DEF SafeInv, RefInv, CmdInv
<1>1. /\ pc = "CmdPoll" /\ exec = "pending" /\ ccmd = IssuedWord /\ Active
      /\ caller \in {"erase", "write", "set", "get"}
  BY <1>0, CtrlFacts
<1>2. CASE ~CompleteFlash
  <2>1. UNCHANGED mem
    BY <1>2 DEF Controller, CompleteRejected, CompleteLocked, CompleteGpnvm
  <2>. QED  BY <2>1 DEF FlashStepInRequest
<1>3. CASE CompleteFlash
  <2>1. \A p \in Pages : mem'[p] # mem[p] => p \in Touched(ccmd)
    BY <1>0, <1>3, FlashTouched
  <2>2. Touched(ccmd) # {}
    BY <1>3 DEF CompleteFlash
  <2>3. CASE caller = "erase"
    <3>1. /\ Touched(ccmd) = chunk .. chunk + 7
          /\ PagesPerBlock = 8 /\ chunk \in Nat /\ chunk % 8 = 0
      BY <1>0, <1>1, <2>3, EpaWord
    <3>2. /\ opIn.kind = "erase" /\ Family = "SAM4" /\ elen \in Nat /\ elen > 0
          /\ EraseLo \in 0 .. chunk \div 8
          /\ EraseHi = chunk \div 8 + EraseBlocksLeft - 1
      BY <1>0, <1>1, <2>3, <3>1 DEF RefInv, RefSync, CmdInv, TypeOK, HostTypeOK, OpSync,
         EraseSync
    <3>3. EraseBlocksLeft \in Nat /\ EraseBlocksLeft >= 1
      <4>1. BlockSize \in Nat \ {0}  BY Geometry
      <4>2. (elen + BlockSize - 1) \div BlockSize = 1 + (elen - 1) \div BlockSize
        BY <3>2, <4>1, CeilFacts, Zenon
      <4>3. (elen - 1) \div BlockSize \in Nat  BY <3>2, <4>1
      <4>. QED  BY <4>2, <4>3 DEF EraseBlocksLeft
    <3>4. RequestPages(opIn) = {p \in Pages : p \div 8 \in EraseLo .. EraseHi}
      BY <3>1, <3>2 DEF RequestPages, ErasedPages, EraseLo, EraseHi
    <3>5. \A p \in Pages : p \in chunk .. chunk + 7 => p \div 8 = chunk \div 8
      BY <3>1, EpaBlock DEF Pages
    <3>6. chunk \div 8 \in EraseLo .. EraseHi
      BY <3>1, <3>2, <3>3
    <3>7. SUFFICES ASSUME NEW p \in Pages, mem'[p] # mem[p]
                   PROVE  pc # "Idle" /\ p \in RequestPages(opIn)
      BY DEF FlashStepInRequest
    <3>8. p \div 8 = chunk \div 8
      BY <2>1, <3>1, <3>5, <3>7
    <3>. QED  BY <1>1, <3>4, <3>6, <3>8
  <2>4. CASE caller = "write"
    <3>1. Touched(ccmd) = {chunk} /\ opIn.kind = "write"
      BY <1>0, <1>1, <2>4, WriteWord
    <3>2. chunk = WriteTarget
      BY <1>0, <1>1, <2>4 DEF OpSync, WriteSync
    <3>3. RequestPages(opIn) = {WriteTarget}
      BY <3>1 DEF RequestPages, WriteTarget
    <3>. QED  BY <1>1, <2>1, <3>1, <3>2, <3>3 DEF FlashStepInRequest
  <2>5. CASE caller \in {"set", "get"}
    BY <1>0, <1>1, <2>2, <2>5, GpnvmWordTouchesNothing
  <2>. QED  BY <1>1, <2>3, <2>4, <2>5
<1>. QED  BY <1>2, <1>3

(* Every step from a safe state keeps flash changes inside the current       *)
(* request.                                                                   *)
LEMMA FlashStepSafe ==
  ASSUME RefHyp
  PROVE  SafeInv /\ [Next]_vars => [FlashStepInRequest]_vars
<1> SUFFICES ASSUME SafeInv, [Next]_vars PROVE [FlashStepInRequest]_vars
  OBVIOUS
<1>1. CASE Controller
  BY <1>1, CtrlInRequest
<1>2. CASE Call \/ HostStep \/ Quiescent
  <2>1. UNCHANGED mem  BY <1>2, HostKeepsMem
  <2>. QED  BY <2>1 DEF FlashStepInRequest
<1>3. CASE UNCHANGED vars
  BY <1>3
<1>. QED  BY <1>1, <1>2, <1>3 DEF Next

(* Over a reliable link with aligned erases, no step ever changes a flash     *)
(* page while the host is idle or outside the pages the running erase/write   *)
(* asked for: sam4_flash_erase and sam3x_flash_write touch nothing else.      *)
THEOREM FlashChangesInRequestTheorem ==
  ASSUME RefHyp
  PROVE  Spec => FlashChangesInRequest
<1>1. SafeInv /\ [Next]_vars => [FlashStepInRequest]_vars
  BY FlashStepSafe
<1>2. Spec => []SafeInv
  BY SafeInvariant
<1>. QED
  BY <1>1, <1>2, PTL DEF Spec, FlashChangesInRequest

=============================================================================
