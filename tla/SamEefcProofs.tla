---------------------------- MODULE SamEefcProofs ----------------------------
(***************************************************************************)
(* Proofs about SamEefc for every value of its constants: the type of the  *)
(* driver's and the controller's state, and that on a reliable debug link  *)
(* with sticky FSR error bits sam3x_flash_cmd reports success only for a   *)
(* command the controller executed without error.                          *)
(***************************************************************************)
EXTENDS SamEefc, TLAPS

(* The values the controller can leave in FSR, the values sam3x_flash_cmd *)
(* can return, and the pages and GPNVM bits a valid command names.         *)
LEMMA FsrFacts ==
  /\ \A v \in FsrValues : ErrorBits(v) \in -1 .. 7
  /\ \A v \in FsrValues : v % 2 \in FsrValues
  /\ \A e \in {0, FSR_FCMDE, FSR_FLOCKE} : 1 + e \in FsrValues
  BY DEF FsrValues, ErrorBits, FSR_FCMDE, FSR_FLOCKE

LEMMA ValidArgFacts ==
  ASSUME NEW w \in Int, ValidCmd(w)
  PROVE  /\ WordCmd(w) \in {FCMD_WP, FCMD_EWP} => WordArg(w) \in Pages
         /\ WordCmd(w) \in {FCMD_SGPB, FCMD_CGPB} => WordArg(w) \in GpnvmIdx
  BY DEF ValidCmd, FCMD_WP, FCMD_EWP, FCMD_EPA, FCMD_SGPB, FCMD_CGPB, FCMD_GGPB

(* A command word is an integer, whatever the opcode and argument.         *)
LEMMA CmdWordInt ==
  ASSUME NEW c \in Nat, NEW a \in Nat
  PROVE  CmdWord(c, a) \in Int
  BY DEF CmdWord, FKEY

(* What a read of FSR over the link can return.                            *)
LEMMA ReadType ==
  ASSUME TypeOK, NEW fault \in FaultNow, NEW v \in ReadValues(fault)
  PROVE  fault \in BOOLEAN /\ v \in FsrValues /\ (fault => faults < MaxFaults)
  BY DEF FaultNow, ReadValues, TypeOK, DevTypeOK

(* TypeOK without the two Boolean flags, which Zenon handles and SMT does  *)
(* not: each step proves the two parts with a backend of its own.          *)
RestTypeOK == HostTypeOK /\ DevTypeOK /\ LinkTypeOK /\ HistTypeOK

(* Init establishes TypeOK.                                                *)
LEMMA TypeInit == Init => TypeOK
<1> SUFFICES ASSUME Init PROVE TypeOK
  OBVIOUS
<1>1. RestTypeOK
  BY BoundsAssumption DEF Init, RestTypeOK, HostTypeOK, DevTypeOK, LinkTypeOK,
     HistTypeOK, PcStates, Callers, FsrValues, PageStates, LatchStates, NoWord
<1>2. FlagTypeOK
  BY DEF Init, FlagTypeOK
<1>. QED
  BY <1>1, <1>2 DEF TypeOK, RestTypeOK

(* Issuing a command keeps the types of what it changes.                   *)
LEMMA IssueType ==
  ASSUME TypeOK, NEW c \in Nat, NEW a \in Nat, NEW who \in Callers,
         IssueCmd(c, a, who)
  PROVE  /\ pc' = "CmdPoll" /\ caller' \in Callers
         /\ fsr' \in FsrValues /\ ccmd' \in Int /\ faults' \in 0 .. MaxFaults
         /\ exec' \in {"pending", "ok", "failed", "lost"}
         /\ xferr' \in BOOLEAN
<1>1. CmdWord(c, a) \in Int
  BY CmdWordInt
<1>2. xferr' \in BOOLEAN
  BY Zenon DEF IssueCmd, TypeOK, FlagTypeOK, linkVars
<1>. QED
  BY <1>1, <1>2, BoundsAssumption
  DEF IssueCmd, TypeOK, DevTypeOK, LinkTypeOK, FsrValues, linkVars

(* The parts of the state an action leaves alone keep their type.         *)
LEMMA HistUnchanged ==
  ASSUME HistTypeOK, UNCHANGED <<display, prev>>,
         exec' \in {"pending", "ok", "failed", "lost"}
  PROVE  HistTypeOK'
  BY DEF HistTypeOK

(* Every step keeps TypeOK.                                                *)
LEMMA TypeStep == TypeOK /\ [Next]_vars => TypeOK'
<1> SUFFICES ASSUME TypeOK, [Next]_vars PROVE TypeOK'
  OBVIOUS
<1> USE BoundsAssumption, PageSizeAssumption, FlashStartAssumption,
        NBlocksAssumption, GpnvmAssumption, ClearAssumption
<1>1. CASE CmdPoll
  <2>1. PICK fault \in FaultNow : \E v \in ReadValues(fault) : CmdPoll!2!(fault)!(v)
    BY <1>1 DEF CmdPoll
  <2>2. PICK v \in ReadValues(fault) : CmdPoll!2!(fault)!(v)
    BY <2>1
  <2>3. fault \in BOOLEAN /\ v \in FsrValues /\ (fault => faults < MaxFaults)
    BY ReadType
  <2>4. FlagTypeOK'
    BY <1>1, <2>2, <2>3, Zenon DEF CmdPoll, TypeOK, FlagTypeOK
  <2>5. RestTypeOK'
    BY <1>1, <2>2, <2>3, FsrFacts DEF CmdPoll, AfterFsrRead, TypeOK, RestTypeOK,
       HostTypeOK, DevTypeOK, LinkTypeOK, HistTypeOK, PcStates, histVars
  <2>. QED
    BY <2>4, <2>5 DEF TypeOK, RestTypeOK
<1>2. CASE CmdFinal
  <2>1. PICK fault \in FaultNow : \E v \in ReadValues(fault) : CmdFinal!2!(fault)!(v)
    BY <1>2 DEF CmdFinal
  <2>2. PICK v \in ReadValues(fault) : CmdFinal!2!(fault)!(v)
    BY <2>1
  <2>3. fault \in BOOLEAN /\ v \in FsrValues /\ (fault => faults < MaxFaults)
    BY ReadType
  <2>4. FlagTypeOK'
    BY <1>2, <2>2, <2>3, Zenon DEF CmdFinal, TypeOK, FlagTypeOK
  <2>5. RestTypeOK'
    BY <1>2, <2>2, <2>3, FsrFacts DEF CmdFinal, AfterFsrRead, TypeOK, RestTypeOK,
       HostTypeOK, DevTypeOK, LinkTypeOK, HistTypeOK, PcStates, histVars
  <2>. QED
    BY <2>4, <2>5 DEF TypeOK, RestTypeOK
<1>3. CASE Controller
  <2>1. FlagTypeOK'
    BY <1>3 DEF Controller, CompleteRejected, CompleteLocked, CompleteFlash,
       CompleteGpnvm, TypeOK, FlagTypeOK, hostVars, linkVars
  <2>2. HostTypeOK' /\ LinkTypeOK'
    BY <1>3 DEF Controller, CompleteRejected, CompleteLocked, CompleteFlash,
       CompleteGpnvm, TypeOK, HostTypeOK, LinkTypeOK, hostVars, linkVars
  <2>3. HistTypeOK'
    <3>1. exec' \in {"pending", "ok", "failed", "lost"}
      BY <1>3 DEF Controller, CompleteRejected, CompleteLocked, CompleteFlash,
         CompleteGpnvm, Finish, TypeOK, HistTypeOK
    <3>. QED
      BY <1>3, <3>1, HistUnchanged DEF Controller, CompleteRejected,
         CompleteLocked, CompleteFlash, CompleteGpnvm, TypeOK
  <2>4. fsr' \in FsrValues /\ ccmd' \in Int
    BY <1>3, FsrFacts DEF Controller, CompleteRejected, CompleteLocked,
       CompleteFlash, CompleteGpnvm, Finish, NoWord
  <2>5. ccmd \in Int /\ ValidCmd(ccmd) =>
          /\ (WordCmd(ccmd) \in {FCMD_WP, FCMD_EWP} => WordArg(ccmd) \in Pages)
          /\ (WordCmd(ccmd) \in {FCMD_SGPB, FCMD_CGPB} => WordArg(ccmd) \in GpnvmIdx)
    BY ValidArgFacts
  <2>6. mem' \in [Pages -> PageStates] /\ latch' \in LatchStates
    BY <1>3, <2>5 DEF Controller, CompleteRejected, CompleteLocked, CompleteFlash,
       CompleteGpnvm, TypeOK, DevTypeOK, Program, EraseProgram, PageStates,
       LatchStates
  <2>7. gpnvm' \subseteq GpnvmIdx /\ frr' \subseteq GpnvmIdx
    BY <1>3, <2>5 DEF Controller, CompleteRejected, CompleteLocked, CompleteFlash,
       CompleteGpnvm, TypeOK, DevTypeOK
  <2>. QED
    BY <2>1, <2>2, <2>3, <2>4, <2>6, <2>7 DEF TypeOK, DevTypeOK
<1>4. CASE Sam4EraseLoop
  <2>1. CASE elen = 0
    <3>1. FlagTypeOK'
      BY <1>4, <2>1 DEF Sam4EraseLoop, TypeOK, FlagTypeOK, linkVars
    <3>2. RestTypeOK'
      BY <1>4, <2>1 DEF Sam4EraseLoop, TypeOK, RestTypeOK, HostTypeOK,
         DevTypeOK, LinkTypeOK, HistTypeOK, PcStates, linkVars
    <3>. QED
      BY <3>1, <3>2 DEF TypeOK, RestTypeOK
  <2>2. CASE elen # 0
    <3>1. U16(OrOne(chunk)) \in Nat
      BY DEF TypeOK, HostTypeOK, U16, OrOne
    <3>2. IssueCmd(FCMD_EPA, U16(OrOne(chunk)), "erase")
      BY <1>4, <2>2 DEF Sam4EraseLoop
    <3>3. /\ pc' = "CmdPoll" /\ caller' \in Callers
          /\ fsr' \in FsrValues /\ ccmd' \in Int /\ faults' \in 0 .. MaxFaults
          /\ exec' \in {"pending", "ok", "failed", "lost"}
          /\ xferr' \in BOOLEAN
      BY <3>1, <3>2, IssueType DEF FCMD_EPA, Callers
    <3>. QED
      BY <1>4, <3>3 DEF Sam4EraseLoop, TypeOK, HostTypeOK, DevTypeOK,
         LinkTypeOK, FlagTypeOK, HistTypeOK, PcStates
  <2>. QED
    BY <2>1, <2>2
<1>5. CASE Sam4EraseNext
  <2>1. FlagTypeOK'
    BY <1>5 DEF Sam4EraseNext, TypeOK, FlagTypeOK, hostVars, linkVars
  <2>2. RestTypeOK'
    BY <1>5 DEF Sam4EraseNext, TypeOK, RestTypeOK, HostTypeOK, DevTypeOK,
       LinkTypeOK, HistTypeOK, PcStates, devVars, linkVars, histVars,
       BlockSize, PagesPerBlock
  <2>. QED
    BY <2>1, <2>2 DEF TypeOK, RestTypeOK
<1>6. CASE WriteIssue
  <2>1. U16(chunk) \in Nat
    BY DEF TypeOK, HostTypeOK, U16
  <2>2. /\ pc' = "CmdPoll" /\ caller' \in Callers
        /\ fsr' \in FsrValues /\ ccmd' \in Int /\ faults' \in 0 .. MaxFaults
        /\ exec' \in {"pending", "ok", "failed", "lost"}
        /\ xferr' \in BOOLEAN
    BY <1>6, <2>1, IssueType DEF WriteIssue, WriteCmd, FCMD_WP, FCMD_EWP, Callers
  <2>. QED
    BY <1>6, <2>2 DEF WriteIssue, TypeOK, HostTypeOK, DevTypeOK, LinkTypeOK,
       FlagTypeOK, HistTypeOK, PcStates
<1>7. CASE WriteDone
  <2>1. FlagTypeOK'
    BY <1>7 DEF WriteDone, TypeOK, FlagTypeOK, linkVars
  <2>2. RestTypeOK'
    BY <1>7 DEF WriteDone, TypeOK, RestTypeOK, HostTypeOK, DevTypeOK,
       LinkTypeOK, HistTypeOK, PcStates, devVars, linkVars, histVars
  <2>. QED
    BY <2>1, <2>2 DEF TypeOK, RestTypeOK
<1>8. CASE GpnvmShow
  <2>1. FlagTypeOK'
    BY <1>8 DEF GpnvmShow, TypeOK, FlagTypeOK, linkVars
  <2>2. RestTypeOK'
    BY <1>8 DEF GpnvmShow, TypeOK, RestTypeOK, HostTypeOK, DevTypeOK,
       LinkTypeOK, HistTypeOK, PcStates, devVars, linkVars
  <2>. QED
    BY <2>1, <2>2 DEF TypeOK, RestTypeOK
<1>9. CASE GpnvmSetGet
  <2>1. /\ pc' = "CmdPoll" /\ caller' \in Callers
        /\ fsr' \in FsrValues /\ ccmd' \in Int /\ faults' \in 0 .. MaxFaults
        /\ exec' \in {"pending", "ok", "failed", "lost"}
        /\ xferr' \in BOOLEAN
    BY <1>9, IssueType DEF GpnvmSetGet, FCMD_GGPB, Callers
  <2>. QED
    BY <1>9, <2>1 DEF GpnvmSetGet, TypeOK, HostTypeOK, DevTypeOK, LinkTypeOK,
       FlagTypeOK, HistTypeOK, PcStates
<1>10. CASE Call
  <2>1. CASE \E a \in EraseAddrs : \E l \in EraseLens(a) : Sam4EraseStart(a, l)
    <3>0. PICK a \in EraseAddrs : \E l \in EraseLens(a) : Sam4EraseStart(a, l)
      BY <2>1
    <3>1. PICK l \in EraseLens(a) : Sam4EraseStart(a, l)
      BY <3>0
    <3>2. (a - FlashStart) \div PageSize \in Nat /\ l \in Nat
      <4>1. a \in Int /\ a >= FlashStart
        <5>1. CASE AlignedErase
          BY <5>1 DEF EraseAddrs, BlockSize, PagesPerBlock
        <5>2. CASE ~AlignedErase
          BY <5>2 DEF EraseAddrs, Pages, NPages, PagesPerBlock
        <5>. QED
          BY <5>1, <5>2
      <4>. QED
        BY <4>1 DEF EraseLens
    <3>3. FlagTypeOK'
      BY <3>1 DEF Sam4EraseStart, TypeOK, FlagTypeOK, linkVars
    <3>4. RestTypeOK'
      BY <3>1, <3>2 DEF Sam4EraseStart, StartOp, TypeOK, RestTypeOK, HostTypeOK,
         DevTypeOK, LinkTypeOK, HistTypeOK, PcStates, devVars, linkVars
    <3>. QED
      BY <3>3, <3>4 DEF TypeOK, RestTypeOK
  <2>2. CASE \E a \in EraseAddrs : \E l \in EraseLens(a) : Sam3Erase(a, l)
    <3>1. PICK a \in EraseAddrs : \E l \in EraseLens(a) : Sam3Erase(a, l)
      BY <2>2
    <3>2. PICK l \in EraseLens(a) : Sam3Erase(a, l)
      BY <3>1
    <3>3. FlagTypeOK'
      BY <3>2 DEF Sam3Erase, TypeOK, FlagTypeOK, linkVars
    <3>4. RestTypeOK'
      BY <3>2 DEF Sam3Erase, StartOp, TypeOK, RestTypeOK, HostTypeOK,
         DevTypeOK, LinkTypeOK, HistTypeOK, devVars, linkVars
    <3>. QED
      BY <3>3, <3>4 DEF TypeOK, RestTypeOK
  <2>3. CASE \E d \in WriteDests : \E l \in 1 .. BufSize : WriteStart(d, l)
    <3>1. PICK d \in WriteDests : \E l \in 1 .. BufSize : WriteStart(d, l)
      BY <2>3
    <3>2. PICK l \in 1 .. BufSize : WriteStart(d, l)
      BY <3>1
    <3>3. (d - FlashStart) \div BufSize \in Nat
      BY DEF WriteDests, BufSize, Pages, NPages, PagesPerBlock
    <3>4. FlagTypeOK'
      BY <3>2, Zenon DEF WriteStart, TypeOK, FlagTypeOK, linkVars
    <3>5. RestTypeOK'
      BY <3>2, <3>3 DEF WriteStart, StartOp, TypeOK, RestTypeOK, HostTypeOK,
         DevTypeOK, LinkTypeOK, HistTypeOK, PcStates, LatchStates, linkVars
    <3>. QED
      BY <3>4, <3>5 DEF TypeOK, RestTypeOK
  <2>4. CASE GpnvmGet
    <3>1. /\ pc' = "CmdPoll" /\ caller' \in Callers
          /\ fsr' \in FsrValues /\ ccmd' \in Int /\ faults' \in 0 .. MaxFaults
          /\ exec' \in {"pending", "ok", "failed", "lost"}
          /\ xferr' \in BOOLEAN
      BY <2>4, IssueType DEF GpnvmGet, FCMD_GGPB, Callers
    <3>. QED
      BY <2>4, <3>1 DEF GpnvmGet, StartOp, TypeOK, HostTypeOK, DevTypeOK,
         LinkTypeOK, FlagTypeOK, HistTypeOK, PcStates
  <2>5. CASE \E argc \in {2, 3}, b \in GpnvmArgs, v \in {0, 1} : GpnvmSet(argc, b, v)
    <3>1. PICK argc \in {2, 3}, b \in GpnvmArgs, v \in {0, 1} : GpnvmSet(argc, b, v)
      BY <2>5
    <3>2. CASE argc # 3
      <4>1. FlagTypeOK'
        BY <3>1, <3>2, Zenon DEF GpnvmSet, TypeOK, FlagTypeOK, linkVars
      <4>2. RestTypeOK'
        BY <3>1, <3>2 DEF GpnvmSet, StartOp, TypeOK, RestTypeOK, HostTypeOK,
           DevTypeOK, LinkTypeOK, HistTypeOK, linkVars
      <4>. QED
        BY <4>1, <4>2 DEF TypeOK, RestTypeOK
    <3>3. CASE argc = 3
      <4>1. U16(b) \in Nat
        BY DEF U16
      <4>2. IssueCmd(IF v # 0 THEN FCMD_SGPB ELSE FCMD_CGPB, U16(b), "set")
        BY <3>1, <3>3 DEF GpnvmSet
      <4>3. /\ pc' = "CmdPoll" /\ caller' \in Callers
            /\ fsr' \in FsrValues /\ ccmd' \in Int /\ faults' \in 0 .. MaxFaults
            /\ exec' \in {"pending", "ok", "failed", "lost"}
            /\ xferr' \in BOOLEAN
        BY <4>1, <4>2, IssueType DEF FCMD_SGPB, FCMD_CGPB, Callers
      <4>4. hret' \in BOOLEAN
        BY <3>1, <3>3 DEF GpnvmSet, TypeOK, FlagTypeOK
      <4>. QED
        BY <3>1, <3>3, <4>3, <4>4 DEF GpnvmSet, StartOp, TypeOK, HostTypeOK,
           DevTypeOK, LinkTypeOK, FlagTypeOK, HistTypeOK, PcStates
    <3>. QED
      BY <3>2, <3>3
  <2>. QED
    BY <1>10, <2>1, <2>2, <2>3, <2>4, <2>5 DEF Call
<1>11. CASE Quiescent \/ UNCHANGED vars
  BY <1>11 DEF Quiescent, vars, hostVars, devVars, linkVars, histVars, TypeOK,
     HostTypeOK, DevTypeOK, LinkTypeOK, FlagTypeOK, HistTypeOK
<1>. QED
  BY <1>1, <1>2, <1>3, <1>4, <1>5, <1>6, <1>7, <1>8, <1>9, <1>10, <1>11
  DEF Next, HostStep

(* Every reachable state of the driver, the controller and the link is     *)
(* well typed: sam3x_flash_cmd returns -1 or FSR error bits, erase and     *)
(* write return 0 or -1, and the controller only touches pages of the      *)
(* region and implemented GPNVM bits.                                      *)
THEOREM TypeCorrect == Spec => []TypeOK
  BY TypeInit, TypeStep, PTL DEF Spec

-----------------------------------------------------------------------------
(* On a reliable link with sticky error bits, a read of FSR returns FSR    *)
(* and changes nothing.                                                    *)
LEMMA ReliableRead ==
  ASSUME TypeOK, MaxFaults = 0, ErrorClearOnRead = FALSE,
         NEW fault \in FaultNow, NEW v \in ReadValues(fault), AfterFsrRead(fault)
  PROVE  fault = FALSE /\ v = fsr /\ fsr' = fsr /\ faults' = faults
  BY DEF FaultNow, ReadValues, AfterFsrRead, TypeOK, LinkTypeOK

(* A command word is never NoWord.                                         *)
LEMMA CmdWordNotNoWord ==
  ASSUME NEW c \in Nat, NEW a \in Nat
  PROVE  CmdWord(c, a) # NoWord
  BY DEF CmdWord, FKEY, NoWord

(* On a reliable link, the host writes EEFC_FCR only to an idle controller *)
(* (every caller of sam3x_flash_cmd runs outside the polling loop), so the *)
(* write starts the command.                                               *)
LEMMA IssueSync ==
  ASSUME CmdInv, MaxFaults = 0, pc \notin {"CmdPoll", "CmdFinal"},
         NEW c \in Nat, NEW a \in Nat, NEW who \in Callers, IssueCmd(c, a, who)
  PROVE  /\ pc' = "CmdPoll" /\ ccmd' # NoWord /\ exec' = "pending" /\ fsr' = 0
         /\ xferr' = FALSE
<1>1. ccmd = NoWord /\ Ready(fsr) /\ faults = 0
  BY DEF CmdInv, CmdSync, TypeOK, LinkTypeOK
<1>2. CmdWord(c, a) # NoWord
  BY CmdWordNotNoWord
<1>. QED
  BY <1>1, <1>2 DEF IssueCmd, CmdInv, CmdSync, linkVars

(* Init establishes CmdInv.                                                *)
LEMMA SyncInit == Init => CmdInv
<1> SUFFICES ASSUME Init PROVE CmdInv
  OBVIOUS
<1>1. TypeOK
  BY TypeInit
<1>2. CmdSync
  BY DEF Init, CmdSync, Ready, NoWord
<1>. QED
  BY <1>1, <1>2 DEF CmdInv

(* Every step keeps CmdInv on a reliable link with sticky error bits.      *)
LEMMA SyncStep ==
  ASSUME MaxFaults = 0, ErrorClearOnRead = FALSE
  PROVE  CmdInv /\ [Next]_vars => CmdInv'
<1> SUFFICES ASSUME CmdInv, [Next]_vars PROVE CmdInv'
  OBVIOUS
<1>0. TypeOK'
  BY TypeStep DEF CmdInv
<1> SUFFICES CmdSync'
  BY <1>0 DEF CmdInv
<1>a. TypeOK /\ CmdSync
  BY DEF CmdInv
<1>1. CASE CmdPoll
  <2>1. PICK fault \in FaultNow : \E v \in ReadValues(fault) : CmdPoll!2!(fault)!(v)
    BY <1>1 DEF CmdPoll
  <2>2. PICK v \in ReadValues(fault) : CmdPoll!2!(fault)!(v)
    BY <2>1
  <2>3. fault = FALSE /\ v = fsr /\ fsr' = fsr /\ faults' = faults
    BY <1>a, <2>2, ReliableRead
  <2>4. CASE PollDone(v)
    <3>1. ccmd = NoWord
      BY <1>a, <2>3, <2>4 DEF CmdSync, PollDone, Ready
    <3>2. pc' = "CmdFinal" /\ xferr' = FALSE /\ UNCHANGED <<ccmd, exec, cmdRet>>
      BY <1>1, <1>a, <2>2, <2>3, <2>4 DEF CmdPoll, CmdSync, histVars
    <3>. QED
      BY <1>1, <1>a, <2>3, <3>1, <3>2 DEF CmdPoll, CmdSync
  <2>5. CASE ~PollDone(v)
    <3>1. UNCHANGED <<pc, cmdRet, xferr, ccmd, exec>>
      BY <1>1, <1>a, <2>2, <2>3, <2>5 DEF CmdPoll, CmdSync, histVars
    <3>. QED
      BY <1>a, <2>3, <3>1 DEF CmdSync
  <2>. QED
    BY <2>4, <2>5
<1>2. CASE CmdFinal
  <2>1. PICK fault \in FaultNow : \E v \in ReadValues(fault) : CmdFinal!2!(fault)!(v)
    BY <1>2 DEF CmdFinal
  <2>2. PICK v \in ReadValues(fault) : CmdFinal!2!(fault)!(v)
    BY <2>1
  <2>3. fault = FALSE /\ v = fsr /\ fsr' = fsr /\ faults' = faults
    BY <1>a, <2>2, ReliableRead
  <2>. QED
    BY <1>2, <1>a, <2>2, <2>3 DEF CmdFinal, CmdSync, histVars
<1>3. CASE Controller
  <2>1. ccmd # NoWord /\ pc = "CmdPoll" /\ exec = "pending"
    BY <1>3, <1>a DEF Controller, CompleteRejected, CompleteLocked,
       CompleteFlash, CompleteGpnvm, Busy, CmdSync
  <2>2. PICK err \in {0, FSR_FCMDE, FSR_FLOCKE} : Finish(err)
    BY <1>3 DEF Controller, CompleteRejected, CompleteLocked, CompleteFlash,
       CompleteGpnvm
  <2>3. /\ fsr' = 1 + err /\ ccmd' = NoWord
        /\ exec' = IF err = 0 THEN "ok" ELSE "failed"
    BY <2>1, <2>2 DEF Finish
  <2>4. Ready(1 + err) /\ (ErrorBits(1 + err) = 0 <=> err = 0)
    BY DEF Ready, ErrorBits, FSR_FCMDE, FSR_FLOCKE
  <2>5. UNCHANGED <<pc, cmdRet, xferr>>
    BY <1>3 DEF Controller, CompleteRejected, CompleteLocked, CompleteFlash,
       CompleteGpnvm, hostVars, linkVars
  <2>. QED
    BY <1>a, <2>1, <2>3, <2>4, <2>5 DEF CmdSync
<1>4. CASE Sam4EraseLoop
  <2>1. CASE elen = 0
    BY <1>4, <1>a, <2>1 DEF Sam4EraseLoop, CmdSync, linkVars
  <2>2. CASE elen # 0
    <3>1. U16(OrOne(chunk)) \in Nat
      BY <1>a DEF TypeOK, HostTypeOK, U16, OrOne
    <3>2. IssueCmd(FCMD_EPA, U16(OrOne(chunk)), "erase")
      BY <1>4, <2>2 DEF Sam4EraseLoop
    <3>3. pc' = "CmdPoll" /\ ccmd' # NoWord /\ exec' = "pending" /\ fsr' = 0
          /\ xferr' = FALSE
      BY <1>4, <3>1, <3>2, IssueSync DEF Sam4EraseLoop, FCMD_EPA, Callers
    <3>. QED
      BY <3>3 DEF CmdSync
  <2>. QED
    BY <2>1, <2>2
<1>5. CASE Sam4EraseNext
  BY <1>5, <1>a DEF Sam4EraseNext, CmdSync, devVars, linkVars, histVars
<1>6. CASE WriteIssue
  <2>1. U16(chunk) \in Nat
    BY <1>a DEF TypeOK, HostTypeOK, U16
  <2>2. pc' = "CmdPoll" /\ ccmd' # NoWord /\ exec' = "pending" /\ fsr' = 0
        /\ xferr' = FALSE
    BY <1>6, <2>1, IssueSync DEF WriteIssue, WriteCmd, FCMD_WP, FCMD_EWP, Callers
  <2>. QED
    BY <2>2 DEF CmdSync
<1>7. CASE WriteDone
  BY <1>7, <1>a DEF WriteDone, CmdSync, devVars, linkVars, histVars
<1>8. CASE GpnvmShow
  <2>1. faults = 0
    BY <1>a DEF TypeOK, LinkTypeOK
  <2>. QED
    BY <1>8, <1>a, <2>1 DEF GpnvmShow, CmdSync, devVars, linkVars
<1>9. CASE GpnvmSetGet
  <2>1. pc' = "CmdPoll" /\ ccmd' # NoWord /\ exec' = "pending" /\ fsr' = 0
        /\ xferr' = FALSE
    BY <1>9, IssueSync DEF GpnvmSetGet, FCMD_GGPB, Callers
  <2>. QED
    BY <2>1 DEF CmdSync
<1>10. CASE Call
  <2>0. faults = 0
    BY <1>a DEF TypeOK, LinkTypeOK
  <2>1. CASE \E a \in EraseAddrs : \E l \in EraseLens(a) : Sam4EraseStart(a, l)
    BY <2>1, <1>a DEF Sam4EraseStart, StartOp, CmdSync, devVars, linkVars
  <2>2. CASE \E a \in EraseAddrs : \E l \in EraseLens(a) : Sam3Erase(a, l)
    BY <2>2, <1>a DEF Sam3Erase, StartOp, CmdSync, devVars, linkVars
  <2>3. CASE \E d \in WriteDests : \E l \in 1 .. BufSize : WriteStart(d, l)
    BY <2>3, <2>0, <1>a DEF WriteStart, StartOp, CmdSync, linkVars
  <2>4. CASE GpnvmGet
    <3>1. pc' = "CmdPoll" /\ ccmd' # NoWord /\ exec' = "pending" /\ fsr' = 0
          /\ xferr' = FALSE
      BY <2>4, IssueSync DEF GpnvmGet, StartOp, FCMD_GGPB, Callers
    <3>. QED
      BY <3>1 DEF CmdSync
  <2>5. CASE \E argc \in {2, 3}, b \in GpnvmArgs, v \in {0, 1} : GpnvmSet(argc, b, v)
    <3>1. PICK argc \in {2, 3}, b \in GpnvmArgs, v \in {0, 1} : GpnvmSet(argc, b, v)
      BY <2>5
    <3>2. CASE argc # 3
      BY <3>1, <3>2, <1>a DEF GpnvmSet, StartOp, CmdSync, linkVars
    <3>3. CASE argc = 3
      <4>1. U16(b) \in Nat
        BY GpnvmAssumption DEF U16
      <4>2. IssueCmd(IF v # 0 THEN FCMD_SGPB ELSE FCMD_CGPB, U16(b), "set")
        BY <3>1, <3>3 DEF GpnvmSet
      <4>3. pc = "Idle"
        BY <3>1 DEF GpnvmSet, StartOp
      <4>4. pc' = "CmdPoll" /\ ccmd' # NoWord /\ exec' = "pending" /\ fsr' = 0
            /\ xferr' = FALSE
        BY <4>1, <4>2, <4>3, IssueSync DEF FCMD_SGPB, FCMD_CGPB, Callers
      <4>. QED
        BY <4>4 DEF CmdSync
    <3>. QED
      BY <3>2, <3>3
  <2>. QED
    BY <1>10, <2>1, <2>2, <2>3, <2>4, <2>5 DEF Call
<1>11. CASE Quiescent \/ UNCHANGED vars
  BY <1>11, <1>a DEF Quiescent, vars, hostVars, devVars, linkVars, histVars,
     CmdSync
<1>. QED
  BY <1>1, <1>2, <1>3, <1>4, <1>5, <1>6, <1>7, <1>8, <1>9, <1>10, <1>11
  DEF Next, HostStep

(* On a reliable debug link whose FSR error bits are not cleared by reads  *)
(* (the SAM3X behaviour), sam3x_flash_cmd returns 0 only when the          *)
(* controller executed the command the host wrote and reported no error.   *)
THEOREM ReliableCmdResult ==
  ASSUME MaxFaults = 0, ErrorClearOnRead = FALSE
  PROVE  Spec => []CmdResultFaithful
<1>1. CmdInv => CmdResultFaithful
  BY DEF CmdInv, CmdSync, CmdResultFaithful
<1>. QED
  BY <1>1, SyncInit, SyncStep, PTL DEF Spec

=============================================================================
