------------------------------- MODULE SamEefc -------------------------------
(***************************************************************************)
(* The flash-programming half of src/target/sam3x.c: one flash region of   *)
(* one Enhanced Embedded Flash Controller (EEFC), driven by                *)
(*   sam3x_flash_cmd     (command word, FSR polling, error classification) *)
(*   sam4_flash_erase    (EPA in 8-page chunks)                            *)
(*   sam3_flash_erase    (no-op: SAM3 erases inside EWP)                   *)
(*   sam3x_flash_write   (stage the page latch, then WP / EWP)             *)
(*   sam3x_cmd_gpnvm_get / sam3x_cmd_gpnvm_set  (console handlers).        *)
(* The host is the single debug thread; the controller is a second actor   *)
(* that finishes a command whenever it likes, and every memory access over *)
(* the debug link may fail (a transport fault) and latch the error that    *)
(* target_check_error reports and clears.                                  *)
(*                                                                         *)
(* Data is abstracted: a page is "erased", "written" or "garbage", the     *)
(* page latch is "empty", "loaded" or "torn", and a page is PageSize bytes *)
(* instead of 256 or 512 (the code only divides by it).                    *)
(***************************************************************************)
EXTENDS Integers, FiniteSets

CONSTANTS
  Family,          \* "SAM3" (sam3_add_flash) or "SAM4" (sam4_add_flash, also SAMx7x)
  PageSize,        \* SAM3_PAGE_SIZE / SAM4_PAGE_SIZE, scaled down
  FlashStart,      \* f->start of the region
  NBlocks,         \* f->length / f->blocksize
  LockedPages,     \* pages under a lock bit: the controller answers FLOCKE
  GpnvmBits,       \* number of GPNVM bits the controller implements
  GpnvmArgs,       \* values atol(argv[1]) may yield for gpnvm_set
  ErrorClearOnRead,\* TRUE if reading EEFC_FSR clears FCMDE/FLOCKE
  MaxFaults,       \* bound on transport faults in a behaviour
  MaxOps,          \* bound on operations the flashing driver / console start
  AlignedErase     \* TRUE if the flashing layer erases from block boundaries only

ASSUME FamilyAssumption == Family \in {"SAM3", "SAM4"}
ASSUME PageSizeAssumption == PageSize \in Nat \ {0}
ASSUME FlashStartAssumption == FlashStart \in Nat
ASSUME NBlocksAssumption == NBlocks \in Nat \ {0}
ASSUME GpnvmAssumption == GpnvmBits \in Nat /\ GpnvmArgs \subseteq Nat
ASSUME ClearAssumption == ErrorClearOnRead \in BOOLEAN
ASSUME BoundsAssumption == MaxFaults \in Nat /\ MaxOps \in Nat
ASSUME AlignAssumption == AlignedErase \in BOOLEAN

-----------------------------------------------------------------------------
(* Register fields and opcodes (sam3x.c lines 56-76).                      *)
FKEY == 90 * 2^24                 \* EEFC_FCR_FKEY = 0x5A << 24
FCMD_WP == 1
FCMD_EWP == 3
FCMD_EPA == 7
FCMD_SGPB == 11
FCMD_CGPB == 12
FCMD_GGPB == 13
FSR_FCMDE == 2
FSR_FLOCKE == 4

(* Region geometry set by sam3_add_flash / sam4_add_flash.                 *)
PagesPerBlock == IF Family = "SAM4" THEN 8 ELSE 1
BlockSize == PageSize * PagesPerBlock
BufSize == PageSize
WriteCmdWP == FCMD_WP   \* mutant: WP for every family
WriteCmd == IF Family = "SAM4" THEN FCMD_WP ELSE FCMD_EWP
NPages == NBlocks * PagesPerBlock
Pages == 0 .. NPages - 1
RegionEnd == FlashStart + NPages * PageSize

(* The command word written to EEFC_FCR: FKEY | cmd | ((uint32_t)arg << 8) *)
(* (the three fields do not overlap, so | is +), and its decoding by the   *)
(* controller.                                                             *)
CmdWord(cmd, arg) == FKEY + cmd + arg * 256
WordKey(w) == w \div 2^24
WordCmd(w) == w % 256
WordArg(w) == (w \div 256) % 2^16
NoWord == -1

(* C conversions: a value passed as the uint16_t parameter `arg`, and      *)
(* `chunk | 0x1`.                                                          *)
U16(x) == x % 2^16
OrOne(x) == IF x % 2 = 0 THEN x + 1 ELSE x

(* FSR bits: FRDY is bit 0, EEFC_FSR_ERROR the bits above it.              *)
FsrValues == 0 .. 7
Ready(v) == v % 2 = 1
ErrorBits(v) == v - (v % 2)

PageStates == {"erased", "written", "garbage"}
LatchStates == {"empty", "loaded", "torn"}
GpnvmIdx == 0 .. GpnvmBits - 1
PcStates == {"Idle", "EraseLoop", "WriteIssue", "CmdPoll", "CmdFinal", "CmdDone"}
Callers == {"none", "erase", "write", "get", "set"}

VARIABLES
  pc,        \* where the host thread is
  caller,    \* which routine called sam3x_flash_cmd
  cmdRet,    \* value sam3x_flash_cmd returned
  elen,      \* `len` in sam4_flash_erase
  chunk,     \* `chunk` in sam4_flash_erase / sam3x_flash_write
  opRet,     \* value the last erase / write returned
  hret,      \* value the last console handler returned
  ops,       \* operations started so far (bounded by MaxOps)
  fsr,       \* EEFC_FSR
  ccmd,      \* command word the controller is executing, or NoWord
  mem,       \* contents of each page of the region
  latch,     \* the controller's page latch buffer
  gpnvm,     \* set GPNVM bits
  frr,       \* EEFC_FRR (as the GPNVM bits it encodes)
  xferr,     \* transport error latched for target_check_error
  faults,    \* transport faults so far
  display,   \* last GPNVM value printed by tc_printf
  exec,      \* history: fate of the command of the current sam3x_flash_cmd
  prev,      \* history: mem and gpnvm when the current operation started
  opIn       \* history: the current operation and its arguments

hostVars == <<pc, caller, cmdRet, elen, chunk, opRet, hret, ops>>
devVars == <<fsr, ccmd, mem, latch, gpnvm, frr>>
linkVars == <<xferr, faults>>
histVars == <<display, exec, prev, opIn>>
vars == <<hostVars, devVars, linkVars, histVars>>

-----------------------------------------------------------------------------
(* The transport.  A read either returns the register or, on a fault, any  *)
(* value (the build returns whatever the failed access left) and latches   *)
(* the error; a fault-free read of FSR may clear its error bits.           *)
FaultNow == IF faults < MaxFaults THEN BOOLEAN ELSE {FALSE}
ReadValues(fault) == IF fault THEN FsrValues ELSE {fsr}

AfterFsrRead(fault) ==
  /\ faults' = faults + (IF fault THEN 1 ELSE 0)
  /\ fsr' = IF ~fault /\ ErrorClearOnRead THEN fsr % 2 ELSE fsr

(* sam3x_flash_cmd lines 449-450: target_mem_write32(EEFC_FCR(base), ...). *)
(* A ready controller starts the command and drops FRDY; a busy one        *)
(* ignores the write; a faulted write never reaches it.                    *)
IssueCmd(cmd, arg, who) ==
  /\ caller' = who
  /\ pc' = "CmdPoll"
  /\ \/ /\ Ready(fsr)
        /\ ccmd' = CmdWord(cmd, arg)
        /\ fsr' = 0
        /\ exec' = "pending"
        /\ UNCHANGED linkVars
     \/ /\ ~Ready(fsr)
        /\ exec' = "lost"
        /\ UNCHANGED <<ccmd, fsr, xferr, faults>>
     \/ /\ faults < MaxFaults
        /\ faults' = faults + 1
        /\ xferr' = TRUE
        /\ exec' = "lost"
        /\ UNCHANGED <<ccmd, fsr>>

(* The loop condition of line 454, `while (!(sr & EEFC_FSR_FRDY))`: the    *)
(* loop ends when FRDY is set.  The mutant tests the error bits instead.   *)
PollDoneErrorBits(v) == ErrorBits(v) # 0
PollDone(v) == Ready(v)

(* sam3x_flash_cmd lines 452-454: read FSR; leave the loop when FRDY is    *)
(* set, otherwise return -1 if target_check_error (which clears the error) *)
(* and poll again if not.  There is no timeout.                            *)
CmdPoll ==
  /\ pc = "CmdPoll"
  /\ \E fault \in FaultNow : \E v \in ReadValues(fault) :
       /\ AfterFsrRead(fault)
       /\ \/ /\ PollDone(v)
             /\ pc' = "CmdFinal"
             /\ xferr' = (xferr \/ fault)
             /\ UNCHANGED cmdRet
          \/ /\ ~PollDone(v)
             /\ xferr \/ fault
             /\ pc' = "CmdDone"
             /\ cmdRet' = -1
             /\ xferr' = FALSE
          \/ /\ ~PollDone(v)
             /\ ~(xferr \/ fault)
             /\ UNCHANGED <<pc, cmdRet, xferr>>
  /\ UNCHANGED <<caller, elen, chunk, opRet, hret, ops, ccmd, mem, latch, gpnvm, frr>>
  /\ UNCHANGED histVars

(* Mutant: the error bits of the second read are dropped.                 *)
CmdFinalNoErr ==
  /\ pc = "CmdFinal"
  /\ \E fault \in FaultNow : \E v \in ReadValues(fault) :
       /\ AfterFsrRead(fault)
       /\ xferr' = (xferr \/ fault)
       /\ cmdRet' = 0
       /\ pc' = "CmdDone"
  /\ UNCHANGED <<caller, elen, chunk, opRet, hret, ops, ccmd, mem, latch, gpnvm, frr>>
  /\ UNCHANGED histVars

(* sam3x_flash_cmd lines 456-457: read FSR again, return sr & ERROR.       *)
CmdFinal ==
  /\ pc = "CmdFinal"
  /\ \E fault \in FaultNow : \E v \in ReadValues(fault) :
       /\ AfterFsrRead(fault)
       /\ xferr' = (xferr \/ fault)
       /\ cmdRet' = ErrorBits(v)
       /\ pc' = "CmdDone"
  /\ UNCHANGED <<caller, elen, chunk, opRet, hret, ops, ccmd, mem, latch, gpnvm, frr>>
  /\ UNCHANGED histVars

-----------------------------------------------------------------------------
(* The controller finishing the command in ccmd with error bits err.       *)
Finish(err) ==
  /\ fsr' = 1 + err
  /\ ccmd' = NoWord
  /\ exec' = IF exec = "pending"
               THEN IF err = 0 THEN "ok" ELSE "failed"
               ELSE exec

Busy == ~Ready(fsr) /\ ccmd # NoWord

(* A bad key, an unknown opcode or an out-of-range argument: FCMDE.        *)
(* EPA: FARG[1:0] selects 4 << FARG[1:0] pages, the page number above it  *)
(* is taken aligned to that count.                                         *)
EpaPages(a) ==
  LET n == 4 * 2^(a % 4)
      first == a - (a % n)
  IN  first .. first + n - 1
ValidCmd(w) ==
  LET c == WordCmd(w)  a == WordArg(w) IN
  /\ WordKey(w) = FKEY \div 2^24
  /\ \/ c = FCMD_EPA /\ Family = "SAM4" /\ EpaPages(a) \subseteq Pages
     \/ c \in {FCMD_WP, FCMD_EWP} /\ a \in Pages
     \/ c = FCMD_GGPB
     \/ c \in {FCMD_SGPB, FCMD_CGPB} /\ a \in GpnvmIdx
Touched(w) ==
  CASE WordCmd(w) = FCMD_EPA -> EpaPages(WordArg(w))
    [] WordCmd(w) \in {FCMD_WP, FCMD_EWP} -> {WordArg(w)}
    [] OTHER -> {}

CompleteRejected ==
  /\ Busy
  /\ ~ValidCmd(ccmd)
  /\ Finish(FSR_FCMDE)
  /\ UNCHANGED <<hostVars, mem, latch, gpnvm, frr, linkVars, display, prev, opIn>>

CompleteLocked ==
  /\ Busy
  /\ ValidCmd(ccmd)
  /\ Touched(ccmd) \cap LockedPages # {}
  /\ Finish(FSR_FLOCKE)
  /\ UNCHANGED <<hostVars, mem, latch, gpnvm, frr, linkVars, display, prev, opIn>>

(* Programming a page with the latch: WP only clears bits, so it needs an  *)
(* erased page; EWP erases the page first.                                 *)
Program(old, l) ==
  CASE l = "empty" -> old
    [] l = "loaded" /\ old = "erased" -> "written"
    [] OTHER -> "garbage"
EraseProgram(l) ==
  CASE l = "empty" -> "erased"
    [] l = "loaded" -> "written"
    [] OTHER -> "garbage"

CompleteFlash ==
  /\ Busy
  /\ ValidCmd(ccmd)
  /\ Touched(ccmd) # {}
  /\ Touched(ccmd) \cap LockedPages = {}
  /\ LET a == WordArg(ccmd) IN
       \/ /\ WordCmd(ccmd) = FCMD_EPA
          /\ mem' = [p \in Pages |-> IF p \in EpaPages(a) THEN "erased" ELSE mem[p]]
          /\ UNCHANGED latch
       \/ /\ WordCmd(ccmd) = FCMD_WP
          /\ mem' = [mem EXCEPT ![a] = Program(@, latch)]
          /\ latch' = "empty"
       \/ /\ WordCmd(ccmd) = FCMD_EWP
          /\ mem' = [mem EXCEPT ![a] = EraseProgram(latch)]
          /\ latch' = "empty"
  /\ Finish(0)
  /\ UNCHANGED <<hostVars, gpnvm, frr, linkVars, display, prev, opIn>>

CompleteGpnvm ==
  /\ Busy
  /\ ValidCmd(ccmd)
  /\ \/ WordCmd(ccmd) = FCMD_GGPB /\ frr' = gpnvm /\ UNCHANGED gpnvm
     \/ WordCmd(ccmd) = FCMD_SGPB /\ gpnvm' = gpnvm \cup {WordArg(ccmd)} /\ UNCHANGED frr
     \/ WordCmd(ccmd) = FCMD_CGPB /\ gpnvm' = gpnvm \ {WordArg(ccmd)} /\ UNCHANGED frr
  /\ Finish(0)
  /\ UNCHANGED <<hostVars, mem, latch, linkVars, display, prev, opIn>>

Controller == CompleteRejected \/ CompleteLocked \/ CompleteFlash \/ CompleteGpnvm

-----------------------------------------------------------------------------
(* The host operations.  An operation starts when the flashing driver or   *)
(* the console calls it and pc is "Idle".                                  *)
StartOp(in) ==
  /\ pc = "Idle"
  /\ ops < MaxOps
  /\ ops' = ops + 1
  /\ opIn' = in
  /\ prev' = [mem |-> mem, gpnvm |-> gpnvm]

(* Erase requests start at a block boundary, or at any page boundary when *)
(* the flashing layer passes addresses through unaligned.                  *)
EraseAddrs ==
  IF AlignedErase THEN {FlashStart + k * BlockSize : k \in 0 .. NBlocks - 1}
  ELSE {FlashStart + p * PageSize : p \in Pages}
EraseLens(addr) == 1 .. RegionEnd - addr
WriteDests == {FlashStart + p * BufSize : p \in Pages}

(* Mutant: the block index is taken for the page index.                   *)
Sam4EraseStartBlockIndex(addr, len) ==
  /\ Family = "SAM4"
  /\ StartOp([kind |-> "erase", addr |-> addr, len |-> len])
  /\ chunk' = (addr - FlashStart) \div BlockSize
  /\ elen' = len
  /\ pc' = "EraseLoop"
  /\ UNCHANGED <<caller, cmdRet, opRet, hret, devVars, linkVars, display, exec>>

(* sam4_flash_erase lines 479-487: chunk = (addr - f->start) / page size.  *)
Sam4EraseStart(addr, len) ==
  /\ Family = "SAM4"
  /\ StartOp([kind |-> "erase", addr |-> addr, len |-> len])
  /\ chunk' = (addr - FlashStart) \div PageSize
  /\ elen' = len
  /\ pc' = "EraseLoop"
  /\ UNCHANGED <<caller, cmdRet, opRet, hret, devVars, linkVars, display, exec>>

(* sam4_flash_erase lines 489-492 and 500: while (len) issue EPA with      *)
(* chunk | 0x1, else return 0.                                             *)
Sam4EraseLoop ==
  /\ pc = "EraseLoop"
  /\ \/ /\ elen = 0
        /\ opRet' = 0
        /\ pc' = "Idle"
        /\ UNCHANGED <<caller, ccmd, fsr, linkVars, exec>>
     \/ /\ elen > 0
        /\ IssueCmd(FCMD_EPA, U16(OrOne(chunk)), "erase")
        /\ UNCHANGED opRet
  /\ UNCHANGED <<hret, cmdRet, elen, chunk, ops, mem, latch, gpnvm, frr>>
  /\ UNCHANGED <<display, prev, opIn>>

(* Mutant: chunk advances by 4 pages instead of 8.                         *)
Sam4EraseNextHalf ==
  /\ pc = "CmdDone"
  /\ caller = "erase"
  /\ \/ /\ cmdRet # 0
        /\ opRet' = -1
        /\ pc' = "Idle"
        /\ UNCHANGED <<elen, chunk>>
     \/ /\ cmdRet = 0
        /\ elen' = IF elen > BlockSize THEN elen - BlockSize ELSE 0
        /\ chunk' = chunk + 4
        /\ pc' = "EraseLoop"
        /\ UNCHANGED opRet
  /\ UNCHANGED <<hret, caller, cmdRet, ops, devVars, linkVars, histVars>>

(* sam4_flash_erase lines 491-498: return -1 on a failed command, else     *)
(* consume one block of len and advance chunk by 8 pages.                  *)
Sam4EraseNext ==
  /\ pc = "CmdDone"
  /\ caller = "erase"
  /\ \/ /\ cmdRet # 0
        /\ opRet' = -1
        /\ pc' = "Idle"
        /\ UNCHANGED <<elen, chunk>>
     \/ /\ cmdRet = 0
        /\ elen' = IF elen > BlockSize THEN elen - BlockSize ELSE 0
        /\ chunk' = chunk + 8
        /\ pc' = "EraseLoop"
        /\ UNCHANGED opRet
  /\ UNCHANGED <<hret, caller, cmdRet, ops, devVars, linkVars, histVars>>

(* sam3_flash_erase lines 503-510: nothing is done, 0 is returned.         *)
Sam3Erase(addr, len) ==
  /\ Family = "SAM3"
  /\ StartOp([kind |-> "erase", addr |-> addr, len |-> len])
  /\ opRet' = 0
  /\ UNCHANGED <<pc, caller, cmdRet, elen, chunk, hret, devVars, linkVars, display, exec>>

(* Mutant: the page index is taken from dest without subtracting f->start. *)
WriteStartNoOffset(dest, len) ==
  /\ StartOp([kind |-> "write", addr |-> dest, len |-> len])
  /\ chunk' = dest \div BufSize
  /\ pc' = "WriteIssue"
  /\ \/ /\ latch' = "loaded"
        /\ UNCHANGED linkVars
     \/ /\ faults < MaxFaults
        /\ latch' = "torn"
        /\ faults' = faults + 1
        /\ xferr' = TRUE
  /\ UNCHANGED <<caller, cmdRet, elen, opRet, hret, fsr, ccmd, mem, gpnvm, frr, display, exec>>

(* sam3x_flash_write lines 515-520: chunk = (dest - f->start) / buf_size;  *)
(* target_mem_write stages the data in the page latch (a faulted bulk      *)
(* write leaves it torn).                                                  *)
WriteStart(dest, len) ==
  /\ StartOp([kind |-> "write", addr |-> dest, len |-> len])
  /\ chunk' = (dest - FlashStart) \div BufSize
  /\ pc' = "WriteIssue"
  /\ \/ /\ latch' = "loaded"
        /\ UNCHANGED linkVars
     \/ /\ faults < MaxFaults
        /\ latch' = "torn"
        /\ faults' = faults + 1
        /\ xferr' = TRUE
  /\ UNCHANGED <<caller, cmdRet, elen, opRet, hret, fsr, ccmd, mem, gpnvm, frr, display, exec>>

(* sam3x_flash_write line 521: issue the region's write_cmd with chunk.    *)
WriteIssue ==
  /\ pc = "WriteIssue"
  /\ IssueCmd(WriteCmd, U16(chunk), "write")
  /\ UNCHANGED <<cmdRet, elen, chunk, opRet, hret, ops, mem, latch, gpnvm, frr>>
  /\ UNCHANGED <<display, prev, opIn>>

(* Mutant: the raw command result is returned.                            *)
WriteDoneRaw ==
  /\ pc = "CmdDone"
  /\ caller = "write"
  /\ opRet' = cmdRet
  /\ pc' = "Idle"
  /\ UNCHANGED <<caller, cmdRet, elen, chunk, hret, ops, devVars, linkVars, histVars>>

(* sam3x_flash_write lines 521-524: -1 if the command failed, else 0.      *)
WriteDone ==
  /\ pc = "CmdDone"
  /\ caller = "write"
  /\ opRet' = IF cmdRet # 0 THEN -1 ELSE 0
  /\ pc' = "Idle"
  /\ UNCHANGED <<caller, cmdRet, elen, chunk, hret, ops, devVars, linkVars, histVars>>

(* sam3x_cmd_gpnvm_get lines 531-533: GGPB, whose result is ignored.       *)
GpnvmGet ==
  /\ StartOp([kind |-> "get"])
  /\ IssueCmd(FCMD_GGPB, 0, "get")
  /\ UNCHANGED <<cmdRet, elen, chunk, opRet, hret, mem, latch, gpnvm, frr, display>>

(* sam3x_cmd_gpnvm_get lines 534-536: print EEFC_FRR, return true.         *)
GpnvmShow ==
  /\ pc = "CmdDone"
  /\ caller = "get"
  /\ \/ display' = frr /\ UNCHANGED linkVars
     \/ /\ faults < MaxFaults
        /\ display' \in SUBSET GpnvmIdx
        /\ faults' = faults + 1
        /\ xferr' = TRUE
  /\ hret' = TRUE
  /\ pc' = "Idle"
  /\ UNCHANGED <<caller, cmdRet, elen, chunk, opRet, ops, devVars, exec, prev, opIn>>

(* Mutant: SGPB and CGPB swapped.                                          *)
GpnvmSetSwapped(argc, bit, val) ==
  /\ StartOp([kind |-> "set", argc |-> argc, bit |-> bit, val |-> val])
  /\ \/ /\ argc # 3
        /\ hret' = FALSE
        /\ UNCHANGED <<pc, caller, ccmd, fsr, linkVars, exec>>
     \/ /\ argc = 3
        /\ IssueCmd(IF val = 0 THEN FCMD_SGPB ELSE FCMD_CGPB, U16(bit), "set")
        /\ UNCHANGED hret
  /\ UNCHANGED <<cmdRet, elen, chunk, opRet, mem, latch, gpnvm, frr, display>>

(* sam3x_cmd_gpnvm_set lines 544-551: with argc != 3 print the usage and  *)
(* return false; otherwise bit = atol(argv[1]), SGPB if atol(argv[2]) else *)
(* CGPB, with bit passed as the uint16_t arg.                              *)
GpnvmSet(argc, bit, val) ==
  /\ StartOp([kind |-> "set", argc |-> argc, bit |-> bit, val |-> val])
  /\ \/ /\ argc # 3
        /\ hret' = FALSE
        /\ UNCHANGED <<pc, caller, ccmd, fsr, linkVars, exec>>
     \/ /\ argc = 3
        /\ IssueCmd(IF val # 0 THEN FCMD_SGPB ELSE FCMD_CGPB, U16(bit), "set")
        /\ UNCHANGED hret
  /\ UNCHANGED <<cmdRet, elen, chunk, opRet, mem, latch, gpnvm, frr, display>>

(* Mutant: the value is printed without a fresh GGPB.                      *)
GpnvmSetGetNoRefresh ==
  /\ pc = "CmdDone"
  /\ caller = "set"
  /\ caller' = "get"
  /\ UNCHANGED <<pc, cmdRet, elen, chunk, opRet, hret, ops, devVars, linkVars, histVars>>

(* sam3x_cmd_gpnvm_set line 552: the set's result is ignored and           *)
(* sam3x_cmd_gpnvm_get runs (its GGPB, then GpnvmShow).                    *)
GpnvmSetGet ==
  /\ pc = "CmdDone"
  /\ caller = "set"
  /\ IssueCmd(FCMD_GGPB, 0, "get")
  /\ UNCHANGED <<cmdRet, elen, chunk, opRet, hret, ops, mem, latch, gpnvm, frr>>
  /\ UNCHANGED <<display, prev, opIn>>

-----------------------------------------------------------------------------
Init ==
  /\ pc = "Idle"
  /\ caller = "none"
  /\ cmdRet = 0
  /\ elen = 0
  /\ chunk = 0
  /\ opRet = 0
  /\ hret = TRUE
  /\ ops = 0
  /\ fsr = 1
  /\ ccmd = NoWord
  /\ mem = [p \in Pages |-> "written"]
  /\ latch = "empty"
  /\ gpnvm \in SUBSET GpnvmIdx
  /\ frr \in SUBSET GpnvmIdx
  /\ xferr = FALSE
  /\ faults = 0
  /\ display = {}
  /\ exec = "ok"
  /\ prev = [mem |-> mem, gpnvm |-> gpnvm]
  /\ opIn = [kind |-> "none"]

(* The steps of the host that follow a call (everything but starting an   *)
(* operation).                                                             *)
HostStep ==
  \/ Sam4EraseLoop \/ Sam4EraseNext \/ WriteIssue \/ WriteDone
  \/ CmdPoll \/ CmdFinal \/ GpnvmShow \/ GpnvmSetGet

(* The flashing driver and the console calling an operation.               *)
Call ==
  \/ \E a \in EraseAddrs : \E l \in EraseLens(a) : Sam4EraseStart(a, l) \/ Sam3Erase(a, l)
  \/ \E d \in WriteDests : \E l \in 1 .. BufSize : WriteStart(d, l)
  \/ GpnvmGet
  \/ \E argc \in {2, 3}, b \in GpnvmArgs, v \in {0, 1} : GpnvmSet(argc, b, v)

(* The driver has made its last call and the host is idle.                 *)
Quiescent == pc = "Idle" /\ ops = MaxOps /\ UNCHANGED vars

Next == Call \/ HostStep \/ Controller \/ Quiescent

(* The host thread runs whenever it has something to do, and the          *)
(* controller finishes every command it started (the datasheet bounds the  *)
(* time of every EEFC command).  Nobody is obliged to call an operation.   *)
Fairness == WF_vars(HostStep) /\ WF_vars(Controller)

Spec == Init /\ [][Next]_vars /\ Fairness

-----------------------------------------------------------------------------
HostTypeOK ==
  /\ pc \in PcStates
  /\ caller \in Callers
  /\ cmdRet \in -1 .. 7
  /\ elen \in Nat
  /\ chunk \in Nat
  /\ opRet \in {-1, 0}
  /\ ops \in 0 .. MaxOps
DevTypeOK ==
  /\ fsr \in FsrValues
  /\ ccmd \in Int
  /\ mem \in [Pages -> PageStates]
  /\ latch \in LatchStates
  /\ gpnvm \subseteq GpnvmIdx
  /\ frr \subseteq GpnvmIdx
LinkTypeOK == faults \in 0 .. MaxFaults
FlagTypeOK == hret \in BOOLEAN /\ xferr \in BOOLEAN
HistTypeOK ==
  /\ display \subseteq GpnvmIdx
  /\ exec \in {"pending", "ok", "failed", "lost"}
  /\ prev \in [mem : [Pages -> PageStates], gpnvm : SUBSET GpnvmIdx]

(* Every variable of the driver, the controller, the link and the history *)
(* holds a value of its type: sam3x_flash_cmd returns -1 or FSR error      *)
(* bits, erase and write return 0 or -1, and the controller only writes    *)
(* pages of the region and implemented GPNVM bits.                         *)
TypeOK == HostTypeOK /\ DevTypeOK /\ LinkTypeOK /\ FlagTypeOK /\ HistTypeOK

(* sam3x_flash_cmd returns 0 only when the controller really executed the  *)
(* command the host just wrote to EEFC_FCR and reported no error for it    *)
(* (the spec's READY outcome; TRANSPORT_FAILURE and COMMAND_ERROR must be  *)
(* reported as failures).                                                  *)
CmdResultFaithful ==
  pc = "CmdDone" /\ cmdRet = 0 => exec = "ok"

(* The pages an erase of `len` bytes at `addr` must erase: every page of  *)
(* the blocks (the erase granularity f->blocksize) that [addr, addr + len) *)
(* touches; none on SAM3, whose erase is a no-op by design.                *)
ErasedPages(in) ==
  IF Family = "SAM3" THEN {}
  ELSE LET lo == (in.addr - FlashStart) \div BlockSize
           hi == (in.addr - FlashStart + in.len - 1) \div BlockSize
       IN  {p \in Pages : p \div PagesPerBlock \in lo .. hi}

(* When f->erase returns 0 (sam4_flash_erase / sam3_flash_erase), exactly  *)
(* the blocks covering [addr, addr + len) have been erased and every other *)
(* page of the region holds what it held before the call.                  *)
EraseExact ==
  pc = "Idle" /\ opIn.kind = "erase" /\ opRet = 0 =>
    mem = [p \in Pages |-> IF p \in ErasedPages(opIn) THEN "erased" ELSE prev.mem[p]]

(* When sam3x_flash_write returns 0, the page at dest holds the new data   *)
(* if the family's protocol was followed (SAM3: always, since EWP erases;  *)
(* SAM4: if the page had been erased before), and no other page changed.  *)
WriteLands ==
  pc = "Idle" /\ opIn.kind = "write" /\ opRet = 0 =>
    mem = [prev.mem EXCEPT ![(opIn.addr - FlashStart) \div BufSize] =
             IF Family = "SAM3" \/ @ = "erased" THEN "written" ELSE "garbage"]

(* The pages an operation may touch: those its erase must erase, or the    *)
(* one page a write's destination names; GPNVM commands touch none.        *)
RequestPages(in) ==
  IF in.kind = "erase" THEN ErasedPages(in)
  ELSE IF in.kind = "write" THEN {(in.addr - FlashStart) \div BufSize}
  ELSE {}

(* A step that changes a flash page happens while an erase or write is in  *)
(* progress and changes a page of that request: the EPA and WP/EWP words   *)
(* sam4_flash_erase and sam3x_flash_write hand sam3x_flash_cmd never reach *)
(* outside [addr, addr + len), and no command runs once the call returned. *)
FlashStepInRequest ==
  \A p \in Pages : mem'[p] # mem[p] => pc # "Idle" /\ p \in RequestPages(opIn)
FlashChangesInRequest == [][FlashStepInRequest]_vars

(* The GPNVM value sam3x_cmd_gpnvm_get prints (also at the end of          *)
(* gpnvm_set) is the controller's GPNVM state.                             *)
GpnvmShown ==
  pc = "Idle" /\ opIn.kind \in {"get", "set"} /\ hret => display = gpnvm

(* `monitor gpnvm_set <bit> <val>` changes no GPNVM bit other than <bit>,  *)
(* and when <bit> exists it ends set iff <val> is non-zero.                *)
GpnvmSetNamedBit ==
  pc = "Idle" /\ opIn.kind = "set" /\ hret =>
    /\ gpnvm \ {opIn.bit} = prev.gpnvm \ {opIn.bit}
    /\ opIn.bit \in GpnvmIdx => (opIn.bit \in gpnvm <=> opIn.val # 0)

(* gpnvm_set reports success (returns true) only when the SGPB / CGPB it  *)
(* issued could succeed, i.e. named a GPNVM bit the controller has; spec   *)
(* section 7 says a controller error is reported upward, by value.         *)
GpnvmSetReportsError ==
  pc = "Idle" /\ opIn.kind = "set" /\ hret => opIn.bit \in GpnvmIdx

(* Every erase, write or GPNVM command the host starts returns: the FSR    *)
(* polling loop of sam3x_flash_cmd, which has no timeout, terminates.      *)
OpTerminates == pc # "Idle" ~> pc = "Idle"

(* Inductive strengthening of CmdResultFaithful on a reliable link whose   *)
(* error bits are sticky (MaxFaults = 0, ~ErrorClearOnRead): a command is  *)
(* in flight only while the host polls, the host writes EEFC_FCR only to   *)
(* an idle controller, and while the host is in sam3x_flash_cmd after the  *)
(* command finished, FSR's error bits say how it ended.                    *)
CmdSync ==
  /\ xferr = FALSE
  /\ ccmd # NoWord => pc = "CmdPoll" /\ exec = "pending" /\ fsr = 0
  /\ ccmd = NoWord => Ready(fsr) /\ exec # "pending"
  /\ pc \in {"CmdPoll", "CmdFinal", "CmdDone"} => exec # "lost"
  /\ pc \in {"CmdPoll", "CmdFinal"} /\ ccmd = NoWord => (exec = "ok" <=> ErrorBits(fsr) = 0)
  /\ pc = "CmdFinal" => ccmd = NoWord
  /\ pc = "CmdDone" => (exec = "ok" <=> cmdRet = 0)
CmdInv == TypeOK /\ CmdSync

=============================================================================
