------------------------------- MODULE FlashOps -------------------------------
(***************************************************************************)
(* What the erase and write of one flash region, and the GPNVM console     *)
(* commands, promise their callers (spec 4.4 - 4.6 and 7), with no command *)
(* words, status polling or controller in sight.                           *)
(*                                                                         *)
(* A request takes effect in units, each atomic: one erase block at a time *)
(* in ascending order, the one page of a write, the one GPNVM bit of a     *)
(* set.  A request may fail at any point, keeping the units already done   *)
(* (no rollback), and it may report success only when all its units took   *)
(* effect.  A GPNVM command shows the GPNVM state after its unit.  A SAM3  *)
(* erase and a gpnvm_set with the wrong argument count complete at once    *)
(* without touching the flash.                                             *)
(***************************************************************************)
EXTENDS Integers

CONSTANTS
  Family,          \* "SAM3" (no discrete erase) or "SAM4"
  FlashStart,      \* start address of the region
  PageSize,        \* bytes per page
  PagesPerBlock,   \* pages per erase block
  Pages,           \* page indices of the region
  GpnvmIdx         \* GPNVM bits the device implements

VARIABLES
  mem,       \* contents of each page
  gpnvm,     \* set GPNVM bits
  display,   \* GPNVM value last shown on the console
  req,       \* request in progress, or NoReq
  todo,      \* units of req that have not taken effect yet
  opRet,     \* result of the last erase / write
  hret       \* result of the last console command

avars == <<mem, gpnvm, display, req, todo, opRet, hret>>

NoReq == [kind |-> "none"]
PageStates == {"erased", "written", "garbage"}
BlockSize == PageSize * PagesPerBlock

(* The units of a request: the blocks [addr, addr + len) touches, the page *)
(* at addr, or the GPNVM bit if the device has it.                         *)
Work(r) ==
  CASE r.kind = "erase" -> (r.addr - FlashStart) \div BlockSize ..
                           (r.addr - FlashStart + r.len - 1) \div BlockSize
    [] r.kind = "write" -> {(r.addr - FlashStart) \div PageSize}
    [] r.kind = "set" -> {r.bit} \cap GpnvmIdx
    [] OTHER -> {}

Init ==
  /\ mem \in [Pages -> PageStates]
  /\ gpnvm \in SUBSET GpnvmIdx
  /\ display = {}
  /\ req = NoReq
  /\ todo = {}
  /\ opRet = 0
  /\ hret = TRUE

(* A caller hands the region or the console a request.                     *)
Request ==
  /\ req = NoReq
  /\ req'.kind \in {"erase", "write", "get", "set"}
  /\ req'.kind = "erase" => Family = "SAM4"
  /\ req'.kind = "set" => req'.argc = 3
  /\ todo' = Work(req')
  /\ UNCHANGED <<mem, gpnvm, display, opRet, hret>>

(* A SAM3 erase succeeds and a malformed gpnvm_set fails, at once.         *)
Instant ==
  /\ req = NoReq
  /\ \/ Family = "SAM3" /\ opRet' = 0 /\ UNCHANGED hret
     \/ hret' = FALSE /\ UNCHANGED opRet
  /\ UNCHANGED <<mem, gpnvm, display, req, todo>>

(* The lowest block still to erase is erased.                              *)
EraseBlock ==
  /\ req.kind = "erase"
  /\ \E b \in todo :
       /\ \A c \in todo : b <= c
       /\ mem' = [p \in Pages |-> IF p \div PagesPerBlock = b THEN "erased" ELSE mem[p]]
       /\ todo' = todo \ {b}
  /\ UNCHANGED <<gpnvm, display, req, opRet, hret>>

(* The page is programmed: SAM3 erases it first, SAM4 can only clear bits. *)
Program ==
  /\ req.kind = "write"
  /\ \E p \in todo :
       mem' = [mem EXCEPT ![p] = IF Family = "SAM3" \/ @ = "erased" THEN "written" ELSE "garbage"]
  /\ todo' = {}
  /\ UNCHANGED <<gpnvm, display, req, opRet, hret>>

(* The GPNVM bit is set or cleared.                                        *)
SetBit ==
  /\ req.kind = "set"
  /\ \E b \in todo :
       gpnvm' = IF req.val # 0 THEN gpnvm \cup {b} ELSE gpnvm \ {b}
  /\ todo' = {}
  /\ UNCHANGED <<mem, display, req, opRet, hret>>

(* An erase or write returns; 0 only when every unit took effect.          *)
Return(r) ==
  /\ req.kind \in {"erase", "write"}
  /\ r = 0 => todo = {}
  /\ opRet' = r
  /\ req' = NoReq
  /\ todo' = {}
  /\ UNCHANGED <<mem, gpnvm, display, hret>>

(* A GPNVM command shows the GPNVM state and returns true.                 *)
Show ==
  /\ req.kind \in {"get", "set"}
  /\ todo = {}
  /\ display' = gpnvm
  /\ hret' = TRUE
  /\ req' = NoReq
  /\ UNCHANGED <<mem, gpnvm, todo, opRet>>

Progress == EraseBlock \/ Program \/ SetBit \/ Return(0) \/ Return(-1) \/ Show

Next == Request \/ Instant \/ Progress

(* A request in progress does not stall.                                   *)
Spec == Init /\ [][Next]_avars /\ WF_avars(Progress)

=============================================================================
