# Verification of the SAM3/SAM4/SAMx7 flash driver (`src/src/target/sam3x.c`)

This directory holds TLA+ models of the Atmel/Microchip SAM flash driver in
`src/src/target/sam3x.c`, TLC configurations that model-check them, and TLAPS proofs.

## 1. Inventory of the system

| Part | Code | Model |
|---|---|---|
| EEFC command sequencer | `sam3x_flash_cmd` (444-458) | `SamEefc`: `IssueCmd`, `CmdPoll`, `CmdFinal` |
| SAM4 / SAM3 erase | `sam4_flash_erase` (477-501), `sam3_flash_erase` (503-510) | `SamEefc`: `Sam4EraseStart`, `Sam4EraseLoop`, `Sam4EraseNext`, `Sam3Erase` |
| Flash write | `sam3x_flash_write` (512-525) | `SamEefc`: `WriteStart`, `WriteIssue`, `WriteDone` |
| GPNVM console commands | `sam3x_cmd_gpnvm_get/set` (527-555) | `SamEefc`: `GpnvmGet`, `GpnvmShow`, `GpnvmSet`, `GpnvmSetGet` |
| EEFC base lookup | `sam3x_flash_base` (460-475) | `SamProbe`: `sam3x_flash_base` |
| Chip-ID decoding | `sam_flash_size`, `sam_sram_size`, `samx7x_parse_id` (206-328) | `SamProbe`: operators of the same names |
| Probes, region registration | `samx7x_probe`, `sam3x_probe`, `sam3_add_flash`, `sam4_add_flash` (160-204, 330-442) | `SamProbe`: `Samx7xProbe`, `Sam3xProbe*`, `Sam3Region`, `Sam4Region`, `AddFlash` |
| What erase, write and the GPNVM commands promise (spec 4.4-4.6, 7) | - | `FlashOps` (abstract), `SamEefcFlashOps` (refinement mapping) |
| SWO, hosted debug, F3 platform headers | `swo_internal.h`, `hosted/debug.h`, `f3/platform.h` | not modelled: declarations and macros only |

The parts interact as follows. A probe reads the chip-ID registers and registers flash
regions. Each region carries an EEFC base, a block size, a buffer size and a write
command (WP for SAM4 and SAMx7, EWP for SAM3). The flashing layer then calls erase and
write on those regions. Erase, write and the GPNVM console commands all go through
`sam3x_flash_cmd`, which:
1. writes `EEFC_FCR`;
2. polls `EEFC_FSR` until FRDY is set, calling `target_check_error` on each not-ready read;
3. reads `EEFC_FSR` again and returns its FCMDE|FLOCKE bits.

## 2. Modules

### `SamEefc`: the driver, the EEFC controller and the debug link as concurrent actors

**Host variables.** These model the driver:

| Variable | Meaning |
|---|---|
| `pc` | the driver's position: Idle, EraseLoop, WriteIssue, CmdPoll, CmdFinal, CmdDone |
| `caller` | which routine called `sam3x_flash_cmd` |
| `cmdRet` | its return value |
| `elen`, `chunk` | the erase/write locals |
| `opRet`, `hret` | the routine's or handler's result |
| `ops` | a bound on the operations started |

**Controller variables.** These model the EEFC: `fsr`, the pending command word `ccmd`,
page contents `mem`, the page latch `latch`, `gpnvm` and `frr`.

**Link variables.** `xferr` is the latched transport error that `target_check_error`
reports, and `faults` counts transport faults.

**History variables.** These are used only by the properties: the `display`ed GPNVM
value, the controller's fate for the last command (`exec`), `prev` and `opIn`.

**How the code maps to actions:**
- Each loop iteration and each statement with a bus access is one atomic step of the
  host, because the bus accesses are where the controller can interleave.
- `CmdPoll` is one FSR read plus the `target_check_error` test. It returns -1 on a
  transport error, exits on FRDY, and otherwise loops.
- `CmdFinal` is the second FSR read.
- The controller may complete a pending command at any time. It rejects a bad key,
  command or argument with FCMDE, refuses a locked page with FLOCKE, and otherwise
  executes the command.
  - WP can only clear bits, so WP on a written page gives "garbage".
  - EWP erases and then programs.
  - EPA erases the 8-page group.
  - S/C/GGPB set, clear or read a GPNVM bit.
- A faulted read returns any FSR value and latches `xferr`.
- The `uint16_t` argument of `sam3x_flash_cmd` is `U16`, and `chunk | 0x1` is `OrOne`.

**Constants** (set in `MCSamEefc` and the cfgs):
- `Family` (SAM3 or SAM4);
- `PageSize`, `NBlocks`, `FlashStart`;
- `LockedPages`;
- `GpnvmBits` and the set of GPNVM console arguments;
- `MaxOps`, `MaxFaults`;
- `ErrorClearOnRead`: a hardware choice, see section 5.

### `FlashOps`: the abstract specification

What a caller of erase, write and the GPNVM console commands may observe, with no
command words, polling or controller. A request (`Request`) takes effect in units,
each atomic: the blocks of an erase one at a time from the lowest (`EraseBlock`), the
page of a write (`Program`), the GPNVM bit of a set (`SetBit`). It may fail at any
point and keeps what was done (`Return(-1)`); it may return 0 only when no unit is
left (`Return(0)`). A GPNVM command shows the GPNVM state after its unit (`Show`). A
SAM3 erase and a `gpnvm_set` with the wrong argc complete at once (`Instant`).
`WF(Progress)`: a request in progress completes.

### `SamEefcFlashOps`: `SamEefc` implements `FlashOps`

`Abs == INSTANCE FlashOps WITH req <- absReq, todo <- absTodo`. `absReq` is `opIn`
while the driver is not Idle. `absTodo` is the units left: for an erase, the blocks
from `chunk / 8` that `len` still covers, less the current one once its EPA took
effect; for a write its page until WP/EWP ran; for a set its bit until SGPB/CGPB ran.
The step correspondence:

| `SamEefc` step | `FlashOps` step |
|---|---|
| `Sam4EraseStart`, `WriteStart`, `GpnvmGet`, `GpnvmSet` (argc 3) | `Request` |
| `Sam3Erase`, `GpnvmSet` (argc not 3) | `Instant` |
| controller executes EPA / WP, EWP / SGPB, CGPB | `EraseBlock` / `Program` / `SetBit` |
| `Sam4EraseNext`, `WriteDone` returning | `Return(0)` or `Return(-1)` |
| `GpnvmShow` | `Show` |
| issuing a command, polling, GGPB, a rejected command | stutter |

`AbsSpec == Abs!Spec` is checked by TLC; `RefInv` is the invariant that makes the
mapping a step-by-step simulation (section 4).

`OpSync` says what the running operation has done so far, relative to the snapshot
`prev` taken when it was called:
- `EraseSync`: in `sam4_flash_erase`, the blocks from the request's first block
  (`EraseLo`) up to `chunk / 8` are erased (`chunk / 8` itself once its EPA took
  effect), every other page is as in `prev`, and `chunk / 8` plus the blocks `len`
  still covers reaches the request's last block (`EraseHi`);
- `WriteSync`: in `sam3x_flash_write`, `chunk` is the page of `dest`, and the flash is
  `prev` until WP/EWP took effect and `MemAfterWrite` after;
- `SetSync`: in `gpnvm_set`, no GPNVM bit but the named one differs from `prev`, and
  the named bit has its requested value once SGPB/CGPB finished.

`SafeInv == RefInv /\ OpSync` is the inductive invariant of the proofs of the four
end-of-operation properties (section 4).

### `SamProbe`: probing and region registration

**Variables:**
- the two CIDR registers and EXID;
- the registered `flash` regions and `ram` (sequences);
- the registered command list `cmds`;
- `driver`, the private `storage`, which probe ran, its `result`, and the first bank's EEFC base.

**Actions.** `Samx7xProbe`, and `Sam3xProbe` with one disjunct per `case` group of the
code. Each `add_flash` call and the private-storage `calloc` may fail, and each failure
is a separate nondeterministic outcome.

## 3. Runs

| Run | Module / cfg | Expect | Shows |
|---|---|---|---|
| sam4_reliable | MCSamEefc / SamEefc_sam4.cfg | pass | TypeOK, the inductive CmdInv, CmdResultFaithful, EraseExact, WriteLands, GpnvmShown, GpnvmSetNamedBit, OpTerminates on a SAM4 region with a locked page; the action property FlashChangesInRequest (a step changes a flash page only while an erase or write runs, and only a page of the blocks or page it asked for); and the refinement: `AbsSpec` (the driver with the controller implements `FlashOps`, liveness included) with `RefInv`; and `OpSync`, the strengthening the TLAPS proofs use |
| sam3_locked | SamEefc_sam3.cfg | pass | WriteLands and `OpSync` with EWP and the no-op SAM3 erase |
| faults_terminate | SamEefc_faults.cfg | pass | every operation returns despite up to 2 transport faults |
| ready_skips_check | SamEefc_ready_skips_check.cfg | violation | a faulted or lost access that reads FRDY=1 makes a command that never ran look successful |
| gpnvm_stale | SamEefc_gpnvm_stale.cfg | violation | gpnvm_get prints a stale FRR after a failed GGPB |
| gpnvm_wide_bit | SamEefc_gpnvm_wide_bit.cfg | violation | `gpnvm_set 65536 1` sets bit 0 |
| gpnvm_set_error | SamEefc_gpnvm_set_error.cfg | violation | `gpnvm_set` on a GPNVM bit the part lacks is rejected with FCMDE and still returns true (line 551 discards the result; spec 7 says errors are reported by value) |
| unaligned_erase | SamEefc_unaligned_erase.cfg | violation | an erase starting one page into a block (`AlignedErase = FALSE`) returns 0 with the tail of the range in the next block unerased |
| probe_all | MCSamProbe / SamProbe_all.cfg | pass | every CIDR code: regions are whole blocks, contiguous, and the GPNVM base is bank 0's EEFC |
| probe_sam3u_size | SamProbe_sam3u_size.cfg | violation | SAM3U registers 1M for a 512K or a 2048K NVPSIZ |
| probe_zero_size | SamProbe_zero_size.cfg | violation | an unknown NVPSIZ probes true with zero-length regions |
| probe_partial_state | SamProbe_partial_state.cfg | violation | a failed samx7x calloc leaves RAM, flash and commands registered |

Every property of a pass run has a mutant in `PROJECT.json`. The mutant is a plausible
bug in the mapped definition (for example chunk advanced by 4, the page offset dropped,
the error bits dropped, SGPB and CGPB swapped, the poll exiting on error bits, or SAM4
blocks of one page), and TLC finds the property violated under the run's own cfg.

**Bounds.**
- **`SamEefc` runs:**
  - 2 blocks (sam4_reliable: two 8-page blocks, the second locked; sam3_locked: four
    one-page blocks, the last locked), so the SAM4 erase loop iterates and an erase can
    run into a locked block;
  - 3 operations (2 in faults_terminate), enough for a write onto a written page and for
    an operation that starts after an earlier one failed;
  - 2 GPNVM bits;
  - console arguments including argc 2 and an out-of-range bit.

  Error bits, a locked page, a rejected command and a write onto written flash all occur
  in these runs.
- **`SamProbe` runs:** they enumerate every ARCH code of the driver plus an unknown one,
  all 16 NVPSIZ codes, two EPROCs and both calloc outcomes.

**Fairness.**
- `WF_vars(HostStep)`: the driver runs to completion once called.
- `WF_vars(Controller)`: the EEFC finishes every command it accepted. The datasheets
  bound command time.

**What `FlashChangesInRequest` needs.** It holds only on a reliable link with aligned
erases. Under the `faults_terminate` cfg TLC finds it violated: a faulted FSR read
makes `sam3x_flash_cmd` return -1 (line 452) while the EPA is still pending, the erase
returns, and the controller then erases the block with the host idle. spec.md counts a
transport failure as fatal to the current call only, so this is recorded under the
hazard at line 449 rather than as a finding. Under the `unaligned_erase` cfg it also
fails: the EPA of `chunk | 1` erases the whole block, including pages before `addr`.

The code has no timeout (`sam3x_flash_cmd` polls forever), so `OpTerminates` holds only
under the controller's fairness. With faults, it relies on `target_check_error` turning
a fault into a -1 return.

## 4. Proofs

Four modules hold theorems: `SamEefcProofs`, `SamEefcRefinement`,
`SamEefcSafetyProofs` and `SamProbeProofs`.
All are checked by `tlapm` to the last leaf.

### `SamEefcProofs`

**`TypeCorrect`: `Spec => []TypeOK`.**
- It holds for every value of the constants under `BoundsAssumption`.
- `TypeOK` is inductive as it stands. The step proof has one case per action, and under
  each case the Boolean flags and the rest of the state are proved separately.
- **Content:** a command result is -1 or FSR error bits, and the controller touches only
  pages of the region and implemented GPNVM bits. Both rest on the lemma `ValidArgFacts`.

**`ReliableCmdResult`: `Spec => []CmdResultFaithful`.**
- **Hypotheses:** `MaxFaults = 0` (a reliable link) and `ErrorClearOnRead = FALSE`.
- **Strengthening:** `CmdResultFaithful` is not inductive. It is strengthened to
  `CmdInv == TypeOK /\ CmdSync`, which relates the driver's position to the controller.
  `CmdSync` says:
  - a pending command word means the driver is polling with FSR 0;
  - no pending word means FSR is ready and holds exactly the error bits of the command
    the controller finished;
  - `CmdDone` returns 0 exactly when that command ran.
- TLC checks `CmdInv` in `sam4_reliable`.
- **Three lemmas** carry the proof:
  - `SyncInit`;
  - `SyncStep`, with one case per action and the poll split on FRDY;
  - `IssueSync`, shared by the four actions that issue a command.

### `SamEefcRefinement`: the refinement, for every region size

**Hypotheses (`RefHyp`).** A reliable link (`MaxFaults = 0`), sticky error bits,
block-aligned erases (`AlignedErase`), and a region and console arguments that fit the
`uint16_t` argument (`NPages <= 2^16`, every GPNVM argument `< 2^16`). Without them
the refinement is false, as the violation runs show.

**Inductive invariant.** `RefInv == CmdInv /\ RefSync`. `RefSync` ties the driver's
locals to the pending command: the erase loop walks whole blocks inside the region;
a write names a page of the region with the latch loaded; the pending command word is
exactly `IssuedWord`, the one its caller wrote; GGPB has refreshed FRR by the time
`gpnvm_get` reads it; only a bit the device lacks makes SGPB/CGPB fail. Without it a
controller step could not be matched to the abstract unit (`EraseBlock` needs EPA's
argument to be the lowest block left), and a return of 0 could not be shown to come
after every unit. TLC checks `RefInv` in `sam4_reliable` before it is proved.

**Argument.** `RefInit`: `Init => RefInv /\ Abs!Init`. `RefStep`: one lemma per
action, each proving `RefSync'` and the matching abstract step of the table above
(or a stutter). They rest on arithmetic lemmas about `\div`, the encoding of command
words (`WordFields`, `U16Id`, `EpaBlock`: `chunk | 1` names block `chunk / 8` when
`chunk` is block-aligned) and the abstract `Work` sets (`WorkFacts`). Then
`RefInvariant: Spec => []RefInv` and
`Refinement: Spec => Abs!Init /\ [][Abs!Next]_Abs!avars` follow by PTL.

### `SamEefcSafetyProofs`: what erase, write and the GPNVM commands leave behind

**Theorems.** Under `RefHyp`, for every region size, lock set and GPNVM count:
- `EraseExactTheorem: Spec => []EraseExact`;
- `WriteLandsTheorem: Spec => []WriteLands`;
- `GpnvmShownTheorem: Spec => []GpnvmShown`;
- `GpnvmSetNamedBitTheorem: Spec => []GpnvmSetNamedBit`;
- `SafeInvariant: Spec => []SafeInv`, from which the four follow, and
  `OpSyncInvariant: Spec => []OpSync`;
- `FlashChangesInRequestTheorem: Spec => FlashChangesInRequest`, the action property
  `[][FlashStepInRequest]_vars`.

It also states `CmdInvariant: Spec => []CmdInv` on a reliable link with sticky error
bits (the invariant behind `ReliableCmdResult`).

**Why a strengthening.** The four properties speak of the Idle state after an
operation returned, but the state that decides them is built up while the
operation runs: when `sam4_flash_erase` returns 0 the flash must already hold every
block of the request erased. `OpSync` (section 2) states that state at each point of
the erase loop, the write and gpnvm_set. TLC checks it in `sam4_reliable` and
`sam3_locked` before it is proved. It needs `RefInv`: the EPA word the controller
executes names block `chunk / 8` (so one more block joins the erased run), WP/EWP
names the write's page with the latch loaded, SGPB/CGPB names the requested bit,
GGPB refreshed FRR before `GpnvmShow` prints it, and a failed command changed
nothing.

**Argument.** `SafeInit`, then one lemma per action proving `OpSync'` from
`RefInv /\ OpSync`, with `RefStep` giving `RefInv'` (`SafeStep`):
- the start actions take the snapshot; for an erase `EraseLo = chunk / 8` and
  `EraseHi + 1 = chunk / 8 + ceil(len / blocksize)` (`DivShift`, `CeilFacts`);
- `SafeEraseLoop`: at `len = 0` the count of blocks left is 0, so the erased run
  is exactly `EraseLo .. EraseHi`, which is `ErasedPages`;
- `SafeEraseNext`: after a successful EPA, `chunk` moves one block and one block
  less is left, so the erased run is unchanged;
- `SafeCtrlErase`, `SafeCtrlWrite`, `SafeCtrlSet`, `SafeCtrlGet`: the controller's
  completion of each caller's command (`CtrlKeeps`: the host's state and `prev`
  stay, so the Idle-time properties hold vacuously);
- `SafeWriteDone`, `SafeGpnvmShow`: the return that makes `WriteLands` and
  `GpnvmShown` / `GpnvmSetNamedBit` non-vacuous;
- the polling steps move only `pc`, `cmdRet` and FSR (`SafeInCmd`).

**The action property.** `FlashStepSafe` proves `SafeInv /\ [Next]_vars =>
[FlashStepInRequest]_vars`, and PTL combines it with `SafeInvariant`:
- `HostKeepsMem`: no host step (a call, a register access, a return) changes `mem`;
- `FlashTouched`: a completing WP/EWP/EPA changes only the pages of `Touched(ccmd)`;
- `CtrlInRequest`: by `RefSync` the pending word is the caller's `IssuedWord`, so the
  host is not Idle. For an erase, `EpaBlock` and `EraseSync` put block `chunk / 8`
  inside `EraseLo .. EraseHi`, which is `RequestPages`. For a write, `WriteSync` puts
  the page at the request's page. The GPNVM words touch no page
  (`GpnvmWordTouchesNothing`).

The violation runs `unaligned_erase`, `gpnvm_stale`, `gpnvm_wide_bit` and
`ready_skips_check` show that each hypothesis of `RefHyp` is needed.

### `SamProbeProofs`

`GpnvmBaseTheorem: ProbeSpec => []GpnvmBaseIsBank0`, for every set of chip-ID codes
and with calloc failures: each `case` of `sam3x_probe` that returns true sets
`t->driver` to the string that the `strcmp` chain of `sam3x_flash_base` maps to the
EEFC of the first bank it registered, and `samx7x_probe` sets the variant string,
which falls to the SAMx7x EEFC. The invariant is inductive as it stands; the lemma
`FlashBaseByDriver` evaluates the chain for each driver string.

`RegionsTileTheorem: ProbeSpec => []RegionsTileFlash`, for the same constants.
`RegionsTileFlash` is not inductive on its own: a probe appends its regions to
`flash`, so the new regions tile only if nothing was registered before. The
strengthening is `TileIInv == RegionsTileFlash /\ (probed = "none" => flash = <<>>)`.
The step proof has one lemma per probe:
- `Sam3xTiles`: each `case` group calls `sam3_add_flash` or `sam4_add_flash` once or
  twice. Two banks tile because the second bank's base is where the first bank ends,
  whichever of the two `add_flash` calls fail (`TileTwo`).
- `Samx7xTiles`: one region of the full size.

Both rest on `FlashSizeAligned`: every `sam_flash_size` value is a multiple of
8192 bytes, so half of it is a whole number of 8 KB blocks (`NvpsizTable`,
`HalfAligned`).

`ProbeTypeTheorem: ProbeSpec => []ProbeTypeOK`, inductive as it stands. The lemmas
`Sam3xType` and `Samx7xType` prove that each appended region is a well-formed record.

For the prover, two definitions of `SamProbe` are stated in plain TLA+ forms, with
the same values:
- the NVPSIZ table `NvpsizBytes` is a function over the codes, rather than TLC's
  `:>`/`@@` table;
- the initial `t->driver` string is the named constant `DRV_CORTEXM`.

### Out of the prover's reach, and only model-checked

- Liveness: `OpTerminates` and the fairness part of `AbsSpec`.
- `FlashSizeAccounted`, `ProbeTrueMeansUsableRegion` and `FailedProbeLeavesNoState`
  in `SamProbe`: checked by TLC over every chip-ID code, not proved.
- The `SamEefc` properties outside `RefHyp`: with transport faults or clear-on-read
  error bits, `OpTerminates` is checked by `faults_terminate`, and the safety
  properties fail (the violation runs).

## 5. Assumptions about what is not in `src/`

These definitions are marked `spec_modelled` in the map:
- **EEFC behaviour** (datasheet):
  - FCR writes while busy are ignored;
  - FCMDE for a bad key, command or argument;
  - FLOCKE on a locked page;
  - WP needs an erased page;
  - error bits are sticky, or cleared on read when `ErrorClearOnRead` is TRUE. Every
    run and proof takes them sticky. With clear-on-read bits (which some SAM4S/E70
    datasheets describe), the second FSR read of `sam3x_flash_cmd` (line 456) would
    lose FCMDE/FLOCKE and `CmdResultFaithful` fails; the repository does not say
    which behaviour the parts have, so no run asserts it.
- **The link:** `target_mem_read32` returns garbage and latches an error on a fault.
  `target_check_error` reports the latch.
- **EPA with 8 pages** is accepted for every block of a SAM4 region. Some SAM4
  datasheets restrict it to the small sectors; the repository does not say which.
- **The callers:** the flashing layer issues erases of at least one byte and
  buffer-aligned writes. Erases are block-aligned when `AlignedErase` is TRUE (all
  runs but `unaligned_erase`), and may start at any page of a block when it is FALSE. The console passes any argc and small argument values.

## 6. Not modelled

- **The headers** `swo_internal.h`, `hosted/debug.h` and `f3/platform.h`: declarations
  only, with no behaviour.
- **Formatting and data:**
  - the `sprintf`'d variant string (only its presence is modelled, as `driver = "variant"`);
  - `DEBUG_WARN` logging;
  - the data bytes of a write (a page is erased, written or garbage).
- **The revision letter** of the variant string is modelled (`samx7x_parse_id`) and
  `RevisionFromVersion` states the intended decoding, but no run keeps it: the code
  reads EXID bits 4:0, which overlap the pin field, so a version-0 part with pin
  code 2 prints revision '_'; this only changes the printed string.

## 7. Further work

1. **The remaining `SamProbe` invariants in TLAPS.** `FlashSizeAccounted` needs
   the sum of the region lengths over the concatenations; the lemmas of
   `SamProbeProofs` give most of it.
