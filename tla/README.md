# Verification of the partial-reconfiguration software

TLA+ models of the Linux software that reconfigures an Intel FPGA over PCIe
while the system runs: the driver `fpga_pcie` with its tool `fpga-configure`,
the older debugfs driver with its scripts, and the host program that tests a
loaded persona against the RTL of that persona. Paths below are relative to
`src/software/drivers/` unless they start with `src/`; numbers are lines.

    tlc -workers 2 -config RegionControllerSerial.cfg MCRegionController
    for m in *_proofs.tla; do tlapm $m; done

## 1. The system

A card holds one FPGA with a static region (PCIe, PR IP, region controllers)
and PR regions whose logic, the *persona*, can be replaced while the card
runs. There are two operations: *partial reconfiguration* replaces a persona
through the PR IP, and *full reconfiguration* programs the whole chip over
JTAG, during which the card falls off the bus.

### Components

| Component | State | Operations | Interacts with | Model |
|---|---|---|---|---|
| Freeze protocol, `fpga_pcie/fpga-region-controller.c` | control and status register of each region controller | `freeze_enable`, `freeze_disable` | called by `my_ioctl()`; hand-shakes with the bridges and, through them, the persona | `RegionController`, abstractly `RegionIsolation` |
| PR load, `fpga_config_buf_load()` in `fpga_pcie/fpga-pcie.c`, `altera-pr-ip-core-a10.c`, `-s10.c` | CSR of the PR IP, `config_state`, file position | write init, write, write complete | called by `my_ioctl()`; drives the PR IP | `ConfigLoad` |
| ioctl interface, `fpga_pcie/fpga-pcie.c` | `priv->state`, saved error mask, saved PCI state | PR, freeze, AER ioctls, register access, ROM dump | called by `fpga-configure`, by any number of processes, without a lock | `PartialReconfig`, `UpstreamAer`; register access in `GolGame` (partly) |
| `fpga_pcie/fpga-configure.c` and `program-fpga-jtag` | position in a sequence of ioctls | `-p`, `-d`, `-e`; `-d`, program, `-e` | the driver | `PartialReconfig`, `UpstreamAer` |
| debugfs driver, `fpga/fpga-pcie.c` and `fpga/program-fpga-jtag` | `state` (three values), subdriver list, saved mask | writes `0 1 3 4 5` to `state`, write of `base_dtb` | scripts, shells; probes the FPGA manager of each PR IP | `DebugfsState`, `DeviceTree` (partly) |
| FPGA manager, `fpga/fpga-mgr.c`, `fpga-mgr-debugfs.c` and its PR cores | `mgr->state`, `ref_mutex`, debugfs image file | `buf_load`, `firmware_load`, get, put, register, unregister | probed by the debugfs driver; written to by scripts and shells | `FpgaMgr` (partly) |
| UIO tool `fpga/fpga_region_controller.c`, `fpga/program-fpga-pcie` | registers mapped into user space | freeze, unfreeze; script around a debugfs load | region controller, FPGA manager | `ScriptReconfig` |
| Module, probe, remove and character device of `fpga_pcie` | globals `devt` and `cl`, `priv` of each card; class, numbers, cdevs, node in the kernel | load, probe, remove, unload, open, close | PCI core, character device layer | `CharDev` |
| `fpga/libfdt` (vendored) | | header check, walk over the nodes, property search | called by the debugfs driver for the ROM's tree and `base_dtb` | `DeviceTree` (what the driver calls) |
| Host programs `example_host_uio.c` under `src/ref_designs/*/software` | mapped registers, parameters and results of a test | find the UIO device, dispatch on the persona, arithmetic, DSP, DDR4 sweep, game of life, hierarchical regions | personas, register by register | `HostProgram`, `Ddr4Sweep`, `GolGame` (partly) |
| Persona RTL under `src/ref_designs/*/source` | registers and state machines of the four personas | one clock edge | host program; memory; bridges | the same three, and the freeze handshake in `RegionController` (partly) |
| UVM environment | | scoreboard | | read as documentation, not modelled |

### What is hard here

* **No lock.** `my_ioctl()` is an `unlocked_ioctl` and takes none; the steps
  of two processes interleave between any two register accesses.
* **Order.** The region must be isolated before it is reset, in reset before
  it is written, out of reset before it is opened. Masking, saving,
  programming, restoring and unmasking have the same shape.
* **Failure in the middle.** File reads fail, the PR IP ends with an error, the
  tool is killed between two ioctls, a script between two commands, JTAG
  programming fails; the next command starts from what is left.
* **Late answers.** A load gives up after a bounded number of polls while the
  PR IP is still at work; the retry meets the end of the first attempt.
* **Polls without a bound** for the acknowledgement of a freeze or unfreeze.
* **Two clocks.** The host program reads and writes registers of a persona that
  runs on: a result may be read before it is there, a start or clear may come
  while the last sweep or game still runs, and a killed program leaves it so.
* **Input from outside.** The device tree comes from a ROM or from whoever
  writes `base_dtb`, and may end or be damaged anywhere.
* **Globals for many cards.** Class and device number are variables of the
  module, written by each probe and used by each remove.
* **Stale copies.** Saved mask, saved PCI state, `priv->state` and
  `config_state` are read in one ioctl and relied upon in a later one.

`PROJECT.json` lists each of these hazards at its line with the property that
would catch it going wrong, or the reason why none does.

## 2. Modules

    RegionIsolation   <-- refined by --  RegionController
                                              ^
                           PartialReconfig ---+   (INSTANCE, per tool)
                                 |
                                 +--> ConfigLoad

    FpgaMgr         -- INSTANCE --> ConfigLoad
    ScriptReconfig  -- INSTANCE --> RegionController, FpgaMgr
    DebugfsState    -- EXTENDS  --> UpstreamAer, DeviceTree
    HostProgram     -- INSTANCE --> Ddr4Sweep, GolGame
    CharDev

The theorems about a module `M` are in `M_proofs`, which extends it: there is
one for `RegionController`, `ConfigLoad`, `PartialReconfig`, `FpgaMgr`,
`ScriptReconfig`, `CharDev` and `HostProgram` (with its personas); `Aer_proofs`
is about `UpstreamAer` and `DebugfsState` with `DeviceTree`. The proofs modules
of a composition instantiate those of its components:

    PartialReconfig_proofs --> RegionController_proofs, ConfigLoad_proofs
    FpgaMgr_proofs         --> ConfigLoad_proofs
    ScriptReconfig_proofs  --> RegionController_proofs, FpgaMgr_proofs

An `MC...` module adds the values of the constants for TLC. Definitions named
after a fault (`...Skipped`, `...Unchecked`, `...Late`, ...) stand beside the
definition they distort; no specification uses them. They serve to show that
each property notices a plausible mistake in the code.

### RegionController

Each `readl()` or `writel()` of the two calls is one action, and `pc[c]` is the
access caller `c` makes next. `ctrl[r]` is the set of bits in the control
register, `bridge[r]` the state behind the status register. `val[c]` is the
local that `freeze_disable` reads, XORs with `RESET_REQ` and writes back
(145-147): the value may be stale by then. The poll loop (67-71) is the read
that finds the bit; other reads change nothing. A wrong version at the offset
(`BadOffsets`) returns `-EINVAL` before anything is written.

The region controller IP is not in the repository; `React` is what the driver,
the UVM scoreboard and the personas take for granted: a freeze request acts on
an open region, an unfreeze request on a frozen one, the persona acknowledges
later. `Spec` interleaves everything. `SerialSpec` adds what the supplied
tools do: one call at a time on one region controller (calls on different
regions still interleave).

### ConfigLoad

A load goes through the header read (`BufLoad`), the CSR check, the POF ID
check, for Stratix 10 the wait for the initial state, `PR_START`, the words of
the file, the state check, and the poll for the end. One step is one access to
the IP. A word is the triple of image, byte offset and number of bytes taken
from the file, so order, loss, duplication, mixing of two files and the tail
of one to three bytes are all visible in `stream`; the bits themselves are
not. `Family` and `Verbose` select the core and the build. A failed first read
sends the uninitialised buffer (`Garbage`, a10 149-153).

The PR IP is external: it completes when the stream is a whole image, may fail
at any time while it configures, and drops words outside a configuration.
Abstracted: `writel(val | PR_START)` also writes back the other bits of the
CSR it read; the IP is taken to ignore them. The pauses of the two cores
(`udelay`, `msleep`) have no effect on the control flow.

### PartialReconfig

The composition. `tpc[t]` is the ioctl tool `t` is in or back from; the steps
inside an ioctl are the steps of `RegionController` and `ConfigLoad`, so every
guard and early return of both applies. `my_ioctl()` drops the result of the
load (557), hence `Unfreeze` has no guard on it. A tool dies only outside an
ioctl, as the driver never sleeps interruptibly. After a failed load the region
holds a persona that may or may not answer the bridges.

### UpstreamAer

`-d` checks the state, reads the mask of the upstream port, writes it with
three bits added, saves the PCI state of the card and sets the state; `-e`
checks the state, restores, unmasks, retrains the link and sets the state. Each
access is a step. `saved` is `"none"` after a restore, as `pci_restore_state()`
does nothing without a save. `Program` is `quartus_pgm`: the card disappears,
which is reported as a fatal error unless surprise down is masked, and comes
back blank or, if programming fails, not at all. The link may come back
degraded, and its training may never end. Left out: the uncorrectable error
status, which `set_aer_uerr_mask_reg()` clears (119) along with each change of
the mask. The mask written and the copy kept in `priv` are one step.

### DebugfsState

The older driver has the same code for AER plus a third state, `Base probed`,
a list of subdrivers and a second file. It extends `UpstreamAer`, and its AER
steps are those actions; `StateDisable` removes the subdrivers first,
`StateEnable`, `StateProbe` and `StateUnprobe` refuse the states the code
refuses; `'5'` and unknown data change nothing, nor does a write that fails in
`kzalloc()` or `copy_from_user()`. A probe walks its tree with the functions of
`DeviceTree`, one node a step, and asks for a subdriver where a node is a PR IP
core with usable registers; one that fails half way, or not at all because the
tree is bad, still returns the count. All subdrivers get the same device name, so
`device_add()` refuses a second one (749, 756). Writes alternate in the
kernel; the writers, two scripts or a script and a shell, interleave freely
between writes. `DtbStates` says in which states of the driver somebody writes
`base_dtb`.

### DeviceTree

What the driver uses of libfdt. A blob is its header (magic, version) and the
tags of the structure block; an offset counts tags, a property carries its name
and value. The block may end behind any tag, inside its last one (`cut`), or go
on with a tag libfdt does not know; errors are negative offsets, as in the
code. Left out is the byte arithmetic behind a tag: the length of a property
(fdt.c 118-126, 136), its padding, and sums that wrap; a damaged length is the cut or
unknown tag it leads to. `fdt_next_tag`, `fdt_next_node`, the search for the next property and
`fdt_getprop` are translated with their early returns, the loops as recursive
functions over the offset. `Cores` is the
reference they are checked against: it says without any walk which nodes of the
readable part of the tree are PR IP cores with registers in a mapped BAR, from
the nesting level of each tag (`Owns`) and the first property of a name
(`PropertyOf`). `Proper` in `DebugfsState` is what libfdt expects of a tree and
`DtbAssumption` assumes: it begins with a node, and the properties of a node come
before its subnodes.

### FpgaMgr

The debugfs driver loads through an FPGA manager whose files `firmware_name` and
`image` start a load; `flags` and `config_to` are plain variables that anybody
may write during it. The steps on the PR IP are those of `ConfigLoad`
(`Pr!...`); what differs is modelled here: the flag check, the POF ID check that
needs an image long enough to hold one, an empty image refused after
`PR_START`, no file read in between, a timeout that is read again on every turn
and is 0 at first, and `request_firmware()` before it all. A new manager takes
its state from the IP (293). Its removal waits for writes under way, as
`debugfs_remove_recursive()` does. A write sets or forgets the name before the
load proper leaves the manager's old state (`fpga-mgr-debugfs.c` 52 and 118,
`fpga-mgr.c` 117 and 58); the labels `named` and `unnamed` are that window.
`write_init` writes back the register it
read last, version or POF ID, with `PR_START`; the IP is taken to look at
`PR_START` alone.

### ScriptReconfig

The same operation as `PartialReconfig` with the older driver: the script
`program-fpga-pcie` probes, sets flags and timeout, runs the UIO tool, writes
the name of the image, runs the tool again. The tool's register accesses are
those of `RegionController`, access for access; but it is a user process, so
`Killed` may fall between any two of them and leaves the registers as they
are. `set -e` (36) makes each failing command the last one, the load included:
the lines that would report it (146-151) are never reached. Others may remove
the manager between two commands (`Unprobe`). `torn` is a history variable.

### HostProgram, Ddr4Sweep, GolGame

The program and the persona it tests, side by side. A step of the program is
one access to a register; `Tick` is one edge of the region's clock, at which
every RTL module computes its next registers from the current ones. The two are
asynchronous. All that is assumed is a least number of clocks between two
accesses (`CalcGap`, `DdrGap`, `GolGap`), as each access crosses PCIe.

`HostProgram` has `main()`: the search for the UIO device by a prefix of its
name, the ID and the dispatch on it, the two children of a hierarchical persona
behind the size check of the mapping, and the tests of the two arithmetic
personas with their pipelines (sum modulo 2^`Width`; a product of `DspWidth`-bit
operands read in two words). `Ddr4Sweep` has `do_ddr4_access_persona()` and the
controller, memory access, traffic generator, read/write and counter modules of
that persona. `ddr_wr_rd.sv` puts a read on the bus in `READ`, looks at
waitrequest one state later, and asks again for as long as it is high (217-225),
so that a read which was taken at once is taken twice; `DdrWrRd` does the same,
and an answer is compared in `WAIT_READ_DONE` only. The memory is external. It
asserts waitrequest for at most `MaxWait` clocks, owes at most `MaxReads`
answers, gives them in order, each within `MaxWait` clocks of the one before but
not in the clock after it took the read, may give back a wrong word, and may not be
calibrated. `reads` are the answers owed, those to the word at hand (`live`) and
those left from earlier ones (`stale`). What the test pattern contains is not
modelled, only that two successive words differ and whether a word comes back.
`verified` and `wrong` are history variables: `wrong` has `memory` after a word that
came back wrong, `twice` after a read asked for twice and `misread` after a
comparison with the answer to another read. The base and the offset of a sweep
are any the loop of the program (388-393) accepts, an offset of 0 included.
`GolGame` has `do_gol_persona()`
and the moderator and cells of that persona; a board is the set of its live
cells, and the reference is the game played in the program. Its register
accesses are also those of `FPGA_PR_REGION_READ` and `_WRITE`, which map to one
`readl()` or `writel()` each.

`Kill` may fall between any two accesses: the persona keeps its registers and
goes on, and the next run starts from there.

### CharDev

Loading the module probes each card in turn; a probe is `fpga_pcie_setup_pci()`
and the four calls of `init_chrdev()`, each of which may fail (`Faults`) and then
undoes what the code undoes, no more. `devt` and `cl` are globals of the module
and are written by every probe; `priv` and its cdev belong to a card. Class,
numbers, cdevs, node and PCI resources are the kernel's and outlive the module,
which is how a later load meets what an earlier one left. `cl` is the error
pointer after a failed `class_create()`; a remove that uses it ends in `oops`.
`late` are the cards whose probe failed after `fpga_pcie_setup_pci()`: those are
left enabled (743). Processes open and close the node at any time, also while
other cards are still probed; an open file keeps the module from being unloaded.

## 3. Runs

Deadlock is checked in all of them: no model may stop.

| Run | Instance | States | Shows |
|---|---|---|---|
| `RegionControllerSerial` | 2 callers, 2 regions, serialised, fair | 1196 | a quiet region is open or held (`Settled`); reset only behind closed bridges; 0 means done (`EnableDelivers`, `DisableDelivers`); `StagedIsolation`; `CallsReturn` |
| `ConfigLoadSerial` | s10, verbose, 4 files, 2 loaders in turn, fair | 4721 | a load that succeeds left its own image; `OPERATING` means a whole image; no restart under a running configuration; every load returns |
| `ConfigLoadBusy` | s10, 1 load | | **violated**: "not ready" is reported of an IP that was ready |
| `PartialReconfigSerial` | a10, 3 files, kills and failures, fair | 10014 | words only while held (`WordsOnlyWhileHeld`); an open half-written region is recorded; the tool ends unless the persona is dead |
| `PartialReconfigExit` | same | | **violated**: exit status 0 after a load that returned an error |
| `UpstreamAerSerial` | 2 jobs in turn, failing programming, fair | 546 | boot mask kept; no error reported; card not left blank; ioctls return |
| `DebugfsStateSerial` | 2 writers, 11 trees, fair | 40028 | nothing deployed while masked; a successful `0` restores the mask; the walk asks for a subdriver at exactly the cores of the tree (`ProbesTheTree`); writes return |
| `ScriptReconfigSerial` | s10, 2 images, 1 script, kills and failures anywhere, fair | 77197 | words only behind closed bridges, and outside reset only after a tool was killed at work; the bridges never open on a half-written persona; 0 means loaded and given back; `RegionIsolation` is refined even so; every run ends |
| `FpgaMgrSerial` | s10, verbose, 4 images, 1 writer, fair | 29792 | a name shown by an operating manager is that of the image in the region, but for the moment between a write's new name and its load; operating means a whole image, for a new manager too; a load that ends never leaves the state at one of its steps (a manager registered while the IP configures may stay at `WRITE`); writes return |
| `HostProgramKilled` | all four personas and hierarchical ones, 2 tests a run, killed anywhere, fair | 284593 | a passed DDR4 test verified every address of its own sweep, each by its own read; the board read back is that of the game; a test fails only for the memory, a missing calibration, a read asked for twice or a sweep of one word; 0 means a pass; the program ends, but for a sweep of word 0 alone |
| `CharDevFaults` | 3 cards, 2 processes, 3 numbers, every kernel call may fail | 8179 | an open file reaches a bound card, and the node one as long as there is one; unloading leaves nothing behind unless a probe failed late |
| `CharDevTwoCards` | 2 cards, nothing fails | | **violated**: only one of two cards is bound |

### Bounds

* Callers, jobs, writers: two suffice to interleave.
* `HeaderBytes`, `ChunkWords`: 1024 bytes and 1024 words become two words; the
  images are one below the header, one of a whole number of words and chunks,
  one with a tail, one with a wrong POF ID; in `FpgaMgr` one is empty. Each loop runs zero times, once and
  more than once, and ends on and off a chunk boundary.
* `InitPolls`, `ConfigTimeout`, `MaxTimeout`, `TrainPolls`: one or two turns; the environment
  may move before, between and after them, which is all that longer loops add.
* Device trees: the tree of the reference design, one with nested cores, NOPs
  and a property that is there twice, one whose cores all lack something, headers libfdt accepts and
  refuses, and trees cut behind a tag, inside a tag and by an unknown tag.
* Registers of 3 bits and a multiplier of 2, so that sums overflow and products
  take two words; a memory of 4 words with every sweep of 1, 2 and 4 words
  that fits, up to the last address; `MaxWait` 1 and `MaxReads` 2, enough for
  one answer too many; a performance counter that can count all the words; a 4 by 4 torus, the smallest on which
  a cell has cells that are not its neighbours; games of 0, 1 and 16
  generations, the last longer than the accesses of a killed program's
  successor up to its own start; two tests a run.
* `DdrGap` 8: a gap of at least 5 + 3 * `MaxWait` clocks, as the busy bit drops
  before the last word is read back, and of at least 2 + `MaxReads` * (`MaxWait` + 1),
  in which the answers owed to an interrupted sweep have all come. An access over PCIe takes longer than that, but nothing in
  the program ensures it. `CalcGap` 3 covers the pipelines of the arithmetic
  personas; the game needs no more than `GolGap` 1.
* Three cards and three device numbers: one card is bound, one fails late, one
  comes after that; the numbers may run out.
* Nothing else is bounded: tools, jobs, writers, programs and loads of the
  module start again for ever.

### Fairness

Weak fairness of the steps of a thread inside the kernel (the scheduler), and
of the persona's acknowledgement where the persona is one of the reference
designs and whole (their RTL answers unconditionally). In `PartialReconfig` and
`ScriptReconfig` also of a running tool or script, and in `HostProgram` of the
clock and of the program, which nobody has to start; `CharDev` needs none. Not
assumed: that anybody calls, that the PR IP ever ends a
configuration, that the link ever finishes training, that a half-written
persona answers.

### Findings

The violated properties quote what a comment or message of the code says. All
three occur with the supplied tools used one at a time. After a failed load
`fpga-configure -p` unfreezes the region, prints "PR complete" and returns 0, as
`my_ioctl()` drops the result (557; `PartialReconfigExit`, whose trace is a load
that reported an error). A Stratix 10 PR IP that is busy when a load starts makes
that load wait in full and fail, as `val != A || val != B` is always true
(`ConfigLoadBusy`). With two cards in a machine the probe of the second creates
the class `char` again, fails, leaves its card enabled and overwrites the class
pointer the first is removed with (`CharDevTwoCards`).

Seen on the way and visible in the models without a run of their own: without
serialisation a second `freeze_enable` sees the region frozen before the first
has set reset and returns 0 (96; `EnableDelivers` does not hold under
`RegionController!Spec`); `base_dtb` written while AER is disabled resets the
state, so that a later `0` succeeds with the errors still masked
(fpga/fpga-pcie.c 920; with `DtbStates` all three states `ZeroRestoresAer` does
not hold, while `NothingTalksUpstream` asks the state and does not notice); a probe that fails after `fpga_pcie_setup_pci()` leaves its card
enabled with its regions taken over every later load, and a failing
`cdev_add()` keeps its number (`CleansUp` holds only with `late = {}`); a DDR4
sweep of one word (`final_offset` 0) from an address other than 0 never leaves
the idle state of the traffic generator, so that a sound persona fails the test,
and one at address 0 never ends: busy stays high and the program polls it for ever
(`traffic_generator.sv` 99; both are in the model, and `SoundPersonaPasses` and
`ProgramEnds` except them by name); a read that the memory takes at once while it
asserts waitrequest in the next clock is issued twice (`ddr_wr_rd.sv` 217-225), and
its second answer may be compared with the next word and fail a sound persona (`twice`
in `wrong`, which `SoundPersonaPasses` excepts); the results of two children are combined with `&`
(748), which hides an unknown child beside one that passed; the UIO device is
the first whose name begins with the argument, and the search ends at the
first gap in the numbers (`uio_find_dev_num`); a file
shorter than 1024 bytes is a load that returns 0 without touching the IP
(416-420, `BufLoad` of `ConfigLoad`; `ExitZeroMeansLoaded` does not count it); unfreezing a dead
persona polls for ever, which is why `ToolEndsOrPersonaDead` has its second
disjunct; `config_timeout` is documented as milliseconds and polled with
`udelay(1)` in the Arria 10 core; of two `-d` at once, the second may save the
mask the first has already changed (`MaskKept` does not hold under
`UpstreamAer!Spec`); of two loads at once, one may take the success of the other
for its own (`SuccessIsTheImage` does not hold under `ConfigLoad!Spec`); a load
through the file `image` returns its count even
when it failed, so that only the state file tells; a UIO tool killed between its
register accesses leaves a frozen region that is not in reset, and the next run
loads into it (`torn` in `WordsBehindBridges`).

## 4. Proofs

Each theorem holds for every value of the constants that satisfies the named
assumption of its module; TLC evaluates these assumptions in the runs. A
`TypeCorrect` is about `Spec`, in which everything interleaves. The theorems about
`SerialSpec` have the supplied tools' discipline as their hypothesis: one call, load,
write or script at a time, with the hardware, the other regions and, where
modelled, kills and settings written by others in between. Section 3 names
the properties that need it and fail without. All inductive invariants were
checked by TLC before they were proved.

### RegionController

`RegionController_proofs` proves for **any** number of callers, regions and bad
offsets, from `OffsetsAssumption` alone (no bad offset is a region):

| Theorem | Statement |
|---|---|
| `TypeCorrect` | `Spec => []TypeOK` |
| `MotionAttended` | `Spec => []NoMotionWhenQuiet`: whoever defeats whom, the last caller out leaves no motion behind |
| `SerialInvariant` | `SerialSpec => [](TypeOK /\ SerialInv)` |
| `RegionsSettled`, `ResetSafe` | `SerialSpec => []Settled`, `[]ResetOnlyWhileFrozen` |
| `EnableCallDelivers`, `DisableCallDelivers` | `SerialSpec => EnableDelivers`, `SerialSpec => DisableDelivers` |
| `Refinement` | `SerialSpec => StagedIsolation` |

*Without a lock.* `NoMotionWhenQuiet` is not inductive: that the bridges are
moving says nothing about who set them moving, nor that it is still polling.
`MotionInv` keeps the missing part: bridges that freeze are attended by a
caller that polls for the freeze or is at the end of `freeze_disable`, bridges
that unfreeze by one of the latter, and none of these can leave before the
bridges have stopped. A third part makes this inductive: an unfreeze request
written while the bridges still close is served as soon as they have closed, so
its writer must be there already.

*With serialised calls.* `SerialInv` says for each label of the two calls what
the registers of the caller's region hold, e.g. at `fe_reset` the bridges are
frozen with only `FREEZE_REQ` set, and at `fd_toggle` `val` is `{}` because the
register still holds `{"RESET_REQ"}`; and that a region nobody is in is
settled. `Serial` makes the label the only one that can speak about the region,
so each action disturbs one conjunct. From it follow the invariants, the action
properties, and the refinement: the mapping `StageOf` reads the stage from
bridges and reset bit, and each register access moves it by one stage or not at
all.

### ConfigLoad

`ConfigLoad_proofs` proves for **any** callers, images of any size, both cores,
both builds and any bounds of the loops, from `LoadAssumption` (no image has the
name of one of the two other contents of a region; the first read is at least one word;
a chunk is not empty):

| Theorem | Statement |
|---|---|
| `TypeCorrect` | `Spec => []TypeOK`: no load, even among others, reads behind the end of its file or polls more often than it may |
| `LoadInvariant` | `SerialSpec => [](TypeOK /\ LoadInv)` |
| `OperatingHoldsAnImage` | `SerialSpec => []OperatingIsWhole` |
| `SuccessLoadsTheImage` | `SerialSpec => SuccessIsTheImage` |
| `ConfigurationNotRestarted` | `SerialSpec => NoRestart` |

Whether a load may trust `PR_SUCCESS` is a question of what the IP was fed, and
the load that feeds it is not the only one it has heard of: an earlier one may
have timed out with the IP still at work. `LoadInv` therefore says what a load
relies on at each label (`Stands`): before `PR_START` no configuration is under way,
so that the start is not lost; from there on, as long as the IP is
configuring, `stream` consists of words of this load's image alone, and a
success is a success of this image. That it is, rests on `ContentsOwner`: two
images have no word in common, so a stream of words of one is the contents of
no other (words of the model carry their image; two files with the same bytes are
one image). `IpInv` relates `start`, `status` and `loaded`, and `Recorded` says what
`config_state` tells between two loads; `OPERATING` is written only at the end
of a load and withdrawn at the start of the next, before anything is sent.

### PartialReconfig

`PartialReconfig_proofs` proves from `PartialAssumption` (the assumptions of the two
components, for the one region `Target`), for **any** number of tools:

| Theorem | Statement |
|---|---|
| `ImplementsComponents` | `Spec => RC!Spec /\ Load!Spec` |
| `TypeCorrect` | `Spec => []TypeOK` |
| `ImplementsSerialComponents` | `SerialSpec => RC!SerialSpec /\ Load!SerialSpec` |
| `HeldInvariant` | `SerialSpec => []HeldInv` |
| `WordsBehindFreeze` | `SerialSpec => WordsOnlyWhileHeld` |
| `PartialPersonaRecorded` | `SerialSpec => []OpenPartialIsRecorded` |
| `ComponentsPromise` | `SerialSpec => StagedIsolation /\ SuccessIsTheImage /\ NoRestart`, of the instances |

The argument is compositional. Every step of the system, kills and new runs of
the tool included, is a step of each component or leaves it alone, so the
system implements both. One tool at a time means one call and one load at a time, so
it implements the serialised components too, and their theorems hold
of it. What is left to the composition is the order of the
ioctls: `HeldInv` says that from the successful return of `FREEZE_ENABLE` up to
`FREEZE_DISABLE` of the same tool the region is frozen and in reset.
`OpenPartialIsRecorded` combines it with `Recorded`: an open region has no load in it,
so `config_state` speaks of the last one.

### FpgaMgr

`FpgaMgr_proofs` proves for **any** writers and images, both cores and builds and
any bounds, from `MgrAssumption` (as for `ConfigLoad`; no image is called `NULL`):

| Theorem | Statement |
|---|---|
| `TypeCorrect` | `Spec => []TypeOK` |
| `EndsAtRest` | `Spec => NoStepPending`: not even overlapping writes leave the state at a step that is over |
| `MgrInvariant` | `SerialSpec => [](TypeOK /\ MgrInv)` |
| `OperatingHoldsAnImage` | `SerialSpec => []OperatingIsWhole` |
| `NameShownIsLoaded` | `SerialSpec => []NameIsTheImage` |

`MgrInv` has the facts about the IP of `LoadInv` and adds `Shown`: a manager that is
operating has no load past its entry, the IP still reports the success, and a name
that is shown is that of the contents or of a write that has set it and stands
before its load (`named`); the state is not `OPERATING` from the next step on. The manager may be removed and registered
between writes and then takes its state from the IP; a success found there is
one the IP has earned (`IpInv`). The delicate case is the load whose
timeout has run out: the IP may end later and successfully, and
is then right about its contents, while the manager has left `OPERATING`.

### ScriptReconfig

`ScriptReconfig_proofs` proves for **any** number of scripts, any images and bounds,
with script and tool killed at any access, from `ScriptAssumption` (the
assumptions of the components):

| Theorem | Statement |
|---|---|
| `TypeCorrect` | `Spec => []TypeOK` |
| `ScriptInvariant` | `SerialSpec => [](TypeOK /\ ScriptInv)` |
| `OpensWhole` | `SerialSpec => []NeverOpensPartial` |
| `WordsBehind` | `SerialSpec => WordsBehindBridges` |
| `ExitZeroReady` | `SerialSpec => ExitZeroMeansReady` |
| `StagedIfKilled` | `SerialSpec => StagedEvenIfKilled` |

Here the composition does not implement its region controller: a killed
tool leaves the protocol half way and the next one begins anew, which no step of
`RegionController` does, and `SerialInv` does not hold. `RegionInv` takes its place: for
each state of the bridges, what a tool killed anywhere can have left in the
register. It suffices for the stages of `RegionIsolation`, as an unfreeze request
is never left standing over frozen bridges. `Rest` is what holds between tools: the region
is open, or held, or some tool was killed at work (`torn`). `ScriptStands` says what
each command the script got past has achieved; since `set -e` ends the script
at the first failure, at `disable` the image is in the region, which is why the
bridges open on a whole persona and a 0 means what it says. `MgrInv` is kept
because the script only writes the manager's files.

### UpstreamAer

`Aer_proofs` proves for **any** set of jobs, any boot mask, any number of
polls and with or without failing programming, from `AerAssumption` (the boot
mask consists of error bits, the bound is a number):

| Theorem | Statement |
|---|---|
| `TypeCorrect` | `Spec => []TypeOK` |
| `AerInvariant` | `SerialSpec => []AerInv` |
| `MaskIsKept`, `ProgrammingIsSilent`, `CardIsRestored` | `SerialSpec => []MaskKept`, `[]NeverReported`, `[]CardRestored` |

`MaskKept` speaks only of moments between ioctls and is not inductive. `AerInv`
adds what holds inside them: `Stands(j)` says for each label of the active job
whether the port reports or is masked, that the boot mask is in the job's copy
or in `priv`, and that a copy of the card's configuration exists that is not
one of a blank card; `Rest` is what the driver has promised when no ioctl is
under way. Only one job is active, so each action has to re-establish `Stands`
for its own job (`AloneKeeps`). The heart is that `-d` in the state "AER
disabled" does nothing: a blank card is never saved over the good copy, nor the
masked value over the boot mask. `TypeCorrect` is split in three, as the
provers handle Booleans and arithmetic apart.

### DebugfsState

`Aer_proofs` also proves for **any** writers, any boot mask and any device trees,
from `AerAssumption` and `DtbAssumption` (the trees are proper, the mapped BARs are
among the six):

| Theorem | Statement |
|---|---|
| `SubdriverInvariant`, `NobodyTalksUpstream` | `DebugfsSpec => []SubdriverInv`, `[]NothingTalksUpstream`, in whichever states `base_dtb` is written |
| `MaskInvariant`, `ZeroRestores` | `"AER disabled" \notin DtbStates /\ DebugfsSpec => []MaskInv`, `ZeroRestoresAer` |
| `WalkInvariant`, `ProbesFindTheCores` | `DebugfsSpec => []WalkInv`, `ProbesTheTree` |
| `DebugfsTypeCorrect` | `DebugfsSpec => []DebugfsTypeOK` |

`DebugfsSpec` has the writes to the two files one at a time.
`NothingTalksUpstream` is not inductive because the list is emptied, and
`state` set, by different steps; `SubdriverInv` adds that the list stays empty from
the removal to the new state and that a probe only goes on in another state.
`MaskInv` says for each label whether errors are reported or masked with the
boot mask saved. The hypothesis of `ZeroRestores` is one about the users of the
driver, not about the driver: a device tree written to `base_dtb` while AER is
disabled sets `Idle` (fpga/fpga-pcie.c 920), the driver forgets that it has masked
errors, and the property fails. Neither theorem depends on what the walk of
a tree finds.

`ProbesTheTree` does, and is about trees of any size and depth, cut or damaged
anywhere. Its proof has three parts.

*The loops.* A loop of libfdt is a recursive function over the offsets.
`SearchExists` shows once that a function which stops at the numbers of a set
and else goes to the next one exists, `SearchValue` that its value is that of the
first number of the set; both by a least counterexample, as no induction over
functions can be instantiated. `NodeSearch` and `PropSearch` apply them to
`fdt_next_node()` and `_nextprop()`. The loop of `fdt_getprop()` jumps from
property to property; `FromHereFollows` and `GetLoopUnique` show that it finds
what a loop from tag to tag would (`GetpropSearch`).

*The meaning.* `OwnsIsRun`: in a proper tree a property belongs to a node exactly
if only properties and NOPs stand between them, which needs the levels of the tags
counted (`LevelOfRun`, `LevelOfNode`). Hence `fdt_getprop()` finds the property
that the node owns (`GetpropFinds`), the driver takes from a node the core that
the node is (`RegistersAreTheCore`), and `fdt_next_node()` leaves none out
(`NextNodeFinds`).

*The driver.* `WalkInv` says that the loop stands at a readable node and has tried
the cores of the nodes before it, or is through and has tried all; and that
nothing is deployed when a loop begins, so that what is deployed at its end
comes from its own tree. The latter is why `WalkInv` has to say in which states
of the driver the list may be filled (`ListedByProbe`).

### CharDev

`CharDev_proofs` proves for **any** cards, processes, number of device numbers
and whichever kernel calls fail, from `CharDevAssumption` (no card is called
"none", there is a device number, faults are among those the model knows):

| Theorem | Statement |
|---|---|
| `TypeCorrect` | `Spec => []TypeOK`; no card is ever enabled twice |
| `NodeServes` | `Spec => []NodeServesBoundCards` |
| `UnloadCleansUp` | `Spec => []CleansUp` |

`CleansUp` speaks only of moments when the module is not loaded. `IInv` carries
it through a load: `ProbeOrder` (a card is offered once, one probe at a time),
`PciTaken` (the regions of a card are taken exactly while it is enabled),
`NodesKeepNumbers`, `BoundHasNode`, and `Accounted`, which says for each label of a
probe what the kernel holds as long as no probe failed late: then at most one
card is bound, so that `devt` and `cl` are its own and its remove finds them.
For `NodeServesBoundCards` late failures do matter, and the argument is another
one: a node, also one left behind, keeps its number allocated
(`NodesKeepNumbers`), so no later probe is given that number and no file opened
through the node can reach the cdev of a card that is not bound.

### HostProgram, Ddr4Sweep, GolGame

`HostProgram_proofs` proves for **any** cards, directories of `/sys/class/uio`,
widths of the registers, memories, sweeps, boards and numbers of generations, with
the program killed at any access and started again any number of times:

| Theorem | Statement |
|---|---|
| `ImplementsPersonas` | `Spec => D!Spec /\ G!Spec` |
| `TypeCorrect` | `Spec => []TypeOK` |
| `ZeroIsAPass` | `Spec => []ZeroMeansAPass` |
| `NextCellsIsLife`, `HostPlaysTheGame` | one clock of the cells is one generation; the game on the host is the game |
| `ReadBackIsTheGame` | `Spec => []ResultIsTheGame` |
| `PassesAreSwept` | `Spec => PassedMeansSwept` |
| `FailuresAreFaults` | `Spec => SoundPersonaPasses` |

The assumptions are named in the module. `GapAssumption`: two accesses of the
program are at least as many clocks apart as the pipeline of a calculator is long
(`CalcGap`), and as a word takes through the DDR4 persona and the answers the memory
may owe (`DdrGap`). `SweepAssumption`: the performance counter can count all the
words of the memory; a sweep may have any length, one included. `BoardAssumption`: the board is square and at least three
by three, so that a cell has eight neighbours. `WordAssumption`: a product of two
factors of the multiplier takes one word or more. `CardAssumption`: the children of
a hierarchical persona run arithmetic or DSP.

*Program and personas.* `main()` does to each persona only what that persona's
module allows, so an invariant of `Ddr4Sweep` or `GolGame` is one of the whole.
`CalcInvariant` ties the pipelines of the calculators to the operands written and
the clocks since; `WhereItIs` ties the position in `main()` to what was tested so
far, which is what `ZeroMeansAPass` needs.

*The game.* `NextCellsIsLife` compares the wires of `block.sv`, with its halves and
borders, with eight neighbours on a torus; the neighbours are compared as sets and
counted with a bijection. `GenerationsFollow` shows that the recursive
definition of the game means what it says, by building the function for the first
`n` generations; induction is `NatInduction1`, which is about sets and
follows from `WFMin`. With them the invariant of the game (`GolReset`, `GolLoad`, `GolPlay`,
`GolCollect`: the phases of a test) says that in the play the registers hold the
loaded board after as many generations as the counter has counted,
also when an earlier, interrupted game is still playing at the start of a test.

*The sweep.* `DdrInv` has four parts beside the types, which include what the memory
owes (`MemInv`). `Counted` says that the counter is the number of verified words;
`Stage` which stage of a transfer the word is in, that no other is under way, and that the
words behind the address counter are verified unless the sweep is spoilt; `Pulses`
that starts and clears are single clocks and seen once; `SweepAt` what the program
may rely on at each access. A sweep of one word is a stage of its own: `Barred` never
begins, `Endless` never ends. A comparison with an answer to another read implies
that one was asked for twice (`Own`): what `SoundPersonaPasses` excepts as `twice`
covers every `misread`, also after a killed program. The time between two accesses enters in two
places, and without it the theorem is false: the busy bit of the persona drops before the
last word is read back, where `Rank` bounds how many clocks that word still takes; and
an interrupted sweep leaves answers behind, all of which have come (`Draining`)
when the next sweep is set up.

### Only model-checked

* Liveness: `CallsReturn`, `LoadReturns`, `ToolEndsOrPersonaDead`, `IoctlReturns`,
  `WritesReturn` (of `DebugfsState` and of `FpgaMgr`), `ScriptEnds` and
  `ProgramEnds`; the prover does neither fairness nor `ENABLED`.
* The three violated properties: a counterexample is enough.

Every other property of the runs is a theorem.

## 5. Not modelled

* `FPGA_PRINT_ROM`, reading the debugfs and sysfs files (output only), logging and
  argument parsing.
* `copy_from_user()` and allocation failures of `fpga_pcie`: they return before
  any state changes.
* An upstream port without AER capability: the helpers then read an error code
  as a mask and write nothing.
* `of_fpga_mgr_get()` and `fpga_mgr_put()`, the only users of `ref_mutex`: nothing
  in the repository calls them. Buffers of the debugfs files are not modelled
  (`fpga_mgr_firmware_write_file()` terminates the name one byte behind its
  buffer, fpga-mgr-debugfs.c 40, 47).
* A card unbound through sysfs while the module stays: `owner` (644) keeps the
  module, not the card, so a file may outlive its `priv`.
* Probe and remove of the debugfs driver itself, and writes to its files that
  overlap in the kernel.
* The part of libfdt the driver does not call (writing, paths, phandles,
  reservations, overlays).
* The copies of the host program for other boards, which differ in how registers
  are reached; children of a hierarchical persona that run DDR4 or the game of
  life; the reset of a persona by the region controller during a test; the data
  of the DDR4 test pattern.
* Timing: polls are counted, not timed; the clocks between two accesses of the
  host program are bounded from below only.
* QSys IP; the UVM environment, which was read as documentation of the region
  controller.

## 6. Plan

Done in this order: freeze protocol with its abstraction and proofs, PR load,
their composition, AER with its proofs, the debugfs state file, the FPGA
manager, the script around it; the host program with the personas, the
device tree, and the life of the module with its proofs; the proofs of
the PR load, the compositions, the manager, the debugfs driver and the script;
then those of the host program with its personas and of the device tree walk.
Left: `DebugfsState` with writes that overlap in the kernel, two walks of the
subdriver list of which only the unlinking is locked.
