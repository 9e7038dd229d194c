---------------------------- MODULE DebugfsState ----------------------------
(***************************************************************************)
(* The debugfs interface of the older driver (drivers/fpga/fpga-pcie.c):   *)
(* the file "state", whose writes '0', '1', '3' and '4' restore and        *)
(* disable upstream AER and probe and remove the subdrivers, and the file  *)
(* "base_dtb", which replaces the device tree; both probe by walking the   *)
(* tree with libfdt, as DeviceTree does.                                   *)
(*                                                                         *)
(* Masking, saving, restoring and retraining are the code UpstreamAer      *)
(* models, copied into this driver: its actions and variables are used as  *)
(* they are, and this module adds the third state and the list of          *)
(* subdrivers.  The jobs are the writers: shells and the script program-   *)
(* fpga-jtag; their writes alternate, one write at a time in the kernel.   *)
(***************************************************************************)
EXTENDS UpstreamAer, DeviceTree

CONSTANTS
    Roms,          \* device trees the configuration ROM may hold
    Trees,         \* device trees written to base_dtb
    bar_addrs,     \* BARs that are mapped
    DtbStates      \* states of the driver in which base_dtb is written

\* A tree begins with a node, properties come before the subnodes, and only a
\* tree that knows its size may lack its end.
Proper(t) ==
    /\ t.version >= 17 \/ \E i \in 1 .. Len(t.tags) : t.tags[i].tag = "FDT_END"
    /\ t.tags \in Seq(Tags) /\ t.tags # <<>> /\ t.tags[1].tag = "FDT_BEGIN_NODE"
    /\ \A j \in Readable(t) :
          t.tags[j].tag = "FDT_PROP" =>
             \E i \in 1 .. j : /\ t.tags[i].tag = "FDT_BEGIN_NODE"
                               /\ \A k \in i + 1 .. j : t.tags[k].tag \in {"FDT_PROP", "FDT_NOP"}

ASSUME DtbAssumption ==
    /\ DtbStates \subseteq {"Idle", "AER disabled", "Base probed"}
    /\ \A t \in Roms \cup Trees : Proper(t)
    /\ bar_addrs \subseteq 0 .. NUM_BARS - 1

VARIABLES
    fdev_list,     \* where a subdriver is deployed: BAR and offset
    fdt,           \* fdt[w]: the device tree the write of w probes
    offset,        \* offset[w]: the node the probe loop of w is at, or an error
    tried,         \* tried[w]: where the loop called fpga_pcie_probe_one()
    back,          \* back[w]: where w goes on after removing the subdrivers
    ret            \* ret[w]: what the last write of w returned

walkVars == <<fdt, offset, tried>>
fdevVars == <<fdev_list, walkVars, back, ret>>
aerVars == <<mask, aer_uerr_mask_reg, saved, card, link, training, reported,
             step, reg, polls>>
debugfsVars == <<aerVars, state, pc, fdevVars>>

NoTree == Blob("none", 0, 0, <<>>)

States == {"Idle", "AER disabled", "Base probed"}

DebugfsPCs == PCs \cup {"p_state", "u_state", "remove", "p_header", "p_nodes",
                  "print", "unknown"}

DebugfsTypeOK ==
    /\ state \in States
    /\ pc \in [Jobs -> DebugfsPCs]
    /\ Cardinality(fdev_list) <= 1
    /\ \A w \in Jobs : offset[w] \in -FDT_ERR_BADSTRUCTURE .. Len(fdt[w].tags)
    /\ back \in [Jobs -> {"none", "idle", "d_read", "p_header"}]
    /\ ret \in [Jobs -> {"count", "EINVAL", "EFAULT", "ENOMEM"}]
    /\ polls \in [Jobs -> 0 .. TrainPolls]

-----------------------------------------------------------------------------
(* fpga_pcie_state_write_file(): the state decides what a write does.      *)

\* The state has nothing to do with the command, or nothing is left to do.
Done(w, from) ==
    /\ Goto(w, from, "idle")
    /\ UNCHANGED fdevVars

Refuse(w, from) ==
    /\ Goto(w, from, "idle")
    /\ ret' = [ret EXCEPT ![w] = "EINVAL"]
    /\ UNCHANGED <<fdev_list, walkVars, back>>

\* fpga_pcie_remove_all_subdrivers() is called, and comes back to label next.
CallRemoveAll(w, from, next) ==
    /\ Goto(w, from, "remove")
    /\ back' = [back EXCEPT ![w] = next]
    /\ UNCHANGED <<fdev_list, walkVars, ret>>

\* fpga_pcie_probe_all_subdrivers() is called for the tree in the ROM, which
\* keeps still while the loop reads it.
CallProbeAll(w, from) ==
    /\ Goto(w, from, "p_header")
    /\ \E rom \in Roms : fdt' = [fdt EXCEPT ![w] = rom]
    /\ UNCHANGED <<fdev_list, offset, tried, back, ret>>

\* Fault: '1' masks the errors and leaves the subdrivers deployed.
StateDisableHasty(w) ==
    /\ \/ state = "AER disabled" /\ Done(w, "d_state")
       \/ /\ state # "AER disabled"
          /\ Goto(w, "d_state", "d_read")
          /\ UNCHANGED fdevVars
    /\ UNCHANGED <<aerVars, state>>

\* '1': remove the subdrivers, then mask and save as in UpstreamAer.
StateDisable(w) ==
    /\ \/ state = "AER disabled" /\ Done(w, "d_state")
       \/ state # "AER disabled" /\ CallRemoveAll(w, "d_state", "d_read")
    /\ UNCHANGED <<aerVars, state>>

\* '0': restore as in UpstreamAer.
StateEnable(w) ==
    /\ \/ /\ state = "AER disabled"
          /\ Goto(w, "e_state", "e_restore")
          /\ UNCHANGED fdevVars
       \/ state = "Idle" /\ Done(w, "e_state")
       \/ state = "Base probed" /\ Refuse(w, "e_state")
    /\ UNCHANGED <<aerVars, state>>

\* Fault: '3' is accepted while upstream AER is disabled.
StateProbeUnchecked(w) ==
    /\ \/ state # "Base probed" /\ CallProbeAll(w, "p_state")
       \/ state = "Base probed" /\ Done(w, "p_state")
    /\ UNCHANGED <<aerVars, state>>

\* '3': probe the subdrivers of the device tree in the configuration ROM.
StateProbe(w) ==
    /\ \/ state = "Idle" /\ CallProbeAll(w, "p_state")
       \/ state = "Base probed" /\ Done(w, "p_state")
       \/ state = "AER disabled" /\ Refuse(w, "p_state")
    /\ UNCHANGED <<aerVars, state>>

\* '4': remove the subdrivers.
StateUnprobe(w) ==
    /\ \/ state = "Base probed" /\ CallRemoveAll(w, "u_state", "idle")
       \/ state = "Idle" /\ Done(w, "u_state")
       \/ state = "AER disabled" /\ Refuse(w, "u_state")
    /\ UNCHANGED <<aerVars, state>>

\* '5': print the ROM; nothing changes.
PrintRom(w) ==
    /\ Done(w, "print")
    /\ UNCHANGED <<aerVars, state>>

UnknownData(w) ==
    /\ Refuse(w, "unknown")
    /\ UNCHANGED <<aerVars, state>>

-----------------------------------------------------------------------------
(* The subdrivers.                                                         *)

\* fpga_pcie_remove_one().
RemoveOne(w) ==
    /\ pc[w] = "remove"
    /\ \E n \in fdev_list : fdev_list' = fdev_list \ {n}
    /\ UNCHANGED <<aerVars, state, pc, walkVars, back, ret>>

RemoveDone(w) ==
    /\ fdev_list = {}
    /\ Goto(w, "remove", back[w])
    /\ state' = "Idle"
    /\ back' = [back EXCEPT ![w] = "none"]
    /\ UNCHANGED <<aerVars, fdev_list, walkVars, ret>>

\* The end of the write, where a device tree from user space is freed.
Forget(w) ==
    /\ fdt' = [fdt EXCEPT ![w] = NoTree]
    /\ offset' = [offset EXCEPT ![w] = 0]
    /\ tried' = [tried EXCEPT ![w] = {}]

\* A tree whose header is bad ends the probe, and the write still returns its
\* count.  Otherwise the loop begins at the first node below the root.
CheckHeader(w) ==
    /\ \/ /\ ~fdt_check_header(fdt[w])
          /\ Goto(w, "p_header", "idle")
          /\ Forget(w)
       \/ /\ fdt_check_header(fdt[w])
          /\ Goto(w, "p_header", "p_nodes")
          /\ offset' = [offset EXCEPT ![w] = fdt_next_node(fdt[w], 0)]
          /\ UNCHANGED <<fdt, tried>>
    /\ UNCHANGED <<aerVars, state, fdev_list, back, ret>>

\* One turn of the loop.  fpga_pcie_probe_one() may fail, and it does when a
\* subdriver is there, as all of them get the name of the card.  The loop goes
\* on either way.
ProbeOne(w) ==
    /\ pc[w] = "p_nodes" /\ offset[w] >= 0
    /\ LET regs == Registers(fdt[w], offset[w], bar_addrs)
       IN  /\ tried' = [tried EXCEPT ![w] = @ \cup regs]
           /\ fdev_list' \in {fdev_list} \cup (IF fdev_list = {} THEN {regs} ELSE {})
    /\ offset' = [offset EXCEPT ![w] = fdt_next_node(fdt[w], offset[w])]
    /\ UNCHANGED <<aerVars, state, pc, fdt, back, ret>>

ProbeDone(w) ==
    /\ offset[w] < 0
    /\ Goto(w, "p_nodes", "idle")
    /\ state' = "Base probed"
    /\ Forget(w)
    /\ UNCHANGED <<aerVars, fdev_list, back, ret>>

-----------------------------------------------------------------------------
(* The writers.                                                            *)

\* A write begins at label first; ret = count until something goes wrong.
Write(w, first, next, tree) ==
    /\ Ioctl(w, "off", "single", first)
    /\ ret' = [ret EXCEPT ![w] = "count"]
    /\ back' = [back EXCEPT ![w] = next]
    /\ fdt' = [fdt EXCEPT ![w] = tree]
    /\ UNCHANGED <<fdev_list, offset, tried>>

EchoProbe(w) == Write(w, "p_state", "none", NoTree)

EchoUnprobe(w) == Write(w, "u_state", "none", NoTree)

EchoDisable(w) == Write(w, "d_state", "none", NoTree)

EchoEnable(w) == Write(w, "e_state", "none", NoTree)

EchoPrint(w) == Write(w, "print", "none", NoTree)

EchoUnknown(w) == Write(w, "unknown", "none", NoTree)

\* fpga_pcie_base_dtb_write_file(): remove everything, then probe the new
\* tree, whatever the state of the driver is.
WriteDtb(w) ==
    /\ state \in DtbStates
    /\ \E tree \in Trees : Write(w, "remove", "p_header", tree)

\* A write to either file for which there is no memory, or whose data cannot
\* be read, changes nothing.
WriteFails(w) ==
    /\ pc[w] = "idle" /\ step[w] = "off"
    /\ \E err \in {"ENOMEM", "EFAULT"} : ret' = [ret EXCEPT ![w] = err]
    /\ UNCHANGED <<aerVars, state, pc, fdev_list, walkVars, back>>

\* The script program-fpga-jtag: '1', quartus_pgm, '0'.
JtagScript(w) ==
    /\ \/ Script(w) \/ ScriptEnable(w)
    /\ ret' = [ret EXCEPT ![w] = "count"]
    /\ UNCHANGED <<fdev_list, walkVars, back>>

Outside(w) ==
    /\ Program(w) \/ JobDone(w) \/ Killed(w)
    /\ UNCHANGED fdevVars

-----------------------------------------------------------------------------
DebugfsInit ==
    /\ Init
    /\ fdev_list = {}
    /\ fdt = [w \in Jobs |-> NoTree]
    /\ offset = [w \in Jobs |-> 0]
    /\ tried = [w \in Jobs |-> {}]
    /\ back = [w \in Jobs |-> "none"]
    /\ ret = [w \in Jobs |-> "count"]

\* The steps this driver shares with the ioctl driver.
AerStep(w) ==
    /\ \/ ReadMask(w) \/ MaskErrors(w) \/ SaveState(w) \/ DisableDone(w)
       \/ RestoreState(w) \/ RestoreMask(w) \/ CheckLink(w)
       \/ PollTraining(w) \/ EnableDone(w)
    /\ UNCHANGED fdevVars

DebugfsKernel(w) ==
    \/ StateDisable(w) \/ StateEnable(w) \/ StateProbe(w) \/ StateUnprobe(w)
    \/ PrintRom(w) \/ UnknownData(w)
    \/ RemoveOne(w) \/ RemoveDone(w) \/ CheckHeader(w) \/ ProbeOne(w) \/ ProbeDone(w)
    \/ AerStep(w)

DebugfsUser(w) ==
    \/ EchoProbe(w) \/ EchoUnprobe(w) \/ EchoDisable(w) \/ EchoEnable(w)
    \/ EchoPrint(w) \/ EchoUnknown(w) \/ WriteFails(w)
    \/ WriteDtb(w) \/ JtagScript(w) \/ Outside(w)

TrainingEnds == LinkTrained /\ UNCHANGED fdevVars

DebugfsNext == TrainingEnds \/ \E w \in Jobs : DebugfsKernel(w) \/ DebugfsUser(w)

\* One write at a time is in the kernel; the writers themselves interleave.
SerialWrites == \A v, w \in Jobs : pc[v] # "idle" /\ pc[w] # "idle" => v = w

DebugfsSpec == DebugfsInit /\ [][DebugfsNext /\ SerialWrites']_debugfsVars

\* Threads in the kernel keep running; the link may train for ever.
DebugfsFairness == \A w \in Jobs : WF_debugfsVars(DebugfsKernel(w))

FairDebugfsSpec == DebugfsSpec /\ DebugfsFairness

-----------------------------------------------------------------------------
(* Properties.                                                             *)

\* "Removing all subdrivers that were deployed so that nothing talks upstream
\* while we reconfigure" (872-873): no subdriver is deployed at any time when
\* upstream AER is disabled, whatever was written in which order.
NothingTalksUpstream == state = "AER disabled" => fdev_list = {}

\* "0: Restore upstream AER" (548): after a '0' that returned its count the
\* upstream port reports errors as at boot, whoever probed, removed or
\* disabled what before.
ZeroRestoresAer ==
    [][\A w \in Jobs :
          pc[w] \in {"e_state", "e_done"} /\ pc'[w] = "idle" /\ ret'[w] = "count"
              => mask' = OrigMask]_debugfsVars

\* "deploying drivers for all necessary components as defined within the config
\* ROM" (783-784): the loop asks for a subdriver at exactly the PR IP cores the
\* tree describes, wherever the tree ends and whatever else it holds, and what
\* is deployed in the end is one of them, never what an earlier tree named.
ProbesTheTree ==
    [][\A w \in Jobs :
          pc[w] = "p_nodes" /\ pc'[w] = "idle"
              => /\ tried[w] = Cores(fdt[w], bar_addrs)
                 /\ fdev_list' \subseteq tried[w]]_debugfsVars

\* Every write returns: the two list walks end and the training is bounded.
WritesReturn == \A w \in Jobs : pc[w] # "idle" ~> pc[w] = "idle"
=============================================================================
