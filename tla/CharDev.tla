------------------------------- MODULE CharDev -------------------------------
(***************************************************************************)
(* The life of the module fpga_pcie (drivers/fpga_pcie/fpga-pcie.c): it is *)
(* loaded, probed for every card on the bus, reached through the character *)
(* device /dev/fpga_pcie and unloaded again.                               *)
(*                                                                         *)
(* priv, with the cdev in it, belongs to a card; the device number devt    *)
(* and the class cl are globals of the module, written by every probe and  *)
(* used by every remove.  What the kernel keeps (class, numbers, cdevs,    *)
(* node, the PCI resources) outlives the module.  The kernel probes and    *)
(* removes one card at a time; processes open and close the node meanwhile.*)
(***************************************************************************)
EXTENDS Naturals

CONSTANTS
    Cards,         \* cards that may be on the bus
    Users,         \* processes that open the node
    Majors,        \* the last device number the kernel has to give
    Faults         \* kernel calls that may fail

none == "none"

ASSUME CharDevAssumption ==
    /\ none \notin Cards
    /\ Majors \in Nat \ {0}
    /\ Faults \subseteq {"register", "enable", "regions", "ioremap",
                         "number", "cdev", "class", "device"}

VARIABLES
    module,        \* the module in the kernel
    cards,         \* cards on the bus when it was loaded
    todo,          \* cards the bus has still to offer to the driver
    pc,            \* the next step of the probe that runs
    probed,        \* the card it is for
    bound,         \* cards the driver is bound to
    devt, cl,      \* the globals; cl is "none", a class, or an error pointer
    class,         \* a class "char" is registered
    numbers,       \* device numbers allocated
    cdevs,         \* cdevs[n]: the card whose cdev is at number n
    nodes,         \* numbers of the nodes named fpga_pcie
    pci,           \* pci[c]: how often c is enabled, and whether its regions are taken
    file,          \* file[u]: the card of the file u has open
    late           \* cards whose probe failed after fpga_pcie_setup_pci()

moduleVars == <<module, cards, todo>>
chrVars == <<devt, cl, class, numbers, cdevs, nodes>>
vars == <<moduleVars, pc, probed, bound, chrVars, pci, file, late>>

Numbers == 1 .. Majors
Free == [enabled |-> 0, regions |-> FALSE]

TypeOK ==
    /\ module \in {"unloaded", "loading", "loaded", "going", "oops"}
    /\ cards \subseteq Cards /\ todo \subseteq cards /\ bound \subseteq cards
    /\ pc \in {"bus", "alloc", "add", "class", "device"}
    /\ probed \in Cards \cup {none}
    /\ devt \in 0 .. Majors /\ cl \in {"none", "class", "error"} /\ class \in BOOLEAN
    /\ numbers \subseteq Numbers /\ nodes \subseteq Numbers
    /\ cdevs \in [Numbers -> Cards \cup {none}]
    /\ pci \in [Cards -> [enabled : {0, 1}, regions : BOOLEAN]]
    /\ file \in [Users -> Cards \cup {none}]
    /\ late \subseteq Cards

MayFail(call) == call \in Faults

-----------------------------------------------------------------------------
(* fpga_pcie_probe().                                                      *)

\* The probe returns an error: the driver is not bound to the card, and its
\* remove function will not be called for it.
Fail ==
    /\ pc' = "bus"
    /\ probed' = none
    /\ late' = late \cup {probed}
    /\ UNCHANGED bound

\* The probe up to fpga_pcie_setup_pci(): it ends before the card is enabled; the
\* card was enabled, but its regions are taken, and it is disabled again; a BAR
\* could not be mapped, and fpga_pcie_shutdown_pci() undoes the rest; or all is
\* well.
SetupPci(c) ==
    /\ module = "loading" /\ pc = "bus" /\ c \in todo
    /\ todo' = todo \ {c}
    /\ \/ /\ \/ MayFail("enable")
             \/ pci[c].regions \/ MayFail("regions")
             \/ ~pci[c].regions /\ MayFail("ioremap")
          /\ UNCHANGED <<pc, probed, pci>>
       \/ /\ ~pci[c].regions
          /\ pci' = [pci EXCEPT ![c] = [enabled |-> @.enabled + 1, regions |-> TRUE]]
          /\ pc' = "alloc" /\ probed' = c
    /\ UNCHANGED <<module, cards, bound, chrVars, file, late>>

\* init_chrdev(): alloc_chrdev_region() gives the last number that is free, and
\* leaves devt alone when it fails.
AllocNumber ==
    /\ pc = "alloc"
    /\ \/ /\ numbers = Numbers \/ MayFail("number")
          /\ Fail
          /\ UNCHANGED <<devt, numbers>>
       \/ \E n \in Numbers \ numbers :
          /\ \A m \in Numbers \ numbers : m <= n
          /\ devt' = n
          /\ numbers' = numbers \cup {n}
          /\ pc' = "add"
          /\ UNCHANGED <<probed, bound, late>>
    /\ UNCHANGED <<moduleVars, cl, class, cdevs, nodes, pci, file>>

\* cdev_add(); when it fails the number stays allocated.
AddCdev ==
    /\ pc = "add"
    /\ \/ /\ MayFail("cdev")
          /\ Fail
          /\ UNCHANGED cdevs
       \/ /\ cdevs' = [cdevs EXCEPT ![devt] = probed]
          /\ pc' = "class"
          /\ UNCHANGED <<probed, bound, late>>
    /\ UNCHANGED <<moduleVars, devt, cl, class, numbers, nodes, pci, file>>

\* cdev_del() and unregister_chrdev_region().
DropNumber ==
    /\ cdevs' = [n \in Numbers |-> IF cdevs[n] = probed THEN none ELSE cdevs[n]]
    /\ numbers' = numbers \ {devt}

\* class_create(): the name of a class is unique, and cl is overwritten even
\* with an error.
CreateClass ==
    /\ pc = "class"
    /\ \/ /\ class \/ MayFail("class")
          /\ cl' = "error"
          /\ DropNumber
          /\ Fail
          /\ UNCHANGED class
       \/ /\ ~class
          /\ cl' = "class" /\ class' = TRUE
          /\ pc' = "device"
          /\ UNCHANGED <<probed, bound, late, cdevs, numbers>>
    /\ UNCHANGED <<moduleVars, devt, nodes, pci, file>>

\* device_create(): the node appears, or fails if one of that name is left.
CreateDevice ==
    /\ pc = "device"
    /\ \/ /\ nodes # {} \/ MayFail("device")
          /\ class' = FALSE
          /\ DropNumber
          /\ Fail
          /\ UNCHANGED nodes
       \/ /\ nodes = {}
          /\ nodes' = {devt}
          /\ bound' = bound \cup {probed}
          /\ pc' = "bus" /\ probed' = none
          /\ UNCHANGED <<late, class, cdevs, numbers>>
    /\ UNCHANGED <<moduleVars, devt, cl, pci, file>>

-----------------------------------------------------------------------------
(* fpga_pcie_init(), fpga_pcie_exit() and fpga_pcie_remove().              *)

\* insmod: the globals of a new module are zero.
Insmod ==
    /\ module = "unloaded"
    /\ cards' \in SUBSET Cards
    /\ todo' = cards'
    /\ module' = "loading"
    /\ devt' = 0 /\ cl' = "none"
    /\ UNCHANGED <<pc, probed, bound, class, numbers, cdevs, nodes, pci, file, late>>

\* pci_register_driver() fails, and the module is gone again.
InitFails ==
    /\ module = "loading" /\ todo = cards /\ pc = "bus" /\ MayFail("register")
    /\ module' = "unloaded"
    /\ todo' = {} /\ cards' = {}
    /\ UNCHANGED <<pc, probed, bound, chrVars, pci, file, late>>

\* Registration succeeds whatever the probes returned.
InitDone ==
    /\ module = "loading" /\ todo = {} /\ pc = "bus"
    /\ module' = "loaded"
    /\ UNCHANGED <<cards, todo, pc, probed, bound, chrVars, pci, file, late>>

\* Fault: the module does not own its file operations, so that an open file
\* does not keep it.
RmmodUnowned ==
    /\ module = "loaded"
    /\ module' = "going"
    /\ UNCHANGED <<cards, todo, pc, probed, bound, chrVars, pci, file, late>>

\* rmmod is refused as long as a file of the module is open.
Rmmod ==
    /\ module = "loaded"
    /\ \A u \in Users : file[u] = none
    /\ module' = "going"
    /\ UNCHANGED <<cards, todo, pc, probed, bound, chrVars, pci, file, late>>

\* Fault: the device number is not given back.
RemoveKeepsNumber(c) ==
    /\ module = "going" /\ c \in bound /\ cl = "class"
    /\ nodes' = nodes \ {devt}
    /\ class' = FALSE
    /\ cdevs' = [n \in Numbers |-> IF cdevs[n] = c THEN none ELSE cdevs[n]]
    /\ pci' = [pci EXCEPT ![c] = [enabled |-> @.enabled - 1, regions |-> FALSE]]
    /\ bound' = bound \ {c}
    /\ UNCHANGED <<moduleVars, pc, probed, devt, cl, numbers, file, late>>

\* fpga_pcie_remove() of one card.  device_destroy() looks for devt in cl and
\* does nothing if it is not there.  No step of a process comes between: a
\* module that is going cannot be opened any more.
Remove(c) ==
    /\ module = "going" /\ c \in bound /\ cl = "class"
    /\ nodes' = nodes \ {devt}
    /\ class' = FALSE
    /\ cdevs' = [n \in Numbers |-> IF cdevs[n] = c THEN none ELSE cdevs[n]]
    /\ numbers' = numbers \ {devt}
    /\ pci' = [pci EXCEPT ![c] = [enabled |-> @.enabled - 1, regions |-> FALSE]]
    /\ bound' = bound \ {c}
    /\ UNCHANGED <<moduleVars, pc, probed, devt, cl, file, late>>

\* device_destroy() of an error pointer.
RemoveOops(c) ==
    /\ module = "going" /\ c \in bound /\ cl = "error"
    /\ module' = "oops"
    /\ UNCHANGED <<cards, todo, pc, probed, bound, chrVars, pci, file, late>>

Unloaded ==
    /\ module = "going" /\ bound = {}
    /\ module' = "unloaded" /\ cards' = {}
    /\ UNCHANGED <<todo, pc, probed, bound, chrVars, pci, file, late>>

-----------------------------------------------------------------------------
(* Processes.                                                              *)

\* my_open(), through the cdev at the number of the node.
Open(u) ==
    /\ module \in {"loading", "loaded"} /\ file[u] = none
    /\ \E n \in nodes : cdevs[n] # none /\ file' = [file EXCEPT ![u] = cdevs[n]]
    /\ UNCHANGED <<moduleVars, pc, probed, bound, chrVars, pci, late>>

\* my_close().
Close(u) ==
    /\ file[u] # none
    /\ file' = [file EXCEPT ![u] = none]
    /\ UNCHANGED <<moduleVars, pc, probed, bound, chrVars, pci, late>>

-----------------------------------------------------------------------------
Init ==
    /\ module = "unloaded" /\ cards = {} /\ todo = {} /\ bound = {}
    /\ pc = "bus" /\ probed = none
    /\ devt = 0 /\ cl = "none" /\ class = FALSE
    /\ numbers = {} /\ nodes = {} /\ cdevs = [n \in Numbers |-> none]
    /\ pci = [c \in Cards |-> Free]
    /\ file = [u \in Users |-> none]
    /\ late = {}

Reboot ==
    /\ module = "oops"
    /\ module' = "unloaded" /\ cards' = {} /\ todo' = {} /\ bound' = {}
    /\ pc' = "bus" /\ probed' = none
    /\ devt' = 0 /\ cl' = "none" /\ class' = FALSE
    /\ numbers' = {} /\ nodes' = {} /\ cdevs' = [n \in Numbers |-> none]
    /\ pci' = [c \in Cards |-> Free]
    /\ file' = [u \in Users |-> none]
    /\ late' = {}

Next ==
    \/ Insmod \/ InitFails \/ InitDone \/ Rmmod \/ Unloaded \/ Reboot
    \/ AllocNumber \/ AddCdev \/ CreateClass \/ CreateDevice
    \/ \E c \in Cards : SetupPci(c) \/ Remove(c) \/ RemoveOops(c)
    \/ \E u \in Users : Open(u) \/ Close(u)

Spec == Init /\ [][Next]_vars

-----------------------------------------------------------------------------
(* Properties.                                                             *)

\* A file keeps the card it was opened for: whatever other cards are probed,
\* fail or go, my_ioctl() finds the driver bound to that card and its BARs
\* mapped, because an open file keeps the module (644) and the node appears in
\* the last step of a probe.
FilesReachBoundCards ==
    \A u \in Users : file[u] # none =>
       file[u] \in bound /\ pci[file[u]].regions /\ module \in {"loading", "loaded"}

\* The node serves the cards the driver is bound to: a file reaches its card
\* until it is closed, and as long as a card is bound the node leads to one,
\* whichever way the probes of other cards fail.
NodeServesBoundCards ==
    /\ FilesReachBoundCards
    /\ module = "loaded" /\ bound # {} =>
          \E n \in nodes \cap numbers : cdevs[n] \in bound

\* "Cleans up after ourselves" (814): after rmmod the kernel holds nothing of
\* the driver, over any number of loads, with probes that fail in
\* fpga_pcie_setup_pci() on the way.
CleansUp ==
    module = "unloaded" /\ late = {} =>
       /\ ~class /\ numbers = {} /\ nodes = {}
       /\ \A n \in Numbers : cdevs[n] = none
       /\ \A c \in Cards : pci[c] = Free

\* "multi card setups will have a driver deployed for each card" (703-704).
EveryCardBound == module = "loaded" => bound = cards
=============================================================================
