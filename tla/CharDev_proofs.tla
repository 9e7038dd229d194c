--------------------------- MODULE CharDev_proofs ---------------------------
(***************************************************************************)
(* Proofs about CharDev, for any number of cards, processes and device     *)
(* numbers and whichever kernel calls fail.                                *)
(***************************************************************************)
EXTENDS CharDev, TLAPS

(* The parts of the inductive invariant.                                   *)

\* A card is offered to the driver once per load, and one probe runs at a time.
ProbeOrder ==
    /\ module # "loading" => todo = {} /\ pc = "bus"
    /\ module = "unloaded" => cards = {}
    /\ todo \cap bound = {}
    /\ pc # "bus" => probed \in cards /\ probed \notin bound /\ probed \notin todo

\* The regions of a card are taken as long as it is enabled, and those of a
\* card that is bound or in the middle of a probe are.
PciTaken ==
    /\ \A c \in Cards : pci[c].enabled = IF pci[c].regions THEN 1 ELSE 0
    /\ \A c \in bound : pci[c].regions
    /\ pc # "bus" => pci[probed].regions

\* A node, also one that was left behind, keeps its number allocated, so that no
\* probe gets that number; and it leads to a card that is bound or nowhere.
NodesKeepNumbers ==
    /\ nodes \subseteq numbers
    /\ \A n \in nodes : cdevs[n] # none => cdevs[n] \in bound
    /\ pc \in {"add", "class", "device"} => devt \in numbers \ nodes
    /\ pc \in {"class", "device"} => cdevs[devt] = probed

BoundHasNode ==
    module \in {"loading", "loaded"} /\ bound # {} =>
       \E n \in nodes : cdevs[n] \in bound

\* As long as no probe failed after fpga_pcie_setup_pci(), the kernel holds what
\* the cards that are bound and the probe that runs have registered, and devt
\* and cl are those of the one card that is bound.
Quiet == ~class /\ nodes = {}

Accounted ==
    late = {} =>
       /\ \A c \in Cards : c \in bound \/ (pc # "bus" /\ c = probed) \/ ~pci[c].regions
       /\ bound # {} => class
       /\ bound = {} /\ pc \in {"bus", "alloc"} =>
             Quiet /\ numbers = {} /\ \A n \in Numbers : cdevs[n] = none
       /\ bound = {} /\ pc = "add" =>
             Quiet /\ numbers = {devt} /\ \A n \in Numbers : cdevs[n] = none
       /\ bound = {} /\ pc = "class" =>
             Quiet /\ numbers = {devt} /\ \A n \in Numbers \ {devt} : cdevs[n] = none
       /\ pc = "device" =>
             /\ bound = {} /\ class /\ nodes = {} /\ numbers = {devt}
             /\ \A n \in Numbers \ {devt} : cdevs[n] = none
       /\ bound # {} /\ pc \in {"bus", "alloc"} =>
             /\ numbers = {devt} /\ nodes = {devt} /\ bound = {cdevs[devt]}
             /\ \A n \in Numbers \ {devt} : cdevs[n] = none

IInv ==
    /\ TypeOK
    /\ ProbeOrder
    /\ PciTaken
    /\ NodesKeepNumbers
    /\ FilesReachBoundCards
    /\ BoundHasNode
    /\ Accounted

-----------------------------------------------------------------------------
\* The module is not loaded, and the kernel holds nothing of it.
LEMMA InitHolds == Init => IInv
<1>. SUFFICES ASSUME Init PROVE IInv
  OBVIOUS
<1>1. TypeOK
  <2>1. class \in BOOLEAN
    BY DEF Init
  <2>2. pci \in [Cards -> [enabled : {0, 1}, regions : BOOLEAN]]
    BY DEF Init, Free
  <2>. QED
    BY <2>1, <2>2, CharDevAssumption DEF Init, TypeOK
<1>2. ProbeOrder /\ PciTaken /\ NodesKeepNumbers /\ FilesReachBoundCards /\ BoundHasNode
  BY
     DEF Init, ProbeOrder, PciTaken, NodesKeepNumbers, FilesReachBoundCards,
         BoundHasNode, Free
<1>3. Accounted
  BY DEF Init, Accounted, Quiet, Free
<1>. QED  BY <1>1, <1>2, <1>3 DEF IInv

\* A new module knows of no card, and its globals say so.
LEMMA InsmodKeeps ==
  ASSUME IInv, Insmod
  PROVE  IInv'
<1>1. TypeOK'
  BY CharDevAssumption DEF Insmod, TypeOK, ProbeOrder, moduleVars, IInv, Numbers
<1>2. ProbeOrder'
  BY CharDevAssumption DEF Insmod, TypeOK, ProbeOrder, IInv
<1>3. PciTaken'
  BY CharDevAssumption DEF Insmod, PciTaken, moduleVars, IInv
<1>4. NodesKeepNumbers'
  BY CharDevAssumption
     DEF Insmod, ProbeOrder, NodesKeepNumbers, moduleVars, IInv, Numbers
<1>5. FilesReachBoundCards'
  BY CharDevAssumption DEF Insmod, FilesReachBoundCards, chrVars, moduleVars, IInv
<1>6. BoundHasNode'
  BY CharDevAssumption
     DEF Insmod, TypeOK, ProbeOrder, BoundHasNode, chrVars, moduleVars, IInv
<1>7. Accounted'
  BY CharDevAssumption
     DEF Insmod, TypeOK, ProbeOrder, Accounted, Quiet, chrVars, moduleVars, IInv,
         Numbers
<1>. QED  BY <1>1, <1>2, <1>3, <1>4, <1>5, <1>6, <1>7 DEF IInv

\* A load that is refused probes nothing.
LEMMA InitFailsKeeps ==
  ASSUME IInv, InitFails
  PROVE  IInv'
<1>1. TypeOK'
  BY CharDevAssumption
     DEF InitFails, TypeOK, ProbeOrder, chrVars, moduleVars, IInv, Numbers
<1>2. ProbeOrder'
  BY CharDevAssumption DEF InitFails, ProbeOrder, IInv
<1>3. PciTaken'
  BY CharDevAssumption DEF InitFails, PciTaken, moduleVars, IInv
<1>4. NodesKeepNumbers'
  BY CharDevAssumption
     DEF InitFails, NodesKeepNumbers, chrVars, moduleVars, IInv, Numbers
<1>5. FilesReachBoundCards'
  BY CharDevAssumption
     DEF InitFails, TypeOK, ProbeOrder, FilesReachBoundCards, chrVars, moduleVars, IInv
<1>6. BoundHasNode'
  BY CharDevAssumption DEF InitFails, BoundHasNode, chrVars, moduleVars, IInv
<1>7. Accounted'
  BY CharDevAssumption
     DEF InitFails, Accounted, Quiet, chrVars, moduleVars, IInv, Numbers
<1>. QED  BY <1>1, <1>2, <1>3, <1>4, <1>5, <1>6, <1>7 DEF IInv

\* The end of loading, with whatever cards were bound.
LEMMA InitDoneKeeps ==
  ASSUME IInv, InitDone
  PROVE  IInv'
<1>1. TypeOK'
  BY CharDevAssumption DEF InitDone, TypeOK, chrVars, moduleVars, IInv, Numbers
<1>2. ProbeOrder'
  BY CharDevAssumption DEF InitDone, ProbeOrder, IInv
<1>3. PciTaken'
  BY CharDevAssumption DEF InitDone, PciTaken, moduleVars, IInv
<1>4. NodesKeepNumbers'
  BY CharDevAssumption
     DEF InitDone, NodesKeepNumbers, chrVars, moduleVars, IInv, Numbers
<1>5. FilesReachBoundCards'
  BY CharDevAssumption DEF InitDone, FilesReachBoundCards, chrVars, moduleVars, IInv
<1>6. BoundHasNode'
  BY CharDevAssumption DEF InitDone, BoundHasNode, chrVars, moduleVars, IInv
<1>7. Accounted'
  BY CharDevAssumption
     DEF InitDone, Accounted, Quiet, chrVars, moduleVars, IInv, Numbers
<1>. QED  BY <1>1, <1>2, <1>3, <1>4, <1>5, <1>6, <1>7 DEF IInv

\* No file is open when the module starts to go.
LEMMA RmmodKeeps ==
  ASSUME IInv, Rmmod
  PROVE  IInv'
<1>1. TypeOK'
  BY CharDevAssumption DEF Rmmod, TypeOK, chrVars, moduleVars, IInv, Numbers
<1>2. ProbeOrder'
  BY CharDevAssumption DEF Rmmod, ProbeOrder, IInv
<1>3. PciTaken'
  BY CharDevAssumption DEF Rmmod, PciTaken, moduleVars, IInv
<1>4. NodesKeepNumbers'
  BY CharDevAssumption DEF Rmmod, NodesKeepNumbers, chrVars, moduleVars, IInv, Numbers
<1>5. FilesReachBoundCards'
  BY CharDevAssumption DEF Rmmod, FilesReachBoundCards, chrVars, moduleVars, IInv
<1>6. BoundHasNode'
  BY CharDevAssumption DEF Rmmod, BoundHasNode, chrVars, moduleVars, IInv
<1>7. Accounted'
  BY CharDevAssumption DEF Rmmod, Accounted, Quiet, chrVars, moduleVars, IInv, Numbers
<1>. QED  BY <1>1, <1>2, <1>3, <1>4, <1>5, <1>6, <1>7 DEF IInv

\* The last card is gone.
LEMMA UnloadedKeeps ==
  ASSUME IInv, Unloaded
  PROVE  IInv'
<1>1. TypeOK'
  BY CharDevAssumption
     DEF Unloaded, TypeOK, ProbeOrder, chrVars, moduleVars, IInv, Numbers
<1>2. ProbeOrder'
  BY CharDevAssumption DEF Unloaded, ProbeOrder, IInv
<1>3. PciTaken'
  BY CharDevAssumption DEF Unloaded, PciTaken, moduleVars, IInv
<1>4. NodesKeepNumbers'
  BY CharDevAssumption
     DEF Unloaded, NodesKeepNumbers, chrVars, moduleVars, IInv, Numbers
<1>5. FilesReachBoundCards'
  BY CharDevAssumption DEF Unloaded, FilesReachBoundCards, chrVars, moduleVars, IInv
<1>6. BoundHasNode'
  BY CharDevAssumption DEF Unloaded, BoundHasNode, chrVars, moduleVars, IInv
<1>7. Accounted'
  BY CharDevAssumption
     DEF Unloaded, Accounted, Quiet, chrVars, moduleVars, IInv, Numbers
<1>. QED  BY <1>1, <1>2, <1>3, <1>4, <1>5, <1>6, <1>7 DEF IInv

\* An oops ends in a fresh kernel.
LEMMA RebootKeeps ==
  ASSUME IInv, Reboot
  PROVE  IInv'
<1>1. TypeOK'
  <2>1. class' \in BOOLEAN
    BY CharDevAssumption DEF Reboot, IInv, Numbers
  <2>2. pci' \in [Cards -> [enabled : {0, 1}, regions : BOOLEAN]]
    BY CharDevAssumption DEF Reboot, Free, IInv, Numbers
  <2>. QED
    BY <2>1, <2>2, CharDevAssumption DEF Reboot, TypeOK, IInv, Numbers
<1>2. ProbeOrder'
  BY CharDevAssumption DEF Reboot, ProbeOrder
<1>3. PciTaken'
  BY CharDevAssumption DEF Reboot, PciTaken, Free, IInv
<1>4. NodesKeepNumbers'
  BY CharDevAssumption DEF Reboot, NodesKeepNumbers, IInv, Numbers
<1>5. FilesReachBoundCards'
  BY CharDevAssumption DEF Reboot, FilesReachBoundCards, Free, IInv
<1>6. BoundHasNode'
  BY CharDevAssumption DEF Reboot, BoundHasNode, Free, IInv
<1>7. Accounted'
  BY CharDevAssumption DEF Reboot, Accounted, Quiet, Free, IInv, Numbers
<1>. QED  BY <1>1, <1>2, <1>3, <1>4, <1>5, <1>6, <1>7 DEF IInv

\* The new number is no node's, so the nodes keep theirs.
LEMMA AllocNumberKeeps ==
  ASSUME IInv, AllocNumber
  PROVE  IInv'
<1>1. TypeOK'
  <2>1. class' \in BOOLEAN
    BY CharDevAssumption DEF AllocNumber, TypeOK, moduleVars, IInv, Numbers
  <2>2. pci' \in [Cards -> [enabled : {0, 1}, regions : BOOLEAN]]
    BY CharDevAssumption DEF AllocNumber, TypeOK, moduleVars, IInv, Numbers
  <2>3. devt' \in 0 .. Majors /\ cl' \in {"none", "class", "error"}
    BY CharDevAssumption DEF AllocNumber, TypeOK, moduleVars, IInv, Numbers
  <2>4. numbers' \subseteq Numbers /\ cdevs' \in [Numbers -> Cards \cup {none}]
    BY CharDevAssumption DEF AllocNumber, TypeOK, moduleVars, IInv, Numbers
  <2>5. /\ pc' \in {"bus", "alloc", "add", "class", "device"}
        /\ probed' \in Cards \cup {none} /\ late' \subseteq Cards
    BY CharDevAssumption
       DEF AllocNumber, TypeOK, ProbeOrder, Fail, moduleVars, IInv, Numbers
  <2>. QED
    BY <2>1, <2>2, <2>3, <2>4, <2>5 DEF AllocNumber, TypeOK, Fail, moduleVars, IInv
<1>2. ProbeOrder'
  BY CharDevAssumption DEF AllocNumber, ProbeOrder, Fail, moduleVars, IInv
<1>3. PciTaken'
  BY CharDevAssumption DEF AllocNumber, PciTaken, Fail, moduleVars, IInv
<1>4. NodesKeepNumbers'
  BY CharDevAssumption
     DEF AllocNumber, NodesKeepNumbers, Fail, moduleVars, IInv, Numbers
<1>5. FilesReachBoundCards'
  BY CharDevAssumption DEF AllocNumber, FilesReachBoundCards, Fail, moduleVars, IInv
<1>6. BoundHasNode'
  BY CharDevAssumption DEF AllocNumber, BoundHasNode, Fail, moduleVars, IInv
<1>7. Accounted'
  BY CharDevAssumption
     DEF AllocNumber, Accounted, Quiet, Fail, moduleVars, IInv, Numbers
<1>. QED  BY <1>1, <1>2, <1>3, <1>4, <1>5, <1>6, <1>7 DEF IInv

\* The new cdev is at a number no node has.
LEMMA AddCdevKeeps ==
  ASSUME IInv, AddCdev
  PROVE  IInv'
<1>1. TypeOK'
  BY CharDevAssumption DEF AddCdev, TypeOK, ProbeOrder, Fail, moduleVars, IInv, Numbers
<1>2. ProbeOrder'
  BY CharDevAssumption DEF AddCdev, ProbeOrder, Fail, moduleVars, IInv
<1>3. PciTaken'
  BY CharDevAssumption DEF AddCdev, PciTaken, Fail, moduleVars, IInv
<1>4. NodesKeepNumbers'
  BY CharDevAssumption
     DEF AddCdev, TypeOK, NodesKeepNumbers, Fail, moduleVars, IInv, Numbers
<1>5. FilesReachBoundCards'
  BY CharDevAssumption DEF AddCdev, FilesReachBoundCards, Fail, moduleVars, IInv
<1>6. BoundHasNode'
  BY CharDevAssumption
     DEF AddCdev, TypeOK, NodesKeepNumbers, BoundHasNode, Fail, moduleVars, IInv
<1>7. Accounted'
  BY CharDevAssumption
     DEF AddCdev, TypeOK, Accounted, Quiet, Fail, moduleVars, IInv, Numbers
<1>. QED  BY <1>1, <1>2, <1>3, <1>4, <1>5, <1>6, <1>7 DEF IInv

\* With a card bound and no late failure the class exists, so that only the
\* first card gets past this step.
LEMMA CreateClassKeeps ==
  ASSUME IInv, CreateClass
  PROVE  IInv'
<1>1. TypeOK'
  <2>1. class' \in BOOLEAN
    BY CharDevAssumption DEF CreateClass, TypeOK, DropNumber, moduleVars, IInv, Numbers
  <2>2. pci' \in [Cards -> [enabled : {0, 1}, regions : BOOLEAN]]
    BY CharDevAssumption DEF CreateClass, TypeOK, DropNumber, moduleVars, IInv, Numbers
  <2>3. devt' \in 0 .. Majors /\ cl' \in {"none", "class", "error"}
    BY CharDevAssumption DEF CreateClass, TypeOK, DropNumber, moduleVars, IInv, Numbers
  <2>4. numbers' \subseteq Numbers
    BY DEF CreateClass, DropNumber, TypeOK, IInv
  <2>5. cdevs' \in [Numbers -> Cards \cup {none}]
    BY DEF CreateClass, DropNumber, TypeOK, IInv
  <2>6. /\ pc' \in {"bus", "alloc", "add", "class", "device"}
        /\ probed' \in Cards \cup {none} /\ late' \subseteq Cards
    BY CharDevAssumption
       DEF CreateClass, TypeOK, ProbeOrder, Fail, DropNumber, moduleVars, IInv, Numbers
  <2>. QED
    BY <2>1, <2>2, <2>3, <2>4, <2>5, <2>6
       DEF CreateClass, TypeOK, Fail, moduleVars, IInv
<1>2. ProbeOrder'
  BY CharDevAssumption DEF CreateClass, ProbeOrder, Fail, moduleVars, IInv
<1>3. PciTaken'
  BY CharDevAssumption DEF CreateClass, PciTaken, Fail, DropNumber, moduleVars, IInv
<1>4. NodesKeepNumbers'
  BY CharDevAssumption
     DEF CreateClass, TypeOK, NodesKeepNumbers, Fail, DropNumber, moduleVars, IInv,
         Numbers
<1>5. FilesReachBoundCards'
  BY CharDevAssumption
     DEF CreateClass, FilesReachBoundCards, Fail, DropNumber, moduleVars, IInv
<1>6. BoundHasNode'
  BY CharDevAssumption
     DEF CreateClass, TypeOK, ProbeOrder, BoundHasNode, Fail, DropNumber, moduleVars,
         IInv
<1>7. Accounted'
  BY CharDevAssumption
     DEF CreateClass, Accounted, Quiet, Fail, DropNumber, moduleVars, IInv, Numbers
<1>. QED  BY <1>1, <1>2, <1>3, <1>4, <1>5, <1>6, <1>7 DEF IInv

\* The node leads to the card that becomes bound.
LEMMA CreateDeviceKeeps ==
  ASSUME IInv, CreateDevice
  PROVE  IInv'
<1>1. TypeOK'
  <2>1. class' \in BOOLEAN
    BY CharDevAssumption DEF CreateDevice, TypeOK, DropNumber, moduleVars, IInv, Numbers
  <2>2. pci' \in [Cards -> [enabled : {0, 1}, regions : BOOLEAN]]
    BY CharDevAssumption DEF CreateDevice, TypeOK, DropNumber, moduleVars, IInv, Numbers
  <2>. QED
    BY <2>1, <2>2, CharDevAssumption
       DEF CreateDevice, TypeOK, ProbeOrder, NodesKeepNumbers, Fail, DropNumber,
           moduleVars, IInv, Numbers
<1>2. ProbeOrder'
  BY CharDevAssumption DEF CreateDevice, ProbeOrder, Fail, moduleVars, IInv
<1>3. PciTaken'
  BY CharDevAssumption DEF CreateDevice, PciTaken, Fail, DropNumber, moduleVars, IInv
<1>4. NodesKeepNumbers'
  BY CharDevAssumption
     DEF CreateDevice, TypeOK, NodesKeepNumbers, Fail, DropNumber, moduleVars, IInv,
         Numbers
<1>5. FilesReachBoundCards'
  BY CharDevAssumption
     DEF CreateDevice, FilesReachBoundCards, Fail, DropNumber, moduleVars, IInv
<1>6. BoundHasNode'
  BY CharDevAssumption
     DEF CreateDevice, TypeOK, ProbeOrder, NodesKeepNumbers, BoundHasNode, Fail,
         DropNumber, moduleVars, IInv
<1>7. Accounted'
  <2>1. CASE Fail
    BY <2>1 DEF Fail, Accounted
  <2>2. CASE /\ nodes' = {devt} /\ bound' = bound \cup {probed} /\ pc' = "bus"
             /\ UNCHANGED <<late, class, cdevs, numbers>>
    BY <2>2, CharDevAssumption
       DEF CreateDevice, NodesKeepNumbers, Accounted, Quiet, IInv
  <2>. QED
    BY <2>1, <2>2 DEF CreateDevice
<1>. QED  BY <1>1, <1>2, <1>3, <1>4, <1>5, <1>6, <1>7 DEF IInv

\* A card whose regions are taken is not enabled again.
LEMMA SetupPciKeeps ==
  ASSUME IInv, NEW c \in Cards, SetupPci(c)
  PROVE  IInv'
<1>1. TypeOK'
  <2>1. class' \in BOOLEAN
    BY CharDevAssumption
       DEF SetupPci, TypeOK, chrVars, moduleVars, MayFail, IInv, Numbers
  <2>2. pci' \in [Cards -> [enabled : {0, 1}, regions : BOOLEAN]]
    <3>1. CASE UNCHANGED pci
      BY <3>1 DEF TypeOK, IInv
    <3>2. CASE /\ pci' = [pci EXCEPT ![c] = [enabled |-> @.enabled + 1, regions |-> TRUE]]
               /\ ~pci[c].regions
      <4>1. pci[c].enabled = 0
        BY <3>2 DEF PciTaken, IInv
      <4>. QED
        BY <3>2, <4>1 DEF TypeOK, IInv
    <3>. QED
      BY <3>1, <3>2 DEF SetupPci
  <2>. QED
    BY <2>1, <2>2, CharDevAssumption
       DEF SetupPci, TypeOK, chrVars, moduleVars, MayFail, IInv, Numbers
<1>2. ProbeOrder'
  BY CharDevAssumption DEF SetupPci, TypeOK, ProbeOrder, MayFail, IInv
<1>3. PciTaken'
  BY CharDevAssumption DEF SetupPci, TypeOK, PciTaken, moduleVars, MayFail, IInv
<1>4. NodesKeepNumbers'
  BY CharDevAssumption
     DEF SetupPci, NodesKeepNumbers, chrVars, moduleVars, MayFail, IInv, Numbers
<1>5. FilesReachBoundCards'
  BY CharDevAssumption
     DEF SetupPci, TypeOK, FilesReachBoundCards, chrVars, moduleVars, MayFail, IInv
<1>6. BoundHasNode'
  BY CharDevAssumption DEF SetupPci, BoundHasNode, chrVars, moduleVars, MayFail, IInv
<1>7. Accounted'
  BY CharDevAssumption
     DEF SetupPci, TypeOK, Accounted, Quiet, chrVars, moduleVars, MayFail, IInv, Numbers
<1>. QED  BY <1>1, <1>2, <1>3, <1>4, <1>5, <1>6, <1>7 DEF IInv

\* Without a late failure the card is the only one bound, and devt and cl are
\* its own.
LEMMA RemoveKeeps ==
  ASSUME IInv, NEW c \in Cards, Remove(c)
  PROVE  IInv'
<1>1. TypeOK'
  <2>1. class' \in BOOLEAN
    BY CharDevAssumption DEF Remove, moduleVars, IInv, Numbers
  <2>2. pci' \in [Cards -> [enabled : {0, 1}, regions : BOOLEAN]]
    BY CharDevAssumption DEF Remove, TypeOK, PciTaken, moduleVars, IInv, Numbers
  <2>. QED
    BY <2>1, <2>2, CharDevAssumption DEF Remove, TypeOK, moduleVars, IInv, Numbers
<1>2. ProbeOrder'
  BY CharDevAssumption DEF Remove, ProbeOrder, moduleVars, IInv
<1>3. PciTaken'
  BY CharDevAssumption DEF Remove, ProbeOrder, PciTaken, moduleVars, IInv
<1>4. NodesKeepNumbers'
  BY CharDevAssumption
     DEF Remove, TypeOK, ProbeOrder, NodesKeepNumbers, moduleVars, IInv, Numbers
<1>5. FilesReachBoundCards'
  BY CharDevAssumption DEF Remove, FilesReachBoundCards, chrVars, moduleVars, IInv
<1>6. BoundHasNode'
  BY CharDevAssumption DEF Remove, BoundHasNode, chrVars, moduleVars, IInv
<1>7. Accounted'
  BY CharDevAssumption
     DEF Remove, TypeOK, ProbeOrder, Accounted, Quiet, chrVars, moduleVars, IInv,
         Numbers
<1>. QED  BY <1>1, <1>2, <1>3, <1>4, <1>5, <1>6, <1>7 DEF IInv

\* The module stays where it is.
LEMMA RemoveOopsKeeps ==
  ASSUME IInv, NEW c \in Cards, RemoveOops(c)
  PROVE  IInv'
<1>1. TypeOK'
  BY CharDevAssumption DEF RemoveOops, TypeOK, chrVars, moduleVars, IInv, Numbers
<1>2. ProbeOrder'
  BY CharDevAssumption DEF RemoveOops, ProbeOrder, IInv
<1>3. PciTaken'
  BY CharDevAssumption DEF RemoveOops, PciTaken, moduleVars, IInv
<1>4. NodesKeepNumbers'
  BY CharDevAssumption
     DEF RemoveOops, NodesKeepNumbers, chrVars, moduleVars, IInv, Numbers
<1>5. FilesReachBoundCards'
  BY CharDevAssumption DEF RemoveOops, FilesReachBoundCards, chrVars, moduleVars, IInv
<1>6. BoundHasNode'
  BY CharDevAssumption DEF RemoveOops, BoundHasNode, chrVars, moduleVars, IInv
<1>7. Accounted'
  BY CharDevAssumption
     DEF RemoveOops, Accounted, Quiet, chrVars, moduleVars, IInv, Numbers
<1>. QED  BY <1>1, <1>2, <1>3, <1>4, <1>5, <1>6, <1>7 DEF IInv

\* A node leads to a bound card only.
LEMMA OpenKeeps ==
  ASSUME IInv, NEW u \in Users, Open(u)
  PROVE  IInv'
<1>1. TypeOK'
  BY CharDevAssumption DEF Open, TypeOK, chrVars, moduleVars, IInv, Numbers
<1>2. ProbeOrder'
  BY CharDevAssumption DEF Open, ProbeOrder, moduleVars, IInv
<1>3. PciTaken'
  BY CharDevAssumption DEF Open, PciTaken, moduleVars, IInv
<1>4. NodesKeepNumbers'
  BY CharDevAssumption DEF Open, NodesKeepNumbers, chrVars, moduleVars, IInv, Numbers
<1>5. FilesReachBoundCards'
  BY CharDevAssumption
     DEF Open, PciTaken, NodesKeepNumbers, FilesReachBoundCards, chrVars, moduleVars,
         IInv
<1>6. BoundHasNode'
  BY CharDevAssumption DEF Open, BoundHasNode, chrVars, moduleVars, IInv
<1>7. Accounted'
  BY CharDevAssumption DEF Open, Accounted, Quiet, chrVars, moduleVars, IInv, Numbers
<1>. QED  BY <1>1, <1>2, <1>3, <1>4, <1>5, <1>6, <1>7 DEF IInv

\* A file less.
LEMMA CloseKeeps ==
  ASSUME IInv, NEW u \in Users, Close(u)
  PROVE  IInv'
<1>1. TypeOK'
  BY CharDevAssumption DEF Close, TypeOK, chrVars, moduleVars, IInv, Numbers
<1>2. ProbeOrder'
  BY CharDevAssumption DEF Close, ProbeOrder, moduleVars, IInv
<1>3. PciTaken'
  BY CharDevAssumption DEF Close, PciTaken, moduleVars, IInv
<1>4. NodesKeepNumbers'
  BY CharDevAssumption DEF Close, NodesKeepNumbers, chrVars, moduleVars, IInv, Numbers
<1>5. FilesReachBoundCards'
  BY CharDevAssumption DEF Close, FilesReachBoundCards, chrVars, moduleVars, IInv
<1>6. BoundHasNode'
  BY CharDevAssumption DEF Close, BoundHasNode, chrVars, moduleVars, IInv
<1>7. Accounted'
  BY CharDevAssumption DEF Close, Accounted, Quiet, chrVars, moduleVars, IInv, Numbers
<1>. QED  BY <1>1, <1>2, <1>3, <1>4, <1>5, <1>6, <1>7 DEF IInv

\* Every step keeps the invariant.
LEMMA StepKeeps == IInv /\ [Next]_vars => IInv'
<1>. SUFFICES ASSUME IInv, [Next]_vars PROVE IInv'
  OBVIOUS
<1>1. CASE UNCHANGED vars
  BY <1>1
     DEF vars, moduleVars, chrVars, IInv, TypeOK, ProbeOrder, PciTaken,
         NodesKeepNumbers, FilesReachBoundCards, BoundHasNode, Accounted, Quiet
<1>2. CASE Next
  BY <1>2, InsmodKeeps, InitFailsKeeps, InitDoneKeeps, RmmodKeeps,
     UnloadedKeeps, RebootKeeps, AllocNumberKeeps, AddCdevKeeps, CreateClassKeeps,
     CreateDeviceKeeps, SetupPciKeeps, RemoveKeeps, RemoveOopsKeeps, OpenKeeps, CloseKeeps
     DEF Next
<1>. QED
  BY <1>1, <1>2

\* The invariant holds for ever.
LEMMA InvariantHolds == Spec => []IInv
  BY InitHolds, StepKeeps, PTL DEF Spec

\* The variables keep their types; in particular a card is never enabled twice,
\* however often its probe fails and the module is loaded again.
THEOREM TypeCorrect == Spec => []TypeOK
<1>1. IInv => TypeOK
  BY DEF IInv
<1>. QED
  BY InvariantHolds, <1>1, PTL

\* An open file reaches a card the driver is bound to, and the node leads to one
\* as long as there is one, for any number of cards and whichever kernel calls
\* fail.
THEOREM NodeServes == Spec => []NodeServesBoundCards
<1>1. IInv => NodeServesBoundCards
  <2>. SUFFICES ASSUME IInv PROVE NodeServesBoundCards
    OBVIOUS
  <2>1. nodes \cap numbers = nodes
    BY DEF IInv, NodesKeepNumbers
  <2>. QED
    BY <2>1 DEF IInv, BoundHasNode, NodeServesBoundCards
<1>. QED
  BY InvariantHolds, <1>1, PTL

\* After rmmod nothing of the driver is left in the kernel, over any sequence of
\* loads in which no probe failed after fpga_pcie_setup_pci().
THEOREM UnloadCleansUp == Spec => []CleansUp
<1>1. IInv => CleansUp
  <2>. SUFFICES ASSUME IInv, module = "unloaded", late = {}
                PROVE  /\ ~class /\ numbers = {} /\ nodes = {}
                       /\ \A n \in Numbers : cdevs[n] = none
                       /\ \A c \in Cards : pci[c] = Free
    BY DEF CleansUp
  <2>1. bound = {} /\ pc = "bus"
    BY DEF IInv, TypeOK, ProbeOrder
  <2>2. ~class /\ numbers = {} /\ nodes = {} /\ \A n \in Numbers : cdevs[n] = none
    BY <2>1 DEF IInv, Accounted, Quiet
  <2>3. ASSUME NEW c \in Cards PROVE pci[c] = Free
    <3>1. ~pci[c].regions
      BY <2>1 DEF IInv, Accounted
    <3>2. pci[c].enabled = 0
      BY <3>1 DEF IInv, PciTaken
    <3>3. pci[c].regions \in BOOLEAN /\ pci[c] \in [enabled : {0, 1}, regions : BOOLEAN]
      BY DEF IInv, TypeOK
    <3>. QED
      BY <3>1, <3>2, <3>3 DEF Free
  <2>. QED
    BY <2>2, <2>3
<1>. QED
  BY InvariantHolds, <1>1, PTL
=============================================================================
