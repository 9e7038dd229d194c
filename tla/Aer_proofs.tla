------------------------------ MODULE Aer_proofs ------------------------------
(***************************************************************************)
(* Proofs about the two drivers that mask the errors of the upstream port. *)
(*                                                                         *)
(* UpstreamAer, for every set of jobs, every boot mask and any number of   *)
(* polls.  Always: type correctness.  One job at a time: the boot mask is  *)
(* never lost, reprogramming the card is never reported as an error, and   *)
(* an idle driver never leaves the card blank.                             *)
(*                                                                         *)
(* DebugfsState, for every set of writers, any device trees, in the ROM or *)
(* written to base_dtb, any boot mask and any bound of the training loop,  *)
(* with writes to the two files one at a time.  The types hold and         *)
(* NothingTalksUpstream does, whenever base_dtb is written.                *)
(* ZeroRestoresAer holds when base_dtb is left alone while upstream AER is *)
(* disabled: a device tree written then makes the driver forget that it    *)
(* has masked errors.  ProbesTheTree holds of every proper tree: the loops *)
(* of libfdt are shown to be searches that stop at the first tag of a set, *)
(* which are then compared with what the tree means.                       *)
(***************************************************************************)
EXTENDS DebugfsState, FiniteSetTheorems, WellFoundedInduction, TLAPS

(* The driver with ioctls.                                                 *)

\* The two flags, which the provers reason about apart from the rest.
Flags == training \in BOOLEAN /\ reported \in BOOLEAN

\* The hardware and the driver's state.
Hardware ==
    /\ mask \subseteq OtherBits \cup DriverBits
    /\ aer_uerr_mask_reg \subseteq OtherBits \cup DriverBits
    /\ state \in {"Idle", "AER disabled"}
    /\ saved \in {"none", "configured", "blank", "garbage"}
    /\ card \in {"configured", "blank", "garbage", "absent"}
    /\ link \in {"full", "degraded", "down"}

\* The jobs.
Processes ==
    /\ step \in [Jobs -> {"off", "script -d", "program", "script -e", "single"}]
    /\ pc \in [Jobs -> PCs]
    /\ reg \in [Jobs -> SUBSET (OtherBits \cup DriverBits)]
    /\ polls \in [Jobs -> 0 .. TrainPolls]

\* The three parts together are the type invariant.
LEMMA TypeParts == TypeOK <=> Flags /\ Hardware /\ Processes
  BY Zenon DEF TypeOK, Flags, Hardware, Processes

\* Every step keeps the flags Boolean.
LEMMA FlagsStep ==
    ASSUME Flags, [Next]_vars
    PROVE  Flags'
<1> USE DEF Flags, privVars, cardVars
<1>1. ASSUME NEW j \in Jobs, Kernel(j)
      PROVE  Flags'
  BY <1>1, Zenon DEF Kernel, DisableState, ReadMask, MaskErrors, SaveState, DisableDone,
         EnableState, RestoreState, RestoreMask, CheckLink, PollTraining, EnableDone
<1>2. ASSUME NEW j \in Jobs, User(j)
      PROVE  Flags'
  BY <1>2, Zenon DEF User, Script, SingleDisable, SingleEnable, ScriptEnable, Ioctl,
         Program, JobDone, Killed
<1>3. CASE LinkTrained
  BY <1>3, Zenon DEF LinkTrained
<1>4. CASE UNCHANGED vars
  BY <1>4, Zenon DEF vars
<1>. QED
  BY <1>1, <1>2, <1>3, <1>4 DEF Next

\* Every step keeps the hardware and the driver's state in their types.
LEMMA HardwareStep ==
    ASSUME Hardware, Processes, [Next]_vars
    PROVE  Hardware'
<1> USE DEF Hardware, Processes, DriverBits, privVars, cardVars
<1>1. ASSUME NEW j \in Jobs, Kernel(j)
      PROVE  Hardware'
  BY <1>1 DEF Kernel, DisableState, ReadMask, MaskErrors, SaveState, DisableDone,
         EnableState, RestoreState, RestoreMask, CheckLink, PollTraining, EnableDone
<1>2. ASSUME NEW j \in Jobs, User(j)
      PROVE  Hardware'
  BY <1>2 DEF User, Script, SingleDisable, SingleEnable, ScriptEnable, Ioctl,
         Program, JobDone, Killed
<1>3. CASE LinkTrained
  BY <1>3 DEF LinkTrained
<1>4. CASE UNCHANGED vars
  BY <1>4 DEF vars
<1>. QED
  BY <1>1, <1>2, <1>3, <1>4 DEF Next

\* What a counter needs of its bound.
LEMMA OneMore ==
    ASSUME NEW N \in Nat, NEW n \in 0 .. N
    PROVE  0 \in 0 .. N /\ (n < N => n + 1 \in 0 .. N)
  OBVIOUS

\* Every step keeps the jobs' labels, copies of the mask and counters.
LEMMA ProcessesStep ==
    ASSUME Hardware, Processes, [Next]_vars
    PROVE  Processes'
<1> USE DEF Processes, PCs, Goto, privVars, cardVars
<1>1. ASSUME NEW j \in Jobs,
             \/ DisableState(j) \/ EnableState(j) \/ DisableDone(j)
             \/ EnableDone(j) \/ CheckLink(j)
      PROVE  Processes'
  BY <1>1 DEF DisableState, EnableState, DisableDone, EnableDone, CheckLink
<1>2. ASSUME NEW j \in Jobs, ReadMask(j) \/ MaskErrors(j) \/ RestoreMask(j)
      PROVE  Processes'
  BY <1>2 DEF ReadMask, MaskErrors, RestoreMask, Hardware
<1>3. ASSUME NEW j \in Jobs, SaveState(j) \/ RestoreState(j)
      PROVE  Processes'
  BY <1>3 DEF SaveState, RestoreState
<1>4. ASSUME NEW j \in Jobs, PollTraining(j)
      PROVE  Processes'
  <2>1. /\ step' = step /\ reg' = reg
        /\ \E l \in PCs : pc' = [pc EXCEPT ![j] = l]
        /\ \/ polls' = [polls EXCEPT ![j] = 0]
           \/ polls[j] < TrainPolls /\ polls' = [polls EXCEPT ![j] = polls[j] + 1]
    BY <1>4, Zenon DEF PollTraining
  <2>2. polls' \in [Jobs -> 0 .. TrainPolls]
    <3>1. TrainPolls \in Nat /\ polls[j] \in 0 .. TrainPolls
      BY AerAssumption
    <3>2. /\ 0 \in 0 .. TrainPolls
          /\ polls[j] < TrainPolls => polls[j] + 1 \in 0 .. TrainPolls
      BY <3>1, OneMore
    <3>. QED
      BY <2>1, <3>1, <3>2, Zenon
  <2>. QED
    BY <2>1, <2>2
<1>5. ASSUME NEW j \in Jobs, User(j)
      PROVE  Processes'
  BY <1>5 DEF User, Script, SingleDisable, SingleEnable, ScriptEnable, Ioctl,
         Program, JobDone, Killed
<1>6. CASE LinkTrained
  BY <1>6 DEF LinkTrained
<1>7. CASE UNCHANGED vars
  BY <1>7 DEF vars
<1>. QED
  BY <1>1, <1>2, <1>3, <1>4, <1>5, <1>6, <1>7 DEF Next, Kernel

\* The registers, the driver's state and the jobs keep their types under any
\* interleaving of any number of jobs; the training counter never passes its
\* bound (fpga-pcie.c 227-233).
THEOREM TypeCorrect == Spec => []TypeOK
<1>1. Init => Flags
  BY Zenon DEF Init, Flags
<1>2. Init => Hardware
  BY AerAssumption DEF Init, Hardware
<1>3. Init => Processes
  BY AerAssumption DEF Init, Processes, PCs
<1>. QED
  BY <1>1, <1>2, <1>3, TypeParts, FlagsStep, HardwareStep, ProcessesStep, PTL DEF Spec

-----------------------------------------------------------------------------
(* One job at a time.                                                      *)

DisablePCs == {"d_state", "d_read", "d_mask", "d_save", "d_done"}

\* The port reports errors as at boot.
Reporting == mask = OrigMask

\* The port is masked, and the driver knows the boot mask.
Masked == mask = OrigMask \cup DriverBits /\ aer_uerr_mask_reg = OrigMask

\* The copy pci_save_state() made is there and is not one of a blank card.
GoodCopy == saved \in {"configured", "garbage"}

\* What the driver has promised between two ioctls.
Rest ==
    \/ state = "Idle" /\ Reporting /\ card # "blank"
    \/ state = "AER disabled" /\ Masked /\ GoodCopy

\* What job j may rely on at each of its labels.
Stands(j) ==
    /\ pc[j] \in {"idle", "d_state", "e_state"} => Rest
    /\ pc[j] \in {"d_read", "d_mask"} => Reporting
    /\ pc[j] \in {"d_read", "d_mask", "d_save", "e_mask", "e_link", "e_train", "e_done"} =>
          card # "blank"
    /\ pc[j] \in {"d_done", "e_restore"} => GoodCopy
    /\ pc[j] = "d_mask" => reg[j] = OrigMask
    /\ pc[j] \in {"d_save", "d_done", "e_restore", "e_mask"} => Masked
    /\ pc[j] \in {"e_link", "e_train", "e_done"} => Reporting
    /\ step[j] = "script -d" =>
          pc[j] \in DisablePCs \/ (pc[j] = "idle" /\ state = "AER disabled")

Active(j) == step[j] # "off"

\* The inductive invariant: the active job stands as above; without one the
\* driver is at rest.
AerInv ==
    /\ Serial
    /\ pc \in [Jobs -> PCs] /\ step \in [Jobs -> {"off", "script -d", "program", "script -e", "single"}]
    /\ DOMAIN reg = Jobs
    /\ card \in {"configured", "blank", "garbage", "absent"}
    /\ \A j \in Jobs : Active(j) => Stands(j)
    /\ \A j \in Jobs : ~Active(j) => pc[j] = "idle"
    /\ (\A j \in Jobs : ~Active(j)) => Rest
    /\ reported = FALSE

-----------------------------------------------------------------------------
\* A step of job j, or one that starts it: no other job is active, before or
\* after, and none of them moves.
Alone(j) ==
    /\ \A k \in Jobs \ {j} : ~Active(k) /\ step'[k] = step[k] /\ pc'[k] = pc[k]
    /\ pc' \in [Jobs -> PCs]
    /\ step' \in [Jobs -> {"off", "script -d", "program", "script -e", "single"}]
    /\ DOMAIN reg' = Jobs
    /\ card' \in {"configured", "blank", "garbage", "absent"}

\* If the one job that moves still stands, the invariant is kept.
LEMMA AloneKeeps ==
    ASSUME AerInv, Serial', NEW j \in Jobs, Alone(j), reported' = FALSE,
           Active(j)' => Stands(j)',
           ~Active(j)' => pc'[j] = "idle" /\ Rest'
    PROVE  AerInv'
  BY DEF AerInv, Alone, Active

\* A job that makes a step inside an ioctl, or goes on outside, is active and
\* therefore alone.
LEMMA ActiveAlone ==
    ASSUME AerInv, NEW j \in Jobs, Active(j), NEW k \in Jobs, k # j
    PROVE  ~Active(k)
  BY DEF AerInv, Serial, Active

\* The steps inside the two ioctls.
LEMMA KernelStep ==
    ASSUME AerInv, Serial', NEW j \in Jobs, Kernel(j)
    PROVE  AerInv'
<1> USE DEF Goto, privVars, cardVars
<1>1. pc[j] # "idle"
  BY DEF Kernel, DisableState, ReadMask, MaskErrors, SaveState, DisableDone,
         EnableState, RestoreState, RestoreMask, CheckLink, PollTraining, EnableDone
<1>2. Active(j) /\ Stands(j)
  BY <1>1 DEF AerInv
<1>3. \A k \in Jobs \ {j} : ~Active(k)
  BY <1>2, ActiveAlone
<1>4. /\ step' = step /\ reported' = reported
      /\ \E l \in PCs : pc' = [pc EXCEPT ![j] = l]
      /\ DOMAIN reg' = Jobs
  BY DEF Kernel, DisableState, ReadMask, MaskErrors, SaveState, DisableDone,
         EnableState, RestoreState, RestoreMask, CheckLink, PollTraining, EnableDone,
         PCs, AerInv
<1>4a. card' \in {"configured", "blank", "garbage", "absent"}
  <2>1. CASE RestoreState(j)
    BY <1>2, <2>1 DEF RestoreState, Stands, GoodCopy, AerInv
  <2>2. CASE ~RestoreState(j)
    BY <2>2 DEF Kernel, DisableState, ReadMask, MaskErrors, SaveState, DisableDone,
           EnableState, RestoreMask, CheckLink, PollTraining, EnableDone, AerInv
  <2>. QED
    BY <2>1, <2>2
<1>5. Alone(j) /\ reported' = FALSE /\ Active(j)'
  BY <1>2, <1>3, <1>4, <1>4a DEF Alone, AerInv, Active
<1> USE DEF AerInv, Stands, DisablePCs, Active
<1>6. CASE DisableState(j)
  <2>1. Stands(j)'
    BY <1>2, <1>6 DEF DisableState, Rest, Reporting, Masked, GoodCopy
  <2>. QED
    BY <1>5, <2>1, AloneKeeps
<1>7. CASE ReadMask(j)
  <2>1. Stands(j)'
    BY <1>2, <1>7 DEF ReadMask, Reporting
  <2>. QED
    BY <1>5, <2>1, AloneKeeps
<1>8. CASE MaskErrors(j)
  <2>1. Stands(j)'
    BY <1>2, <1>8 DEF MaskErrors, Masked
  <2>. QED
    BY <1>5, <2>1, AloneKeeps
<1>9. CASE SaveState(j)
  <2>1. Stands(j)'
    BY <1>2, <1>9 DEF SaveState, Masked, GoodCopy
  <2>. QED
    BY <1>5, <2>1, AloneKeeps
<1>10. CASE DisableDone(j)
  <2>1. Stands(j)'
    BY <1>2, <1>10 DEF DisableDone, Masked, Rest, GoodCopy
  <2>. QED
    BY <1>5, <2>1, AloneKeeps
<1>11. CASE EnableState(j)
  <2>1. Stands(j)'
    BY <1>2, <1>11 DEF EnableState, Rest, Reporting, Masked, GoodCopy
  <2>. QED
    BY <1>5, <2>1, AloneKeeps
<1>12. CASE RestoreState(j)
  <2>1. Stands(j)'
    BY <1>2, <1>12 DEF RestoreState, Masked, GoodCopy
  <2>. QED
    BY <1>5, <2>1, AloneKeeps
<1>13. CASE RestoreMask(j)
  <2>1. Stands(j)'
    BY <1>2, <1>13 DEF RestoreMask, Masked, Reporting
  <2>. QED
    BY <1>5, <2>1, AloneKeeps
<1>14. CASE CheckLink(j)
  <2>1. Stands(j)'
    BY <1>2, <1>14 DEF CheckLink, Reporting
  <2>. QED
    BY <1>5, <2>1, AloneKeeps
<1>15. CASE PollTraining(j)
  <2>1. Stands(j)'
    BY <1>2, <1>15 DEF PollTraining, Reporting
  <2>. QED
    BY <1>5, <2>1, AloneKeeps
<1>16. CASE EnableDone(j)
  <2>1. Stands(j)'
    BY <1>2, <1>16 DEF EnableDone, Reporting, Rest
  <2>. QED
    BY <1>5, <2>1, AloneKeeps
<1>. QED
  BY <1>6, <1>7, <1>8, <1>9, <1>10, <1>11, <1>12, <1>13, <1>14, <1>15, <1>16 DEF Kernel

\* A job that starts: the driver is at rest, and Serial lets no other be active.
LEMMA StartStep ==
    ASSUME AerInv, Serial', NEW j \in Jobs,
           Script(j) \/ SingleDisable(j) \/ SingleEnable(j)
    PROVE  AerInv'
<1> USE DEF Goto, privVars, cardVars, Script, SingleDisable, SingleEnable, Ioctl
<1>1. /\ step[j] = "off" /\ Active(j)'
      /\ UNCHANGED <<mask, aer_uerr_mask_reg, state, saved, card, reported, reg>>
      /\ \E s \in {"script -d", "single"} : step' = [step EXCEPT ![j] = s]
      /\ \E l \in {"d_state", "e_state"} : pc' = [pc EXCEPT ![j] = l]
      /\ step'[j] = "script -d" => pc'[j] = "d_state"
  BY DEF AerInv, Active
<1>2. \A k \in Jobs \ {j} : ~Active(k) /\ step'[k] = step[k] /\ pc'[k] = pc[k]
  BY <1>1 DEF Serial, Active, AerInv
<1>3. Rest
  BY <1>1, <1>2 DEF AerInv, Active
<1>4. Alone(j) /\ reported' = FALSE
  BY <1>1, <1>2 DEF Alone, AerInv, PCs
<1>5. Stands(j)'
  BY <1>1, <1>3 DEF Stands, Rest, Reporting, Masked, GoodCopy, DisablePCs, AerInv
<1>. QED
  BY <1>1, <1>4, <1>5, AloneKeeps

\* The script between its commands, and the end of a job.
LEMMA OutsideStep ==
    ASSUME AerInv, Serial', NEW j \in Jobs,
           Program(j) \/ ScriptEnable(j) \/ JobDone(j) \/ Killed(j)
    PROVE  AerInv'
<1> USE DEF Goto, privVars, cardVars, ScriptEnable, Ioctl
<1>1. Active(j) /\ Stands(j) /\ pc[j] = "idle"
  BY DEF Program, JobDone, Killed, Active, AerInv
<1>2. \A k \in Jobs \ {j} : ~Active(k)
  BY <1>1, ActiveAlone
<1>3. Rest
  BY <1>1 DEF Stands
<1>4. /\ UNCHANGED <<mask, aer_uerr_mask_reg, state, saved, reg>>
      /\ card' = card \/ (state = "AER disabled" /\ card' \in {"blank", "absent"})
      /\ \E s \in {"off", "program", "script -e"} : step' = [step EXCEPT ![j] = s]
      /\ \/ pc' = pc
         \/ pc' = [pc EXCEPT ![j] = "e_state"] /\ step'[j] = "script -e"
  BY <1>1 DEF Program, JobDone, Killed, AerInv, Stands, DisablePCs
<1>5. reported' = FALSE
  <2>1. CASE Program(j)
    BY <1>1, <1>3, <2>1 DEF Program, Stands, DisablePCs, Rest, Masked, DriverBits, AerInv
  <2>2. CASE ScriptEnable(j) \/ JobDone(j) \/ Killed(j)
    BY <2>2 DEF JobDone, Killed, AerInv
  <2>. QED
    BY <2>1, <2>2
<1>6. Alone(j)
  <2>1. card' \in {"configured", "blank", "garbage", "absent"}
    BY <1>4 DEF AerInv
  <2>2. pc' \in [Jobs -> PCs] /\ \A k \in Jobs \ {j} : pc'[k] = pc[k]
    BY <1>4 DEF AerInv, PCs
  <2>3. /\ step' \in [Jobs -> {"off", "script -d", "program", "script -e", "single"}]
        /\ \A k \in Jobs \ {j} : step'[k] = step[k]
    BY <1>4 DEF AerInv
  <2>4. DOMAIN reg' = Jobs
    BY <1>4 DEF AerInv
  <2>. QED
    BY <1>2, <2>1, <2>2, <2>3, <2>4 DEF Alone
<1>7. Rest'
  BY <1>3, <1>4 DEF Rest, Reporting, Masked, GoodCopy
<1>8. Active(j)' => Stands(j)'
  BY <1>1, <1>4, <1>7 DEF Stands, Active, AerInv
<1>9. ~Active(j)' => pc'[j] = "idle"
  BY <1>1, <1>4 DEF Active, AerInv
<1>. QED
  BY <1>5, <1>6, <1>7, <1>8, <1>9, AloneKeeps

\* What every label of the two ioctls may rely on (fpga-pcie.c 498-541), for
\* any number of jobs and any boot mask, as long as one job runs at a time.
THEOREM AerInvariant == SerialSpec => []AerInv
<1>1. Init => AerInv
  BY DEF Init, AerInv, Serial, Active, Rest, Reporting, PCs
<1>2. ASSUME AerInv, [Next /\ Serial']_vars
      PROVE  AerInv'
  <2>1. CASE LinkTrained
    <3>1. Serial'
      BY <1>2, <2>1 DEF LinkTrained, Serial, AerInv
    <3>. QED
      BY <1>2, <2>1, <3>1 DEF LinkTrained, AerInv, Active, Stands, Rest, Reporting, Masked, GoodCopy, privVars
  <2>2. CASE UNCHANGED vars
    BY <1>2, <2>2 DEF vars, AerInv, Serial, Active, Stands, Rest, Reporting, Masked, GoodCopy
  <2>3. ASSUME NEW j \in Jobs, Kernel(j) \/ User(j), Serial'
        PROVE  AerInv'
    BY <1>2, <2>3, KernelStep, StartStep, OutsideStep DEF User
  <2>. QED
    BY <1>2, <2>1, <2>2, <2>3 DEF Next
<1>. QED
  BY <1>1, <1>2, PTL DEF SerialSpec

\* With no ioctl under way the driver is at rest.
LEMMA QuietRests ==
    ASSUME AerInv, Quiet
    PROVE  Rest
<1>1. CASE \E j \in Jobs : Active(j)
  BY <1>1 DEF AerInv, Stands, Quiet
<1>2. CASE \A j \in Jobs : ~Active(j)
  BY <1>2 DEF AerInv
<1>. QED
  BY <1>1, <1>2

\* Between ioctls the port reports errors as it did at boot, or is masked with
\* the boot mask kept: no sequence of fpga-configure -d and -e, of scripts, of
\* interrupts and of failed programmings loses it.
THEOREM MaskIsKept == SerialSpec => []MaskKept
<1>1. AerInv => MaskKept
  BY QuietRests DEF MaskKept, Rest, Reporting, Masked
<1>. QED
  BY <1>1, AerInvariant, PTL

\* The script program-fpga-jtag never programs the card while surprise down
\* would be reported.
THEOREM ProgrammingIsSilent == SerialSpec => []NeverReported
<1>1. AerInv => NeverReported
  BY DEF AerInv, NeverReported
<1>. QED
  BY <1>1, AerInvariant, PTL

\* A driver that is idle between ioctls never leaves the card blank: whoever
\* interrupted which script, -d never saves a blank card over the good copy.
THEOREM CardIsRestored == SerialSpec => []CardRestored
<1>1. AerInv => CardRestored
  BY QuietRests DEF CardRestored, Rest
<1>. QED
  BY <1>1, AerInvariant, PTL

-----------------------------------------------------------------------------
(* The debugfs driver: the subdriver list.                                 *)

\* The labels between the removal of the subdrivers and the state AER disabled.
MaskPCs == {"d_read", "d_mask", "d_save", "d_done"}

ProbePCs == {"p_header", "p_nodes"}

\* What the two proofs need to know of the types.
Typed ==
    /\ state \in States
    /\ pc \in [Jobs -> DebugfsPCs]
    /\ back \in [Jobs -> {"none", "idle", "d_read", "p_header"}]
    /\ ret \in [Jobs -> {"count", "EINVAL", "EFAULT", "ENOMEM"}]
    /\ DOMAIN reg = Jobs

\* What a write relies on: subdrivers are only probed while upstream AER is not
\* disabled, and none is left once it is being disabled.
WriteStands(w) ==
    /\ pc[w] \in ProbePCs => state # "AER disabled"
    /\ pc[w] \in MaskPCs => fdev_list = {}
    /\ pc[w] = "remove" => back[w] \in {"idle", "d_read", "p_header"}

\* The inductive invariant of the subdriver list.
SubdriverInv ==
    /\ SerialWrites
    /\ Typed
    /\ NothingTalksUpstream
    /\ \A w \in Jobs : WriteStands(w)

\* The labels by name.
LEMMA PCType ==
    DebugfsPCs = {"idle", "d_state", "d_read", "d_mask", "d_save", "d_done", "e_state", "e_restore",
           "e_mask", "e_link", "e_train", "e_done", "p_state", "u_state", "remove", "p_header",
           "p_nodes", "print", "unknown"}
  BY DEF DebugfsPCs, PCs

\* What is left to show of a step of the write of w, alone in the driver.
LEMMA OwnStep ==
    ASSUME Typed, Typed', NEW w \in Jobs, \A d \in Jobs \ {w} : pc[d] = "idle",
           NEW p, pc' = [pc EXCEPT ![w] = p], NothingTalksUpstream', WriteStands(w)'
    PROVE  SubdriverInv'
<1>1. pc'[w] = p /\ \A d \in Jobs \ {w} : pc'[d] = "idle"
  BY DEF Typed
<1>2. SerialWrites'
  BY <1>1 DEF SerialWrites
<1>3. \A d \in Jobs : WriteStands(d)'
  BY <1>1 DEF WriteStands, ProbePCs, MaskPCs
<1>. QED
  BY <1>2, <1>3 DEF SubdriverInv

\* While one write is under way, the others are not in the driver.
LEMMA OthersIdle ==
    ASSUME SerialWrites, NEW w \in Jobs, pc[w] # "idle"
    PROVE  \A d \in Jobs \ {w} : pc[d] = "idle"
  BY DEF SerialWrites

\* The command of a write meets the state of the driver.
LEMMA CommandStep ==
    ASSUME SubdriverInv, NEW w \in Jobs,
           \/ StateDisable(w) \/ StateEnable(w) \/ StateProbe(w) \/ StateUnprobe(w)
           \/ PrintRom(w) \/ UnknownData(w)
    PROVE  SubdriverInv'
<1> USE DEF Done, Refuse, CallRemoveAll, CallProbeAll, Goto, aerVars, fdevVars
<1>1. pc[w] # "idle" /\ UNCHANGED <<state, fdev_list, reg>> /\ Typed /\ NothingTalksUpstream
  BY DEF StateDisable, StateEnable, StateProbe, StateUnprobe, PrintRom, UnknownData, SubdriverInv
<1>2. PICK p \in {"idle", "remove", "e_restore", "p_header"} :
         /\ pc' = [pc EXCEPT ![w] = p]
         /\ p = "p_header" => state = "Idle"
         /\ IF p = "remove" THEN \E b \in {"idle", "d_read"} : back' = [back EXCEPT ![w] = b]
            ELSE UNCHANGED back
         /\ ret' \in {ret, [ret EXCEPT ![w] = "EINVAL"]}
  BY DEF StateDisable, StateEnable, StateProbe, StateUnprobe, PrintRom, UnknownData
<1>3. Typed'
  BY <1>1, <1>2, PCType DEF Typed
<1>4. WriteStands(w)'
  BY <1>1, <1>2 DEF Typed, WriteStands, ProbePCs, MaskPCs
<1>5. NothingTalksUpstream'
  BY <1>1 DEF NothingTalksUpstream
<1>. QED
  BY <1>1, <1>2, <1>3, <1>4, <1>5, OthersIdle, OwnStep DEF SubdriverInv

\* Removing the subdrivers: the list only shrinks, and the write goes on once it
\* is empty.
LEMMA RemoveStep ==
    ASSUME SubdriverInv, NEW w \in Jobs, RemoveOne(w) \/ RemoveDone(w)
    PROVE  SubdriverInv'
<1>1. pc[w] = "remove" /\ back[w] \in {"idle", "d_read", "p_header"} /\ Typed /\ NothingTalksUpstream
  BY DEF RemoveOne, RemoveDone, Goto, SubdriverInv, WriteStands
<1>2. CASE RemoveOne(w)
  <2>1. UNCHANGED <<state, pc, back, ret, reg>> /\ fdev_list' \subseteq fdev_list
    BY <1>2 DEF RemoveOne, aerVars
  <2>2. Typed' /\ NothingTalksUpstream' /\ WriteStands(w)'
    BY <1>1, <2>1 DEF Typed, NothingTalksUpstream, WriteStands, ProbePCs, MaskPCs
  <2>3. pc' = [pc EXCEPT ![w] = "remove"]
    BY <1>1, <2>1 DEF Typed
  <2>. QED
    BY <1>1, <2>2, <2>3, OthersIdle, OwnStep DEF SubdriverInv
<1>3. CASE RemoveDone(w)
  <2>1. /\ pc' = [pc EXCEPT ![w] = back[w]] /\ pc'[w] = back[w]
        /\ fdev_list' = {} /\ state' = "Idle"
        /\ back' = [back EXCEPT ![w] = "none"]
        /\ UNCHANGED <<ret, reg>>
    BY <1>1, <1>3 DEF RemoveDone, Goto, aerVars, Typed
  <2>2. Typed'
    BY <1>1, <2>1, PCType DEF Typed, States
  <2>3. NothingTalksUpstream' /\ WriteStands(w)'
    BY <1>1, <2>1 DEF NothingTalksUpstream, WriteStands
  <2>. QED
    BY <1>1, <2>1, <2>2, <2>3, OthersIdle, OwnStep DEF SubdriverInv
<1>. QED
  BY <1>2, <1>3

\* Probing the subdrivers: the driver is not in the state AER disabled.
LEMMA ProbeStep ==
    ASSUME SubdriverInv, NEW w \in Jobs, CheckHeader(w) \/ ProbeOne(w) \/ ProbeDone(w)
    PROVE  SubdriverInv'
<1>1. pc[w] \in ProbePCs /\ state # "AER disabled" /\ Typed
  BY DEF CheckHeader, ProbeOne, ProbeDone, Goto, SubdriverInv, WriteStands, ProbePCs
<1>2. PICK p \in {"idle", "p_nodes"} :
         /\ pc' = [pc EXCEPT ![w] = p]
         /\ state' \in {state, "Base probed"}
         /\ UNCHANGED <<back, ret, reg>>
  <2>1. CASE CheckHeader(w)
    BY <2>1 DEF CheckHeader, Goto, aerVars
  <2>2. CASE ProbeOne(w)
    BY <2>2 DEF ProbeOne, aerVars, Typed, SubdriverInv
  <2>3. CASE ProbeDone(w)
    BY <2>3 DEF ProbeDone, Goto, aerVars
  <2>. QED
    BY <2>1, <2>2, <2>3
<1>3. Typed'
  BY <1>1, <1>2, PCType DEF Typed, States
<1>4. NothingTalksUpstream' /\ WriteStands(w)'
  BY <1>1, <1>2 DEF NothingTalksUpstream, WriteStands, Typed, ProbePCs, MaskPCs
<1>5. pc[w] # "idle"
  BY <1>1 DEF ProbePCs
<1>. QED
  BY <1>2, <1>3, <1>4, <1>5, OthersIdle, OwnStep DEF SubdriverInv

\* Masking, saving, restoring and retraining: the list is not touched.
LEMMA AerKeeps ==
    ASSUME SubdriverInv, NEW w \in Jobs, AerStep(w)
    PROVE  SubdriverInv'
<1> USE DEF Goto, privVars
<1>1. UNCHANGED <<fdev_list, back, ret>> /\ Typed /\ NothingTalksUpstream /\ WriteStands(w)
  BY DEF AerStep, fdevVars, SubdriverInv
<1>2. PICK p \in {"d_mask", "d_save", "d_done", "idle", "e_mask", "e_link", "e_train", "e_done"} :
         /\ pc[w] # "idle"
         /\ pc' = [pc EXCEPT ![w] = p]
         /\ p \in MaskPCs => pc[w] \in MaskPCs
         /\ state' \in {state, "Idle"} \cup {s \in {"AER disabled"} : pc[w] = "d_done"}
         /\ DOMAIN reg' = DOMAIN reg
  <2>1. CASE ReadMask(w) \/ MaskErrors(w) \/ SaveState(w) \/ DisableDone(w)
    BY <2>1 DEF ReadMask, MaskErrors, SaveState, DisableDone, MaskPCs
  <2>2. CASE RestoreState(w) \/ RestoreMask(w) \/ EnableDone(w)
    BY <2>2 DEF RestoreState, RestoreMask, EnableDone, MaskPCs
  <2>3. CASE CheckLink(w) \/ PollTraining(w)
    BY <2>3 DEF CheckLink, PollTraining, MaskPCs
  <2>. QED
    BY <2>1, <2>2, <2>3 DEF AerStep
<1>3. state' \in {state, "Idle"} \/ (state' = "AER disabled" /\ pc[w] = "d_done")
  BY <1>2
<1>4. Typed'
  BY <1>1, <1>2, <1>3, PCType DEF Typed, States
<1>5. NothingTalksUpstream'
  BY <1>1, <1>3 DEF NothingTalksUpstream, WriteStands, MaskPCs
<1>6. WriteStands(w)'
  BY <1>1, <1>2 DEF WriteStands, Typed, ProbePCs, MaskPCs
<1>. QED
  BY <1>1, <1>2, <1>4, <1>5, <1>6, OthersIdle, OwnStep DEF SubdriverInv

\* A write begins, of a command or of a device tree: nothing is done yet.
LEMMA WriteStep ==
    ASSUME SubdriverInv, SerialWrites', NEW w \in Jobs, NEW first \in DebugfsPCs, first \notin {"idle"},
           first \notin ProbePCs \cup MaskPCs, NEW next \in {"none", "p_header"},
           first = "remove" => next = "p_header",
           Goto(w, "idle", first), back' \in {back, [back EXCEPT ![w] = next]},
           first = "remove" => back' = [back EXCEPT ![w] = next],
           ret' = [ret EXCEPT ![w] = "count"], UNCHANGED <<state, fdev_list, reg>>
    PROVE  SubdriverInv'
<1>1. pc' = [pc EXCEPT ![w] = first] /\ pc'[w] = first /\ Typed /\ NothingTalksUpstream
  BY DEF Goto, SubdriverInv, Typed
<1>2. \A d \in Jobs \ {w} : pc[d] = "idle"
  BY <1>1 DEF SerialWrites, Typed
<1>3. Typed'
  BY <1>1 DEF Typed
<1>4. NothingTalksUpstream' /\ WriteStands(w)'
  BY <1>1 DEF NothingTalksUpstream, WriteStands, Typed
<1>. QED
  BY <1>1, <1>2, <1>3, <1>4, OwnStep

\* What processes do outside the kernel leaves the driver alone.
LEMMA UserStep ==
    ASSUME SubdriverInv, SerialWrites', NEW w \in Jobs, DebugfsUser(w)
    PROVE  SubdriverInv'
<1> USE DEF Goto, privVars
<1>1. ASSUME NEW first \in {"p_state", "u_state", "d_state", "e_state", "print", "unknown"},
             Write(w, first, "none", NoTree)
      PROVE  SubdriverInv'
  BY <1>1, WriteStep, PCType DEF Write, Ioctl, Goto, ProbePCs, MaskPCs
<1>2. CASE WriteDtb(w)
  BY <1>2, WriteStep, PCType DEF WriteDtb, Write, Ioctl, Goto, ProbePCs, MaskPCs
<1>3. CASE JtagScript(w)
  BY <1>3, WriteStep, PCType DEF JtagScript, Script, ScriptEnable, Ioctl, Goto,
        ProbePCs, MaskPCs
<1>4. CASE WriteFails(w) \/ Outside(w)
  <2>1. UNCHANGED <<pc, state, fdev_list, back, reg>>
    BY <1>4 DEF WriteFails, Outside, Program, JobDone, Killed, aerVars, fdevVars
  <2>2. ret' \in [Jobs -> {"count", "EINVAL", "EFAULT", "ENOMEM"}]
    BY <1>4 DEF WriteFails, Outside, fdevVars, SubdriverInv, Typed
  <2>. QED
    BY <2>1, <2>2 DEF SubdriverInv, SerialWrites, Typed, NothingTalksUpstream, WriteStands
<1>. QED
  BY <1>1, <1>2, <1>3, <1>4 DEF DebugfsUser, EchoProbe, EchoUnprobe, EchoDisable, EchoEnable, EchoPrint,
        EchoUnknown

\* Writes one at a time keep the invariant of the subdriver list, whatever device
\* trees are written in whatever state of the driver.
THEOREM SubdriverInvariant == DebugfsSpec => []SubdriverInv
<1>1. DebugfsInit => SubdriverInv
  BY PCType DEF DebugfsInit, Init, SubdriverInv, SerialWrites, Typed, States, NothingTalksUpstream, WriteStands,
        ProbePCs, MaskPCs
<1>2. ASSUME SubdriverInv, [DebugfsNext /\ SerialWrites']_debugfsVars
      PROVE  SubdriverInv'
  <2>1. CASE UNCHANGED debugfsVars
    BY <1>2, <2>1 DEF debugfsVars, aerVars, fdevVars, SubdriverInv, SerialWrites, Typed, NothingTalksUpstream,
          WriteStands
  <2>2. CASE TrainingEnds
    BY <1>2, <2>2 DEF TrainingEnds, LinkTrained, privVars, fdevVars, SubdriverInv, SerialWrites,
          Typed, NothingTalksUpstream, WriteStands
  <2>3. ASSUME NEW w \in Jobs, DebugfsKernel(w)
        PROVE  SubdriverInv'
    BY <1>2, <2>3, CommandStep, RemoveStep, ProbeStep, AerKeeps DEF DebugfsKernel
  <2>4. ASSUME NEW w \in Jobs, DebugfsUser(w), SerialWrites'
        PROVE  SubdriverInv'
    BY <1>2, <2>4, UserStep
  <2>. QED
    BY <1>2, <2>1, <2>2, <2>3, <2>4 DEF DebugfsNext
<1>. QED
  BY <1>1, <1>2, PTL DEF DebugfsSpec

\* No subdriver is deployed while upstream AER is disabled, for any writers and
\* device trees, also when base_dtb is written in that state (fpga-pcie.c 872-873).
THEOREM NobodyTalksUpstream == DebugfsSpec => []NothingTalksUpstream
<1>1. SubdriverInv => NothingTalksUpstream
  BY DEF SubdriverInv
<1>. QED
  BY <1>1, SubdriverInvariant, PTL

-----------------------------------------------------------------------------
(* What '0' restores.                                                      *)

\* The mask between two writes, and while a write has not got to the mask.
DebugfsRest == IF state = "AER disabled" THEN Masked ELSE Reporting

RestPCs == {"d_state", "e_state", "p_state", "u_state", "print", "unknown"}

\* What the mask is when a write is at label p.
MaskAt(p) ==
    /\ p \in RestPCs \cup {"idle"} => DebugfsRest
    /\ p \in ProbePCs \cup {"remove"} => state # "AER disabled"
    /\ p \in ProbePCs \cup {"remove", "d_read", "d_mask", "e_link", "e_train", "e_done"} => Reporting
    /\ p \in {"d_save", "d_done", "e_restore", "e_mask"} => Masked

\* The inductive invariant of the mask.
MaskInv ==
    /\ (\A w \in Jobs : pc[w] = "idle") => DebugfsRest
    /\ \A w \in Jobs :
          /\ pc[w] # "idle" => MaskAt(pc[w])
          /\ pc[w] = "d_mask" => reg[w] = OrigMask

\* What is left to show of a step of the write of w: what it leaves behind.
LEMMA OwnMaskStep ==
    ASSUME Typed, NEW w \in Jobs, \A d \in Jobs \ {w} : pc[d] = "idle",
           NEW p, pc' = [pc EXCEPT ![w] = p], MaskAt(p)', p = "d_mask" => reg'[w] = OrigMask
    PROVE  MaskInv'
<1>1. pc'[w] = p /\ \A d \in Jobs \ {w} : pc'[d] = "idle"
  BY DEF Typed
<1>2. (\A d \in Jobs : pc'[d] = "idle") => DebugfsRest'
  BY <1>1 DEF MaskAt
<1>3. \A d \in Jobs : (pc[d] # "idle" => MaskAt(pc[d]))'
  BY <1>1 DEF MaskAt
<1>4. \A d \in Jobs : pc'[d] = "d_mask" => reg'[d] = OrigMask
  BY <1>1
<1>. QED
  BY <1>2, <1>3, <1>4 DEF MaskInv

\* A step that leaves alone what the mask is about.
LEMMA MaskUnchanged ==
    ASSUME MaskInv, UNCHANGED <<pc, state, mask, aer_uerr_mask_reg, reg>>
    PROVE  MaskInv'
  BY DEF MaskInv, MaskAt, DebugfsRest, Reporting, Masked

\* The steps of a write that only look at the state or walk the tree.
LEMMA MaskDriverStep ==
    ASSUME SubdriverInv, MaskInv, NEW w \in Jobs,
           \/ StateDisable(w) \/ StateEnable(w) \/ StateProbe(w) \/ StateUnprobe(w)
           \/ PrintRom(w) \/ UnknownData(w)
           \/ RemoveOne(w) \/ RemoveDone(w) \/ CheckHeader(w) \/ ProbeOne(w) \/ ProbeDone(w)
    PROVE  MaskInv'
<1> USE DEF Goto
<1>1. pc[w] # "idle" /\ UNCHANGED <<mask, aer_uerr_mask_reg>>
  BY DEF StateDisable, StateEnable, StateProbe, StateUnprobe, PrintRom, UnknownData, Done, Refuse,
        CallRemoveAll, CallProbeAll, RemoveOne, RemoveDone, CheckHeader, ProbeOne, ProbeDone, aerVars
<1>2. Typed /\ WriteStands(w) /\ MaskAt(pc[w])
  BY <1>1 DEF SubdriverInv, MaskInv
<1>3. \A d \in Jobs \ {w} : pc[d] = "idle"
  BY <1>1, OthersIdle DEF SubdriverInv
<1>4. PICK p \in {"idle", "remove", "e_restore", "d_read", "p_header", "p_nodes"} :
         /\ pc' = [pc EXCEPT ![w] = p]
         /\ MaskAt(p)'
  <2>1. CASE StateDisable(w)
    BY <1>1, <1>2, <2>1 DEF StateDisable, Done, CallRemoveAll, MaskAt, DebugfsRest, Reporting, Masked,
          RestPCs, ProbePCs
  <2>2. CASE StateEnable(w)
    BY <1>1, <1>2, <2>2 DEF StateEnable, Done, Refuse, MaskAt, DebugfsRest, Reporting, Masked,
          RestPCs, ProbePCs
  <2>3. CASE StateProbe(w)
    BY <1>1, <1>2, <2>3 DEF StateProbe, Done, Refuse, CallProbeAll, MaskAt, DebugfsRest, Reporting, Masked,
          RestPCs, ProbePCs
  <2>4. CASE StateUnprobe(w)
    BY <1>1, <1>2, <2>4 DEF StateUnprobe, Done, Refuse, CallRemoveAll, MaskAt, DebugfsRest, Reporting,
          Masked, RestPCs, ProbePCs
  <2>5. CASE PrintRom(w) \/ UnknownData(w)
    BY <1>1, <1>2, <2>5 DEF PrintRom, UnknownData, Done, Refuse, MaskAt, DebugfsRest, Reporting,
          Masked, RestPCs, ProbePCs
  <2>6. CASE RemoveOne(w)
    <3>1. pc[w] = "remove" /\ pc' = [pc EXCEPT ![w] = "remove"] /\ state' = state
      BY <1>2, <2>6 DEF RemoveOne, Typed
    <3>. QED
      BY <1>1, <1>2, <3>1 DEF MaskAt, DebugfsRest, Reporting, Masked, RestPCs, ProbePCs
  <2>7. CASE RemoveDone(w)
    <3>1. pc[w] = "remove" /\ state' = "Idle"
      BY <2>7 DEF RemoveDone
    <3>2. PICK b \in {"idle", "d_read", "p_header"} : pc' = [pc EXCEPT ![w] = b]
      BY <1>2, <2>7, <3>1 DEF WriteStands, RemoveDone
    <3>3. Reporting'
      BY <1>1, <1>2, <3>1 DEF MaskAt, Reporting
    <3>4. MaskAt(b)'
      BY <3>1, <3>3 DEF MaskAt, DebugfsRest, RestPCs, ProbePCs
    <3>. QED
      BY <3>2, <3>4
  <2>8. CASE CheckHeader(w)
    BY <1>1, <1>2, <2>8 DEF CheckHeader, MaskAt, DebugfsRest, Reporting, Masked, RestPCs, ProbePCs
  <2>9. CASE ProbeOne(w)
    <3>1. pc[w] = "p_nodes" /\ pc' = [pc EXCEPT ![w] = "p_nodes"] /\ state' = state
      BY <1>2, <2>9 DEF ProbeOne, Typed
    <3>. QED
      BY <1>1, <1>2, <3>1 DEF MaskAt, DebugfsRest, Reporting, Masked, RestPCs, ProbePCs
  <2>10. CASE ProbeDone(w)
    BY <1>1, <1>2, <2>10 DEF ProbeDone, MaskAt, DebugfsRest, Reporting, Masked, RestPCs, ProbePCs
  <2>. QED
    BY <2>1, <2>2, <2>3, <2>4, <2>5, <2>6, <2>7, <2>8, <2>9, <2>10
<1>. QED
  BY <1>2, <1>3, <1>4, OwnMaskStep

\* Masking, saving, restoring and retraining.
LEMMA MaskAerStep ==
    ASSUME SubdriverInv, MaskInv, NEW w \in Jobs, AerStep(w)
    PROVE  MaskInv'
<1> USE DEF Goto, privVars
<1>1. pc[w] # "idle"
  BY DEF AerStep, ReadMask, MaskErrors, SaveState, DisableDone, RestoreState,
        RestoreMask, CheckLink, PollTraining, EnableDone
<1>2. Typed /\ MaskAt(pc[w]) /\ (pc[w] = "d_mask" => reg[w] = OrigMask)
  BY <1>1 DEF SubdriverInv, MaskInv
<1>3. \A d \in Jobs \ {w} : pc[d] = "idle"
  BY <1>1, OthersIdle DEF SubdriverInv
<1>4. PICK p \in {"d_mask", "d_save", "d_done", "idle", "e_mask", "e_link", "e_train", "e_done"} :
         /\ pc' = [pc EXCEPT ![w] = p]
         /\ MaskAt(p)'
         /\ p = "d_mask" => reg'[w] = OrigMask
  <2>1. CASE ReadMask(w)
    BY <1>2, <2>1 DEF ReadMask, Typed, MaskAt, DebugfsRest, Reporting, Masked, RestPCs, ProbePCs
  <2>2. CASE MaskErrors(w)
    BY <1>2, <2>2 DEF MaskErrors, MaskAt, DebugfsRest, Reporting, Masked, RestPCs, ProbePCs
  <2>3. CASE SaveState(w) \/ DisableDone(w)
    BY <1>2, <2>3 DEF SaveState, DisableDone, MaskAt, DebugfsRest, Reporting, Masked, RestPCs,
          ProbePCs
  <2>4. CASE RestoreState(w) \/ RestoreMask(w)
    BY <1>2, <2>4 DEF RestoreState, RestoreMask, MaskAt, DebugfsRest, Reporting, Masked, RestPCs,
          ProbePCs
  <2>5. CASE CheckLink(w) \/ EnableDone(w)
    BY <1>2, <2>5 DEF CheckLink, EnableDone, MaskAt, DebugfsRest, Reporting, Masked, RestPCs,
          ProbePCs
  <2>6. CASE PollTraining(w)
    <3>1. pc[w] = "e_train" /\ UNCHANGED <<mask, aer_uerr_mask_reg, state>>
      BY <2>6 DEF PollTraining
    <3>2. PICK p \in {"e_train", "e_done"} : pc' = [pc EXCEPT ![w] = p]
      BY <1>2, <2>6 DEF PollTraining, Typed
    <3>. QED
      BY <1>2, <3>1, <3>2 DEF MaskAt, DebugfsRest, Reporting, Masked, RestPCs, ProbePCs
  <2>. QED
    BY <2>1, <2>2, <2>3, <2>4, <2>5, <2>6 DEF AerStep
<1>. QED
  BY <1>2, <1>3, <1>4, OwnMaskStep

\* A write begins from rest, a device tree only where DtbStates lets it.
LEMMA MaskUserStep ==
    ASSUME "AER disabled" \notin DtbStates, SubdriverInv, MaskInv, SerialWrites', NEW w \in Jobs, DebugfsUser(w)
    PROVE  MaskInv'
<1> USE DEF Goto, privVars
<1>1. ASSUME NEW first \in RestPCs \cup {"remove"}, pc[w] = "idle", pc' = [pc EXCEPT ![w] = first],
             UNCHANGED <<state, mask, aer_uerr_mask_reg>>, first = "remove" => state \in DtbStates
      PROVE  MaskInv'
  <2>1. Typed /\ pc'[w] = first /\ first # "idle" /\ first # "d_mask"
    BY <1>1 DEF SubdriverInv, Typed, RestPCs
  <2>2. \A d \in Jobs \ {w} : pc[d] = "idle"
    BY <1>1, <2>1 DEF SerialWrites, Typed
  <2>3. DebugfsRest
    BY <1>1, <2>2 DEF MaskInv
  <2>4. MaskAt(first)'
    BY <1>1, <2>3 DEF MaskAt, DebugfsRest, Reporting, Masked, RestPCs, ProbePCs
  <2>. QED
    BY <1>1, <2>1, <2>2, <2>4, OwnMaskStep
<1>2. ASSUME NEW first \in RestPCs, Write(w, first, "none", NoTree)
      PROVE  MaskInv'
  <2>1. first \in RestPCs \cup {"remove"} /\ first # "remove"
    BY <1>2 DEF RestPCs
  <2>. QED
    BY <1>1, <1>2, <2>1 DEF Write, Ioctl
<1>3. CASE WriteDtb(w)
  BY <1>1, <1>3 DEF WriteDtb, Write, Ioctl
<1>4. CASE JtagScript(w)
  <2>1. "d_state" \in RestPCs /\ "e_state" \in RestPCs
    BY DEF RestPCs
  <2>. QED
    BY <1>1, <1>4, <2>1 DEF JtagScript, Script, ScriptEnable, Ioctl
<1>5. CASE WriteFails(w) \/ Outside(w)
  <2>1. UNCHANGED <<pc, state, mask, aer_uerr_mask_reg, reg>>
    BY <1>5 DEF WriteFails, Outside, Program, JobDone, Killed, aerVars
  <2>. QED
    BY <2>1, MaskUnchanged
<1>. QED
  BY <1>2, <1>3, <1>4, <1>5 DEF DebugfsUser, EchoProbe, EchoUnprobe, EchoDisable, EchoEnable, EchoPrint,
        EchoUnknown, RestPCs

\* Writes one at a time keep the invariant of the mask, as long as no device tree
\* is written while upstream AER is disabled.
THEOREM MaskInvariant == "AER disabled" \notin DtbStates /\ DebugfsSpec => []MaskInv
<1> SUFFICES ASSUME "AER disabled" \notin DtbStates
             PROVE  DebugfsSpec => []MaskInv
  OBVIOUS
<1>1. DebugfsInit => MaskInv
  BY DEF DebugfsInit, Init, MaskInv, DebugfsRest, Reporting
<1>2. ASSUME SubdriverInv, MaskInv, [DebugfsNext /\ SerialWrites']_debugfsVars
      PROVE  MaskInv'
  <2>1. CASE UNCHANGED debugfsVars
    BY <1>2, <2>1, MaskUnchanged DEF debugfsVars, aerVars
  <2>2. CASE TrainingEnds
    BY <1>2, <2>2, MaskUnchanged DEF TrainingEnds, LinkTrained, privVars
  <2>3. ASSUME NEW w \in Jobs, DebugfsKernel(w)
        PROVE  MaskInv'
    BY <1>2, <2>3, MaskDriverStep, MaskAerStep DEF DebugfsKernel
  <2>4. ASSUME NEW w \in Jobs, DebugfsUser(w), SerialWrites'
        PROVE  MaskInv'
    BY <1>2, <2>4, MaskUserStep
  <2>. QED
    BY <1>2, <2>1, <2>2, <2>3, <2>4 DEF DebugfsNext
<1>. QED
  BY <1>1, <1>2, SubdriverInvariant, PTL DEF DebugfsSpec

\* After a '0' that returned its count the upstream port reports errors as at
\* boot, for any writers, boot mask and device trees, as long as none is written to
\* base_dtb while upstream AER is disabled (fpga-pcie.c 548).
THEOREM ZeroRestores == "AER disabled" \notin DtbStates /\ DebugfsSpec => ZeroRestoresAer
<1> DEFINE Restores ==
      \A w \in Jobs : pc[w] \in {"e_state", "e_done"} /\ pc'[w] = "idle" /\ ret'[w] = "count"
                            => mask' = OrigMask
<1>1. ASSUME SubdriverInv, MaskInv, [DebugfsNext /\ SerialWrites']_debugfsVars, NEW w \in Jobs,
             pc[w] \in {"e_state", "e_done"}, pc'[w] = "idle", ret'[w] = "count"
      PROVE  mask' = OrigMask
  <2>1. Typed /\ MaskAt(pc[w]) /\ \A d \in Jobs \ {w} : pc[d] = "idle"
    BY <1>1, OthersIdle DEF SubdriverInv, MaskInv
  <2>2. pc'[w] # pc[w]
    BY <1>1
  <2>3. \A d \in Jobs : DebugfsKernel(d) => pc[d] # "idle"
    BY DEF DebugfsKernel, StateDisable, StateEnable, StateProbe, StateUnprobe, PrintRom, UnknownData, Done,
          Refuse, CallRemoveAll, CallProbeAll, Goto, RemoveOne, RemoveDone, CheckHeader, ProbeOne,
          ProbeDone, AerStep, ReadMask, MaskErrors, SaveState, DisableDone,
          RestoreState, RestoreMask, CheckLink, PollTraining, EnableDone, Goto
  <2>4. \A d \in Jobs : DebugfsUser(d) => pc[w] = "idle" \/ pc'[w] = pc[w]
    <3>1. \A d \in Jobs : \A from, to, first : Ioctl(d, from, to, first) => pc[d] = "idle"
      BY DEF Ioctl, Goto
    <3>2. \A d \in Jobs \ {w} :
             \A from, to, first : Ioctl(d, from, to, first) => pc'[w] = pc[w]
      BY <2>1 DEF Ioctl, Goto, Typed
    <3>3. \A d \in Jobs : WriteFails(d) \/ Outside(d) => pc' = pc
      BY DEF WriteFails, Outside, Program, JobDone, Killed
    <3>. QED
      BY <3>1, <3>2, <3>3 DEF DebugfsUser, EchoProbe, EchoUnprobe, EchoDisable, EchoEnable, EchoPrint,
            EchoUnknown, Write, WriteDtb, JtagScript, Script, ScriptEnable
  <2>5. DebugfsKernel(w)
    <3>1. \A d \in Jobs : ~DebugfsUser(d)
      BY <1>1, <2>2, <2>4
    <3>2. ~TrainingEnds /\ ~UNCHANGED debugfsVars
      BY <2>2 DEF TrainingEnds, LinkTrained, debugfsVars
    <3>. QED
      BY <1>1, <2>1, <2>3, <3>1, <3>2 DEF DebugfsNext
  <2>6. StateEnable(w) \/ EnableDone(w)
    BY <1>1, <2>5 DEF DebugfsKernel, StateDisable, StateProbe, StateUnprobe, PrintRom, UnknownData, Done,
          Refuse, CallRemoveAll, CallProbeAll, Goto, RemoveOne, RemoveDone, CheckHeader, ProbeOne,
          ProbeDone, AerStep, ReadMask, MaskErrors, SaveState, DisableDone,
          RestoreState, RestoreMask, CheckLink, PollTraining, Goto
  <2>7. CASE StateEnable(w)
    <3>1. state = "Idle" /\ mask' = mask
      BY <1>1, <2>1, <2>7 DEF StateEnable, Goto, Refuse, Done, Typed, aerVars
    <3>2. pc[w] = "e_state"
      BY <2>7 DEF StateEnable, Goto, Refuse, Done
    <3>. QED
      BY <2>1, <3>1, <3>2 DEF MaskAt, RestPCs, DebugfsRest, Reporting
  <2>8. CASE EnableDone(w)
    BY <2>1, <2>8 DEF EnableDone, Goto, MaskAt, Reporting
  <2>. QED
    BY <2>6, <2>7, <2>8
<1>2. SubdriverInv /\ MaskInv /\ [DebugfsNext /\ SerialWrites']_debugfsVars => [Restores]_debugfsVars
  BY <1>1
<1>. QED
  BY <1>2, SubdriverInvariant, MaskInvariant, PTL DEF DebugfsSpec, ZeroRestoresAer

-----------------------------------------------------------------------------
(* Searches that go from tag to tag.                                       *)

\* A set of numbers that is not empty has a least element.
LEMMA LeastNumber ==
    ASSUME NEW T \in SUBSET Nat, T # {}
    PROVE  \E x \in T : \A y \in T : x <= y
<1> DEFINE R == OpToRel(<, Nat)
<1>1. PICK x \in T : \A y \in T : ~ (<<y, x>> \in R)
  BY WFMin, NatLessThanWellFounded
<1>2. \A y \in T : ~(y < x)
  BY <1>1 DEF OpToRel
<1> QED
  BY <1>2

\* Where a search that begins at o and stops at the numbers in S ends: at k.
EndsAt(S, o, k) ==
    /\ k \in S /\ o <= k
    /\ \A j \in o .. k - 1 : j \notin S

LEMMA SearchEnds ==
    ASSUME NEW N \in Nat, NEW S \in SUBSET (0 .. N), N \in S, NEW o \in 0 .. N
    PROVE  \E k \in o .. N : EndsAt(S, o, k)
<1> DEFINE T == {k \in o .. N : k \in S}
<1>1. T \in SUBSET Nat /\ T # {}
  OBVIOUS
<1>2. PICK k \in T : \A y \in T : k <= y
  <2> HIDE DEF T
  <2> QED
    BY <1>1, LeastNumber
<1> QED
  BY <1>2 DEF EndsAt

\* The function that a search defines exists, and is the value where it stops.
Searches(f, N, S, v) == f = [o \in 0 .. N |-> IF o \in S THEN v[o] ELSE f[o + 1]]

LEMMA SearchValue ==
    ASSUME NEW N \in Nat, NEW S \in SUBSET (0 .. N), N \in S, NEW v, NEW f, Searches(f, N, S, v),
           NEW o \in 0 .. N, NEW k \in o .. N, EndsAt(S, o, k)
    PROVE  f[o] = v[k]
<1> DEFINE T == {d \in 0 .. k - o : f[k - d] # v[k]}
<1> SUFFICES ASSUME f[o] # v[k]
             PROVE  FALSE
  OBVIOUS
<1>1. T \in SUBSET Nat /\ k - o \in T
  BY DEF EndsAt
<1>2. PICK d \in T : \A y \in T : d <= y
  <2> HIDE DEF T
  <2> QED
    BY <1>1, LeastNumber
<1>3. k - d \in o .. k /\ d \in Nat
  OBVIOUS
<1>4. CASE d = 0
  BY <1>2, <1>4 DEF EndsAt, Searches
<1>5. CASE d # 0
  <2>1. k - d \in o .. k - 1 /\ k - d \notin S /\ k - d \in 0 .. N
    BY <1>3, <1>5 DEF EndsAt
  <2>2. f[k - d] = f[(k - d) + 1]
    BY <2>1 DEF Searches
  <2>3. d - 1 \notin T /\ d - 1 \in 0 .. k - o
    BY <1>2, <1>3, <1>5
  <2>4. (k - d) + 1 = k - (d - 1)
    BY <1>3
  <2> QED
    BY <1>2, <2>2, <2>3, <2>4
<1> QED
  BY <1>4, <1>5

LEMMA SearchExists ==
    ASSUME NEW N \in Nat, NEW S \in SUBSET (0 .. N), N \in S, NEW v
    PROVE  \E f : Searches(f, N, S, v)
<1> DEFINE End(o) == CHOOSE k \in o .. N : EndsAt(S, o, k)
           f == [o \in 0 .. N |-> v[End(o)]]
<1>1. ASSUME NEW o \in 0 .. N
      PROVE  End(o) \in o .. N /\ EndsAt(S, o, End(o))
  BY SearchEnds
<1>2. ASSUME NEW o \in 0 .. N, NEW k \in o .. N, NEW m \in o .. N, EndsAt(S, o, k), EndsAt(S, o, m)
      PROVE  k = m
  BY <1>2 DEF EndsAt
<1> HIDE DEF End
<1>3. ASSUME NEW o \in 0 .. N
      PROVE  v[End(o)] = IF o \in S THEN v[o] ELSE f[o + 1]
  <2>1. CASE o \in S
    <3>1. EndsAt(S, o, o) /\ o \in o .. N
      BY <2>1 DEF EndsAt
    <3> QED
      BY <1>1, <1>2, <2>1, <3>1
  <2>2. CASE o \notin S
    <3>1. o + 1 \in 0 .. N /\ End(o + 1) \in o .. N
      BY <1>1, <2>2
    <3>2. EndsAt(S, o, End(o + 1))
      BY <1>1, <2>2, <3>1 DEF EndsAt
    <3>3. End(o) = End(o + 1)
      BY <1>1, <1>2, <3>1, <3>2
    <3> QED
      BY <2>2, <3>1, <3>3
  <2> QED
    BY <2>1, <2>2
<1>4. f = [o \in 0 .. N |-> IF o \in S THEN v[o] ELSE f[o + 1]]
  BY <1>3
<1> HIDE DEF f
<1> QED
  BY <1>4 DEF Searches

-----------------------------------------------------------------------------
(* What libfdt finds.                                                      *)

\* A structure block of tags libfdt may meet.
WellTyped(t) == t.tags \in Seq(Tags)

\* fdt_next_tag() behind the end, at a tag it cannot read, and at any other.
LEMMA NextTag ==
    ASSUME NEW t, WellTyped(t), NEW o \in 0 .. Len(t.tags)
    PROVE  /\ Len(t.tags) \in Nat
           /\ o = Len(t.tags) => fdt_next_tag(t, o) = [tag |-> "FDT_END", next |-> -8]
           /\ o # Len(t.tags) =>
                /\ o + 1 \in 1 .. Len(t.tags)
                /\ t.tags[o + 1].tag \in {"FDT_BEGIN_NODE", "FDT_END_NODE", "FDT_PROP", "FDT_NOP", "FDT_END",
                                          "cut", "unknown"}
                /\ fdt_next_tag(t, o) =
                      IF t.tags[o + 1].tag \in {"cut", "unknown"}
                      THEN [tag |-> "FDT_END", next |-> -11]
                      ELSE [tag |-> t.tags[o + 1].tag, next |-> o + 1]
<1>1. Len(t.tags) \in Nat
  BY DEF WellTyped
<1>2. ASSUME o # Len(t.tags)
      PROVE  o + 1 \in 1 .. Len(t.tags) /\ t.tags[o + 1] \in Tags
  BY <1>1, <1>2 DEF WellTyped
<1>3. CASE o = Len(t.tags)
  BY <1>1, <1>3 DEF fdt_next_tag, FDT_ERR_TRUNCATED
<1>4. CASE o # Len(t.tags)
  <2>1. ~(o >= Len(t.tags)) /\ o < Len(t.tags)
    BY <1>1, <1>4
  <2>2. CASE t.tags[o + 1].tag \in {"cut", "unknown"}
    BY <1>1, <1>2, <1>4, <2>1, <2>2 DEF fdt_next_tag, FDT_ERR_BADSTRUCTURE, Tags
  <2>3. CASE t.tags[o + 1].tag \notin {"cut", "unknown"}
    BY <1>1, <1>2, <1>4, <2>1, <2>3 DEF fdt_next_tag, Tags
  <2> QED
    BY <2>2, <2>3
<1> QED
  BY <1>3, <1>4

\* Where fdt_next_node() stops, and what it returns there.
NodeStops(t) == {o \in 0 .. Len(t.tags) : fdt_next_tag(t, o).tag \in {"FDT_BEGIN_NODE", "FDT_END"}}

NodeFound(t) ==
    [o \in 0 .. Len(t.tags) |->
       IF fdt_next_tag(t, o).tag = "FDT_BEGIN_NODE" THEN o
       ELSE IF fdt_next_tag(t, o).next >= 0 \/ fdt_next_tag(t, o).next = -FDT_ERR_TRUNCATED
       THEN -FDT_ERR_NOTFOUND
       ELSE fdt_next_tag(t, o).next]

LEMMA NodeSearch ==
    ASSUME NEW t, WellTyped(t), NEW i \in 1 .. Len(t.tags), t.tags[i].tag = "FDT_BEGIN_NODE"
    PROVE  \E k \in i .. Len(t.tags) :
              EndsAt(NodeStops(t), i, k) /\ fdt_next_node(t, i - 1) = NodeFound(t)[k]
<1> DEFINE N == Len(t.tags)
           body(s, o) ==
             LET n == fdt_next_tag(t, o)
             IN  CASE n.tag = "FDT_BEGIN_NODE" -> o
                   [] n.tag = "FDT_END" ->
                        IF n.next >= 0 \/ n.next = -FDT_ERR_TRUNCATED
                        THEN -FDT_ERR_NOTFOUND
                        ELSE n.next
                   [] OTHER -> s[n.next]
           search == CHOOSE s : s = [o \in 0 .. N |-> body(s, o)]
           first == check_offset(t, i - 1, "FDT_BEGIN_NODE")
<1>0. N \in Nat
  BY DEF WellTyped
<1>1. fdt_next_node(t, i - 1) = IF first < 0 THEN first ELSE search[first]
  BY DEF fdt_next_node
<1>2. first = i
  <2>1. i - 1 \in 0 .. N /\ i - 1 # N /\ (i - 1) + 1 = i
    BY <1>0
  <2>2. fdt_next_tag(t, i - 1) = [tag |-> "FDT_BEGIN_NODE", next |-> i]
    BY <2>1, NextTag
  <2> QED
    BY <2>1, <2>2 DEF check_offset
<1>3. ASSUME NEW s, NEW o \in 0 .. N
      PROVE  body(s, o) = IF o \in NodeStops(t) THEN NodeFound(t)[o] ELSE s[o + 1]
  <2>1. CASE fdt_next_tag(t, o).tag = "FDT_BEGIN_NODE"
    BY <2>1 DEF NodeStops, NodeFound
  <2>2. CASE fdt_next_tag(t, o).tag = "FDT_END"
    BY <2>2 DEF NodeStops, NodeFound
  <2>3. CASE fdt_next_tag(t, o).tag \notin {"FDT_BEGIN_NODE", "FDT_END"}
    <3>1. fdt_next_tag(t, o).next = o + 1
      BY <2>3, NextTag
    <3> QED
      BY <2>3, <3>1 DEF NodeStops
  <2> QED
    BY <2>1, <2>2, <2>3
<1> HIDE DEF body
<1>4. N \in NodeStops(t) /\ NodeStops(t) \in SUBSET (0 .. N)
  BY <1>0, NextTag DEF NodeStops
<1>5. \A s : (s = [o \in 0 .. N |-> body(s, o)]) <=> Searches(s, N, NodeStops(t), NodeFound(t))
  BY <1>3 DEF Searches
<1>6. Searches(search, N, NodeStops(t), NodeFound(t))
  <2>1. \E s : s = [o \in 0 .. N |-> body(s, o)]
    BY <1>0, <1>4, <1>5, SearchExists
  <2>2. search = [o \in 0 .. N |-> body(search, o)]
    BY <2>1
  <2> QED
    BY <1>5, <2>2
<1> HIDE DEF search, first
<1>7. PICK k \in i .. N : EndsAt(NodeStops(t), i, k)
  <2> HIDE DEF N
  <2> QED
    BY <1>0, <1>4, SearchEnds DEF N
<1>8. search[i] = NodeFound(t)[k]
  BY <1>0, <1>4, <1>6, <1>7, SearchValue
<1> QED
  BY <1>0, <1>1, <1>2, <1>7, <1>8

\* Where _nextprop() stops, and what it returns there.
PropStops(t) == {o \in 0 .. Len(t.tags) : fdt_next_tag(t, o).tag # "FDT_NOP"}

PropFound(t) ==
    [o \in 0 .. Len(t.tags) |->
       IF fdt_next_tag(t, o).tag = "FDT_END"
       THEN IF fdt_next_tag(t, o).next >= 0 THEN -FDT_ERR_BADSTRUCTURE ELSE fdt_next_tag(t, o).next
       ELSE IF fdt_next_tag(t, o).tag = "FDT_PROP" THEN o
       ELSE -FDT_ERR_NOTFOUND]

LEMMA PropSearch ==
    ASSUME NEW t, WellTyped(t), NEW m \in 0 .. Len(t.tags)
    PROVE  \E k \in m .. Len(t.tags) :
              EndsAt(PropStops(t), m, k) /\ nextprop(t, m) = PropFound(t)[k]
<1> DEFINE N == Len(t.tags)
           body(s, o) ==
             LET n == fdt_next_tag(t, o)
             IN  CASE n.tag = "FDT_END" ->
                        IF n.next >= 0 THEN -FDT_ERR_BADSTRUCTURE ELSE n.next
                   [] n.tag = "FDT_PROP" -> o
                   [] n.tag = "FDT_NOP" -> s[n.next]
                   [] OTHER -> -FDT_ERR_NOTFOUND
           search == CHOOSE s : s = [o \in 0 .. N |-> body(s, o)]
<1>0. N \in Nat
  BY DEF WellTyped
<1>1. nextprop(t, m) = search[m]
  BY DEF nextprop
<1>2. ASSUME NEW s, NEW o \in 0 .. N
      PROVE  body(s, o) = IF o \in PropStops(t) THEN PropFound(t)[o] ELSE s[o + 1]
  <2>1. CASE fdt_next_tag(t, o).tag = "FDT_END"
    BY <2>1 DEF PropStops, PropFound
  <2>2. CASE fdt_next_tag(t, o).tag = "FDT_PROP"
    BY <2>2 DEF PropStops, PropFound
  <2>3. CASE fdt_next_tag(t, o).tag = "FDT_NOP"
    <3>1. fdt_next_tag(t, o).next = o + 1
      BY <2>3, NextTag
    <3> QED
      BY <2>3, <3>1 DEF PropStops
  <2>4. CASE fdt_next_tag(t, o).tag \notin {"FDT_END", "FDT_PROP", "FDT_NOP"}
    BY <2>4 DEF PropStops, PropFound
  <2> QED
    BY <2>1, <2>2, <2>3, <2>4
<1> HIDE DEF body
<1>3. N \in PropStops(t) /\ PropStops(t) \in SUBSET (0 .. N)
  BY <1>0, NextTag DEF PropStops
<1>4. \A s : (s = [o \in 0 .. N |-> body(s, o)]) <=> Searches(s, N, PropStops(t), PropFound(t))
  BY <1>2 DEF Searches
<1>5. Searches(search, N, PropStops(t), PropFound(t))
  <2>1. \E s : s = [o \in 0 .. N |-> body(s, o)]
    BY <1>0, <1>3, <1>4, SearchExists
  <2>2. search = [o \in 0 .. N |-> body(search, o)]
    BY <2>1
  <2> QED
    BY <1>4, <2>2
<1> HIDE DEF search
<1>6. PICK k \in m .. N : EndsAt(PropStops(t), m, k)
  <2> HIDE DEF N
  <2> QED
    BY <1>0, <1>3, SearchEnds DEF N
<1>7. search[m] = PropFound(t)[k]
  BY <1>0, <1>3, <1>5, <1>6, SearchValue
<1> QED
  BY <1>1, <1>6, <1>7

\* The search for a property comes back with one, or with an error.
LEMMA PropOrError ==
    ASSUME NEW t, WellTyped(t), NEW o \in 0 .. Len(t.tags)
    PROVE  /\ fdt_next_tag(t, o).tag = "FDT_PROP" =>
                o # Len(t.tags) /\ t.tags[o + 1].tag = "FDT_PROP" /\ PropFound(t)[o] = o
                /\ fdt_next_tag(t, o).next = o + 1
           /\ fdt_next_tag(t, o).tag # "FDT_PROP" => PropFound(t)[o] \in {-11, -8, -1}
<1> USE DEF FDT_ERR_BADSTRUCTURE, FDT_ERR_NOTFOUND
<1>1. CASE o = Len(t.tags)
  BY <1>1, NextTag DEF PropFound
<1>2. CASE o # Len(t.tags)
  <2>1. CASE t.tags[o + 1].tag \in {"cut", "unknown"}
    BY <1>2, <2>1, NextTag DEF PropFound
  <2>2. CASE t.tags[o + 1].tag \notin {"cut", "unknown"}
    BY <1>2, <2>2, NextTag DEF PropFound
  <2> QED
    BY <2>1, <2>2
<1> QED
  BY <1>1, <1>2

\* Where the search for a property with a name stops.
NamedStops(t, name) ==
    {o \in 0 .. Len(t.tags) :
        \/ fdt_next_tag(t, o).tag \notin {"FDT_NOP", "FDT_PROP"}
        \/ fdt_next_tag(t, o).tag = "FDT_PROP" /\ t.tags[o + 1].name = name}

\* A loop that goes on from the next property, and one that goes on from the next
\* tag, find the same.
LEMMA NextPropSearch ==
    ASSUME NEW t, WellTyped(t), NEW name, NEW F, Searches(F, Len(t.tags), NamedStops(t, name), PropFound(t)),
           NEW m \in 0 .. Len(t.tags)
    PROVE  LET p == nextprop(t, m)
           IN  \/ p \in {-11, -8, -1} /\ F[m] = p
               \/ /\ p \in m .. Len(t.tags) - 1 /\ fdt_next_tag(t, p).tag = "FDT_PROP"
                  /\ F[m] = IF t.tags[p + 1].name = name THEN p ELSE F[p + 1]
<1> DEFINE N == Len(t.tags)
           S == NamedStops(t, name)
<1>0. N \in Nat
  BY DEF WellTyped
<1>1. PICK k \in m .. N : EndsAt(PropStops(t), m, k) /\ nextprop(t, m) = PropFound(t)[k]
  BY PropSearch
<1>2. k \in 0 .. N /\ fdt_next_tag(t, k).tag # "FDT_NOP"
  BY <1>0, <1>1 DEF EndsAt, PropStops
<1>3. S \in SUBSET (0 .. N) /\ N \in S
  BY <1>0, NextTag DEF NamedStops
<1>4. F[m] = F[k]
  <2>1. PICK e \in k .. N : EndsAt(S, k, e)
    <3> HIDE DEF N, S
    <3> QED
      BY <1>0, <1>2, <1>3, SearchEnds
  <2>2. \A j \in m .. k - 1 : j \notin S
    BY <1>0, <1>1, <1>2 DEF EndsAt, PropStops, NamedStops
  <2>3. EndsAt(S, m, e) /\ e \in m .. N
    <3> HIDE DEF S
    <3> QED
      BY <1>0, <1>1, <2>1, <2>2 DEF EndsAt
  <2> HIDE DEF S
  <2> QED
    BY <1>0, <1>2, <1>3, <2>1, <2>3, SearchValue DEF S
<1>5. F[k] = IF k \in S THEN PropFound(t)[k] ELSE F[k + 1]
  BY <1>2 DEF Searches
<1>6. CASE fdt_next_tag(t, k).tag # "FDT_PROP"
  <2>1. k \in S
    BY <1>2, <1>6 DEF NamedStops
  <2> QED
    BY <1>1, <1>2, <1>4, <1>5, <1>6, <2>1, PropOrError
<1>7. CASE fdt_next_tag(t, k).tag = "FDT_PROP"
  <2>1. nextprop(t, m) = k /\ k # N
    BY <1>1, <1>2, <1>7, PropOrError
  <2>2. k \in S <=> t.tags[k + 1].name = name
    BY <1>2, <1>7 DEF NamedStops
  <2>3. k \in m .. N - 1
    BY <1>0, <1>1, <2>1
  <2> QED
    BY <1>1, <1>4, <1>5, <1>7, <2>1, <2>2, <2>3
<1> QED
  BY <1>6, <1>7

\* From one property fdt_next_property_offset() goes to the next; anywhere else
\* it fails.
LEMMA NextProperty ==
    ASSUME NEW t, WellTyped(t), NEW o \in 0 .. Len(t.tags)
    PROVE  /\ fdt_next_tag(t, o).tag = "FDT_PROP" =>
                o + 1 \in 0 .. Len(t.tags) /\ fdt_next_property_offset(t, o) = nextprop(t, o + 1)
           /\ fdt_next_tag(t, o).tag # "FDT_PROP" => fdt_next_property_offset(t, o) = -4
<1>1. CASE fdt_next_tag(t, o).tag = "FDT_PROP"
  <2>1. fdt_next_tag(t, o).next = o + 1 /\ o # Len(t.tags)
    BY <1>1, PropOrError
  <2>2. check_offset(t, o, "FDT_PROP") = o + 1
    BY <1>1, <2>1 DEF check_offset
  <2> QED
    BY <1>1, <2>1, <2>2 DEF fdt_next_property_offset, WellTyped
<1>2. CASE fdt_next_tag(t, o).tag # "FDT_PROP"
  <2>1. check_offset(t, o, "FDT_PROP") = -4
    BY <1>2 DEF check_offset, FDT_ERR_BADOFFSET
  <2> QED
    BY <1>2, <2>1 DEF fdt_next_property_offset
<1> QED
  BY <1>1, <1>2

\* One turn of the loop of fdt_getprop() at o, for a loop s.
GetTurn(s, t, name, o) ==
    IF o < 0 \/ t.tags[o + 1].name = name
    THEN o
    ELSE s[fdt_next_property_offset(t, o)]

GetLoop(s, t, name) ==
    s = [o \in -FDT_ERR_BADSTRUCTURE .. Len(t.tags) |-> GetTurn(s, t, name, o)]

\* The loop that goes from tag to tag, seen from where that of fdt_getprop() is.
FromHere(F, t, name) ==
    [o \in -FDT_ERR_BADSTRUCTURE .. Len(t.tags) |->
       IF o < 0 \/ t.tags[o + 1].name = name THEN o
       ELSE IF fdt_next_tag(t, o).tag = "FDT_PROP" THEN F[o + 1]
       ELSE -4]

LEMMA FromHereFollows ==
    ASSUME NEW t, WellTyped(t), NEW name, NEW F, Searches(F, Len(t.tags), NamedStops(t, name), PropFound(t))
    PROVE  /\ \A m \in 0 .. Len(t.tags) :
                 /\ nextprop(t, m) \in -FDT_ERR_BADSTRUCTURE .. Len(t.tags)
                 /\ nextprop(t, m) < 0 \/ nextprop(t, m) >= m
                 /\ FromHere(F, t, name)[nextprop(t, m)] = F[m]
           /\ GetLoop(FromHere(F, t, name), t, name)
<1> DEFINE N == Len(t.tags)
           D == -FDT_ERR_BADSTRUCTURE .. N
           g == FromHere(F, t, name)
<1> USE DEF FDT_ERR_BADSTRUCTURE
<1>0. N \in Nat /\ D = -11 .. N
  BY DEF WellTyped
<1>1. ASSUME NEW m \in 0 .. N
      PROVE  /\ nextprop(t, m) \in D
             /\ nextprop(t, m) < 0 \/ nextprop(t, m) >= m
             /\ g[nextprop(t, m)] = F[m]
  <2>1. CASE nextprop(t, m) \in {-11, -8, -1} /\ F[m] = nextprop(t, m)
    BY <1>0, <2>1 DEF FromHere
  <2>2. CASE /\ nextprop(t, m) \in m .. N - 1 /\ fdt_next_tag(t, nextprop(t, m)).tag = "FDT_PROP"
             /\ F[m] = IF t.tags[nextprop(t, m) + 1].name = name THEN nextprop(t, m)
                       ELSE F[nextprop(t, m) + 1]
    BY <1>0, <2>2 DEF FromHere
  <2> QED
    BY <2>1, <2>2, NextPropSearch
<1>2. ASSUME NEW o \in D
      PROVE  g[o] = GetTurn(g, t, name, o)
  <2>1. CASE o < 0 \/ t.tags[o + 1].name = name
    BY <2>1 DEF FromHere, GetTurn
  <2>2. CASE ~(o < 0 \/ t.tags[o + 1].name = name)
    <3>1. o \in 0 .. N
      BY <1>0, <2>2
    <3>2. GetTurn(g, t, name, o) = g[fdt_next_property_offset(t, o)]
      BY <2>2 DEF GetTurn
    <3>3. CASE fdt_next_tag(t, o).tag = "FDT_PROP"
      <4>1. o + 1 \in 0 .. N /\ fdt_next_property_offset(t, o) = nextprop(t, o + 1)
        BY <3>1, <3>3, NextProperty
      <4>2. g[nextprop(t, o + 1)] = F[o + 1]
        BY <1>1, <4>1
      <4>3. g[o] = F[o + 1]
        BY <2>2, <3>3 DEF FromHere
      <4> QED
        BY <3>2, <4>1, <4>2, <4>3
    <3>4. CASE fdt_next_tag(t, o).tag # "FDT_PROP"
      <4>1. fdt_next_property_offset(t, o) = -4
        BY <3>1, <3>4, NextProperty
      <4>2. g[o] = -4
        BY <2>2, <3>4 DEF FromHere
      <4>3. g[-4] = -4
        BY <1>0 DEF FromHere
      <4> QED
        BY <3>2, <4>1, <4>2, <4>3
    <3> QED
      BY <3>3, <3>4
  <2> QED
    BY <2>1, <2>2
<1>3. g = [o \in D |-> g[o]]
  BY DEF FromHere
<1> HIDE DEF g
<1>4. g = [o \in D |-> GetTurn(g, t, name, o)]
  BY <1>2, <1>3
<1> QED
  BY <1>1, <1>4 DEF GetLoop, g

\* There is only one such loop.
LEMMA GetLoopUnique ==
    ASSUME NEW t, WellTyped(t), NEW name, NEW F, Searches(F, Len(t.tags), NamedStops(t, name), PropFound(t)),
           NEW s, GetLoop(s, t, name), NEW o \in -FDT_ERR_BADSTRUCTURE .. Len(t.tags)
    PROVE  s[o] = FromHere(F, t, name)[o]
<1> DEFINE N == Len(t.tags)
           D == -FDT_ERR_BADSTRUCTURE .. N
           g == FromHere(F, t, name)
           T == {d \in 0 .. N + 11 : s[N - d] # g[N - d]}
<1> USE DEF FDT_ERR_BADSTRUCTURE
<1>0. N \in Nat /\ D = -11 .. N
  BY DEF WellTyped
<1>1. \A p \in D : s[p] = GetTurn(s, t, name, p) /\ g[p] = GetTurn(g, t, name, p)
  BY FromHereFollows DEF GetLoop
<1> SUFFICES ASSUME s[o] # g[o]
             PROVE  FALSE
  OBVIOUS
<1>2. N - o \in T /\ T \in SUBSET Nat
  BY <1>0
<1>3. PICK d \in T : \A y \in T : d <= y
  <2> HIDE DEF T
  <2> QED
    BY <1>2, LeastNumber
<1>4. PICK p \in D : p = N - d /\ s[p] # g[p]
  BY <1>0, <1>3
<1>5. ~(p < 0 \/ t.tags[p + 1].name = name) /\ p \in 0 .. N
  BY <1>0, <1>1, <1>4 DEF GetTurn
<1>6. s[p] = s[fdt_next_property_offset(t, p)] /\ g[p] = g[fdt_next_property_offset(t, p)]
  BY <1>1, <1>4, <1>5 DEF GetTurn
<1>7. PICK q : q = fdt_next_property_offset(t, p)
  OBVIOUS
<1>8. q \in D /\ (q < 0 \/ q > p)
  <2>1. CASE fdt_next_tag(t, p).tag = "FDT_PROP"
    <3>1. p + 1 \in 0 .. N /\ q = nextprop(t, p + 1)
      BY <1>5, <1>7, <2>1, NextProperty
    <3>2. q \in D /\ (q < 0 \/ q >= p + 1)
      BY <3>1, FromHereFollows
    <3> QED
      BY <1>0, <1>5, <3>2
  <2>2. CASE fdt_next_tag(t, p).tag # "FDT_PROP"
    BY <1>0, <1>5, <1>7, <2>2, NextProperty
  <2> QED
    BY <2>1, <2>2
<1>9. s[q] = g[q]
  <2>1. CASE q < 0
    BY <1>1, <1>8, <2>1 DEF GetTurn
  <2>2. CASE q > p
    <3>1. N - q \in 0 .. N + 11 /\ N - q < d /\ N - (N - q) = q
      BY <1>0, <1>4, <1>8, <2>2
    <3>2. N - q \notin T
      BY <1>0, <1>3, <3>1
    <3> QED
      BY <3>1, <3>2
  <2> QED
    BY <1>8, <2>1, <2>2
<1> QED
  BY <1>4, <1>6, <1>7, <1>9

\* fdt_getprop() finds the first property with that name behind the beginning of
\* the node, before anything else than properties and NOPs.
LEMMA GetpropSearch ==
    ASSUME NEW t, WellTyped(t), NEW name, NEW i \in 1 .. Len(t.tags), t.tags[i].tag = "FDT_BEGIN_NODE"
    PROVE  \E k \in i .. Len(t.tags) :
              EndsAt(NamedStops(t, name), i, k) /\ fdt_getprop(t, i - 1, name) = PropFound(t)[k]
<1> DEFINE N == Len(t.tags)
           S == NamedStops(t, name)
           search == CHOOSE s : s = [o \in -FDT_ERR_BADSTRUCTURE .. N |->
                                       IF o < 0 \/ t.tags[o + 1].name = name
                                       THEN o
                                       ELSE s[fdt_next_property_offset(t, o)]]
<1>0. N \in Nat
  BY DEF WellTyped
<1>1. S \in SUBSET (0 .. N) /\ N \in S
  BY <1>0, NextTag DEF NamedStops
<1>2. PICK F : Searches(F, N, S, PropFound(t))
  <2> HIDE DEF N, S
  <2> QED
    BY <1>0, <1>1, SearchExists
<1>3. fdt_getprop(t, i - 1, name) = search[fdt_first_property_offset(t, i - 1)]
  BY DEF fdt_getprop
<1>4. search = CHOOSE s : GetLoop(s, t, name)
  BY DEF GetLoop, GetTurn
<1> HIDE DEF search
<1>5. GetLoop(search, t, name)
  BY <1>2, <1>4, FromHereFollows
<1>6. fdt_first_property_offset(t, i - 1) = nextprop(t, i)
  <2>1. i - 1 \in 0 .. N /\ i - 1 # N /\ (i - 1) + 1 = i
    BY <1>0
  <2>2. fdt_next_tag(t, i - 1) = [tag |-> "FDT_BEGIN_NODE", next |-> i]
    BY <2>1, NextTag
  <2>3. check_offset(t, i - 1, "FDT_BEGIN_NODE") = i
    BY <2>1, <2>2 DEF check_offset
  <2> QED
    BY <1>0, <2>3 DEF fdt_first_property_offset
<1>7. i \in 0 .. N
  BY <1>0
<1>8. nextprop(t, i) \in -FDT_ERR_BADSTRUCTURE .. N /\ FromHere(F, t, name)[nextprop(t, i)] = F[i]
  BY <1>2, <1>7, FromHereFollows
<1>9. search[nextprop(t, i)] = F[i]
  BY <1>2, <1>5, <1>8, GetLoopUnique
<1>10. PICK k \in i .. N : EndsAt(S, i, k)
  <2> HIDE DEF N, S
  <2> QED
    BY <1>0, <1>1, <1>7, SearchEnds
<1>11. F[i] = PropFound(t)[k]
  <2> HIDE DEF S
  <2> QED
    BY <1>0, <1>1, <1>2, <1>7, <1>10, SearchValue
<1> QED
  BY <1>3, <1>6, <1>9, <1>10, <1>11

-----------------------------------------------------------------------------
(* What a tree means.                                                      *)

\* Tags i + 1 to j are properties or were deleted.
Run(t, i, j) == \A k \in i + 1 .. j : t.tags[k].tag \in {"FDT_PROP", "FDT_NOP"}

LEMMA LevelOfRun ==
    ASSUME NEW t, NEW i \in Nat, NEW j \in Nat, i <= j, Run(t, i, j)
    PROVE  Level(t, j) = Level(t, i)
<1>1. ASSUME NEW tag \in {"FDT_BEGIN_NODE", "FDT_END_NODE"}
      PROVE  {k \in 1 .. j : t.tags[k].tag = tag} = {k \in 1 .. i : t.tags[k].tag = tag}
  BY DEF Run
<1> QED
  BY <1>1 DEF Level

LEMMA LevelIsInt ==
    ASSUME NEW t, NEW i \in Nat
    PROVE  Level(t, i) \in Int
<1> DEFINE C(tag) == Cardinality({k \in 1 .. i : t.tags[k].tag = tag})
<1>1. ASSUME NEW tag
      PROVE  C(tag) \in Nat
  <2>1. IsFiniteSet(1 .. i)
    BY FS_Interval
  <2>2. IsFiniteSet({k \in 1 .. i : t.tags[k].tag = tag})
    BY <2>1, FS_Subset
  <2> QED
    BY <2>2, FS_CardinalityType
<1>2. C("FDT_BEGIN_NODE") \in Nat /\ C("FDT_END_NODE") \in Nat
  BY <1>1
<1>3. Level(t, i) = C("FDT_BEGIN_NODE") - C("FDT_END_NODE")
  BY DEF Level
<1> HIDE DEF C
<1> QED
  BY <1>2, <1>3

LEMMA LevelOfNode ==
    ASSUME NEW t, NEW i \in Nat, i > 0, t.tags[i].tag = "FDT_BEGIN_NODE"
    PROVE  Level(t, i) = Level(t, i - 1) + 1
<1> DEFINE B(m) == {k \in 1 .. m : t.tags[k].tag = "FDT_BEGIN_NODE"}
           E(m) == {k \in 1 .. m : t.tags[k].tag = "FDT_END_NODE"}
<1>1. i - 1 \in Nat
  OBVIOUS
<1>2. E(i) = E(i - 1)
  BY <1>1
<1>3. B(i) = B(i - 1) \cup {i} /\ i \notin B(i - 1)
  BY <1>1
<1>4. IsFiniteSet(B(i - 1)) /\ IsFiniteSet(E(i - 1))
  <2>1. IsFiniteSet(1 .. (i - 1))
    BY <1>1, FS_Interval
  <2> QED
    BY <2>1, FS_Subset
<1>5. Cardinality(E(i - 1)) \in Nat /\ Cardinality(B(i - 1)) \in Nat
  BY <1>4, FS_CardinalityType
<1>6. Cardinality(B(i)) = Cardinality(B(i - 1)) + 1
  BY <1>3, <1>4, FS_AddElement
<1>7. \A m \in Nat : Level(t, m) = Cardinality(B(m)) - Cardinality(E(m))
  BY DEF Level
<1> HIDE DEF B, E
<1> QED
  BY <1>1, <1>2, <1>5, <1>6, <1>7

\* In a proper tree a property belongs to a node if only properties stand
\* between them.
LEMMA OwnsIsRun ==
    ASSUME NEW t, Proper(t), NEW i \in Nat \ {0}, NEW j \in Readable(t)
    PROVE  Owns(t, i, j) <=> /\ t.tags[i].tag = "FDT_BEGIN_NODE" /\ t.tags[j].tag = "FDT_PROP"
                             /\ i < j /\ Run(t, i, j)
<1>0. j \in Nat
  BY DEF Readable, Proper
<1>1. ASSUME t.tags[i].tag = "FDT_BEGIN_NODE", t.tags[j].tag = "FDT_PROP", i < j, Run(t, i, j)
      PROVE  Owns(t, i, j)
  <2>1. ASSUME NEW k \in i .. j
        PROVE  Level(t, k) = Level(t, i)
    <3>1. k \in Nat /\ i <= k /\ Run(t, i, k)
      BY <1>0, <1>1 DEF Run
    <3> QED
      BY <3>1, LevelOfRun
  <2>2. \A k \in i .. j : Level(t, k) >= Level(t, i)
    BY <2>1, LevelIsInt
  <2> QED
    BY <1>0, <1>1, <2>1, <2>2 DEF Owns
<1>2. ASSUME Owns(t, i, j)
      PROVE  Run(t, i, j)
  <2>1. /\ t.tags[i].tag = "FDT_BEGIN_NODE" /\ t.tags[j].tag = "FDT_PROP" /\ i < j
        /\ Level(t, i) = Level(t, j) /\ \A k \in i .. j : Level(t, k) >= Level(t, i)
    BY <1>2 DEF Owns
  <2>2. PICK n \in 1 .. j : t.tags[n].tag = "FDT_BEGIN_NODE" /\ Run(t, n, j)
    BY <2>1 DEF Proper, Run
  <2>3. n >= i
    <3>1. ~(i \in n + 1 .. j)
      BY <2>1, <2>2 DEF Run
    <3> QED
      BY <1>0, <2>1, <3>1
  <2>4. CASE n = i
    BY <2>2, <2>4
  <2>5. CASE n > i
    <3>1. n \in Nat /\ n - 1 \in Nat /\ n - 1 \in i .. j /\ n > 0 /\ n <= j
      BY <1>0, <2>5
    <3>2. Level(t, n) = Level(t, j)
      BY <1>0, <2>2, <3>1, LevelOfRun
    <3>3. Level(t, n) = Level(t, n - 1) + 1
      BY <2>2, <3>1, LevelOfNode
    <3>4. Level(t, n - 1) >= Level(t, i)
      BY <2>1, <3>1
    <3>5. Level(t, n - 1) \in Int
      BY <3>1, LevelIsInt
    <3> QED
      BY <2>1, <3>2, <3>3, <3>4, <3>5
  <2> QED
    BY <1>0, <2>3, <2>4, <2>5
<1> QED
  BY <1>1, <1>2 DEF Owns

LEMMA ProperIsTyped ==
    ASSUME NEW t, Proper(t)
    PROVE  WellTyped(t) /\ Len(t.tags) \in Nat /\ 1 \in 1 .. Len(t.tags)
<1>1. t.tags \in Seq(Tags) /\ t.tags # <<>>
  BY DEF Proper
<1> QED
  BY <1>1 DEF WellTyped

\* What follows a readable node up to the end of a run is readable.
LEMMA RunIsReadable ==
    ASSUME NEW t, Proper(t), NEW i \in Readable(t), NEW j \in i .. Len(t.tags), Run(t, i, j)
    PROVE  j \in Readable(t)
<1>1. Len(t.tags) \in Nat /\ i \in 1 .. Len(t.tags) /\ j \in 1 .. Len(t.tags)
  BY ProperIsTyped DEF Readable
<1>2. ASSUME NEW k \in 1 .. j
      PROVE  t.tags[k].tag \notin {"cut", "unknown", "FDT_END"}
  <2>1. CASE k \in 1 .. i
    BY <2>1 DEF Readable
  <2>2. CASE k \in i + 1 .. j
    BY <2>2 DEF Run
  <2> QED
    BY <1>1, <2>1, <2>2
<1> QED
  BY <1>1, <1>2 DEF Readable

\* A node of a readable tree has at most one property of a name, in the sense of
\* PropertyOf.
LEMMA PropertyIsUnique ==
    ASSUME NEW t, Proper(t), NEW i \in Readable(t), NEW name, NEW j \in Readable(t), NEW k \in Readable(t),
           PropertyOf(t, i, j, name), PropertyOf(t, i, k, name)
    PROVE  j = k
<1>1. i \in Nat /\ j \in Nat /\ k \in Nat
  BY ProperIsTyped DEF Readable
<1>2. i < j /\ i < k
  BY DEF PropertyOf, Owns
<1>3. ~(j < k)
  BY <1>1, <1>2 DEF PropertyOf
<1>4. ~(k < j)
  BY <1>1, <1>2 DEF PropertyOf
<1> QED
  BY <1>1, <1>3, <1>4

\* fdt_getprop() finds the property of that name of a readable node, or fails if
\* there is none.
LEMMA GetpropFinds ==
    ASSUME NEW t, Proper(t), NEW i \in Readable(t), t.tags[i].tag = "FDT_BEGIN_NODE", NEW name
    PROVE  LET p == fdt_getprop(t, i - 1, name)
           IN  \/ /\ p \in Nat /\ p + 1 \in Readable(t) /\ PropertyOf(t, i, p + 1, name)
               \/ /\ p \in Int /\ p < 0
                  /\ \A j \in Readable(t) : ~PropertyOf(t, i, j, name)
<1> DEFINE N == Len(t.tags)
<1>0. WellTyped(t) /\ N \in Nat /\ i \in 1 .. N /\ i \in Nat \ {0}
  BY ProperIsTyped DEF Readable
<1>1. PICK k \in i .. N : EndsAt(NamedStops(t, name), i, k) /\ fdt_getprop(t, i - 1, name) = PropFound(t)[k]
  BY <1>0, GetpropSearch
<1>2. k \in 0 .. N /\ k \in Nat
  BY <1>0
<1>3. ASSUME NEW m \in i + 1 .. k
      PROVE  t.tags[m].tag \in {"FDT_PROP", "FDT_NOP"} /\ (t.tags[m].tag = "FDT_PROP" => t.tags[m].name # name)
  <2>1. m - 1 \in i .. k - 1 /\ m - 1 \in 0 .. N /\ m - 1 # N /\ (m - 1) + 1 = m
    BY <1>0, <1>2
  <2>2. m - 1 \notin NamedStops(t, name)
    BY <1>1, <2>1 DEF EndsAt
  <2>3. fdt_next_tag(t, m - 1).tag \in {"FDT_PROP", "FDT_NOP"}
        /\ (fdt_next_tag(t, m - 1).tag = "FDT_PROP" => t.tags[m].name # name)
    BY <2>1, <2>2 DEF NamedStops
  <2>4. fdt_next_tag(t, m - 1).tag = t.tags[m].tag
    BY <1>0, <2>1, <2>3, NextTag
  <2> QED
    BY <2>3, <2>4
<1>4. CASE fdt_next_tag(t, k).tag = "FDT_PROP"
  <2>1. k # N /\ t.tags[k + 1].tag = "FDT_PROP" /\ PropFound(t)[k] = k
    BY <1>0, <1>2, <1>4, PropOrError
  <2>2. t.tags[k + 1].name = name
    BY <1>1, <1>4 DEF EndsAt, NamedStops
  <2>3. k + 1 \in i .. N /\ Run(t, i, k + 1) /\ i < k + 1
    BY <1>0, <1>2, <1>3, <2>1 DEF Run
  <2>4. k + 1 \in Readable(t)
    BY <2>3, RunIsReadable
  <2>5. Owns(t, i, k + 1)
    BY <1>0, <2>1, <2>3, <2>4, OwnsIsRun
  <2>6. ASSUME NEW m \in i .. (k + 1) - 1
        PROVE  ~(Owns(t, i, m) /\ t.tags[m].name = name)
    <3>1. CASE m = i
      BY <1>0, <3>1 DEF Owns
    <3>2. CASE m # i
      BY <1>0, <1>2, <1>3, <3>2 DEF Owns
    <3> QED
      BY <3>1, <3>2
  <2>7. PropertyOf(t, i, k + 1, name)
    BY <2>2, <2>5, <2>6 DEF PropertyOf
  <2> QED
    BY <1>1, <1>2, <2>1, <2>4, <2>7
<1>5. CASE fdt_next_tag(t, k).tag # "FDT_PROP"
  <2>1. PropFound(t)[k] \in {-11, -8, -1}
    BY <1>0, <1>2, <1>5, PropOrError
  <2>2. k # N => t.tags[k + 1].tag \notin {"FDT_PROP", "FDT_NOP"}
    <3>1. fdt_next_tag(t, k).tag \notin {"FDT_PROP", "FDT_NOP"}
      BY <1>1, <1>5 DEF EndsAt, NamedStops
    <3>2. ASSUME k # N, t.tags[k + 1].tag \in {"FDT_PROP", "FDT_NOP"}
          PROVE  fdt_next_tag(t, k) = [tag |-> t.tags[k + 1].tag, next |-> k + 1]
      BY <1>0, <1>2, <3>2, NextTag
    <3> QED
      BY <3>1, <3>2
  <2>3. ASSUME NEW j \in Readable(t), PropertyOf(t, i, j, name)
        PROVE  FALSE
    <3>1. j \in 1 .. N /\ i < j /\ Run(t, i, j) /\ t.tags[j].tag = "FDT_PROP" /\ t.tags[j].name = name
      BY <1>0, <2>3, OwnsIsRun DEF PropertyOf, Readable
    <3>2. CASE j <= k
      BY <1>0, <1>2, <1>3, <3>1, <3>2
    <3>3. CASE j > k
      <4>1. k + 1 \in i + 1 .. j /\ k # N
        BY <1>0, <1>1, <1>2, <3>1, <3>3
      <4> QED
        BY <2>2, <3>1, <4>1 DEF Run
    <3> QED
      BY <1>0, <1>2, <3>1, <3>2, <3>3
  <2> QED
    BY <1>1, <2>1, <2>3
<1> QED
  BY <1>4, <1>5

\* What the driver takes from a readable node is the core that the node is.
LEMMA RegistersAreTheCore ==
    ASSUME NEW t, Proper(t), NEW i \in Readable(t), t.tags[i].tag = "FDT_BEGIN_NODE",
           NEW bars, bars \subseteq 0 .. NUM_BARS - 1
    PROVE  Registers(t, i - 1, bars) = Core(t, i, bars)
<1> DEFINE compat == fdt_getprop(t, i - 1, "compatible")
           rg == fdt_getprop(t, i - 1, "reg")
           cs == {c \in Readable(t) : /\ PropertyOf(t, i, c, "compatible")
                                      /\ t.tags[c].string = "altr,pr-ip-core"}
           rs == {r \in Readable(t) : /\ PropertyOf(t, i, r, "reg")
                                      /\ Len(t.tags[r].words) = NUM_REGS
                                      /\ t.tags[r].words[1] \in bars}
           usable == /\ rg >= 0 /\ Len(t.tags[rg + 1].words) = NUM_REGS
                     /\ t.tags[rg + 1].words[1] < NUM_BARS /\ t.tags[rg + 1].words[1] \in bars
<1>1. Core(t, i, bars) = {<<t.tags[r].words[1], t.tags[r].words[2]>> : r \in {r \in rs : cs # {}}}
  BY DEF Core
<1>2. Registers(t, i - 1, bars) =
         IF compat >= 0 /\ t.tags[compat + 1].string = "altr,pr-ip-core" /\ usable
         THEN {<<t.tags[rg + 1].words[1], t.tags[rg + 1].words[2]>>}
         ELSE {}
  BY DEF Registers, fpga_drv_lookup
<1>3. cs # {} <=> compat >= 0 /\ t.tags[compat + 1].string = "altr,pr-ip-core"
  <2>1. CASE compat \in Nat /\ compat + 1 \in Readable(t) /\ PropertyOf(t, i, compat + 1, "compatible")
    <3>1. \A c \in Readable(t) : PropertyOf(t, i, c, "compatible") => c = compat + 1
      BY <2>1, PropertyIsUnique
    <3>2. compat >= 0
      BY <2>1
    <3>3. PICK c \in Readable(t) : c = compat + 1
      BY <2>1
    <3> HIDE DEF compat
    <3> QED
      BY <2>1, <3>1, <3>2, <3>3
  <2>2. CASE compat \in Int /\ compat < 0 /\ \A j \in Readable(t) : ~PropertyOf(t, i, j, "compatible")
    <3>1. cs = {}
      BY <2>2
    <3>2. PICK c \in Int : c = compat /\ c < 0
      BY <2>2
    <3>3. ~(c >= 0)
      BY <3>2
    <3> QED
      BY <3>1, <3>2, <3>3
  <2> QED
    BY <2>1, <2>2, GetpropFinds
<1>4. rs = IF usable THEN {rg + 1} ELSE {}
  <2>1. CASE rg \in Nat /\ rg + 1 \in Readable(t) /\ PropertyOf(t, i, rg + 1, "reg")
    <3>1. \A r \in Readable(t) : PropertyOf(t, i, r, "reg") => r = rg + 1
      BY <2>1, PropertyIsUnique
    <3>2. usable <=> Len(t.tags[rg + 1].words) = NUM_REGS /\ t.tags[rg + 1].words[1] \in bars
      <4>1. rg >= 0
        BY <2>1
      <4>2. \A x \in bars : x < NUM_BARS
        BY DEF NUM_BARS
      <4> QED
        BY <4>1, <4>2
    <3> HIDE DEF rg, usable
    <3> QED
      BY <2>1, <3>1, <3>2
  <2>2. CASE rg \in Int /\ rg < 0 /\ \A j \in Readable(t) : ~PropertyOf(t, i, j, "reg")
    <3> HIDE DEF rg
    <3> QED
      BY <2>2
  <2> QED
    BY <2>1, <2>2, GetpropFinds
<1> HIDE DEF cs, rs, compat, rg, usable
<1> QED
  BY <1>1, <1>2, <1>3, <1>4

\* fdt_next_node() goes to the next readable node, or fails if there is none.
LEMMA NextNodeFinds ==
    ASSUME NEW t, Proper(t), NEW i \in Readable(t), t.tags[i].tag = "FDT_BEGIN_NODE"
    PROVE  LET p == fdt_next_node(t, i - 1)
           IN  \/ /\ p \in Nat /\ i <= p /\ p + 1 \in Readable(t) /\ t.tags[p + 1].tag = "FDT_BEGIN_NODE"
                  /\ \A m \in Readable(t) : i < m /\ m <= p => t.tags[m].tag # "FDT_BEGIN_NODE"
               \/ /\ p \in {-11, -1}
                  /\ \A m \in Readable(t) : i < m => t.tags[m].tag # "FDT_BEGIN_NODE"
<1> DEFINE N == Len(t.tags)
<1>0. WellTyped(t) /\ N \in Nat /\ i \in 1 .. N /\ i \in Nat \ {0}
  BY ProperIsTyped DEF Readable
<1>1. PICK k \in i .. N : EndsAt(NodeStops(t), i, k) /\ fdt_next_node(t, i - 1) = NodeFound(t)[k]
  BY <1>0, NodeSearch
<1>2. k \in 0 .. N /\ k \in Nat
  BY <1>0
<1>3. ASSUME NEW m \in i + 1 .. k
      PROVE  t.tags[m].tag \notin {"FDT_BEGIN_NODE", "FDT_END", "cut", "unknown"}
  <2>1. m - 1 \in i .. k - 1 /\ m - 1 \in 0 .. N /\ m - 1 # N /\ (m - 1) + 1 = m
    BY <1>0, <1>2
  <2>2. m - 1 \notin NodeStops(t)
    BY <1>1, <2>1 DEF EndsAt
  <2>3. fdt_next_tag(t, m - 1).tag \notin {"FDT_BEGIN_NODE", "FDT_END"}
    BY <2>1, <2>2 DEF NodeStops
  <2> QED
    BY <1>0, <2>1, <2>3, NextTag
<1>4. fdt_next_tag(t, k).tag \in {"FDT_BEGIN_NODE", "FDT_END"}
  BY <1>1 DEF EndsAt, NodeStops
<1>5. CASE fdt_next_tag(t, k).tag = "FDT_BEGIN_NODE"
  <2>1. k # N /\ t.tags[k + 1].tag = "FDT_BEGIN_NODE"
    <3>1. k # N
      BY <1>0, <1>2, <1>5, NextTag
    <3>2. t.tags[k + 1].tag \in {"cut", "unknown"} \/ fdt_next_tag(t, k).tag = t.tags[k + 1].tag
      BY <1>0, <1>2, <3>1, NextTag
    <3>3. ~(t.tags[k + 1].tag \in {"cut", "unknown"})
      BY <1>0, <1>2, <1>5, <3>1, NextTag
    <3> QED
      BY <1>5, <3>1, <3>2, <3>3
  <2>2. NodeFound(t)[k] = k
    BY <1>2, <1>5 DEF NodeFound
  <2>3. k + 1 \in 1 .. N
    BY <1>0, <1>2, <2>1
  <2>4. ASSUME NEW m \in 1 .. k + 1
        PROVE  t.tags[m].tag \notin {"cut", "unknown", "FDT_END"}
    <3>1. CASE m \in 1 .. i
      BY <3>1 DEF Readable
    <3>2. CASE m \in i + 1 .. k
      BY <1>3, <3>2
    <3>3. CASE m = k + 1
      BY <2>1, <3>3
    <3> QED
      BY <1>0, <1>1, <1>2, <3>1, <3>2, <3>3
  <2>5. k + 1 \in Readable(t)
    BY <2>3, <2>4 DEF Readable
  <2>6. ASSUME NEW m \in Readable(t), i < m, m <= k
        PROVE  t.tags[m].tag # "FDT_BEGIN_NODE"
    <3>1. m \in i + 1 .. k
      BY <1>0, <1>2, <2>6 DEF Readable
    <3> QED
      BY <1>3, <3>1
  <2>7. i <= k
    BY <1>0
  <2> QED
    BY <1>1, <1>2, <2>1, <2>2, <2>5, <2>6, <2>7
<1>6. CASE fdt_next_tag(t, k).tag = "FDT_END"
  <2>1. NodeFound(t)[k] \in {-11, -1}
    <3>1. fdt_next_tag(t, k).next \in {-11, -8, k + 1}
      BY <1>0, <1>2, NextTag
    <3> QED
      BY <1>2, <1>6, <3>1 DEF NodeFound, FDT_ERR_TRUNCATED, FDT_ERR_NOTFOUND
  <2>2. ASSUME NEW m \in Readable(t), i < m
        PROVE  t.tags[m].tag # "FDT_BEGIN_NODE"
    <3>1. m \in 1 .. N
      BY DEF Readable
    <3>2. CASE m <= k
      <4>1. m \in i + 1 .. k
        BY <1>0, <1>2, <2>2, <3>1, <3>2
      <4> QED
        BY <1>3, <4>1
    <3>3. CASE m > k
      <4>1. k + 1 \in 1 .. m /\ k # N
        BY <1>0, <1>2, <3>1, <3>3
      <4>2. t.tags[k + 1].tag \in {"FDT_END", "cut", "unknown"}
        BY <1>0, <1>2, <1>6, <4>1, NextTag
      <4> QED
        BY <4>1, <4>2 DEF Readable
    <3> QED
      BY <1>0, <1>2, <3>1, <3>2, <3>3
  <2> QED
    BY <1>1, <2>1, <2>2
<1> QED
  BY <1>4, <1>5, <1>6

\* The cores of the nodes up to tag n, the root node left aside.
CoresTo(t, n, bars) == UNION {Core(t, i, bars) : i \in {i \in Readable(t) \ {1} : i <= n}}

\* Only a node is a core.
LEMMA CoreIsANode ==
    ASSUME NEW t, NEW i, t.tags[i].tag # "FDT_BEGIN_NODE", NEW bars
    PROVE  Core(t, i, bars) = {}
<1>1. \A r, name : ~PropertyOf(t, i, r, name)
  BY DEF PropertyOf, Owns
<1> QED
  BY <1>1 DEF Core

\* What the loop has tried when it goes from a node to the next one, or ends.
LEMMA CoresOfTheWalk ==
    ASSUME NEW t, Proper(t), NEW i \in Readable(t), t.tags[i].tag = "FDT_BEGIN_NODE", NEW bars
    PROVE  LET p == fdt_next_node(t, i - 1)
           IN  \/ /\ p \in Nat /\ 1 <= p /\ p + 1 \in Readable(t) /\ t.tags[p + 1].tag = "FDT_BEGIN_NODE"
                  /\ CoresTo(t, p, bars) = CoresTo(t, i, bars)
               \/ /\ p \in {-11, -1}
                  /\ Cores(t, bars) = CoresTo(t, i, bars)
<1> DEFINE p == fdt_next_node(t, i - 1)
<1>0. i \in Nat /\ 1 <= i /\ \A m \in Readable(t) : m \in Nat
  BY ProperIsTyped DEF Readable
<1>1. CASE /\ p \in Nat /\ i <= p /\ p + 1 \in Readable(t) /\ t.tags[p + 1].tag = "FDT_BEGIN_NODE"
           /\ \A m \in Readable(t) : i < m /\ m <= p => t.tags[m].tag # "FDT_BEGIN_NODE"
  <2>1. PICK q \in Nat : q = p
    BY <1>1
  <2> HIDE DEF p
  <2>2. \A m \in Readable(t) : ~(m <= i) /\ m <= q => Core(t, m, bars) = {}
    BY <1>0, <1>1, <2>1, CoreIsANode
  <2>3. \A m \in Readable(t) : m <= i => m <= q
    BY <1>0, <1>1, <2>1
  <2>4. CoresTo(t, q, bars) = CoresTo(t, i, bars)
    BY <2>2, <2>3 DEF CoresTo
  <2>5. 1 <= p
    BY <1>0, <1>1
  <2> QED
    BY <1>1, <2>1, <2>4, <2>5 DEF p
<1>2. CASE /\ p \in {-11, -1}
           /\ \A m \in Readable(t) : i < m => t.tags[m].tag # "FDT_BEGIN_NODE"
  <2> HIDE DEF p
  <2>1. \A m \in Readable(t) : ~(m <= i) => Core(t, m, bars) = {}
    <3>1. \A m \in Readable(t) : ~(m <= i) => t.tags[m].tag # "FDT_BEGIN_NODE"
      BY <1>0, <1>2
    <3> QED
      BY <3>1, CoreIsANode
  <2>2. Cores(t, bars) = CoresTo(t, i, bars)
    BY <2>1 DEF Cores, CoresTo
  <2> QED
    BY <1>2, <2>2 DEF p
<1> QED
  BY <1>1, <1>2, NextNodeFinds

LEMMA OneMoreCore ==
    ASSUME NEW t, Proper(t), NEW o \in Nat, o >= 1, o + 1 \in Readable(t), NEW bars
    PROVE  CoresTo(t, o + 1, bars) = CoresTo(t, o, bars) \cup Core(t, o + 1, bars)
<1>1. \A m \in Readable(t) : m \in Nat
  BY ProperIsTyped DEF Readable
<1>2. {i \in Readable(t) \ {1} : i <= o + 1} = {i \in Readable(t) \ {1} : i <= o} \cup {o + 1}
  BY <1>1
<1> QED
  BY <1>2 DEF CoresTo

LEMMA RootIsReadable ==
    ASSUME NEW t, Proper(t), NEW bars
    PROVE  1 \in Readable(t) /\ t.tags[1].tag = "FDT_BEGIN_NODE" /\ CoresTo(t, 1, bars) = {}
<1>1. 1 \in 1 .. Len(t.tags) /\ t.tags[1].tag = "FDT_BEGIN_NODE"
  BY ProperIsTyped DEF Proper
<1>2. 1 \in Readable(t)
  BY <1>1 DEF Readable
<1>3. \A m \in Readable(t) \ {1} : ~(m <= 1)
  BY ProperIsTyped DEF Readable
<1> QED
  BY <1>1, <1>2, <1>3 DEF CoresTo

-----------------------------------------------------------------------------
(* What a probe of a tree deploys.                                         *)

EnablePCs == {"e_restore", "e_mask", "e_link", "e_train", "e_done"}

\* The loop of w is at a node and has tried the cores before it, or it is through
\* and has tried all of them.
Walked(w) ==
    \/ /\ offset[w] \in Nat /\ 1 <= offset[w] /\ offset[w] + 1 \in Readable(fdt[w])
       /\ fdt[w].tags[offset[w] + 1].tag = "FDT_BEGIN_NODE"
       /\ tried[w] = CoresTo(fdt[w], offset[w], bar_addrs)
    \/ /\ offset[w] \in {-11, -1}
       /\ tried[w] = Cores(fdt[w], bar_addrs)

\* What the write of w relies on: its tree is a proper one, nothing is deployed
\* when its loop begins, and what its loop deploys is one of the tree's cores.
WalkStands(w) ==
    /\ pc[w] # "p_nodes" => tried[w] = {}
    /\ pc[w] = "p_header" \/ (pc[w] = "remove" /\ back[w] = "p_header") => fdt[w] \in Roms \cup Trees
    /\ pc[w] \in EnablePCs \cup ProbePCs => state # "Base probed"
    /\ pc[w] = "p_nodes" => /\ fdt[w] \in Roms \cup Trees
                            /\ fdev_list \subseteq tried[w]
                            /\ Walked(w)

\* A subdriver is deployed only by a probe that is through or under way.
ListedByProbe == fdev_list # {} => state = "Base probed" \/ \E w \in Jobs : pc[w] = "p_nodes"

WalkTyped == DOMAIN fdt = Jobs /\ DOMAIN offset = Jobs /\ DOMAIN tried = Jobs

\* The inductive invariant of the walk.
WalkInv == WalkTyped /\ ListedByProbe /\ \A w \in Jobs : WalkStands(w)

\* What is left to show of a step of the write of w, alone in the driver.
LEMMA OwnWalkStep ==
    ASSUME Typed, WalkInv, NEW w \in Jobs, \A d \in Jobs \ {w} : pc[d] = "idle",
           NEW p, pc' = [pc EXCEPT ![w] = p], WalkTyped',
           \A d \in Jobs \ {w} : tried'[d] = tried[d],
           fdev_list' # {} => state' = "Base probed" \/ p = "p_nodes", WalkStands(w)'
    PROVE  WalkInv'
<1>1. pc'[w] = p /\ \A d \in Jobs \ {w} : pc'[d] = "idle"
  BY DEF Typed
<1>2. ListedByProbe'
  BY <1>1 DEF ListedByProbe
<1>3. \A d \in Jobs \ {w} : WalkStands(d)'
  BY <1>1 DEF WalkInv, WalkStands, EnablePCs, ProbePCs
<1>. QED
  BY <1>2, <1>3 DEF WalkInv

\* A step that leaves alone what the walk is about.
LEMMA WalkUnchanged ==
    ASSUME WalkInv, UNCHANGED <<pc, state, fdev_list, fdt, offset, tried, back>>
    PROVE  WalkInv'
  BY DEF WalkInv, WalkTyped, ListedByProbe, WalkStands, Walked

\* When no loop is under way and the driver is not in the state Base probed, no
\* subdriver is deployed.
LEMMA NothingListed ==
    ASSUME WalkInv, NEW w \in Jobs, \A d \in Jobs \ {w} : pc[d] = "idle", pc[w] # "p_nodes",
           state # "Base probed"
    PROVE  fdev_list = {}
  BY DEF WalkInv, ListedByProbe

\* A step of the write of w that does not concern its walk.
LEMMA WalkAside ==
    ASSUME Typed, WalkInv, NEW w \in Jobs, \A d \in Jobs \ {w} : pc[d] = "idle", pc[w] # "p_nodes",
           NEW p, pc' = [pc EXCEPT ![w] = p], p \notin ProbePCs,
           UNCHANGED <<fdev_list, fdt, offset, tried>>,
           fdev_list # {} => state' = "Base probed",
           p \in EnablePCs => state' # "Base probed",
           p = "remove" => back'[w] # "p_header"
    PROVE  WalkInv'
<1>1. pc'[w] = p
  BY DEF Typed
<1>2. WalkStands(w)'
  BY <1>1 DEF WalkInv, WalkStands, ProbePCs
<1>3. WalkTyped' /\ \A d \in Jobs \ {w} : tried'[d] = tried[d]
  BY DEF WalkInv, WalkTyped
<1>. QED
  BY <1>2, <1>3, OwnWalkStep

\* The command of a write meets the state of the driver.
LEMMA WalkCommandStep ==
    ASSUME SubdriverInv, WalkInv, NEW w \in Jobs,
           \/ StateDisable(w) \/ StateEnable(w) \/ StateProbe(w) \/ StateUnprobe(w)
           \/ PrintRom(w) \/ UnknownData(w)
    PROVE  WalkInv'
<1> USE DEF Goto, aerVars, fdevVars, walkVars
<1>1. pc[w] \in {"d_state", "e_state", "p_state", "u_state", "print", "unknown"} /\ Typed
      /\ UNCHANGED <<state, fdev_list, offset, tried>>
  BY DEF StateDisable, StateEnable, StateProbe, StateUnprobe, PrintRom, UnknownData, SubdriverInv, Done,
        Refuse, CallRemoveAll, CallProbeAll
<1>2. \A d \in Jobs \ {w} : pc[d] = "idle"
  BY <1>1, OthersIdle DEF SubdriverInv
<1>3. fdev_list # {} => state = "Base probed"
  BY <1>1, <1>2, NothingListed
<1>4. CASE pc' = [pc EXCEPT ![w] = "idle"] /\ UNCHANGED fdt
  BY <1>1, <1>2, <1>3, <1>4, WalkAside DEF ProbePCs, EnablePCs
<1>5. CASE pc' = [pc EXCEPT ![w] = "e_restore"] /\ UNCHANGED fdt /\ state = "AER disabled"
  BY <1>1, <1>2, <1>3, <1>5, WalkAside DEF ProbePCs, EnablePCs
<1>6. CASE pc' = [pc EXCEPT ![w] = "remove"] /\ UNCHANGED fdt /\ back'[w] # "p_header"
  <2>1. "remove" \notin ProbePCs /\ "remove" \notin EnablePCs /\ pc[w] # "p_nodes"
    BY <1>1 DEF ProbePCs, EnablePCs
  <2>2. UNCHANGED <<fdev_list, fdt, offset, tried>> /\ (fdev_list # {} => state' = "Base probed")
    BY <1>1, <1>3, <1>6
  <2>. QED
    BY <1>1, <1>2, <1>6, <2>1, <2>2, WalkAside
<1>7. CASE state = "Idle" /\ CallProbeAll(w, "p_state")
  <2>1. PICK rom \in Roms : fdt' = [fdt EXCEPT ![w] = rom]
    BY <1>7 DEF CallProbeAll
  <2>2. pc' = [pc EXCEPT ![w] = "p_header"] /\ pc'[w] = "p_header"
    BY <1>1, <1>7 DEF CallProbeAll, Typed
  <2>3. WalkTyped' /\ fdt'[w] = rom /\ tried'[w] = {}
    BY <1>1, <2>1 DEF WalkInv, WalkTyped, WalkStands
  <2>4. WalkStands(w)'
    BY <1>1, <1>7, <2>2, <2>3 DEF WalkStands
  <2>. QED
    BY <1>1, <1>2, <1>3, <1>7, <2>2, <2>3, <2>4, OwnWalkStep
<1>8. CASE StateDisable(w) \/ StateUnprobe(w)
  BY <1>1, <1>4, <1>6, <1>8 DEF StateDisable, StateUnprobe, Done, Refuse, CallRemoveAll, Typed
<1>9. CASE StateEnable(w) \/ PrintRom(w) \/ UnknownData(w)
  BY <1>4, <1>5, <1>9 DEF StateEnable, PrintRom, UnknownData, Done, Refuse
<1>10. CASE StateProbe(w)
  BY <1>4, <1>7, <1>10 DEF StateProbe, Done, Refuse
<1>. QED
  BY <1>8, <1>9, <1>10

\* The removal of the subdrivers, before the tree of the write is looked at.
LEMMA WalkRemoveStep ==
    ASSUME SubdriverInv, WalkInv, NEW w \in Jobs, RemoveOne(w) \/ RemoveDone(w)
    PROVE  WalkInv'
<1> USE DEF Goto, aerVars, walkVars
<1>1. /\ pc[w] = "remove" /\ back[w] \in {"idle", "d_read", "p_header"} /\ Typed /\ WalkStands(w)
      /\ UNCHANGED <<fdt, offset, tried>>
  BY DEF RemoveOne, RemoveDone, SubdriverInv, WriteStands, WalkInv
<1>2. \A d \in Jobs \ {w} : pc[d] = "idle"
  BY <1>1, OthersIdle DEF SubdriverInv
<1>3. WalkTyped' /\ tried'[w] = {} /\ \A d \in Jobs \ {w} : tried'[d] = tried[d]
  BY <1>1 DEF WalkInv, WalkTyped, WalkStands
<1>4. CASE RemoveOne(w)
  <2>1. UNCHANGED <<pc, state, back>> /\ fdev_list' \subseteq fdev_list
    BY <1>4 DEF RemoveOne
  <2>2. pc' = [pc EXCEPT ![w] = "remove"] /\ pc'[w] = "remove"
    BY <1>1, <2>1 DEF Typed
  <2>3. fdev_list # {} => state = "Base probed"
    BY <1>1, <1>2, NothingListed
  <2>4. WalkStands(w)'
    BY <1>1, <1>3, <2>1, <2>2 DEF WalkStands, EnablePCs, ProbePCs
  <2>. QED
    BY <1>1, <1>2, <1>3, <2>1, <2>2, <2>3, <2>4, OwnWalkStep
<1>5. CASE RemoveDone(w)
  <2>1. /\ pc' = [pc EXCEPT ![w] = back[w]] /\ pc'[w] = back[w]
        /\ fdev_list' = {} /\ state' = "Idle"
    BY <1>1, <1>5 DEF RemoveDone, Typed
  <2>2. WalkStands(w)'
    BY <1>1, <1>3, <2>1 DEF WalkStands, EnablePCs, ProbePCs
  <2>. QED
    BY <1>1, <1>2, <1>3, <2>1, <2>2, OwnWalkStep
<1>. QED
  BY <1>4, <1>5

\* The probe: header, one node after the other, end.
LEMMA WalkProbeStep ==
    ASSUME SubdriverInv, WalkInv, NEW w \in Jobs, CheckHeader(w) \/ ProbeOne(w) \/ ProbeDone(w)
    PROVE  WalkInv'
<1> USE DEF Goto, aerVars
<1>1. pc[w] \in ProbePCs /\ pc[w] # "idle" /\ Typed /\ WalkStands(w)
  BY DEF CheckHeader, ProbeOne, ProbeDone, SubdriverInv, WalkInv, ProbePCs
<1>2. \A d \in Jobs \ {w} : pc[d] = "idle"
  BY <1>1, OthersIdle DEF SubdriverInv
<1>3. DOMAIN fdt = Jobs /\ DOMAIN offset = Jobs /\ DOMAIN tried = Jobs
  BY DEF WalkInv, WalkTyped
<1>4. PICK t \in Roms \cup Trees : t = fdt[w]
  BY <1>1 DEF WalkStands, ProbePCs
<1>5. Proper(t)
  BY DtbAssumption
<1>6. ASSUME NEW p, pc' = [pc EXCEPT ![w] = p], p = "idle", Forget(w),
             fdev_list' # {} => state' = "Base probed"
      PROVE  WalkInv'
  <2>1. pc'[w] = "idle" /\ WalkTyped' /\ tried'[w] = {} /\ \A d \in Jobs \ {w} : tried'[d] = tried[d]
    BY <1>1, <1>3, <1>6 DEF Forget, WalkTyped, Typed
  <2>2. WalkStands(w)'
    BY <2>1 DEF WalkStands, EnablePCs, ProbePCs
  <2>. QED
    BY <1>1, <1>2, <1>6, <2>1, <2>2, OwnWalkStep
<1>7. ASSUME NEW i \in Readable(t), t.tags[i].tag = "FDT_BEGIN_NODE", UNCHANGED fdt,
             offset' = [offset EXCEPT ![w] = fdt_next_node(t, i - 1)],
             tried'[w] = CoresTo(t, i, bar_addrs)
      PROVE  Walked(w)'
  <2>1. offset'[w] = fdt_next_node(t, i - 1) /\ fdt'[w] = t
    BY <1>3, <1>4, <1>7
  <2>2. CASE /\ offset'[w] \in Nat /\ 1 <= offset'[w] /\ offset'[w] + 1 \in Readable(t)
             /\ t.tags[offset'[w] + 1].tag = "FDT_BEGIN_NODE"
             /\ CoresTo(t, offset'[w], bar_addrs) = CoresTo(t, i, bar_addrs)
    BY <1>7, <2>1, <2>2 DEF Walked
  <2>3. CASE offset'[w] \in {-11, -1} /\ Cores(t, bar_addrs) = CoresTo(t, i, bar_addrs)
    BY <1>7, <2>1, <2>3 DEF Walked
  <2>. QED
    BY <1>5, <1>7, <2>1, <2>2, <2>3, CoresOfTheWalk
<1>8. CASE CheckHeader(w)
  <2>1. pc[w] = "p_header" /\ state # "Base probed" /\ tried[w] = {} /\ UNCHANGED <<state, fdev_list>>
    BY <1>1, <1>8 DEF CheckHeader, WalkStands, ProbePCs
  <2>2. fdev_list = {}
    BY <1>2, <2>1, NothingListed
  <2>3. CASE pc' = [pc EXCEPT ![w] = "idle"] /\ Forget(w)
    BY <1>6, <2>1, <2>2, <2>3
  <2>4. CASE /\ pc' = [pc EXCEPT ![w] = "p_nodes"]
             /\ offset' = [offset EXCEPT ![w] = fdt_next_node(fdt[w], 0)]
             /\ UNCHANGED <<fdt, tried>>
    <3>1. 1 \in Readable(t) /\ t.tags[1].tag = "FDT_BEGIN_NODE" /\ CoresTo(t, 1, bar_addrs) = {}
      BY <1>5, RootIsReadable
    <3>2. offset' = [offset EXCEPT ![w] = fdt_next_node(t, 1 - 1)]
      BY <1>4, <2>4
    <3>3. Walked(w)'
      BY <1>7, <2>1, <2>4, <3>1, <3>2
    <3>4. pc'[w] = "p_nodes" /\ WalkTyped' /\ fdt'[w] = t /\ \A d \in Jobs \ {w} : tried'[d] = tried[d]
      BY <1>1, <1>3, <1>4, <2>4, <3>2 DEF Typed, WalkTyped
    <3>5. WalkStands(w)'
      BY <2>1, <2>2, <3>3, <3>4 DEF WalkStands
    <3>. QED
      BY <1>1, <1>2, <2>2, <2>4, <3>4, <3>5, OwnWalkStep
  <2>. QED
    BY <1>8, <2>3, <2>4 DEF CheckHeader
<1>9. CASE ProbeOne(w)
  <2>1. pc[w] = "p_nodes" /\ offset[w] >= 0 /\ UNCHANGED <<pc, state, fdt>>
    BY <1>9 DEF ProbeOne
  <2>2. PICK o \in Nat : /\ o = offset[w] /\ 1 <= o /\ o + 1 \in Readable(t)
                         /\ t.tags[o + 1].tag = "FDT_BEGIN_NODE"
                         /\ tried[w] = CoresTo(t, o, bar_addrs)
    <3>1. Walked(w)
      BY <1>1, <2>1 DEF WalkStands
    <3>2. ~(offset[w] \in {-11, -1})
      BY <2>1
    <3>. QED
      BY <1>4, <3>1, <3>2 DEF Walked
  <2>3. (o + 1) - 1 = o
    OBVIOUS
  <2>4. Registers(t, o, bar_addrs) = Core(t, o + 1, bar_addrs)
    BY <1>5, <2>2, <2>3, RegistersAreTheCore, DtbAssumption DEF DtbAssumption
  <2>5. /\ tried' = [tried EXCEPT ![w] = tried[w] \cup Core(t, o + 1, bar_addrs)]
        /\ fdev_list' \in {fdev_list, Core(t, o + 1, bar_addrs)}
        /\ offset' = [offset EXCEPT ![w] = fdt_next_node(t, o)]
    BY <1>4, <1>9, <2>2, <2>4 DEF ProbeOne
  <2>6. tried'[w] = CoresTo(t, o + 1, bar_addrs) /\ fdev_list' \subseteq tried'[w]
    <3>1. tried'[w] = tried[w] \cup Core(t, o + 1, bar_addrs)
      BY <1>3, <2>5
    <3>2. fdev_list \subseteq tried[w]
      BY <1>1, <2>1 DEF WalkStands
    <3>3. CoresTo(t, o + 1, bar_addrs) = CoresTo(t, o, bar_addrs) \cup Core(t, o + 1, bar_addrs)
      BY <1>5, <2>2, OneMoreCore
    <3>. QED
      BY <2>2, <2>5, <3>1, <3>2, <3>3
  <2>7. Walked(w)'
    BY <1>7, <2>1, <2>2, <2>3, <2>5, <2>6
  <2>8. pc'[w] = "p_nodes" /\ pc' = [pc EXCEPT ![w] = "p_nodes"] /\ WalkTyped' /\ fdt'[w] = t
        /\ \A d \in Jobs \ {w} : tried'[d] = tried[d]
    BY <1>1, <1>3, <1>4, <2>1, <2>5 DEF Typed, WalkTyped
  <2>9. WalkStands(w)'
    BY <1>1, <1>4, <2>1, <2>6, <2>7, <2>8 DEF WalkStands, ProbePCs
  <2>. QED
    BY <1>1, <1>2, <2>8, <2>9, OwnWalkStep
<1>10. CASE ProbeDone(w)
  BY <1>6, <1>10 DEF ProbeDone
<1>. QED
  BY <1>8, <1>9, <1>10

\* Masking, saving, restoring and retraining: nothing is walked, and the driver
\* leaves the state Base probed for none of it.
LEMMA WalkAerStep ==
    ASSUME SubdriverInv, WalkInv, NEW w \in Jobs, AerStep(w)
    PROVE  WalkInv'
<1> USE DEF Goto, privVars
<1>1. UNCHANGED <<fdev_list, fdt, offset, tried, back>> /\ Typed /\ WriteStands(w) /\ WalkStands(w)
  BY DEF AerStep, fdevVars, walkVars, SubdriverInv, WalkInv
<1>2. PICK p \in {"d_mask", "d_save", "d_done", "idle", "e_mask", "e_link", "e_train", "e_done"} :
         /\ pc[w] \in MaskPCs \cup EnablePCs
         /\ pc' = [pc EXCEPT ![w] = p]
         /\ p \in EnablePCs => pc[w] \in EnablePCs
         /\ p # "idle" => state' = state
  <2>1. CASE ReadMask(w) \/ MaskErrors(w) \/ SaveState(w) \/ DisableDone(w)
    BY <2>1 DEF ReadMask, MaskErrors, SaveState, DisableDone, MaskPCs, EnablePCs
  <2>2. CASE RestoreState(w) \/ RestoreMask(w) \/ EnableDone(w)
    BY <2>2 DEF RestoreState, RestoreMask, EnableDone, MaskPCs, EnablePCs
  <2>3. CASE CheckLink(w) \/ PollTraining(w)
    BY <2>3 DEF CheckLink, PollTraining, MaskPCs, EnablePCs
  <2>. QED
    BY <2>1, <2>2, <2>3 DEF AerStep
<1>3. pc[w] # "idle" /\ pc[w] # "p_nodes"
  BY <1>2 DEF MaskPCs, EnablePCs
<1>4. \A d \in Jobs \ {w} : pc[d] = "idle"
  BY <1>3, OthersIdle DEF SubdriverInv
<1>5. fdev_list = {}
  <2>1. CASE pc[w] \in MaskPCs
    BY <1>1, <2>1 DEF WriteStands
  <2>2. CASE pc[w] \in EnablePCs
    BY <1>1, <1>3, <1>4, <2>2, NothingListed DEF WalkStands
  <2>. QED
    BY <1>2, <2>1, <2>2
<1>6. p \notin ProbePCs /\ p # "remove" /\ (p \in EnablePCs => state' # "Base probed")
  BY <1>1, <1>2 DEF ProbePCs, EnablePCs, WalkStands
<1>. QED
  BY <1>1, <1>2, <1>3, <1>4, <1>5, <1>6, WalkAside

\* What processes do outside the kernel: a write begins, with its tree.
LEMMA WalkUserStep ==
    ASSUME SubdriverInv, WalkInv, SerialWrites', NEW w \in Jobs, DebugfsUser(w)
    PROVE  WalkInv'
<1> USE DEF Goto, privVars
<1>1. Typed /\ WalkStands(w) /\ WalkTyped
  BY DEF SubdriverInv, WalkInv
<1>2. ASSUME NEW first \in {"p_state", "u_state", "d_state", "e_state", "print", "unknown", "remove"},
             pc[w] = "idle", pc' = [pc EXCEPT ![w] = first], UNCHANGED <<state, fdev_list, offset, tried>>,
             DOMAIN fdt' = Jobs, first = "remove" => fdt'[w] \in Trees
      PROVE  WalkInv'
  <2>1. pc'[w] = first /\ WalkTyped' /\ tried'[w] = {}
    BY <1>1, <1>2 DEF Typed, WalkTyped, WalkStands
  <2>2. \A d \in Jobs \ {w} : pc[d] = "idle"
    BY <1>1, <1>2, <2>1 DEF SerialWrites, Typed
  <2>3. fdev_list # {} => state = "Base probed"
    BY <1>2, <2>2, NothingListed
  <2>4. WalkStands(w)'
    BY <1>2, <2>1 DEF WalkStands, EnablePCs, ProbePCs
  <2>. QED
    BY <1>1, <1>2, <2>1, <2>2, <2>3, <2>4, OwnWalkStep
<1>3. ASSUME NEW first \in {"p_state", "u_state", "d_state", "e_state", "print", "unknown"},
             Write(w, first, "none", NoTree)
      PROVE  WalkInv'
  <2>1. /\ pc[w] = "idle" /\ pc' = [pc EXCEPT ![w] = first]
        /\ UNCHANGED <<state, fdev_list, offset, tried>>
        /\ DOMAIN fdt' = Jobs /\ first # "remove"
    BY <1>1, <1>3 DEF Write, Ioctl, WalkTyped
  <2>. QED
    BY <1>2, <2>1
<1>4. CASE WriteDtb(w)
  <2>1. PICK tree \in Trees : Write(w, "remove", "p_header", tree)
    BY <1>4 DEF WriteDtb
  <2>2. /\ pc[w] = "idle" /\ pc' = [pc EXCEPT ![w] = "remove"]
        /\ UNCHANGED <<state, fdev_list, offset, tried>>
        /\ DOMAIN fdt' = Jobs /\ fdt'[w] \in Trees
    BY <1>1, <2>1 DEF Write, Ioctl, WalkTyped
  <2>. QED
    BY <1>2, <2>2
<1>5. CASE JtagScript(w)
  BY <1>1, <1>2, <1>5 DEF JtagScript, Script, ScriptEnable, Ioctl, walkVars, WalkTyped
<1>6. CASE WriteFails(w) \/ Outside(w)
  <2>1. UNCHANGED <<pc, state, fdev_list, fdt, offset, tried, back>>
    BY <1>6 DEF WriteFails, Outside, Program, JobDone, Killed, aerVars, fdevVars, walkVars
  <2>. QED
    BY <2>1, WalkUnchanged
<1>. QED
  BY <1>3, <1>4, <1>5, <1>6 DEF DebugfsUser, EchoProbe, EchoUnprobe, EchoDisable, EchoEnable, EchoPrint,
        EchoUnknown

\* Writes one at a time keep the invariant of the walk, whatever proper trees they
\* bring, wherever these end and in whatever state of the driver.
THEOREM WalkInvariant == DebugfsSpec => []WalkInv
<1>1. DebugfsInit => WalkInv
  BY DEF DebugfsInit, Init, WalkInv, WalkTyped, ListedByProbe, WalkStands, EnablePCs, ProbePCs
<1>2. ASSUME SubdriverInv, WalkInv, [DebugfsNext /\ SerialWrites']_debugfsVars
      PROVE  WalkInv'
  <2>1. CASE UNCHANGED debugfsVars
    BY <1>2, <2>1, WalkUnchanged DEF debugfsVars, aerVars, fdevVars, walkVars
  <2>2. CASE TrainingEnds
    BY <1>2, <2>2, WalkUnchanged DEF TrainingEnds, LinkTrained, privVars, fdevVars, walkVars
  <2>3. ASSUME NEW w \in Jobs, DebugfsKernel(w)
        PROVE  WalkInv'
    BY <1>2, <2>3, WalkCommandStep, WalkRemoveStep, WalkProbeStep, WalkAerStep DEF DebugfsKernel
  <2>4. ASSUME NEW w \in Jobs, DebugfsUser(w), SerialWrites'
        PROVE  WalkInv'
    BY <1>2, <2>4, WalkUserStep
  <2>. QED
    BY <1>2, <2>1, <2>2, <2>3, <2>4 DEF DebugfsNext
<1>. QED
  BY <1>1, <1>2, SubdriverInvariant, PTL DEF DebugfsSpec

\* A probe asks for a subdriver at exactly the PR IP cores its tree describes, and
\* what it deploys is one of them, for any writers and any trees in the ROM or
\* written to base_dtb, of any size and depth and wherever they end or are damaged
\* (fpga-pcie.c 783-784, with the walk of libfdt).
THEOREM ProbesFindTheCores == DebugfsSpec => ProbesTheTree
<1> DEFINE Finds == \A w \in Jobs : pc[w] = "p_nodes" /\ pc'[w] = "idle"
                                        => /\ tried[w] = Cores(fdt[w], bar_addrs)
                                           /\ fdev_list' \subseteq tried[w]
<1>1. ASSUME SubdriverInv, WalkInv, [DebugfsNext /\ SerialWrites']_debugfsVars, NEW w \in Jobs,
             pc[w] = "p_nodes", pc'[w] = "idle"
      PROVE  tried[w] = Cores(fdt[w], bar_addrs) /\ fdev_list' \subseteq tried[w]
  <2>1. Typed /\ WalkStands(w) /\ \A d \in Jobs \ {w} : pc[d] = "idle"
    BY <1>1, OthersIdle DEF SubdriverInv, WalkInv
  <2>2. ~TrainingEnds /\ ~UNCHANGED debugfsVars
    BY <1>1 DEF TrainingEnds, LinkTrained, debugfsVars
  <2>3. ASSUME NEW d \in Jobs, DebugfsUser(d)
        PROVE  FALSE
    <3>1. WriteFails(d) \/ Outside(d) => pc' = pc
      BY DEF WriteFails, Outside, Program, JobDone, Killed
    <3>2. \A from, to, first : Ioctl(d, from, to, first) => pc'[w] = pc[w]
      BY <1>1, <2>1 DEF Ioctl, Goto, Typed
    <3>. QED
      BY <1>1, <2>3, <3>1, <3>2 DEF DebugfsUser, EchoProbe, EchoUnprobe, EchoDisable, EchoEnable, EchoPrint,
            EchoUnknown, Write, WriteDtb, JtagScript, Script, ScriptEnable
  <2>4. ASSUME NEW d \in Jobs, DebugfsKernel(d)
        PROVE  ProbeDone(d) /\ d = w
    <3>1. pc[d] # "idle"
      BY <2>4 DEF DebugfsKernel, StateDisable, StateEnable, StateProbe, StateUnprobe, PrintRom, UnknownData, Done,
            Refuse, CallRemoveAll, CallProbeAll, Goto, RemoveOne, RemoveDone, CheckHeader, ProbeOne,
            ProbeDone, AerStep, ReadMask, MaskErrors, SaveState, DisableDone,
            RestoreState, RestoreMask, CheckLink, PollTraining, EnableDone
    <3>2. d = w
      BY <2>1, <3>1
    <3>. QED
      BY <1>1, <2>4, <3>2 DEF DebugfsKernel, StateDisable, StateEnable, StateProbe, StateUnprobe, PrintRom,
            UnknownData, Done, Refuse, CallRemoveAll, CallProbeAll, Goto, RemoveOne, RemoveDone, CheckHeader,
            ProbeOne, AerStep, ReadMask, MaskErrors, SaveState, DisableDone,
            RestoreState, RestoreMask, CheckLink, PollTraining, EnableDone
  <2>5. ProbeDone(w)
    BY <1>1, <2>2, <2>3, <2>4 DEF DebugfsNext
  <2>6. offset[w] < 0 /\ fdev_list' = fdev_list
    BY <2>5 DEF ProbeDone
  <2>7. Walked(w) /\ fdev_list \subseteq tried[w]
    BY <1>1, <2>1 DEF WalkStands
  <2>8. ~(offset[w] \in Nat /\ 1 <= offset[w])
    BY <2>6
  <2>. QED
    BY <2>6, <2>7, <2>8 DEF Walked
<1>2. SubdriverInv /\ WalkInv /\ [DebugfsNext /\ SerialWrites']_debugfsVars => [Finds]_debugfsVars
  BY <1>1
<1>. QED
  BY <1>2, SubdriverInvariant, WalkInvariant, PTL DEF DebugfsSpec, ProbesTheTree

-----------------------------------------------------------------------------
(* The types of the debugfs driver.                                        *)

\* There is at most one subdriver, as all of them get the same name; the offset of
\* a walk that is not under way is 0.
TypesInv ==
    /\ fdev_list = {} \/ \E n : fdev_list = {n}
    /\ polls \in [Jobs -> 0 .. TrainPolls]
    /\ fdt \in [Jobs -> Roms \cup Trees \cup {NoTree}]
    /\ \A w \in Jobs : pc[w] # "p_nodes" => offset[w] = 0

\* A step of the write of w, if no walk is under way.
LEMMA TypesAside ==
    ASSUME Typed, TypesInv, NEW w \in Jobs, pc[w] # "p_nodes", NEW p, pc' = [pc EXCEPT ![w] = p],
           UNCHANGED offset, UNCHANGED fdev_list \/ fdev_list' = {},
           fdt' \in [Jobs -> Roms \cup Trees \cup {NoTree}], polls' \in [Jobs -> 0 .. TrainPolls]
    PROVE  TypesInv'
<1>1. \A d \in Jobs : pc'[d] # "p_nodes" => pc[d] # "p_nodes"
  BY DEF Typed
<1>. QED
  BY <1>1 DEF TypesInv

LEMMA TypesUnchanged ==
    ASSUME TypesInv, UNCHANGED <<pc, fdev_list, fdt, offset, polls>>
    PROVE  TypesInv'
  BY DEF TypesInv

\* The commands, the removal, and masking, saving, restoring and retraining.
LEMMA TypesDriverStep ==
    ASSUME SubdriverInv, TypesInv, NEW w \in Jobs,
           \/ StateDisable(w) \/ StateEnable(w) \/ StateProbe(w) \/ StateUnprobe(w)
           \/ PrintRom(w) \/ UnknownData(w) \/ RemoveDone(w) \/ AerStep(w)
    PROVE  TypesInv'
<1> USE DEF Goto, aerVars, fdevVars, walkVars, privVars
<1>1. pc[w] # "p_nodes" /\ (\E p : pc' = [pc EXCEPT ![w] = p]) /\ UNCHANGED <<offset, fdev_list>>
  <2>1. CASE \/ StateDisable(w) \/ StateEnable(w) \/ StateProbe(w) \/ StateUnprobe(w)
             \/ PrintRom(w) \/ UnknownData(w) \/ RemoveDone(w)
    BY <2>1 DEF StateDisable, StateEnable, StateProbe, StateUnprobe, PrintRom, UnknownData, Done, Refuse,
          CallRemoveAll, CallProbeAll, RemoveDone
  <2>2. CASE AerStep(w)
    BY <2>2 DEF AerStep, ReadMask, MaskErrors, SaveState, DisableDone, RestoreState, RestoreMask, CheckLink,
          PollTraining, EnableDone
  <2>. QED
    BY <2>1, <2>2
<1>2. UNCHANGED fdt \/ \E rom \in Roms : fdt' = [fdt EXCEPT ![w] = rom]
  BY DEF StateDisable, StateEnable, StateProbe, StateUnprobe, PrintRom, UnknownData, Done, Refuse,
        CallRemoveAll, CallProbeAll, RemoveDone, AerStep
<1>3. fdt' \in [Jobs -> Roms \cup Trees \cup {NoTree}]
  BY <1>2 DEF TypesInv
<1>4. polls' \in [Jobs -> 0 .. TrainPolls]
  <2>1. CASE AerStep(w) /\ PollTraining(w)
    <3>1. TrainPolls \in Nat /\ polls[w] \in 0 .. TrainPolls
      BY AerAssumption DEF AerAssumption, TypesInv
    <3>2. \E n \in 0 .. TrainPolls : polls' = [polls EXCEPT ![w] = n]
      <4>1. CASE polls' = [polls EXCEPT ![w] = 0]
        <5>1. 0 \in 0 .. TrainPolls
          BY <3>1
        <5>. QED
          BY <4>1, <5>1
      <4>2. CASE polls[w] < TrainPolls /\ polls' = [polls EXCEPT ![w] = polls[w] + 1]
        <5>1. polls[w] + 1 \in 0 .. TrainPolls
          BY <3>1, <4>2
        <5>. QED
          BY <4>2, <5>1
      <4>. QED
        BY <2>1, <4>1, <4>2 DEF PollTraining
    <3>. QED
      BY <3>2 DEF TypesInv
  <2>2. CASE ~(AerStep(w) /\ PollTraining(w))
    <3>1. polls' = polls
      BY <2>2 DEF StateDisable, StateEnable, StateProbe, StateUnprobe, PrintRom, UnknownData, RemoveDone,
            AerStep, ReadMask, MaskErrors, SaveState, DisableDone, RestoreState, RestoreMask, CheckLink,
            EnableDone
    <3>. QED
      BY <3>1 DEF TypesInv
  <2>. QED
    BY <2>1, <2>2
<1>. QED
  BY <1>1, <1>3, <1>4, TypesAside DEF SubdriverInv

\* The list and the walk.
LEMMA TypesWalkStep ==
    ASSUME SubdriverInv, WalkInv, TypesInv, NEW w \in Jobs,
           RemoveOne(w) \/ CheckHeader(w) \/ ProbeOne(w) \/ ProbeDone(w)
    PROVE  TypesInv'
<1> USE DEF Goto, aerVars, walkVars
<1>1. Typed /\ WalkTyped /\ polls' = polls
  BY DEF SubdriverInv, WalkInv, RemoveOne, CheckHeader, ProbeOne, ProbeDone
<1>2. ASSUME Forget(w), UNCHANGED fdev_list, NEW p, pc' = [pc EXCEPT ![w] = p]
      PROVE  TypesInv'
  <2>1. fdt' \in [Jobs -> Roms \cup Trees \cup {NoTree}]
    BY <1>2 DEF Forget, TypesInv
  <2>2. \A d \in Jobs : pc'[d] # "p_nodes" => offset'[d] = 0
    BY <1>1, <1>2 DEF Forget, TypesInv, Typed, WalkTyped
  <2>. QED
    BY <1>1, <1>2, <2>1, <2>2 DEF TypesInv
<1>3. CASE RemoveOne(w)
  <2>1. fdev_list' = {}
    BY <1>3 DEF RemoveOne, TypesInv
  <2>. QED
    BY <1>1, <1>3, <2>1 DEF RemoveOne, TypesInv
<1>4. CASE CheckHeader(w)
  <2>1. CASE Forget(w) /\ pc' = [pc EXCEPT ![w] = "idle"]
    BY <1>2, <1>4, <2>1 DEF CheckHeader
  <2>2. CASE /\ pc' = [pc EXCEPT ![w] = "p_nodes"] /\ UNCHANGED <<fdt, tried>>
             /\ offset' = [offset EXCEPT ![w] = fdt_next_node(fdt[w], 0)]
    <3>1. \A d \in Jobs : pc'[d] # "p_nodes" => offset'[d] = 0
      BY <1>1, <2>2 DEF TypesInv, Typed, WalkTyped
    <3>. QED
      BY <1>1, <1>4, <2>2, <3>1 DEF CheckHeader, TypesInv
  <2>. QED
    BY <1>4, <2>1, <2>2 DEF CheckHeader
<1>5. CASE ProbeOne(w)
  <2>1. /\ pc[w] = "p_nodes" /\ UNCHANGED <<pc, fdt>>
        /\ fdev_list' \in {fdev_list, Registers(fdt[w], offset[w], bar_addrs)}
        /\ \E n : offset' = [offset EXCEPT ![w] = n]
    BY <1>5 DEF ProbeOne
  <2>2. fdev_list' = {} \/ \E n : fdev_list' = {n}
    BY <2>1 DEF TypesInv, Registers
  <2>3. \A d \in Jobs : pc'[d] # "p_nodes" => offset'[d] = 0
    BY <1>1, <2>1 DEF TypesInv, WalkTyped
  <2>. QED
    BY <1>1, <2>1, <2>2, <2>3 DEF TypesInv
<1>6. CASE ProbeDone(w)
  BY <1>2, <1>6 DEF ProbeDone
<1>. QED
  BY <1>3, <1>4, <1>5, <1>6

LEMMA TypesUserStep ==
    ASSUME SubdriverInv, TypesInv, NEW w \in Jobs, DebugfsUser(w)
    PROVE  TypesInv'
<1> USE DEF Goto, privVars
<1>1. Typed
  BY DEF SubdriverInv
<1>2. ASSUME NEW first, NEW next, NEW tree \in Trees \cup {NoTree}, Write(w, first, next, tree)
      PROVE  TypesInv'
  <2>1. fdt' \in [Jobs -> Roms \cup Trees \cup {NoTree}] /\ polls' = polls
    BY <1>2 DEF Write, Ioctl, TypesInv
  <2>2. pc[w] # "p_nodes" /\ pc' = [pc EXCEPT ![w] = first] /\ UNCHANGED <<offset, fdev_list>>
    BY <1>2 DEF Write, Ioctl
  <2>. QED
    BY <1>1, <2>1, <2>2, TypesAside DEF TypesInv
<1>3. CASE WriteDtb(w)
  BY <1>2, <1>3 DEF WriteDtb
<1>4. CASE JtagScript(w)
  <2>1. pc[w] # "p_nodes" /\ (\E p : pc' = [pc EXCEPT ![w] = p]) /\ UNCHANGED <<offset, fdev_list, fdt, polls>>
    BY <1>4 DEF JtagScript, Script, ScriptEnable, Ioctl, walkVars
  <2>. QED
    BY <1>1, <2>1, TypesAside DEF TypesInv
<1>5. CASE WriteFails(w) \/ Outside(w)
  <2>1. UNCHANGED <<pc, fdev_list, fdt, offset, polls>>
    BY <1>5 DEF WriteFails, Outside, Program, JobDone, Killed, aerVars, fdevVars, walkVars
  <2>. QED
    BY <2>1, TypesUnchanged
<1>. QED
  BY <1>2, <1>3, <1>4, <1>5 DEF DebugfsUser, EchoProbe, EchoUnprobe, EchoDisable, EchoEnable, EchoPrint,
        EchoUnknown

\* The driver and its writers keep their types: at most one subdriver is deployed,
\* no walk leaves its tree, and the training loop stays within its bound.
THEOREM DebugfsTypeCorrect == DebugfsSpec => []DebugfsTypeOK
<1>1. DebugfsInit => TypesInv
  BY AerAssumption DEF AerAssumption, DebugfsInit, Init, TypesInv
<1>2. ASSUME SubdriverInv, WalkInv, TypesInv, [DebugfsNext /\ SerialWrites']_debugfsVars
      PROVE  TypesInv'
  <2>1. CASE UNCHANGED debugfsVars
    BY <1>2, <2>1, TypesUnchanged DEF debugfsVars, aerVars, fdevVars, walkVars
  <2>2. CASE TrainingEnds
    BY <1>2, <2>2, TypesUnchanged DEF TrainingEnds, LinkTrained, privVars, fdevVars, walkVars
  <2>3. ASSUME NEW w \in Jobs, DebugfsKernel(w)
        PROVE  TypesInv'
    BY <1>2, <2>3, TypesDriverStep, TypesWalkStep DEF DebugfsKernel
  <2>4. ASSUME NEW w \in Jobs, DebugfsUser(w)
        PROVE  TypesInv'
    BY <1>2, <2>4, TypesUserStep
  <2>. QED
    BY <1>2, <2>1, <2>2, <2>3, <2>4 DEF DebugfsNext
<1>3. ASSUME SubdriverInv, WalkInv, TypesInv
      PROVE  DebugfsTypeOK
  <2>1. Cardinality(fdev_list) <= 1
    <3>1. CASE fdev_list = {}
      BY <3>1, FS_EmptySet
    <3>2. ASSUME NEW n, fdev_list = {n}
          PROVE  Cardinality(fdev_list) = 1
      BY <3>2, FS_Singleton
    <3>. QED
      BY <1>3, <3>1, <3>2 DEF TypesInv
  <2>2. ASSUME NEW w \in Jobs
        PROVE  offset[w] \in -FDT_ERR_BADSTRUCTURE .. Len(fdt[w].tags)
    <3>1. PICK t \in Roms \cup Trees \cup {NoTree} : t = fdt[w]
      BY <1>3 DEF TypesInv
    <3>2. Len(t.tags) \in Nat
      <4>1. CASE t = NoTree
        BY <4>1 DEF NoTree, Blob
      <4>2. CASE t \in Roms \cup Trees
        BY <4>2, ProperIsTyped, DtbAssumption DEF DtbAssumption
      <4>. QED
        BY <4>1, <4>2
    <3>3. CASE pc[w] # "p_nodes"
      BY <1>3, <3>1, <3>2, <3>3 DEF TypesInv, FDT_ERR_BADSTRUCTURE
    <3>4. CASE pc[w] = "p_nodes"
      <4>1. Walked(w)
        BY <1>3, <3>4 DEF WalkInv, WalkStands
      <4>2. CASE offset[w] \in Nat /\ offset[w] + 1 \in Readable(t)
        BY <3>1, <3>2, <4>2 DEF Readable, FDT_ERR_BADSTRUCTURE
      <4>3. CASE offset[w] \in {-11, -1}
        BY <3>1, <3>2, <4>3 DEF FDT_ERR_BADSTRUCTURE
      <4>. QED
        BY <3>1, <4>1, <4>2, <4>3 DEF Walked
    <3>. QED
      BY <3>3, <3>4
  <2>. QED
    BY <1>3, <2>1, <2>2 DEF DebugfsTypeOK, SubdriverInv, Typed, TypesInv
<1>. QED
  BY <1>1, <1>2, <1>3, SubdriverInvariant, WalkInvariant, PTL DEF DebugfsSpec
=============================================================================
