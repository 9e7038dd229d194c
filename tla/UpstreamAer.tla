----------------------------- MODULE UpstreamAer -----------------------------
(***************************************************************************)
(* Reprogramming the whole FPGA under a running PCIe link: the ioctls      *)
(* DISABLE_UPSTREAM_AER and ENABLE_UPSTREAM_AER (my_ioctl() and its        *)
(* helpers in fpga-pcie.c), issued by fpga-configure -d and -e and by the  *)
(* script program-fpga-jtag, which runs -d, quartus_pgm and -e.            *)
(*                                                                         *)
(* The card vanishes from the bus while it is programmed.  The upstream    *)
(* port must not report that as a fatal error, and afterwards must report  *)
(* errors as before; the card needs its configuration space back and its   *)
(* link at full speed.  One step is one access to priv or to a             *)
(* configuration register; no lock is taken.  The error status, which a    *)
(* write clears along with each change of the mask, is left out.           *)
(***************************************************************************)
EXTENDS Naturals

CONSTANTS
    Jobs,          \* processes: scripts, or single fpga-configure -d or -e
    OtherBits,     \* error bits of the mask the driver does not touch
    OrigMask,      \* the mask the system was booted with
    TrainPolls,    \* polls for the end of the link training (50)
    PgmFails       \* quartus_pgm may fail and leave no working card

DriverBits == {"SURPDN", "COMP_TIME", "UNSUP"}

ASSUME AerAssumption ==
    /\ OrigMask \subseteq OtherBits \cup DriverBits
    /\ TrainPolls \in Nat
    /\ PgmFails \in BOOLEAN

VARIABLES
    mask,          \* uncorrectable error mask of the upstream port
    aer_uerr_mask_reg,   \* priv->aer_uerr_mask_reg
    state,         \* priv->state
    saved,         \* what pci_save_state() saved, "none" once restored
    card,          \* the card's configuration space
    link,          \* the link: full speed and width, or degraded
    training,      \* the LT bit of the upstream port
    reported,      \* a fatal error was reported to the system
    step,          \* step[j]: what job j does next outside the kernel
    pc,            \* pc[j]: the next step of job j inside an ioctl
    reg,           \* reg[j]: the mask disable_upstream_aer() read, {} when dead
    polls          \* polls[j]: the counter of the training loop, 0 outside it

privVars == <<aer_uerr_mask_reg, state>>
cardVars == <<card, link, training, reported>>
vars == <<mask, aer_uerr_mask_reg, state, saved, card, link, training,
          reported, step, pc, reg, polls>>

PCs == {"idle", "d_state", "d_read", "d_mask", "d_save", "d_done",
        "e_state", "e_restore", "e_mask", "e_link", "e_train", "e_done"}

TypeOK ==
    /\ mask \subseteq OtherBits \cup DriverBits
    /\ aer_uerr_mask_reg \subseteq OtherBits \cup DriverBits
    /\ state \in {"Idle", "AER disabled"}
    /\ saved \in {"none", "configured", "blank", "garbage"}
    /\ card \in {"configured", "blank", "garbage", "absent"}
    /\ link \in {"full", "degraded", "down"}
    /\ training \in BOOLEAN
    /\ reported \in BOOLEAN
    /\ step \in [Jobs -> {"off", "script -d", "program", "script -e", "single"}]
    /\ pc \in [Jobs -> PCs]
    /\ reg \in [Jobs -> SUBSET (OtherBits \cup DriverBits)]
    /\ polls \in [Jobs -> 0 .. TrainPolls]

-----------------------------------------------------------------------------
Goto(j, from, to) ==
    /\ pc[j] = from
    /\ pc' = [pc EXCEPT ![j] = to]

(* FPGA_DISABLE_UPSTREAM_AER.                                              *)

\* Fault: -d a second time does it all again.
DisableStateUnchecked(j) ==
    /\ Goto(j, "d_state", "d_read")
    /\ UNCHANGED <<mask, privVars, saved, cardVars, step, reg, polls>>

\* Nothing to do when AER is already disabled.
DisableState(j) ==
    /\ Goto(j, "d_state", IF state = "AER disabled" THEN "idle" ELSE "d_read")
    /\ UNCHANGED <<mask, privVars, saved, cardVars, step, reg, polls>>

\* disable_upstream_aer(): get_aer_uerr_mask_reg().
ReadMask(j) ==
    /\ Goto(j, "d_read", "d_mask")
    /\ reg' = [reg EXCEPT ![j] = mask]
    /\ UNCHANGED <<mask, privVars, saved, cardVars, step, polls>>

\* Fault: surprise down is left out of the bits that are masked.
MaskErrorsTooFew(j) ==
    /\ Goto(j, "d_mask", "d_save")
    /\ mask' = reg[j] \cup (DriverBits \ {"SURPDN"})
    /\ aer_uerr_mask_reg' = reg[j]
    /\ reg' = [reg EXCEPT ![j] = {}]
    /\ UNCHANGED <<state, saved, cardVars, step, polls>>

\* ... and set_aer_uerr_mask_reg(); the value read comes back to the ioctl, which
\* keeps it; one job at a time, nobody reads it before the state is set.
MaskErrors(j) ==
    /\ Goto(j, "d_mask", "d_save")
    /\ mask' = reg[j] \cup DriverBits
    /\ aer_uerr_mask_reg' = reg[j]
    /\ reg' = [reg EXCEPT ![j] = {}]
    /\ UNCHANGED <<state, saved, cardVars, step, polls>>

\* pci_save_state(): an absent card reads as all ones.
SaveState(j) ==
    /\ Goto(j, "d_save", "d_done")
    /\ saved' = IF card = "absent" THEN "garbage" ELSE card
    /\ UNCHANGED <<mask, privVars, cardVars, step, reg, polls>>

DisableDone(j) ==
    /\ Goto(j, "d_done", "idle")
    /\ state' = "AER disabled"
    /\ UNCHANGED <<mask, aer_uerr_mask_reg, saved, cardVars, step, reg, polls>>

(* FPGA_ENABLE_UPSTREAM_AER.                                               *)

\* Nothing to do when the driver is idle; there is no third state.
EnableState(j) ==
    /\ Goto(j, "e_state", IF state = "AER disabled" THEN "e_restore" ELSE "idle")
    /\ UNCHANGED <<mask, privVars, saved, cardVars, step, reg, polls>>

\* pci_restore_state(): once per save, and an absent card takes no write.
RestoreState(j) ==
    /\ Goto(j, "e_restore", "e_mask")
    /\ card' = IF saved = "none" \/ card = "absent" THEN card ELSE saved
    /\ saved' = "none"
    /\ UNCHANGED <<mask, privVars, link, training, reported, step, reg, polls>>

RestoreMask(j) ==
    /\ Goto(j, "e_mask", "e_link")
    /\ mask' = aer_uerr_mask_reg
    /\ UNCHANGED <<privVars, saved, cardVars, step, reg, polls>>

\* retrain_device_speed(): an absent card has no PCIe capability, a link at
\* full speed and width is left alone, any other is trained again.
CheckLink(j) ==
    /\ \/ /\ card = "absent" \/ link = "full"
          /\ Goto(j, "e_link", "e_done")
          /\ UNCHANGED training
       \/ /\ card # "absent" /\ link # "full"
          /\ Goto(j, "e_link", "e_train")
          /\ training' = TRUE
    /\ UNCHANGED <<mask, privVars, saved, card, link, reported, step, reg, polls>>

\* Fault: the loop waits for the training alone.
PollTrainingForever(j) ==
    /\ ~training
    /\ Goto(j, "e_train", "e_done")
    /\ UNCHANGED <<mask, privVars, saved, cardVars, step, reg, polls>>

\* Fault: one poll too many.
PollTrainingLate(j) ==
    /\ Goto(j, "e_train", IF training /\ polls[j] <= TrainPolls THEN "e_train" ELSE "e_done")
    /\ polls' = [polls EXCEPT ![j] = IF training /\ @ <= TrainPolls THEN @ + 1 ELSE 0]
    /\ UNCHANGED <<mask, privVars, saved, cardVars, step, reg>>

\* One turn of the training loop: it ends with the training or the polls.
PollTraining(j) ==
    /\ \/ /\ ~training \/ polls[j] = TrainPolls
          /\ Goto(j, "e_train", "e_done")
          /\ polls' = [polls EXCEPT ![j] = 0]
       \/ /\ training /\ polls[j] < TrainPolls
          /\ Goto(j, "e_train", "e_train")
          /\ polls' = [polls EXCEPT ![j] = @ + 1]
    /\ UNCHANGED <<mask, privVars, saved, cardVars, step, reg>>

EnableDone(j) ==
    /\ Goto(j, "e_done", "idle")
    /\ state' = "Idle"
    /\ UNCHANGED <<mask, aer_uerr_mask_reg, saved, cardVars, step, reg, polls>>

-----------------------------------------------------------------------------
(* The link, fpga-configure and the script.                                *)

\* A training ends at full speed or not.
LinkTrained ==
    /\ training
    /\ training' = FALSE
    /\ link' \in {"full", "degraded"}
    /\ UNCHANGED <<mask, privVars, saved, card, reported, step, pc, reg, polls>>

\* Job j issues its next ioctl, whose first step is at label first.
Ioctl(j, from, to, first) ==
    /\ step[j] = from
    /\ step' = [step EXCEPT ![j] = to]
    /\ Goto(j, "idle", first)
    /\ UNCHANGED <<mask, privVars, saved, cardVars, reg, polls>>

Script(j) == Ioctl(j, "off", "script -d", "d_state")

SingleDisable(j) == Ioctl(j, "off", "single", "d_state")

SingleEnable(j) == Ioctl(j, "off", "single", "e_state")

\* quartus_pgm: the card drops off the bus, which the upstream port reports
\* unless surprise down is masked, and comes back blank, or does not.
Program(j) ==
    /\ step[j] = "script -d" /\ pc[j] = "idle"
    /\ step' = [step EXCEPT ![j] = "program"]
    /\ reported' = (reported \/ "SURPDN" \notin mask)
    /\ \/ card' = "blank" /\ link' \in {"full", "degraded"}
       \/ PgmFails /\ card' = "absent" /\ link' = "down"
    /\ training' = FALSE
    /\ UNCHANGED <<mask, privVars, saved, pc, reg, polls>>

\* The script goes on whatever quartus_pgm returned.
ScriptEnable(j) == Ioctl(j, "program", "script -e", "e_state")

\* The script or the single command ends.
JobDone(j) ==
    /\ step[j] \in {"script -e", "single"} /\ pc[j] = "idle"
    /\ step' = [step EXCEPT ![j] = "off"]
    /\ UNCHANGED <<mask, privVars, saved, cardVars, pc, reg, polls>>

\* The script is interrupted between two of its commands.
Killed(j) ==
    /\ step[j] \in {"script -d", "program"} /\ pc[j] = "idle"
    /\ step' = [step EXCEPT ![j] = "off"]
    /\ UNCHANGED <<mask, privVars, saved, cardVars, pc, reg, polls>>

-----------------------------------------------------------------------------
Init ==
    /\ mask = OrigMask
    /\ aer_uerr_mask_reg = {}
    /\ state = "Idle"
    /\ saved = "none"
    /\ card = "configured"
    /\ link = "full"
    /\ training = FALSE
    /\ reported = FALSE
    /\ step = [j \in Jobs |-> "off"]
    /\ pc = [j \in Jobs |-> "idle"]
    /\ reg = [j \in Jobs |-> {}]
    /\ polls = [j \in Jobs |-> 0]

Kernel(j) ==
    \/ DisableState(j) \/ ReadMask(j) \/ MaskErrors(j) \/ SaveState(j) \/ DisableDone(j)
    \/ EnableState(j) \/ RestoreState(j) \/ RestoreMask(j) \/ CheckLink(j)
    \/ PollTraining(j) \/ EnableDone(j)

User(j) ==
    \/ Script(j) \/ SingleDisable(j) \/ SingleEnable(j)
    \/ Program(j) \/ ScriptEnable(j) \/ JobDone(j) \/ Killed(j)

Next == LinkTrained \/ \E j \in Jobs : Kernel(j) \/ User(j)

Spec == Init /\ [][Next]_vars

Serial == \A i, j \in Jobs : step[i] # "off" /\ step[j] # "off" => i = j

SerialSpec == Init /\ [][Next /\ Serial']_vars

\* Threads in the kernel keep running; the link may train for ever.
Fairness == \A j \in Jobs : WF_vars(Kernel(j))

FairSerialSpec == SerialSpec /\ Fairness

-----------------------------------------------------------------------------
(* Properties.                                                             *)

Quiet == \A j \in Jobs : pc[j] = "idle"

\* Between ioctls the upstream port either reports errors exactly as it did
\* at boot, or is masked with the boot mask kept for later: no sequence of
\* -d, -e, scripts and interrupts loses it (ioctl 498-541).
MaskKept ==
    Quiet =>
        \/ state = "Idle" /\ mask = OrigMask
        \/ /\ state = "AER disabled"
           /\ mask = OrigMask \cup DriverBits
           /\ aer_uerr_mask_reg = OrigMask

\* Reprogramming the card from the script is never reported as an error:
\* whoever interrupted or repeated what before, the port is masked by then.
NeverReported == ~reported

\* When the driver is idle between ioctls the card is never left blank: an
\* interrupted script does not make a later -d save the blank card over the
\* good copy (500-513, 519-532).  Only a programming that failed costs the
\* saved configuration: the card is absent then, or was when -d saved it.
CardRestored == Quiet /\ state = "Idle" => card # "blank"

\* Every ioctl returns, even if the link never finishes training (227-233).
IoctlReturns == \A j \in Jobs : pc[j] # "idle" ~> pc[j] = "idle"
=============================================================================
