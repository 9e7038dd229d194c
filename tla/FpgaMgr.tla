------------------------------ MODULE FpgaMgr ------------------------------
(***************************************************************************)
(* The FPGA manager of the debugfs driver (drivers/fpga): fpga-mgr.c, its  *)
(* debugfs files (fpga-mgr-debugfs.c) and the PR IP cores it drives        *)
(* (altera-pr-ip-core.c and _s10.c).                                       *)
(*                                                                         *)
(* A write to "firmware_name" or to "image" is a load.  Both files go past *)
(* the manager's ref_mutex, which only of_fpga_mgr_get() takes.  The files *)
(* "flags" and "config_to" may be written at any time, also during a load. *)
(* The manager comes and goes with the subdriver: its removal waits for    *)
(* the writes under way, as debugfs_remove_recursive() does.               *)
(*                                                                         *)
(* The accesses to the PR IP are those ConfigLoad models; the image is in  *)
(* memory, so that no file read can fail between them.                     *)
(***************************************************************************)
EXTENDS Naturals, Sequences

CONSTANTS
    Writers,       \* threads that write to the debugfs files
    Images,        \* images; their names are the names of the firmware files
    Size, PofMatch, Family, Verbose, ChunkWords, InitPolls,  \* see ConfigLoad
    RbfIdBytes,    \* ALT_PR_RBF_ID_OFST (284)
    MaxTimeout     \* the largest config_complete_timeout_us anyone sets

ASSUME MgrAssumption ==
    /\ Images \cap {"none", "partial", "NULL"} = {}
    /\ Size \in [Images -> Nat]
    /\ PofMatch \subseteq Images
    /\ Verbose \in BOOLEAN
    /\ Family \in {"a10", "s10"}
    /\ ChunkWords \in Nat \ {0}
    /\ InitPolls \in Nat /\ RbfIdBytes \in Nat /\ MaxTimeout \in Nat

VARIABLES
    status, start, stream, loaded,   \* the PR IP, see ConfigLoad
    pof_id,        \* its POF ID register: not there, zero, or set; fixed
    state,         \* mgr->state
    pc, loc, ret,  \* per writer, see ConfigLoad
    registered,    \* the manager and its debugfs files exist
    flags,         \* FPGA_MGR_PARTIAL_RECONFIG is set in debugfs->info
    config_to,     \* debugfs->info.config_complete_timeout_us
    firmware_name  \* debugfs->firmware_name, "NULL" if there is none

Pr == INSTANCE ConfigLoad
        WITH Callers <- Writers, config_state <- state,
             HeaderBytes <- 4, ConfigTimeout <- MaxTimeout, PofCheck <- FALSE

loadVars == <<status, start, stream, loaded, state, pc, loc, ret>>
mgrVars == <<registered, flags, config_to, firmware_name, pof_id>>
vars == <<loadVars, mgrVars>>

PCs == Pr!PCs \cup {"named", "unnamed", "firmware", "init_flags"}

\* mgr->state while a step of a load is under way, and after one.
StepStates == {"FIRMWARE_REQ", "WRITE_INIT", "WRITE", "WRITE_COMPLETE"}

RestStates ==
    {"UNKNOWN", "RESET", "FIRMWARE_REQ_ERR", "WRITE_INIT_ERR", "WRITE_ERR",
     "WRITE_COMPLETE_ERR", "OPERATING"}

TypeOK ==
    /\ status \in Pr!Statuses
    /\ start \in BOOLEAN
    /\ stream \in Seq({Pr!Garbage} \cup UNION {Pr!WordsOf(m) : m \in Images})
    /\ loaded \in Images \cup {"none", "partial"}
    /\ pof_id \in {"none", "zero", "set"}
    /\ state \in StepStates \cup RestStates
    /\ pc \in [Writers -> PCs]
    /\ loc \in [Writers -> [img : Images \cup {"none"}, offset : Nat, polls : Nat,
                           val : Pr!Statuses]]
    /\ \A w \in Writers :
          IF pc[w] = "idle" THEN loc[w] = Pr!NoLocals
          ELSE /\ loc[w].img \in Images
               /\ loc[w].offset <= Size[loc[w].img]
               /\ loc[w].polls <= IF pc[w] = "complete" THEN MaxTimeout ELSE InitPolls
    /\ ret \in [Writers -> {"none", "ok", "ENOENT", "EINVAL", "EIO", "ETIMEDOUT"}]
    /\ registered \in BOOLEAN /\ flags \in BOOLEAN
    /\ config_to \in 0 .. MaxTimeout
    /\ firmware_name \in Images \cup {"NULL"}

\* alt_pr_fpga_state(): what the low level driver reads from the IP.
FpgaState == Pr!FpgaState

-----------------------------------------------------------------------------
(* The debugfs files and the two ways to begin a load.                     *)

\* A writer enters the driver with image m; mgr->state is as it was.
Begin(w, m, first) ==
    /\ registered
    /\ Pr!Goto(w, "idle", first)
    /\ loc' = [loc EXCEPT ![w].img = m]
    /\ ret' = [ret EXCEPT ![w] = "none"]
    /\ UNCHANGED <<status, start, stream, loaded, state, registered, flags, config_to, pof_id>>

\* fpga_mgr_firmware_write_file(): remember the name.
WriteFirmwareName(w, m) ==
    /\ Begin(w, m, "named")
    /\ firmware_name' = m

\* Fault: the name of an earlier firmware file is kept.
WriteImageKeepsName(w, m) ==
    /\ Begin(w, m, "unnamed")
    /\ UNCHANGED firmware_name

\* fpga_mgr_image_write_file(): forget the name.
WriteImage(w, m) ==
    /\ Begin(w, m, "unnamed")
    /\ firmware_name' = "NULL"

\* The u32 files: any value, at any time.
SetInfo(f, t) ==
    /\ registered
    /\ flags' = f
    /\ config_to' = t
    /\ UNCHANGED <<loadVars, registered, firmware_name, pof_id>>

-----------------------------------------------------------------------------
(* fpga_mgr_firmware_load() and fpga_mgr_buf_load().                       *)

\* The load proper begins: mgr->state tells its first step.
Enter(w, from, to, st) ==
    /\ Pr!Goto(w, from, to)
    /\ state' = st
    /\ UNCHANGED <<status, start, stream, loaded, loc, ret>>

\* fpga_mgr_firmware_load() after a write of a name, fpga_mgr_buf_load() after
\* a write of an image.
FirmwareLoad(w) == Enter(w, "named", "firmware", "FIRMWARE_REQ")

BufLoad(w) == Enter(w, "unnamed", "init_flags", "WRITE_INIT")

\* request_firmware() finds the file or not.
RequestFirmware(w) ==
    /\ \/ Pr!Return(w, "firmware", "ENOENT", "FIRMWARE_REQ_ERR")
       \/ /\ Pr!Goto(w, "firmware", "init_flags")
          /\ state' = "WRITE_INIT"
          /\ UNCHANGED <<loc, ret>>
    /\ UNCHANGED <<status, start, stream, loaded>>

\* alt_pr_fpga_write_init(): the flag first.
CheckFlags(w) ==
    /\ \/ ~flags /\ Pr!Return(w, "init_flags", "EINVAL", "WRITE_INIT_ERR")
       \/ flags /\ Pr!Continue(w, "init_flags", "init_csr") /\ UNCHANGED loc
    /\ UNCHANGED <<status, start, stream, loaded>>

\* The version and the POF ID: an image too short to hold one, or with that of
\* another design, is refused.
CheckPofId(w) ==
    /\ pc[w] = "init_id"
    /\ LET m == loc[w].img
           bad == \/ pof_id # "none" /\ Size[m] < RbfIdBytes
                  \/ pof_id = "set" /\ m \notin PofMatch
       IN \/ bad /\ Pr!Return(w, "init_id", "EINVAL", "WRITE_INIT_ERR")
          \/ /\ ~bad
             /\ Pr!Continue(w, "init_id", IF Family = "s10" THEN "init_wait" ELSE "init_start")
             /\ UNCHANGED loc
    /\ UNCHANGED <<status, start, stream, loaded>>

\* The other steps of alt_pr_fpga_write_init(): PR_START must be clear, the
\* Stratix 10 core waits for its initial state, and PR_START is set.
InitStep(w) ==
    Pr!ReadCsr(w) \/ Pr!WaitInitial(w) \/ Pr!PollInitial(w) \/ Pr!WriteStart(w)

\* alt_pr_fpga_write() of nothing: PR_START is set by then.
WriteNothing(w) ==
    /\ pc[w] = "write" /\ Size[loc[w].img] = 0
    /\ Pr!Return(w, "write", "EINVAL", "WRITE_ERR")
    /\ UNCHANGED <<status, start, stream, loaded>>

WriteWord(w) ==
    /\ pc[w] = "write" /\ Size[loc[w].img] > 0
    /\ Pr!WriteWord(w)

\* The looks at the state during and after the write.
CheckWrite(w) == Pr!CheckChunk(w) \/ Pr!FinishWrite(w)

\* Fault: the state of the manager is left as it was after a timeout.
PollCompleteSilent(w) ==
    /\ \/ /\ FpgaState = "OPERATING"
          /\ Pr!Return(w, "complete", "ok", "OPERATING")
       \/ /\ FpgaState # "OPERATING"
          /\ Pr!Return(w, "complete", "ETIMEDOUT", state)
    /\ UNCHANGED <<status, start, stream, loaded>>

\* Fault: the loop has no bound.
PollCompleteForever(w) ==
    /\ \/ /\ FpgaState = "WRITE_ERR"
          /\ Pr!Return(w, "complete", "EIO", "WRITE_COMPLETE_ERR")
       \/ /\ FpgaState = "OPERATING"
          /\ Pr!Return(w, "complete", "ok", "OPERATING")
    /\ UNCHANGED <<status, start, stream, loaded>>

\* alt_pr_fpga_write_complete(): the bound is read again on every turn, and is
\* 0, no turn at all, until config_to is written.
PollComplete(w) ==
    /\ \/ /\ loc[w].polls < config_to
          /\ \/ /\ FpgaState = "WRITE_ERR"
                /\ Pr!Return(w, "complete", "EIO", "WRITE_COMPLETE_ERR")
             \/ /\ FpgaState = "OPERATING"
                /\ Pr!Return(w, "complete", "ok", "OPERATING")
             \/ /\ FpgaState \notin {"WRITE_ERR", "OPERATING"}
                /\ Pr!Continue(w, "complete", "complete")
                /\ loc' = [loc EXCEPT ![w].polls = @ + 1]
       \/ /\ loc[w].polls >= config_to
          /\ Pr!Return(w, "complete", "ETIMEDOUT", "WRITE_COMPLETE_ERR")
    /\ UNCHANGED <<status, start, stream, loaded>>

-----------------------------------------------------------------------------
(* fpga_mgr_register() and fpga_mgr_unregister().                          *)

\* Fault: the manager starts as if the FPGA had been loaded.
RegisterBlind ==
    /\ ~registered
    /\ registered' = TRUE
    /\ state' = "OPERATING"
    /\ flags' = FALSE /\ config_to' = 0 /\ firmware_name' = "NULL"
    /\ UNCHANGED <<status, start, stream, loaded, pof_id, pc, loc, ret>>

\* The state of a new manager is the one the low level driver reads; its
\* debugfs settings are zeroed.
Register ==
    /\ ~registered
    /\ registered' = TRUE
    /\ state' = FpgaState
    /\ flags' = FALSE /\ config_to' = 0 /\ firmware_name' = "NULL"
    /\ UNCHANGED <<status, start, stream, loaded, pof_id, pc, loc, ret>>

Unregister ==
    /\ registered
    /\ \A w \in Writers : pc[w] = "idle"
    /\ registered' = FALSE
    /\ UNCHANGED <<loadVars, flags, config_to, firmware_name, pof_id>>

-----------------------------------------------------------------------------
Init ==
    /\ status \in {"NRESET", "BUSY"} \cap Pr!Statuses
    /\ start = FALSE /\ stream = << >> /\ loaded = "none"
    /\ pof_id \in {"none", "zero", "set"}
    /\ state = "UNKNOWN"
    /\ pc = [w \in Writers |-> "idle"]
    /\ loc = [w \in Writers |-> Pr!NoLocals]
    /\ ret = [w \in Writers |-> "none"]
    /\ registered = FALSE /\ flags = FALSE
    /\ config_to = 0 /\ firmware_name = "NULL"

\* A step of a load; info and the name are only read by it.
Step(w) ==
    /\ \/ FirmwareLoad(w) \/ BufLoad(w) \/ RequestFirmware(w)
       \/ CheckFlags(w) \/ CheckPofId(w) \/ InitStep(w)
       \/ WriteNothing(w) \/ WriteWord(w) \/ CheckWrite(w)
       \/ PollComplete(w)
    /\ UNCHANGED mgrVars

Ip == Pr!Ip /\ UNCHANGED mgrVars

Next ==
    \/ \E w \in Writers :
          \/ \E m \in Images : WriteFirmwareName(w, m) \/ WriteImage(w, m)
          \/ Step(w)
    \/ \E f \in BOOLEAN, t \in 0 .. MaxTimeout : SetInfo(f, t)
    \/ Register \/ Unregister
    \/ Ip

Serial == \A v, w \in Writers : pc[v] # "idle" /\ pc[w] # "idle" => v = w

Spec == Init /\ [][Next]_vars

SerialSpec == Init /\ [][Next /\ Serial']_vars

\* A thread in the kernel keeps running; the IP may take for ever.
FairSerialSpec == SerialSpec /\ \A w \in Writers : WF_vars(Step(w))

-----------------------------------------------------------------------------
(* Properties.                                                             *)

\* "Update the state before each step to provide info on what step failed"
\* (fpga-mgr.c 101): when the last load under way ends, however it ends,
\* mgr->state no longer claims that one of its steps is being taken.
NoStepPending ==
    [][(\E w \in Writers : pc[w] # "idle") /\ (\A w \in Writers : pc'[w] = "idle")
          => state' \in RestStates]_vars

\* A name that an operating manager shows is that of the file the region
\* holds, or the one a write has just set before its load begins (debugfs 52,
\* fpga-mgr.c 117): an image written past it, a load that failed or ended late
\* and a new manager never leave an older name standing (117-119).
NameIsTheImage ==
    registered /\ state = "OPERATING" /\ firmware_name # "NULL" =>
        \/ loaded = firmware_name
        \/ \E w \in Writers : pc[w] = "named" /\ loc[w].img = firmware_name

\* A manager that says operating has a whole image in the region: one that
\* was registered after a load that timed out reads it from the IP (288-293).
OperatingIsWhole == registered /\ state = "OPERATING" => loaded \in Images

\* Every write returns: the settings may change under it, the loops end.
WritesReturn == \A w \in Writers : pc[w] # "idle" ~> pc[w] = "idle"
=============================================================================
