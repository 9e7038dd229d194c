--------------------------- MODULE PartialReconfig ---------------------------
(***************************************************************************)
(* Partial reconfiguration end to end: the tool fpga-configure -p          *)
(* (partial_reconfig() in fpga-configure.c), the three ioctls it issues    *)
(* (my_ioctl() in fpga-pcie.c), the region controller, the PR IP and the   *)
(* persona in the PR region.                                               *)
(*                                                                         *)
(* The tool freezes the region, loads the image and unfreezes the region.  *)
(* Each ioctl is a call into RegionController or ConfigLoad, whose steps   *)
(* are the steps of this system.  A tool may be killed whenever it is not  *)
(* inside an ioctl: the driver never waits interruptibly, so a signal is   *)
(* only seen on the way back to user space.                                *)
(***************************************************************************)
EXTENDS Naturals, Sequences

CONSTANTS
    Tools,         \* processes that run fpga-configure -p
    Target,        \* the PR region of the design
    BadOffsets,    \* addresses at which there is no region controller
    Images, Size, PofMatch, PofCheck, Family, Verbose,
    HeaderBytes, ChunkWords, InitPolls, ConfigTimeout    \* see ConfigLoad

ASSUME PartialAssumption ==
    /\ Target \notin BadOffsets
    /\ Images \cap {"none", "partial"} = {}
    /\ Size \in [Images -> Nat]
    /\ PofMatch \subseteq Images
    /\ PofCheck \in BOOLEAN
    /\ Verbose \in BOOLEAN
    /\ Family \in {"a10", "s10"}
    /\ HeaderBytes \in Nat /\ HeaderBytes >= 4
    /\ ChunkWords \in Nat \ {0}
    /\ InitPolls \in Nat /\ ConfigTimeout \in Nat

VARIABLES
    tpc,           \* tpc[t]: the ioctl tool t is in or back from
    job,           \* job[t]: the image t was started with
    exit,          \* exit[t]: how the last run of t ended
    ctrl, bridge, rpc, offset, val, rret,                         \* RegionController
    status, start, stream, loaded, config_state, lpc, loc, lret   \* ConfigLoad

RC == INSTANCE RegionController
        WITH Callers <- Tools, Regions <- {Target}, pc <- rpc, ret <- rret

Load == INSTANCE ConfigLoad
          WITH Callers <- Tools, pc <- lpc, ret <- lret

toolVars == <<tpc, job, exit>>
regionVars == <<ctrl, bridge, rpc, offset, val, rret>>
loadVars == <<status, start, stream, loaded, config_state, lpc, loc, lret>>
vars == <<toolVars, regionVars, loadVars>>

TypeOK ==
    /\ tpc \in [Tools -> {"off", "enable", "load", "disable"}]
    /\ job \in [Tools -> Images \cup {"none"}]
    /\ exit \in [Tools -> {"none", "0", "-1", "killed"}]
    /\ RC!TypeOK
    /\ Load!TypeOK
    /\ \A t \in Tools :
          /\ rpc[t] # "idle" => tpc[t] \in {"enable", "disable"}
          /\ lpc[t] # "idle" => tpc[t] = "load"

-----------------------------------------------------------------------------
InKernel(t) == rpc[t] # "idle" \/ lpc[t] # "idle"

End(t, code) ==
    /\ tpc' = [tpc EXCEPT ![t] = "off"]
    /\ job' = [job EXCEPT ![t] = "none"]
    /\ exit' = [exit EXCEPT ![t] = code]

Issue(t, from, to) ==
    /\ tpc[t] = from
    /\ ~InKernel(t)
    /\ tpc' = [tpc EXCEPT ![t] = to]

\* fpga-configure -p m o: the first ioctl, FREEZE_ENABLE at address o.
Start(t, m, o) ==
    /\ Issue(t, "off", "enable")
    /\ job' = [job EXCEPT ![t] = m]
    /\ exit' = [exit EXCEPT ![t] = "none"]
    /\ RC!FreezeEnable(t, o)
    /\ UNCHANGED loadVars

\* FREEZE_ENABLE came back with an error: give up.
EnableFailed(t) ==
    /\ tpc[t] = "enable" /\ ~InKernel(t)
    /\ rret[t] # "ok"
    /\ End(t, "-1")
    /\ UNCHANGED <<regionVars, loadVars>>

\* The second ioctl, INITIATE_PR.
InitiatePR(t) ==
    /\ rret[t] = "ok"
    /\ Issue(t, "enable", "load")
    /\ Load!BufLoad(t, job[t])
    /\ UNCHANGED <<job, exit, regionVars>>

\* filp_open() fails: INITIATE_PR returns -1 and the tool gives up.
OpenFails(t) ==
    /\ tpc[t] = "enable" /\ ~InKernel(t)
    /\ rret[t] = "ok"
    /\ End(t, "-1")
    /\ UNCHANGED <<regionVars, loadVars>>

\* INITIATE_PR returns 0 whatever fpga_config_buf_load() returned; the third
\* ioctl, FREEZE_DISABLE.
Unfreeze(t) ==
    /\ Issue(t, "load", "disable")
    /\ RC!FreezeDisable(t, Target)
    /\ UNCHANGED <<job, exit, loadVars>>

\* FREEZE_DISABLE came back.
Finish(t) ==
    /\ tpc[t] = "disable" /\ ~InKernel(t)
    /\ End(t, IF rret[t] = "ok" THEN "0" ELSE "-1")
    /\ UNCHANGED <<regionVars, loadVars>>

\* The tool is killed between two ioctls.
Killed(t) ==
    /\ tpc[t] # "off" /\ ~InKernel(t)
    /\ End(t, "killed")
    /\ UNCHANGED <<regionVars, loadVars>>

\* The thread of t goes on inside an ioctl.
Kernel(t) ==
    \/ RC!Step(t) /\ UNCHANGED <<toolVars, loadVars>>
    \/ Load!Step(t) /\ UNCHANGED <<toolVars, regionVars>>

Ip == Load!Ip /\ UNCHANGED <<toolVars, regionVars>>

\* The persona answers the bridges.  What is left of an overwritten persona
\* may do so or not.
Persona == RC!Persona(Target) /\ UNCHANGED <<toolVars, loadVars>>

-----------------------------------------------------------------------------
Init ==
    /\ tpc = [t \in Tools |-> "off"]
    /\ job = [t \in Tools |-> "none"]
    /\ exit = [t \in Tools |-> "none"]
    /\ RC!Init
    /\ Load!Init

Run(t) ==
    \/ EnableFailed(t) \/ InitiatePR(t) \/ OpenFails(t)
    \/ Unfreeze(t) \/ Finish(t) \/ Kernel(t)

Next ==
    \/ \E t \in Tools :
          \/ \E m \in Images, o \in {Target} \cup BadOffsets : Start(t, m, o)
          \/ Run(t)
          \/ Killed(t)
    \/ Ip
    \/ Persona

Spec == Init /\ [][Next]_vars

Serial == \A t, u \in Tools : tpc[t] # "off" /\ tpc[u] # "off" => t = u

SerialSpec == Init /\ [][Next /\ Serial']_vars

\* Running tools and kernel threads are scheduled, and a persona that was not
\* overwritten answers its bridges.  The PR IP owes nothing.
Fairness ==
    /\ \A t \in Tools : WF_vars(Run(t))
    /\ WF_vars(loaded # "partial" /\ Persona)

FairSerialSpec == SerialSpec /\ Fairness

-----------------------------------------------------------------------------
(* Properties.                                                             *)

Held == bridge[Target] = "frozen" /\ "RESET_REQ" \in ctrl[Target]

\* No word of a bitstream reaches the PR IP unless the region is frozen and
\* in reset, however many earlier runs were killed, refused or timed out
\* (freeze_enable 81-115, fpga_config_buf_load 408-468).
WordsOnlyWhileHeld ==
    [][Len(stream') > Len(stream) => Held]_vars

\* An open region with a half-written persona in it is never silent: the
\* driver's config_state still records the load that failed (433-463).
OpenPartialIsRecorded ==
    bridge[Target] = "unfrozen" /\ loaded = "partial" =>
        config_state \in {"WRITE_INIT_ERR", "WRITE_ERR", "WRITE_COMPLETE_ERR"}

\* A run of the tool ends, unless the region holds a half-written persona for
\* good, whose handshake FREEZE_DISABLE then polls for without end.
ToolEndsOrPersonaDead ==
    \A t \in Tools : tpc[t] # "off" ~> (tpc[t] = "off" \/ [](loaded = "partial"))

\* "Returns 0 on siccess, -1 on failure" (fpga-configure.c 15): a run whose
\* load reported an error, and left the image out of the region, does not end
\* with 0.  (A file shorter than the header is not meant: its load says 0.)
ExitZeroMeansLoaded ==
    [][\A t \in Tools :
          tpc[t] = "disable" /\ exit'[t] = "0" =>
              lret[t] = "ok" \/ loaded = job[t]]_vars
=============================================================================
