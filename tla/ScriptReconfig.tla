--------------------------- MODULE ScriptReconfig ---------------------------
(***************************************************************************)
(* Partial reconfiguration with the debugfs driver: the script             *)
(* program-fpga-pcie, the tool fpga_region_controller it runs before and   *)
(* after the load, the FPGA manager and the PR region.                     *)
(*                                                                         *)
(* The tool makes the register accesses of RegionController, but through   *)
(* UIO from user space: it may be killed between any two of them.  The     *)
(* load is a write to the manager's file firmware_name and runs in the     *)
(* kernel (FpgaMgr).  The script runs under set -e: the first command that *)
(* fails ends it, and the region stays as it is.                           *)
(***************************************************************************)
EXTENDS Naturals, Sequences

CONSTANTS
    Scripts,       \* processes that run program-fpga-pcie
    Target,        \* the PR region of the design
    BadOffsets,    \* addresses at which there is no region controller
    Images, Size, PofMatch, Family, Verbose, ChunkWords, InitPolls,
    RbfIdBytes, MaxTimeout         \* see FpgaMgr; the script sets MaxTimeout

ASSUME ScriptAssumption ==
    /\ Target \notin BadOffsets
    /\ Images \cap {"none", "partial", "NULL"} = {}
    /\ Size \in [Images -> Nat]
    /\ PofMatch \subseteq Images
    /\ Verbose \in BOOLEAN
    /\ Family \in {"a10", "s10"}
    /\ ChunkWords \in Nat \ {0}
    /\ InitPolls \in Nat /\ RbfIdBytes \in Nat /\ MaxTimeout \in Nat

VARIABLES
    spc,           \* spc[s]: the command s runs, is back from or does next
    args,          \* args[s]: image and region offset s was started with
    exit,          \* exit[s]: how the last run of s ended
    torn,          \* history: the tool was killed at work since a run succeeded
    ctrl, bridge, rpc, offset, val, rret,            \* RegionController
    status, start, stream, loaded, pof_id, state, lpc, loc, lret,
    registered, flags, config_to, firmware_name      \* FpgaMgr

Uio == INSTANCE RegionController
         WITH Callers <- Scripts, Regions <- {Target}, pc <- rpc, ret <- rret

Mgr == INSTANCE FpgaMgr
         WITH Writers <- Scripts, pc <- lpc, ret <- lret

scriptVars == <<spc, args, exit, torn>>
uioVars == <<ctrl, bridge, rpc, offset, val, rret>>
hwVars == <<status, start, stream, loaded, pof_id, state, lpc, loc,
            registered, flags, config_to, firmware_name>>
mgrVars == <<hwVars, lret>>
vars == <<scriptVars, uioVars, mgrVars>>

Commands == {"probe", "flags", "config_to", "freeze", "enable", "load", "disable"}

NoArgs == [img |-> "none", at |-> "none"]

TypeOK ==
    /\ spc \in [Scripts -> {"off"} \cup Commands]
    /\ args \in [Scripts -> [img : Images \cup {"none"}, at : {Target, "none"} \cup BadOffsets]]
    /\ \A s \in Scripts :
          /\ IF spc[s] = "off" THEN args[s] = NoArgs
             ELSE args[s].img \in Images /\ args[s].at \in {Target} \cup BadOffsets
          /\ rpc[s] # "idle" => spc[s] \in {"enable", "disable"}
          /\ lpc[s] # "idle" => spc[s] = "load"
    /\ exit \in [Scripts -> {"none", "0", "1", "killed"}]
    /\ torn \in BOOLEAN
    /\ Uio!TypeOK
    /\ Mgr!TypeOK

-----------------------------------------------------------------------------
(* The script.                                                             *)

\* The command before is over and s goes on to the next.
Then(s, from, to) ==
    /\ spc[s] = from /\ rpc[s] = "idle" /\ lpc[s] = "idle"
    /\ spc' = [spc EXCEPT ![s] = to]
    /\ UNCHANGED <<args, exit, torn>>

End(s, from, code) ==
    /\ spc[s] = from /\ rpc[s] = "idle" /\ lpc[s] = "idle"
    /\ spc' = [spc EXCEPT ![s] = "off"]
    /\ args' = [args EXCEPT ![s] = NoArgs]
    /\ exit' = [exit EXCEPT ![s] = code]

\* program-fpga-pcie -f=m -r=o: a new process, with no results and locals yet.
Start(s, m, o) ==
    /\ spc[s] = "off"
    /\ spc' = [spc EXCEPT ![s] = "probe"]
    /\ args' = [args EXCEPT ![s] = [img |-> m, at |-> o]]
    /\ exit' = [exit EXCEPT ![s] = "none"]
    /\ rret' = [rret EXCEPT ![s] = "none"]
    /\ lret' = [lret EXCEPT ![s] = "none"]
    /\ val' = [val EXCEPT ![s] = {}]
    /\ UNCHANGED <<torn, ctrl, bridge, rpc, offset, hwVars>>

\* echo 3 > state: the manager is there, or appears.
Probe(s) ==
    /\ Then(s, "probe", "flags")
    /\ IF registered THEN UNCHANGED mgrVars ELSE Mgr!Register
    /\ UNCHANGED uioVars

\* ... or the write is refused, or no manager shows up.
ProbeFails(s) ==
    /\ ~registered
    /\ End(s, "probe", "1")
    /\ UNCHANGED <<torn, uioVars, mgrVars>>

\* echo 1 > flags and echo 10 > config_to.
SetFlags(s) ==
    /\ Then(s, "flags", "config_to")
    /\ Mgr!SetInfo(TRUE, config_to)
    /\ UNCHANGED uioVars

SetTimeout(s) ==
    /\ Then(s, "config_to", "freeze")
    /\ Mgr!SetInfo(flags, MaxTimeout)
    /\ UNCHANGED uioVars

\* fpga_region_controller enable.
Enable(s) ==
    /\ Then(s, "freeze", "enable")
    /\ Uio!FreezeEnable(s, args[s].at)
    /\ UNCHANGED mgrVars

\* echo > firmware_name, once the tool returned 0.
WriteName(s) ==
    /\ rret[s] = "ok"
    /\ Then(s, "enable", "load")
    /\ Mgr!WriteFirmwareName(s, args[s].img)
    /\ UNCHANGED uioVars

\* Fault: the result of the load is not looked at.
DisableUnchecked(s) ==
    /\ Then(s, "load", "disable")
    /\ Uio!FreezeDisable(s, args[s].at)
    /\ UNCHANGED mgrVars

\* fpga_region_controller disable, once the load succeeded.
Disable(s) ==
    /\ lret[s] = "ok"
    /\ Then(s, "load", "disable")
    /\ Uio!FreezeDisable(s, args[s].at)
    /\ UNCHANGED mgrVars

\* The last echo 3 finds the manager, or probes it again if somebody removed
\* it; that the probe failed is not reported.
Finish(s) ==
    /\ rret[s] = "ok"
    /\ End(s, "disable", "0")
    /\ torn' = FALSE
    /\ UNCHANGED mgrVars \/ Mgr!Register
    /\ UNCHANGED uioVars

\* set -e: a write to a file that is gone, a tool that cannot open its UIO
\* device or returns an error, a failed load or a refused probe ends it all.
Fail(s) ==
    /\ \/ ~registered /\ (\E c \in {"flags", "config_to", "enable", "disable"} : End(s, c, "1"))
       \/ End(s, "freeze", "1")
       \/ rret[s] # "ok" /\ (End(s, "enable", "1") \/ End(s, "disable", "1"))
       \/ End(s, "load", "1")
    /\ UNCHANGED <<torn, uioVars, mgrVars>>

\* Script and tool are killed; a write in the kernel runs to its end first.
Killed(s) ==
    /\ spc[s] # "off" /\ lpc[s] = "idle"
    /\ spc' = [spc EXCEPT ![s] = "off"]
    /\ args' = [args EXCEPT ![s] = NoArgs]
    /\ exit' = [exit EXCEPT ![s] = "killed"]
    /\ torn' = (torn \/ rpc[s] # "idle")
    /\ rpc' = [rpc EXCEPT ![s] = "idle"]
    /\ UNCHANGED <<ctrl, bridge, offset, val, rret, mgrVars>>

-----------------------------------------------------------------------------
(* The tool, the kernel, the hardware and the other users.                 *)

Tool(s) == Uio!Step(s) /\ UNCHANGED <<scriptVars, mgrVars>>

Load(s) == Mgr!Step(s) /\ UNCHANGED <<scriptVars, uioVars>>

Ip == Mgr!Ip /\ UNCHANGED <<scriptVars, uioVars>>

Persona == Uio!Persona(Target) /\ UNCHANGED <<scriptVars, mgrVars>>

\* Somebody writes 4 or 1 to the state file: the manager goes away.
Unprobe == Mgr!Unregister /\ UNCHANGED <<scriptVars, uioVars>>

Init ==
    /\ spc = [s \in Scripts |-> "off"]
    /\ args = [s \in Scripts |-> NoArgs]
    /\ exit = [s \in Scripts |-> "none"]
    /\ torn = FALSE
    /\ Uio!Init
    /\ Mgr!Init

Run(s) ==
    \/ Probe(s) \/ ProbeFails(s) \/ SetFlags(s) \/ SetTimeout(s) \/ Enable(s)
    \/ WriteName(s) \/ Disable(s) \/ Finish(s) \/ Fail(s)
    \/ Tool(s) \/ Load(s)

Next ==
    \/ \E s \in Scripts :
          \/ \E m \in Images, o \in {Target} \cup BadOffsets : Start(s, m, o)
          \/ Run(s)
          \/ Killed(s)
    \/ Ip \/ Persona \/ Unprobe

Spec == Init /\ [][Next]_vars

Serial == \A s, t \in Scripts : spc[s] # "off" /\ spc[t] # "off" => s = t

SerialSpec == Init /\ [][Next /\ Serial']_vars

\* Running processes are scheduled, and a persona that was not overwritten
\* answers its bridges.  The PR IP owes nothing.
Fairness ==
    /\ \A s \in Scripts : WF_vars(Run(s))
    /\ WF_vars(loaded # "partial" /\ Persona)

FairSerialSpec == SerialSpec /\ Fairness

-----------------------------------------------------------------------------
(* Properties.                                                             *)

Held == bridge[Target] = "frozen" /\ "RESET_REQ" \in ctrl[Target]

\* No word of a bitstream reaches the IP unless the bridges are closed, and
\* unless the region is in reset too: only a tool that was killed at work can
\* leave a frozen region that is not, which "already frozen" then takes for a
\* success, and one complete run cures that (fpga_region_controller 292-304).
WordsBehindBridges ==
    [][Len(stream') > Len(stream) => bridge[Target] = "frozen" /\ (Held \/ torn)]_vars

\* The bridges never open on a half-written persona: whatever failed and was
\* killed before, only a run whose own load succeeded opens them (script 36,
\* 144-153).
NeverOpensPartial ==
    bridge[Target] \in {"unfrozen", "unfreezing"} => loaded # "partial"

\* A run that ends with 0 has put its image, whole, into the region and given
\* the region back: open, out of reset, no request left in the register.
ExitZeroMeansReady ==
    [][\A s \in Scripts :
          spc[s] = "disable" /\ exit'[s] = "0" =>
              /\ loaded = args[s].img
              /\ bridge[Target] = "unfrozen" /\ ctrl[Target] = {}]_vars

\* Even when it is killed between two register accesses, and whatever the
\* next run finds, the tool moves the region through the stages of
\* RegionIsolation one at a time.
StagedEvenIfKilled == Uio!StagedIsolation

\* A script that was started ends: the tool's polls without a bound only wait
\* for personas that are whole.
ScriptEnds == \A s \in Scripts : spc[s] # "off" ~> spc[s] = "off"
=============================================================================
