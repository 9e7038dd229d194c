-------------------------- MODULE RegionController --------------------------
(***************************************************************************)
(* The freeze protocol of fpga_pcie: fpga_pr_region_controller_            *)
(* freeze_enable() and _freeze_disable() (fpga-region-controller.c), run   *)
(* by the threads that are inside an ioctl of /dev/fpga_pcie, against the  *)
(* region controllers in BAR 4.                                            *)
(*                                                                         *)
(* Every readl()/writel() of the code is a step of its own, because        *)
(* my_ioctl() is an unlocked_ioctl and the driver takes no lock: the steps *)
(* of two callers interleave freely.  Spec is that system.  SerialSpec is  *)
(* the system as the supplied tools use it: user space lets only one call  *)
(* at a time work on one region controller.                                *)
(***************************************************************************)
CONSTANTS
    Callers,      \* kernel threads that may be executing an ioctl
    Regions,      \* PR regions, each with a region controller in BAR 4
    BadOffsets    \* offsets at which no supported region controller answers

ASSUME OffsetsAssumption == Regions \cap BadOffsets = {}

VARIABLES
    ctrl,         \* ctrl[r]: the bits set in the control register
    bridge,       \* bridge[r]: what the freeze bridges of the region do
    pc,           \* pc[c]: the next register access of caller c
    offset,       \* offset[c]: the region controller the call is about
    val,          \* val[c]: the local "status" that freeze_disable writes back
    ret           \* ret[c]: what the last call of c returned

vars == <<ctrl, bridge, pc, offset, val, ret>>

-----------------------------------------------------------------------------
CtrlBits == {"FREEZE_REQ", "RESET_REQ", "UNFREEZE_REQ"}

EnablePCs == {"fe_status", "fe_freeze", "fe_poll", "fe_reset"}

DisablePCs ==
    {"fd_status", "fd_read", "fd_toggle", "fd_unfreeze", "fd_poll", "fd_clear"}

\* A call is over, or has not begun, exactly when pc is "idle".
PCs == {"idle"} \cup EnablePCs \cup DisablePCs

TypeOK ==
    /\ ctrl \in [Regions -> SUBSET CtrlBits]
    /\ bridge \in [Regions -> {"unfrozen", "freezing", "frozen", "unfreezing"}]
    /\ pc \in [Callers -> PCs]
    /\ offset \in [Callers -> Regions]
    /\ val \in [Callers -> SUBSET CtrlBits]
    /\ ret \in [Callers -> {"none", "ok", "EINVAL"}]

-----------------------------------------------------------------------------
(* The region controller hardware.                                         *)

\* The bits the status register shows; both are clear while the bridges and
\* the persona are still shaking hands.
Status(r) ==
    CASE bridge[r] = "frozen"   -> {"FREEZE_REQ_DONE"}
      [] bridge[r] = "unfrozen" -> {"UNFREEZE_REQ_DONE"}
      [] OTHER                  -> {}

\* How bridges in state b react to the control bits v: a freeze request
\* starts freezing an open region, an unfreeze request starts opening a
\* frozen one, every other write leaves the bridges as they are.
React(b, v) ==
    IF b = "unfrozen" /\ "FREEZE_REQ" \in v THEN "freezing"
    ELSE IF b = "frozen" /\ "UNFREEZE_REQ" \in v THEN "unfreezing"
    ELSE b

\* writel(v, freeze_addr): the register keeps v and the bridges see it.
WriteCtrl(r, v) ==
    /\ ctrl' = [ctrl EXCEPT ![r] = v]
    /\ bridge' = [bridge EXCEPT ![r] = React(@, v)]

\* The persona acknowledges the stop request, and the bridges close.
StopAck(r) ==
    /\ bridge[r] = "freezing"
    /\ bridge' = [bridge EXCEPT ![r] = React("frozen", ctrl[r])]
    /\ UNCHANGED <<ctrl, pc, offset, val, ret>>

\* The persona acknowledges the start request, and the bridges open.
StartAck(r) ==
    /\ bridge[r] = "unfreezing"
    /\ bridge' = [bridge EXCEPT ![r] = React("unfrozen", ctrl[r])]
    /\ UNCHANGED <<ctrl, pc, offset, val, ret>>

-----------------------------------------------------------------------------
(* The steps of a call.                                                    *)

Goto(c, from, to) ==
    /\ pc[c] = from
    /\ pc' = [pc EXCEPT ![c] = to]

Return(c, from, v) ==
    /\ Goto(c, from, "idle")
    /\ ret' = [ret EXCEPT ![c] = v]

\* Fault: the version register is read and its verdict ignored.
EnterUnchecked(c, o, first) ==
    /\ Goto(c, "idle", first)
    /\ offset' = [offset EXCEPT ![c] = o]
    /\ ret' = [ret EXCEPT ![c] = "none"]
    /\ UNCHANGED <<ctrl, bridge, val>>

\* freeze_bridge_read_version(): a call at an offset that does not answer
\* with the supported version returns at once.
Enter(c, o, first) ==
    /\ \/ /\ o \in BadOffsets
          /\ Return(c, "idle", "EINVAL")
          /\ UNCHANGED offset
       \/ /\ o \in Regions
          /\ Goto(c, "idle", first)
          /\ offset' = [offset EXCEPT ![c] = o]
          /\ ret' = [ret EXCEPT ![c] = "none"]
    /\ UNCHANGED <<ctrl, bridge, val>>

FreezeEnable(c, o) == Enter(c, o, "fe_status")

FreezeDisable(c, o) == Enter(c, o, "fd_status")

\* The status register decides: already frozen, in between, or go on.
EnableStatus(c) ==
    /\ \/ /\ "FREEZE_REQ_DONE" \in Status(offset[c])
          /\ Return(c, "fe_status", "ok")
       \/ /\ Status(offset[c]) = {}
          /\ Return(c, "fe_status", "EINVAL")
       \/ /\ Status(offset[c]) = {"UNFREEZE_REQ_DONE"}
          /\ Goto(c, "fe_status", "fe_freeze")
          /\ UNCHANGED ret
    /\ UNCHANGED <<ctrl, bridge, offset, val>>

AssertFreeze(c) ==
    /\ Goto(c, "fe_freeze", "fe_poll")
    /\ WriteCtrl(offset[c], {"FREEZE_REQ"})
    /\ UNCHANGED <<offset, val, ret>>

\* Fault: the freeze request is not polled for.
AwaitFrozenSkipped(c) ==
    /\ Goto(c, "fe_poll", "fe_reset")
    /\ UNCHANGED <<ctrl, bridge, offset, val, ret>>

\* freeze_bridge_req_ack() polls without a bound: the step is the read that
\* finds the bit set.
AwaitFrozen(c) ==
    /\ "FREEZE_REQ_DONE" \in Status(offset[c])
    /\ Goto(c, "fe_poll", "fe_reset")
    /\ UNCHANGED <<ctrl, bridge, offset, val, ret>>

\* RESET_REQ replaces FREEZE_REQ in the register; the bridges stay closed.
AssertReset(c) ==
    /\ Return(c, "fe_reset", "ok")
    /\ WriteCtrl(offset[c], {"RESET_REQ"})
    /\ UNCHANGED <<offset, val>>

DisableStatus(c) ==
    /\ \/ /\ "UNFREEZE_REQ_DONE" \in Status(offset[c])
          /\ Return(c, "fd_status", "ok")
       \/ /\ Status(offset[c]) = {}
          /\ Return(c, "fd_status", "EINVAL")
       \/ /\ Status(offset[c]) = {"FREEZE_REQ_DONE"}
          /\ Goto(c, "fd_status", "fd_read")
          /\ UNCHANGED ret
    /\ UNCHANGED <<ctrl, bridge, offset, val>>

\* status = readl(freeze_addr); status ^ RESET_REQ is kept for the write.
ReadCtrl(c) ==
    /\ Goto(c, "fd_read", "fd_toggle")
    /\ val' = [val EXCEPT ![c] = IF "RESET_REQ" \in ctrl[offset[c]]
                                 THEN ctrl[offset[c]] \ {"RESET_REQ"}
                                 ELSE ctrl[offset[c]] \cup {"RESET_REQ"}]
    /\ UNCHANGED <<ctrl, bridge, offset, ret>>

ToggleReset(c) ==
    /\ Goto(c, "fd_toggle", "fd_unfreeze")
    /\ WriteCtrl(offset[c], val[c])
    /\ UNCHANGED <<offset, val, ret>>

\* Fault: the unfreeze bit is taken for the freeze bit.
RequestUnfreezeWrongBit(c) ==
    /\ Goto(c, "fd_unfreeze", "fd_poll")
    /\ WriteCtrl(offset[c], {"FREEZE_REQ"})
    /\ UNCHANGED <<offset, val, ret>>

RequestUnfreeze(c) ==
    /\ Goto(c, "fd_unfreeze", "fd_poll")
    /\ WriteCtrl(offset[c], {"UNFREEZE_REQ"})
    /\ UNCHANGED <<offset, val, ret>>

AwaitUnfrozen(c) ==
    /\ "UNFREEZE_REQ_DONE" \in Status(offset[c])
    /\ Goto(c, "fd_poll", "fd_clear")
    /\ UNCHANGED <<ctrl, bridge, offset, val, ret>>

\* Fault: the final writel(0) is missing.
ClearCtrlSkipped(c) ==
    /\ Return(c, "fd_clear", "ok")
    /\ UNCHANGED <<ctrl, bridge, offset, val>>

ClearCtrl(c) ==
    /\ Return(c, "fd_clear", "ok")
    /\ WriteCtrl(offset[c], {})
    /\ UNCHANGED <<offset, val>>

-----------------------------------------------------------------------------
Init ==
    /\ ctrl = [r \in Regions |-> {}]
    /\ bridge = [r \in Regions |-> "unfrozen"]
    /\ pc = [c \in Callers |-> "idle"]
    /\ offset \in [Callers -> Regions]
    /\ val = [c \in Callers |-> {}]
    /\ ret = [c \in Callers |-> "none"]

Call(c) ==
    \E o \in Regions \cup BadOffsets : FreezeEnable(c, o) \/ FreezeDisable(c, o)

Step(c) ==
    \/ EnableStatus(c) \/ AssertFreeze(c) \/ AwaitFrozen(c) \/ AssertReset(c)
    \/ DisableStatus(c) \/ ReadCtrl(c) \/ ToggleReset(c)
    \/ RequestUnfreeze(c) \/ AwaitUnfrozen(c) \/ ClearCtrl(c)

Persona(r) == StopAck(r) \/ StartAck(r)

Next ==
    \/ \E c \in Callers : Call(c) \/ Step(c)
    \/ \E r \in Regions : Persona(r)

Spec == Init /\ [][Next]_vars

\* Caller c is inside a call on region r.
Busy(c, r) == pc[c] # "idle" /\ offset[c] = r

\* No two calls work on the same region controller.
Serial ==
    \A r \in Regions : \A c, d \in Callers : Busy(c, r) /\ Busy(d, r) => c = d

SerialSpec == Init /\ [][Next /\ Serial']_vars

\* A thread in the kernel keeps running, and every persona of the reference
\* designs answers the handshake; nobody is obliged to make a call.
Fairness ==
    /\ \A c \in Callers : WF_vars(Step(c))
    /\ \A r \in Regions : WF_vars(Persona(r))

FairSerialSpec == SerialSpec /\ Fairness

-----------------------------------------------------------------------------
(* Properties.                                                             *)

\* A region no call is working on is completely given back or completely
\* taken away: never left half way by a call that returned, whatever it
\* returned (freeze_enable 81-115, freeze_disable 121-154).
Settled ==
    \A r \in Regions :
        (\A c \in Callers : ~Busy(c, r)) =>
            \/ bridge[r] = "unfrozen" /\ ctrl[r] = {}
            \/ bridge[r] = "frozen" /\ ctrl[r] = {"RESET_REQ"}

\* Whatever the callers do to each other, the last one out leaves no request
\* in flight: bridges in motion always have a caller that still polls for
\* them (the poll loop, 67-71, after each of the writes 105 and 148).
NoMotionWhenQuiet ==
    \A r \in Regions :
        bridge[r] \in {"freezing", "unfreezing"} => \E c \in Callers : Busy(c, r)

\* Reset is only ever asserted behind closed bridges: the write of RESET_REQ
\* follows the acknowledged freeze, and the XOR in freeze_disable never turns
\* reset on (lines 105-108, 145-147).
ResetOnlyWhileFrozen ==
    \A r \in Regions : "RESET_REQ" \in ctrl[r] => bridge[r] = "frozen"

\* "Asserts freeze and reset on the PR region. Returns 0 on success." (77-80):
\* a step in which freeze_enable returns 0 ends with the region held.
EnableDelivers ==
    [][\A c \in Callers :
          pc[c] \in EnablePCs /\ pc'[c] = "idle" /\ ret'[c] = "ok" =>
              /\ bridge'[offset[c]] = "frozen"
              /\ "RESET_REQ" \in ctrl'[offset[c]]]_vars

\* "Deasserts reset and freeze on the PR region. Returns 0 on success."
\* (117-120): freeze_disable returning 0 ends with an open region, no reset
\* and no request left behind in the register.
DisableDelivers ==
    [][\A c \in Callers :
          pc[c] \in DisablePCs /\ pc'[c] = "idle" /\ ret'[c] = "ok" =>
              bridge'[offset[c]] = "unfrozen" /\ ctrl'[offset[c]] = {}]_vars

\* Every call returns: the two polls without a timeout (67-71) always find
\* their bit, because no other write can undo the request they wait for.
CallsReturn ==
    \A c \in Callers : pc[c] # "idle" ~> pc[c] = "idle"

\* The stage of a region that the registers stand for.
StageOf(r) ==
    IF bridge[r] \in {"unfrozen", "freezing"}
    THEN IF "RESET_REQ" \in ctrl[r] THEN "reset while open" ELSE "live"
    ELSE IF "RESET_REQ" \in ctrl[r] THEN "held" ELSE "frozen"

Isolation == INSTANCE RegionIsolation WITH stage <- [r \in Regions |-> StageOf(r)]

\* The register protocol implements the staged isolation of RegionIsolation:
\* a region goes live, frozen, held, frozen, live, one stage at a time.
StagedIsolation == Isolation!Spec
=============================================================================
