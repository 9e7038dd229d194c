----------------------- MODULE RegionController_proofs -----------------------
(***************************************************************************)
(* Proofs about RegionController, for every set of callers and of regions. *)
(*                                                                         *)
(* Without serialisation (Spec): type correctness and NoMotionWhenQuiet.   *)
(* With calls serialised per region (SerialSpec): Settled,                 *)
(* ResetOnlyWhileFrozen, what the two calls deliver, and the refinement of *)
(* RegionIsolation.                                                        *)
(***************************************************************************)
EXTENDS RegionController, TLAPS

Bridges == {"unfrozen", "freezing", "frozen", "unfreezing"}

\* React() stays within the states of the bridges.
LEMMA ReactType ==
    ASSUME NEW b \in Bridges, NEW v
    PROVE  React(b, v) \in Bridges
  BY DEF React, Bridges

\* Every step preserves the types of the registers and of the callers' state.
LEMMA TypeStep ==
    ASSUME TypeOK, [Next]_vars
    PROVE  TypeOK'
<1> USE DEF TypeOK, PCs, EnablePCs, DisablePCs, CtrlBits
<1>0. \A b \in Bridges : \A v : React(b, v) \in Bridges
  BY ReactType
<1>1. ASSUME NEW r \in Regions, NEW v \in SUBSET CtrlBits, WriteCtrl(r, v)
      PROVE  /\ ctrl' \in [Regions -> SUBSET CtrlBits]
             /\ bridge' \in [Regions -> Bridges]
  BY <1>0, <1>1 DEF WriteCtrl, Bridges
<1>2. ASSUME NEW c \in Callers, Call(c)
      PROVE  TypeOK'
  <2>1. PICK o \in Regions \cup BadOffsets : FreezeEnable(c, o) \/ FreezeDisable(c, o)
    BY <1>2 DEF Call
  <2>. QED
    BY <2>1 DEF FreezeEnable, FreezeDisable, Enter, Return, Goto
<1>3. ASSUME NEW c \in Callers, EnableStatus(c) \/ DisableStatus(c)
      PROVE  TypeOK'
  BY <1>3 DEF EnableStatus, DisableStatus, Return, Goto
<1>4. ASSUME NEW c \in Callers, AwaitFrozen(c) \/ AwaitUnfrozen(c)
      PROVE  TypeOK'
  BY <1>4 DEF AwaitFrozen, AwaitUnfrozen, Goto
<1>5. ASSUME NEW c \in Callers, AssertFreeze(c)
      PROVE  TypeOK'
  BY <1>1, <1>5 DEF AssertFreeze, Goto, Bridges
<1>6. ASSUME NEW c \in Callers, AssertReset(c)
      PROVE  TypeOK'
  BY <1>1, <1>6 DEF AssertReset, Goto, Return, Bridges
<1>7. ASSUME NEW c \in Callers, ReadCtrl(c)
      PROVE  TypeOK'
  <2>1. ctrl[offset[c]] \in SUBSET CtrlBits
    OBVIOUS
  <2>. QED
    BY <1>7, <2>1 DEF ReadCtrl, Goto
<1>8. ASSUME NEW c \in Callers, ToggleReset(c)
      PROVE  TypeOK'
  <2>1. val[c] \in SUBSET CtrlBits /\ offset[c] \in Regions
    OBVIOUS
  <2>. QED
    BY <1>1, <1>8, <2>1 DEF ToggleReset, Goto, Bridges
<1>9. ASSUME NEW c \in Callers, RequestUnfreeze(c)
      PROVE  TypeOK'
  BY <1>1, <1>9 DEF RequestUnfreeze, Goto, Bridges
<1>10. ASSUME NEW c \in Callers, ClearCtrl(c)
       PROVE  TypeOK'
  BY <1>1, <1>10 DEF ClearCtrl, Goto, Return, Bridges
<1>11. ASSUME NEW r \in Regions, Persona(r)
       PROVE  TypeOK'
  BY <1>0, <1>11 DEF Persona, StopAck, StartAck, Bridges
<1>12. CASE UNCHANGED vars
  BY <1>12 DEF vars
<1>. QED
  BY <1>2, <1>3, <1>4, <1>5, <1>6, <1>7, <1>8, <1>9, <1>10, <1>11, <1>12
  DEF Next, Step

\* The types of the registers, program counters and locals hold in the
\* unserialised system, for any number of callers of the two functions of
\* fpga-region-controller.c.
THEOREM TypeCorrect == Spec => []TypeOK
<1>1. Init => TypeOK
  BY DEF Init, TypeOK, PCs, CtrlBits
<1>. QED
  BY <1>1, TypeStep, PTL DEF Spec

-----------------------------------------------------------------------------
(* Calls that are not serialised.                                          *)

\* Some caller inside a call on r has its next access in P.
Attended(r, P) == \E c \in Callers : pc[c] \in P /\ offset[c] = r

Unfreezers == {"fd_unfreeze", "fd_poll"}

\* Bridges in motion are attended by a caller that cannot leave before they
\* have stopped.  The third part is what makes the second inductive: an
\* unfreeze request written while the bridges still close is served as soon as
\* they have closed, and its writer must be there then.
MotionInv ==
    \A r \in Regions :
        /\ bridge[r] = "freezing" => Attended(r, {"fe_poll"} \cup Unfreezers)
        /\ bridge[r] = "unfreezing" => Attended(r, Unfreezers)
        /\ bridge[r] = "freezing" /\ "UNFREEZE_REQ" \in ctrl[r] => Attended(r, Unfreezers)

\* Every step preserves MotionInv.
LEMMA MotionStep ==
    ASSUME TypeOK, MotionInv, [Next]_vars
    PROVE  MotionInv'
<1> USE DEF TypeOK
<1>1. ASSUME NEW c \in Callers, Call(c)
      PROVE  MotionInv'
  <2>1. PICK o \in Regions \cup BadOffsets : FreezeEnable(c, o) \/ FreezeDisable(c, o)
    BY <1>1 DEF Call
  <2>2. pc[c] = "idle" /\ UNCHANGED <<ctrl, bridge>>
    BY <2>1 DEF FreezeEnable, FreezeDisable, Enter, Return, Goto
  <2>3. \A d \in Callers \ {c} : pc'[d] = pc[d] /\ offset'[d] = offset[d]
    BY <2>1 DEF FreezeEnable, FreezeDisable, Enter, Return, Goto
  <2>. QED
    BY <2>2, <2>3 DEF MotionInv, Attended, Unfreezers
<1>2. ASSUME NEW c \in Callers,
             EnableStatus(c) \/ DisableStatus(c) \/ ReadCtrl(c)
      PROVE  MotionInv'
  <2>1. UNCHANGED <<ctrl, bridge, offset>> /\ pc[c] \in {"fe_status", "fd_status", "fd_read"}
    BY <1>2 DEF EnableStatus, DisableStatus, ReadCtrl, Return, Goto
  <2>2. \A d \in Callers \ {c} : pc'[d] = pc[d]
    BY <1>2 DEF EnableStatus, DisableStatus, ReadCtrl, Return, Goto
  <2>. QED
    BY <2>1, <2>2 DEF MotionInv, Attended, Unfreezers
<1>3. ASSUME NEW c \in Callers, AwaitFrozen(c)
      PROVE  MotionInv'
  <2>1. bridge[offset[c]] = "frozen"
    BY <1>3 DEF AwaitFrozen, Status
  <2>. QED
    BY <1>3, <2>1 DEF AwaitFrozen, Goto, MotionInv, Attended, Unfreezers
<1>4. ASSUME NEW c \in Callers, AwaitUnfrozen(c)
      PROVE  MotionInv'
  <2>1. bridge[offset[c]] = "unfrozen"
    BY <1>4 DEF AwaitUnfrozen, Status
  <2>. QED
    BY <1>4, <2>1 DEF AwaitUnfrozen, Goto, MotionInv, Attended, Unfreezers
<1>5. ASSUME NEW c \in Callers, AssertFreeze(c)
      PROVE  MotionInv'
  BY <1>5 DEF AssertFreeze, WriteCtrl, React, Goto, MotionInv, Attended, Unfreezers
<1>6. ASSUME NEW c \in Callers, AssertReset(c) \/ ClearCtrl(c)
      PROVE  MotionInv'
  BY <1>6 DEF AssertReset, ClearCtrl, WriteCtrl, React, Goto, Return, MotionInv,
              Attended, Unfreezers
<1>7. ASSUME NEW c \in Callers, ToggleReset(c) \/ RequestUnfreeze(c)
      PROVE  MotionInv'
  <2>1. pc'[c] \in Unfreezers /\ UNCHANGED offset
    BY <1>7 DEF ToggleReset, RequestUnfreeze, Goto, Unfreezers
  <2>2. \A d \in Callers : pc[d] \in {"fe_poll"} \cup Unfreezers => pc'[d] \in {"fe_poll"} \cup Unfreezers
    BY <1>7 DEF ToggleReset, RequestUnfreeze, Goto, Unfreezers
  <2>3. \A d \in Callers : pc[d] \in Unfreezers => pc'[d] \in Unfreezers
    BY <1>7 DEF ToggleReset, RequestUnfreeze, Goto, Unfreezers
  <2>4. \A r \in Regions : r # offset[c] => ctrl'[r] = ctrl[r] /\ bridge'[r] = bridge[r]
    BY <1>7 DEF ToggleReset, RequestUnfreeze, WriteCtrl
  <2>. QED
    BY <2>1, <2>2, <2>3, <2>4 DEF MotionInv, Attended
<1>8. ASSUME NEW r \in Regions, Persona(r)
      PROVE  MotionInv'
  BY <1>8 DEF Persona, StopAck, StartAck, React, MotionInv, Attended, Unfreezers
<1>9. CASE UNCHANGED vars
  BY <1>9 DEF vars, MotionInv, Attended
<1>. QED
  BY <1>1, <1>2, <1>3, <1>4, <1>5, <1>6, <1>7, <1>8, <1>9 DEF Next, Step

\* However calls interleave, no call of freeze_enable or freeze_disable
\* returns while a request it left in the control register is in flight and
\* nobody waits for it.
THEOREM MotionAttended == Spec => []NoMotionWhenQuiet
<1>1. Init => MotionInv
  BY DEF Init, MotionInv
<1>2. TypeOK /\ MotionInv => NoMotionWhenQuiet
  BY DEF MotionInv, NoMotionWhenQuiet, Attended, Unfreezers, Busy
<1>. QED
  BY <1>1, <1>2, MotionStep, TypeCorrect, PTL DEF Spec

-----------------------------------------------------------------------------
(* Calls serialised per region.                                            *)

Open(r) == bridge[r] = "unfrozen" /\ ctrl[r] = {}

Held(r) == bridge[r] = "frozen" /\ ctrl[r] = {"RESET_REQ"}

\* What caller c can rely on in its region at its next register access.
Stands(c) ==
    LET r == offset[c] IN
    /\ pc[c] \in {"fe_status", "fd_status"} => Open(r) \/ Held(r)
    /\ pc[c] = "fe_freeze" => Open(r)
    /\ pc[c] = "fe_poll" => bridge[r] \in {"freezing", "frozen"} /\ ctrl[r] = {"FREEZE_REQ"}
    /\ pc[c] = "fe_reset" => bridge[r] = "frozen" /\ ctrl[r] = {"FREEZE_REQ"}
    /\ pc[c] = "fd_read" => Held(r)
    /\ pc[c] = "fd_toggle" => Held(r) /\ val[c] = {}
    /\ pc[c] = "fd_unfreeze" => bridge[r] = "frozen" /\ ctrl[r] = {}
    /\ pc[c] = "fd_poll" => bridge[r] \in {"unfreezing", "unfrozen"} /\ ctrl[r] = {"UNFREEZE_REQ"}
    /\ pc[c] = "fd_clear" => bridge[r] = "unfrozen" /\ ctrl[r] = {"UNFREEZE_REQ"}

\* The inductive invariant of the serialised system.
SerialInv ==
    /\ Serial
    /\ \A c \in Callers : Stands(c)
    /\ \A r \in Regions : (\A c \in Callers : ~Busy(c, r)) => Open(r) \/ Held(r)

\* A step that caller c takes inside its call.
OwnStep(c) ==
    /\ pc[c] # "idle"
    /\ UNCHANGED offset
    /\ \A d \in Callers \ {c} : pc'[d] = pc[d] /\ val'[d] = val[d]
    /\ \A r \in Regions \ {offset[c]} : ctrl'[r] = ctrl[r] /\ bridge'[r] = bridge[r]

\* A step of c inside its call disturbs nothing another caller relies on.
LEMMA OwnStepLocal ==
    ASSUME TypeOK, SerialInv, Serial', NEW c \in Callers, OwnStep(c), Stands(c)',
           pc'[c] = "idle" => (Open(offset[c]) \/ Held(offset[c]))'
    PROVE  SerialInv'
<1> USE DEF TypeOK
<1>1. ASSUME NEW d \in Callers, d # c
      PROVE  Stands(d)'
  <2>1. CASE pc[d] = "idle"
    BY <1>1, <2>1 DEF OwnStep, Stands
  <2>2. CASE pc[d] # "idle"
    <3>1. offset[d] # offset[c]
      BY <1>1, <2>2 DEF OwnStep, SerialInv, Serial, Busy
    <3>2. Stands(d)
      BY DEF SerialInv
    <3>. QED
      BY <1>1, <3>1, <3>2 DEF OwnStep, Stands, Open, Held
  <2>. QED
    BY <2>1, <2>2
<1>2. ASSUME NEW r \in Regions, (\A d \in Callers : ~Busy(d, r))'
      PROVE  (Open(r) \/ Held(r))'
  <2>1. CASE r = offset[c]
    BY <1>2, <2>1 DEF OwnStep, Busy
  <2>2. CASE r # offset[c]
    <3>1. \A d \in Callers : ~Busy(d, r)
      BY <1>2, <2>2 DEF OwnStep, Busy
    <3>2. Open(r) \/ Held(r)
      BY <3>1 DEF SerialInv
    <3>. QED
      BY <2>2, <3>2 DEF OwnStep, Open, Held
  <2>. QED
    BY <2>1, <2>2
<1>. QED
  BY <1>1, <1>2 DEF SerialInv

\* Every step that keeps calls on one region apart preserves SerialInv.
LEMMA SerialStep ==
    ASSUME TypeOK, SerialInv, [Next /\ Serial']_vars
    PROVE  SerialInv'
<1> USE DEF TypeOK
<1>1. ASSUME Serial', NEW c \in Callers, Call(c)
      PROVE  SerialInv'
  <2>1. PICK o \in Regions \cup BadOffsets : FreezeEnable(c, o) \/ FreezeDisable(c, o)
    BY <1>1 DEF Call
  <2>2. /\ pc[c] = "idle" /\ UNCHANGED <<ctrl, bridge, val>>
        /\ pc'[c] \in {"idle", "fe_status", "fd_status"}
        /\ pc'[c] = "idle" => offset'[c] = offset[c]
        /\ offset'[c] \in Regions
    BY <2>1 DEF FreezeEnable, FreezeDisable, Enter, Return, Goto
  <2>3. \A d \in Callers \ {c} : pc'[d] = pc[d] /\ offset'[d] = offset[d]
    BY <2>1 DEF FreezeEnable, FreezeDisable, Enter, Return, Goto
  <2>4. \A d \in Callers \ {c} : Stands(d)'
    BY <2>2, <2>3 DEF SerialInv, Stands, Open, Held
  <2>5. Stands(c)'
    <3>1. CASE pc'[c] = "idle"
      BY <3>1 DEF Stands
    <3>2. CASE pc'[c] # "idle"
      <4>1. \A d \in Callers : ~Busy(d, offset'[c])
        BY <1>1, <2>2, <2>3, <3>2 DEF Serial, Busy
      <4>2. Open(offset'[c]) \/ Held(offset'[c])
        BY <2>2, <4>1 DEF SerialInv
      <4>. QED
        BY <2>2, <3>2, <4>2 DEF Stands, Open, Held
    <3>. QED
      BY <3>1, <3>2
  <2>6. ASSUME NEW r \in Regions, (\A d \in Callers : ~Busy(d, r))'
        PROVE  (Open(r) \/ Held(r))'
    <3>1. \A d \in Callers : ~Busy(d, r)
      BY <2>2, <2>3, <2>6 DEF Busy
    <3>. QED
      BY <2>2, <3>1 DEF SerialInv, Open, Held
  <2>. QED
    BY <1>1, <2>4, <2>5, <2>6 DEF SerialInv
<1>2. ASSUME Serial', NEW c \in Callers, EnableStatus(c) \/ DisableStatus(c)
      PROVE  SerialInv'
  <2>1. OwnStep(c)
    BY <1>2 DEF EnableStatus, DisableStatus, Return, Goto, OwnStep
  <2>2. Open(offset[c]) \/ Held(offset[c])
    BY <1>2 DEF EnableStatus, DisableStatus, Return, Goto, SerialInv, Stands
  <2>3. /\ pc[c] = "fe_status" => pc'[c] \in {"idle", "fe_freeze"}
        /\ pc[c] = "fd_status" => pc'[c] \in {"idle", "fd_read"}
        /\ pc'[c] = "fe_freeze" => Status(offset[c]) = {"UNFREEZE_REQ_DONE"}
        /\ pc'[c] = "fd_read" => Status(offset[c]) = {"FREEZE_REQ_DONE"}
    BY <1>2 DEF EnableStatus, DisableStatus, Return, Goto
  <2>4. /\ Status(offset[c]) = {"UNFREEZE_REQ_DONE"} => bridge[offset[c]] = "unfrozen"
        /\ Status(offset[c]) = {"FREEZE_REQ_DONE"} => bridge[offset[c]] = "frozen"
    BY DEF Status
  <2>5. UNCHANGED <<ctrl, bridge, offset>>
    BY <1>2 DEF EnableStatus, DisableStatus
  <2>6. pc[c] \in {"fe_status", "fd_status"}
    BY <1>2 DEF EnableStatus, DisableStatus, Return, Goto
  <2>7. Stands(c)'
    BY <2>2, <2>3, <2>4, <2>5, <2>6 DEF Stands, Open, Held
  <2>. QED
    BY <1>2, <2>1, <2>2, <2>5, <2>7, OwnStepLocal DEF Open, Held
<1>3. ASSUME Serial', NEW c \in Callers, AssertFreeze(c)
      PROVE  SerialInv'
  <2>1. OwnStep(c)
    BY <1>3 DEF AssertFreeze, WriteCtrl, Goto, OwnStep
  <2>2. Open(offset[c])
    BY <1>3 DEF AssertFreeze, Goto, SerialInv, Stands
  <2>3. Stands(c)' /\ pc'[c] # "idle"
    BY <1>3, <2>2 DEF AssertFreeze, WriteCtrl, React, Goto, Stands, Open
  <2>. QED
    BY <1>3, <2>1, <2>3, OwnStepLocal
<1>4. ASSUME Serial', NEW c \in Callers, AwaitFrozen(c) \/ AwaitUnfrozen(c)
      PROVE  SerialInv'
  <2>1. OwnStep(c)
    BY <1>4 DEF AwaitFrozen, AwaitUnfrozen, Goto, OwnStep
  <2>2. /\ AwaitFrozen(c) => bridge[offset[c]] = "frozen"
        /\ AwaitUnfrozen(c) => bridge[offset[c]] = "unfrozen"
    BY DEF AwaitFrozen, AwaitUnfrozen, Status
  <2>3. Stands(c)
    BY DEF SerialInv
  <2>4. Stands(c)' /\ pc'[c] # "idle"
    BY <1>4, <2>2, <2>3 DEF AwaitFrozen, AwaitUnfrozen, Goto, Stands
  <2>. QED
    BY <1>4, <2>1, <2>4, OwnStepLocal
<1>5. ASSUME Serial', NEW c \in Callers, AssertReset(c) \/ ClearCtrl(c)
      PROVE  SerialInv'
  <2>1. OwnStep(c)
    BY <1>5 DEF AssertReset, ClearCtrl, WriteCtrl, Return, Goto, OwnStep
  <2>2. Stands(c)
    BY DEF SerialInv
  <2>3. pc'[c] = "idle" /\ (Open(offset[c]) \/ Held(offset[c]))'
    BY <1>5, <2>2 DEF AssertReset, ClearCtrl, WriteCtrl, React, Return, Goto, Stands,
                      Open, Held
  <2>4. Stands(c)'
    BY <2>3 DEF Stands
  <2>. QED
    BY <1>5, <2>1, <2>3, <2>4, OwnStepLocal
<1>6. ASSUME Serial', NEW c \in Callers, ReadCtrl(c)
      PROVE  SerialInv'
  <2>1. OwnStep(c)
    BY <1>6 DEF ReadCtrl, Goto, OwnStep
  <2>2. Held(offset[c])
    BY <1>6 DEF ReadCtrl, Goto, SerialInv, Stands
  <2>3. val'[c] = {}
    BY <1>6, <2>2 DEF ReadCtrl, Held
  <2>4. Stands(c)' /\ pc'[c] # "idle"
    BY <1>6, <2>2, <2>3 DEF ReadCtrl, Goto, Stands, Held
  <2>. QED
    BY <1>6, <2>1, <2>4, OwnStepLocal
<1>7. ASSUME Serial', NEW c \in Callers, ToggleReset(c) \/ RequestUnfreeze(c)
      PROVE  SerialInv'
  <2>1. OwnStep(c)
    BY <1>7 DEF ToggleReset, RequestUnfreeze, WriteCtrl, Goto, OwnStep
  <2>2. Stands(c)
    BY DEF SerialInv
  <2>3. Stands(c)' /\ pc'[c] # "idle"
    BY <1>7, <2>2 DEF ToggleReset, RequestUnfreeze, WriteCtrl, React, Goto, Stands, Held
  <2>. QED
    BY <1>7, <2>1, <2>3, OwnStepLocal
<1>8. ASSUME Serial', NEW r \in Regions, Persona(r)
      PROVE  SerialInv'
  <2>1. bridge[r] \in {"freezing", "unfreezing"}
    BY <1>8 DEF Persona, StopAck, StartAck
  <2>2. UNCHANGED <<ctrl, pc, offset, val>> /\ bridge' = [bridge EXCEPT ![r] = bridge'[r]]
    BY <1>8 DEF Persona, StopAck, StartAck
  <2>3. ASSUME NEW c \in Callers
        PROVE  Stands(c)'
    <3>1. Stands(c)
      BY DEF SerialInv
    <3>2. CASE offset[c] = r
      BY <1>8, <2>1, <3>1, <3>2
      DEF Persona, StopAck, StartAck, React, Stands, Open, Held
    <3>3. CASE offset[c] # r
      BY <2>2, <3>1, <3>3 DEF Stands, Open, Held
    <3>. QED
      BY <3>2, <3>3
  <2>4. ASSUME NEW s \in Regions, (\A c \in Callers : ~Busy(c, s))'
        PROVE  (Open(s) \/ Held(s))'
    <3>1. Open(s) \/ Held(s)
      BY <2>2, <2>4 DEF SerialInv, Busy
    <3>2. s # r
      BY <2>1, <3>1 DEF Open, Held
    <3>. QED
      BY <2>2, <3>1, <3>2 DEF Open, Held
  <2>. QED
    BY <1>8, <2>3, <2>4 DEF SerialInv
<1>9. CASE UNCHANGED vars
  BY <1>9 DEF vars, SerialInv, Serial, Stands, Open, Held, Busy
<1>. QED
  BY <1>1, <1>2, <1>3, <1>4, <1>5, <1>6, <1>7, <1>8, <1>9 DEF Next, Step

\* The inductive invariant holds as long as calls on one region are kept apart.
THEOREM SerialInvariant == SerialSpec => [](TypeOK /\ SerialInv)
<1>1. Init => TypeOK /\ SerialInv
  BY DEF Init, TypeOK, PCs, CtrlBits, SerialInv, Serial, Stands, Open, Held, Busy
<1>2. TypeOK /\ SerialInv /\ [Next /\ Serial']_vars => (TypeOK /\ SerialInv)'
  BY TypeStep, SerialStep
<1>. QED
  BY <1>1, <1>2, PTL DEF SerialSpec

\* A region no call works on is open and out of reset, or frozen and in reset.
THEOREM RegionsSettled == SerialSpec => []Settled
<1>1. SerialInv => Settled
  BY DEF SerialInv, Settled, Open, Held
<1>. QED
  BY <1>1, SerialInvariant, PTL

\* Reset is asserted behind closed bridges only.
LEMMA ResetImpliesFrozen ==
    ASSUME TypeOK, SerialInv
    PROVE  ResetOnlyWhileFrozen
<1> SUFFICES ASSUME NEW r \in Regions, "RESET_REQ" \in ctrl[r]
             PROVE  bridge[r] = "frozen"
  BY DEF ResetOnlyWhileFrozen
<1>1. CASE \A c \in Callers : ~Busy(c, r)
  BY <1>1 DEF SerialInv, Open, Held
<1>2. ASSUME NEW c \in Callers, Busy(c, r)
      PROVE  bridge[r] = "frozen"
  <2>1. Stands(c) /\ pc[c] \in PCs \ {"idle"} /\ offset[c] = r
    BY <1>2 DEF SerialInv, TypeOK, Busy
  <2>. QED
    BY <2>1 DEF Stands, Open, Held, PCs, EnablePCs, DisablePCs
<1>. QED
  BY <1>1, <1>2

\* The write of RESET_REQ and the XOR in freeze_disable never put a region with
\* open bridges into reset.
THEOREM ResetSafe == SerialSpec => []ResetOnlyWhileFrozen
  BY ResetImpliesFrozen, SerialInvariant, PTL

\* What the two calls deliver when they return 0.
LEMMA CallsDeliver == SerialSpec => EnableDelivers /\ DisableDelivers
<1> DEFINE E == \A c \in Callers :
                   pc[c] \in EnablePCs /\ pc'[c] = "idle" /\ ret'[c] = "ok" =>
                       /\ bridge'[offset[c]] = "frozen"
                       /\ "RESET_REQ" \in ctrl'[offset[c]]
           D == \A c \in Callers :
                   pc[c] \in DisablePCs /\ pc'[c] = "idle" /\ ret'[c] = "ok" =>
                       bridge'[offset[c]] = "unfrozen" /\ ctrl'[offset[c]] = {}
<1>1. ASSUME TypeOK, SerialInv, Next, NEW c \in Callers,
             pc[c] # "idle", pc'[c] = "idle", ret'[c] = "ok"
      PROVE  /\ pc[c] \in EnablePCs => /\ bridge'[offset[c]] = "frozen"
                                       /\ "RESET_REQ" \in ctrl'[offset[c]]
             /\ pc[c] \in DisablePCs => bridge'[offset[c]] = "unfrozen" /\ ctrl'[offset[c]] = {}
  <2> USE <1>1 DEF TypeOK
  <2>1. \A d \in Callers : Call(d) => pc[d] = "idle" /\ (d # c => pc'[c] = pc[c])
    BY DEF Call, FreezeEnable, FreezeDisable, Enter, Return, Goto
  <2>2. \A d \in Callers : Step(d) /\ d # c => pc'[c] = pc[c]
    BY DEF Step, EnableStatus, AssertFreeze, AwaitFrozen, AssertReset, DisableStatus,
           ReadCtrl, ToggleReset, RequestUnfreeze, AwaitUnfrozen, ClearCtrl, Return, Goto
  <2>3. \A r \in Regions : Persona(r) => pc'[c] = pc[c]
    BY DEF Persona, StopAck, StartAck
  <2>4. Step(c)
    BY <2>1, <2>2, <2>3 DEF Next
  <2>5. EnableStatus(c) \/ AssertReset(c) \/ DisableStatus(c) \/ ClearCtrl(c)
    BY <2>4 DEF Step, AssertFreeze, AwaitFrozen, ReadCtrl, ToggleReset, RequestUnfreeze,
                AwaitUnfrozen, Goto
  <2>6. Stands(c)
    BY DEF SerialInv
  <2>7. CASE EnableStatus(c)
    <3>1. pc[c] = "fe_status" /\ UNCHANGED <<ctrl, bridge, offset>>
      BY <2>7 DEF EnableStatus, Return, Goto
    <3>2. "FREEZE_REQ_DONE" \in Status(offset[c])
      BY <2>7 DEF EnableStatus, Return, Goto
    <3>3. bridge[offset[c]] = "frozen"
      BY <3>2 DEF Status
    <3>. QED
      BY <2>6, <3>1, <3>3 DEF Stands, Open, Held, DisablePCs
  <2>8. CASE DisableStatus(c)
    <3>1. pc[c] = "fd_status" /\ UNCHANGED <<ctrl, bridge, offset>>
      BY <2>8 DEF DisableStatus, Return, Goto
    <3>2. "UNFREEZE_REQ_DONE" \in Status(offset[c])
      BY <2>8 DEF DisableStatus, Return, Goto
    <3>3. bridge[offset[c]] = "unfrozen"
      BY <3>2 DEF Status
    <3>. QED
      BY <2>6, <3>1, <3>3 DEF Stands, Open, Held, EnablePCs
  <2>9. CASE AssertReset(c)
    BY <2>6, <2>9 DEF AssertReset, WriteCtrl, React, Return, Goto, Stands, DisablePCs
  <2>10. CASE ClearCtrl(c)
    BY <2>6, <2>10 DEF ClearCtrl, WriteCtrl, React, Return, Goto, Stands, EnablePCs
  <2>. QED
    BY <2>5, <2>7, <2>8, <2>9, <2>10
<1>2. TypeOK /\ SerialInv /\ [Next /\ Serial']_vars => [E]_vars /\ [D]_vars
  BY <1>1 DEF EnablePCs, DisablePCs
<1>. QED
  BY <1>2, SerialInvariant, PTL DEF SerialSpec, EnableDelivers, DisableDelivers

\* A call of freeze_enable that returns 0 has frozen the region and put it into
\* reset, whatever calls came before (fpga-region-controller.c 77-80).
THEOREM EnableCallDelivers == SerialSpec => EnableDelivers
  BY CallsDeliver

\* A call of freeze_disable that returns 0 has opened the region and left the
\* control register clear (117-120).
THEOREM DisableCallDelivers == SerialSpec => DisableDelivers
  BY CallsDeliver

-----------------------------------------------------------------------------
(* The refinement of RegionIsolation.                                      *)

\* Where the stage of region r stands in the serialised system.
LEMMA StageMoves ==
    ASSUME TypeOK, SerialInv, SerialInv', Next, NEW r \in Regions
    PROVE  StageOf(r)' = StageOf(r) \/ <<StageOf(r), StageOf(r)'>> \in Isolation!Adjacent
<1> USE DEF TypeOK
<1>1. ASSUME NEW c \in Callers, Call(c)
      PROVE  StageOf(r)' = StageOf(r)
  BY <1>1 DEF Call, FreezeEnable, FreezeDisable, Enter, StageOf
<1>2. ASSUME NEW c \in Callers,
             EnableStatus(c) \/ DisableStatus(c) \/ AwaitFrozen(c) \/ AwaitUnfrozen(c)
                 \/ ReadCtrl(c)
      PROVE  StageOf(r)' = StageOf(r)
  BY <1>2 DEF EnableStatus, DisableStatus, AwaitFrozen, AwaitUnfrozen, ReadCtrl, StageOf
<1>3. ASSUME NEW c \in Callers, NEW v, WriteCtrl(offset[c], v), offset[c] # r
      PROVE  StageOf(r)' = StageOf(r)
  BY <1>3 DEF WriteCtrl, StageOf
<1>4. ASSUME NEW c \in Callers, offset[c] = r,
             AssertFreeze(c) \/ AssertReset(c) \/ ToggleReset(c) \/ RequestUnfreeze(c)
                 \/ ClearCtrl(c)
      PROVE  StageOf(r)' = StageOf(r) \/ <<StageOf(r), StageOf(r)'>> \in Isolation!Adjacent
  <2>1. Stands(c)
    BY DEF SerialInv
  <2>2. CASE AssertFreeze(c)
    BY <1>4, <2>1, <2>2 DEF AssertFreeze, WriteCtrl, React, Goto, Stands, Open, StageOf
  <2>5. CASE RequestUnfreeze(c)
    BY <1>4, <2>1, <2>5 DEF RequestUnfreeze, WriteCtrl, React, Goto, Stands, StageOf
  <2>6. CASE ClearCtrl(c)
    BY <1>4, <2>1, <2>6 DEF ClearCtrl, WriteCtrl, React, Return, Goto, Stands, StageOf
  <2>3. CASE AssertReset(c)
    <3>1. StageOf(r) = "frozen" /\ StageOf(r)' = "held"
      BY <1>4, <2>1, <2>3 DEF AssertReset, WriteCtrl, React, Return, Goto, Stands, StageOf
    <3>. QED
      BY <3>1 DEF Isolation!Adjacent
  <2>4. CASE ToggleReset(c)
    <3>1. StageOf(r) = "held" /\ StageOf(r)' = "frozen"
      BY <1>4, <2>1, <2>4 DEF ToggleReset, WriteCtrl, React, Goto, Stands, Held, StageOf
    <3>. QED
      BY <3>1 DEF Isolation!Adjacent
  <2>. QED
    BY <1>4, <2>2, <2>3, <2>4, <2>5, <2>6
<1>5. ASSUME NEW s \in Regions, Persona(s)
      PROVE  StageOf(r)' = StageOf(r) \/ <<StageOf(r), StageOf(r)'>> \in Isolation!Adjacent
  <2>1. CASE s # r
    BY <1>5, <2>1 DEF Persona, StopAck, StartAck, StageOf
  <2>2. CASE s = r
    <3>1. "RESET_REQ" \notin ctrl[r]
      BY <1>5, <2>2, ResetImpliesFrozen DEF Persona, StopAck, StartAck, ResetOnlyWhileFrozen
    <3>. QED
      BY <1>5, <2>2, <3>1 DEF Persona, StopAck, StartAck, React, StageOf, Isolation!Adjacent
  <2>. QED
    BY <2>1, <2>2
<1>. QED
  BY <1>1, <1>2, <1>3, <1>4, <1>5
  DEF Next, Step, AssertFreeze, AssertReset, ToggleReset, RequestUnfreeze, ClearCtrl

\* A step changes the stage of one region at most.
LEMMA OneStageMoves ==
    ASSUME TypeOK, Next
    PROVE  (\A s \in Regions : StageOf(s)' = StageOf(s))
           \/ \E r \in Regions : \A s \in Regions \ {r} : StageOf(s)' = StageOf(s)
<1> USE DEF TypeOK
<1>1. ASSUME NEW c \in Callers, NEW v, WriteCtrl(offset[c], v)
      PROVE  \A s \in Regions \ {offset[c]} : StageOf(s)' = StageOf(s)
  BY <1>1 DEF WriteCtrl, StageOf
<1>2. ASSUME UNCHANGED <<ctrl, bridge>>
      PROVE  \A s \in Regions : StageOf(s)' = StageOf(s)
  BY <1>2 DEF StageOf
<1>3. ASSUME NEW c \in Callers, Call(c)
      PROVE  UNCHANGED <<ctrl, bridge>>
  BY <1>3 DEF Call, FreezeEnable, FreezeDisable, Enter
<1>4. ASSUME NEW c \in Callers, Step(c)
      PROVE  UNCHANGED <<ctrl, bridge>> \/ \E v : WriteCtrl(offset[c], v)
  BY <1>4 DEF Step, EnableStatus, AssertFreeze, AwaitFrozen, AssertReset, DisableStatus,
     ReadCtrl, ToggleReset, RequestUnfreeze, AwaitUnfrozen, ClearCtrl
<1>5. ASSUME NEW r \in Regions, Persona(r)
      PROVE  \A s \in Regions \ {r} : StageOf(s)' = StageOf(s)
  BY <1>5 DEF Persona, StopAck, StartAck, StageOf
<1>. QED
  BY <1>1, <1>2, <1>3, <1>4, <1>5 DEF Next

\* The register protocol of fpga-region-controller.c, with calls on one region
\* kept apart, implements staged isolation: reset is never seen by a region
\* with open bridges, and no stage is skipped.
THEOREM Refinement == SerialSpec => StagedIsolation
<1> DEFINE stage == [r \in Regions |-> StageOf(r)]
<1>1. Init => Isolation!Init
  BY DEF Init, StageOf, Isolation!Init
<1>2. ASSUME TypeOK, SerialInv, SerialInv', [Next]_vars
      PROVE  [Isolation!Next]_stage
  <2>1. CASE UNCHANGED vars
    <3>1. \A r \in Regions : StageOf(r)' = StageOf(r)
      BY <2>1 DEF vars, StageOf
    <3>. QED
      BY <3>1
  <2>2. CASE Next
    <3>1. CASE \A s \in Regions : StageOf(s)' = StageOf(s)
      BY <3>1
    <3>2. ASSUME NEW r \in Regions, \A s \in Regions \ {r} : StageOf(s)' = StageOf(s),
                 StageOf(r)' # StageOf(r)
          PROVE  Isolation!Next
      <4>1. <<StageOf(r), StageOf(r)'>> \in Isolation!Adjacent
        BY <2>2, <3>2, <1>2, StageMoves
      <4>2. StageOf(r)' \in Isolation!Stages
        BY <4>1 DEF Isolation!Adjacent, Isolation!Stages
      <4>3. stage' = [stage EXCEPT ![r] = StageOf(r)']
        <5>1. stage' = [s \in Regions |-> StageOf(s)']
          BY Zenon
        <5>2. \A s \in Regions : stage'[s] = IF s = r THEN StageOf(r)' ELSE stage[s]
          BY <3>2, <5>1
        <5>. QED
          BY <5>1, <5>2
      <4>4. <<stage[r], StageOf(r)'>> \in Isolation!Adjacent
        BY <4>1
      <4>5. Isolation!Move(r)
        BY <4>2, <4>3, <4>4 DEF Isolation!Move
      <4>. QED
        BY <4>5 DEF Isolation!Next
    <3>. QED
      BY <1>2, <2>2, <3>1, <3>2, OneStageMoves
  <2>. QED
    BY <1>2, <2>1, <2>2
<1>3. (TypeOK /\ SerialInv) /\ (TypeOK /\ SerialInv)' /\ [Next /\ Serial']_vars
        => [Isolation!Next]_stage
  BY <1>2
<1>. QED
  BY <1>1, <1>3, SerialInvariant, PTL DEF SerialSpec, StagedIsolation, Isolation!Spec
=============================================================================
