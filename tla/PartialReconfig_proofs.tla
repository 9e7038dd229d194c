----------------------- MODULE PartialReconfig_proofs -----------------------
(***************************************************************************)
(* Proofs about PartialReconfig, for any number of tools, any images and   *)
(* any bounds of the loops, with tools killed between two ioctls at will.  *)
(*                                                                         *)
(* The system implements its two components: every behaviour of it is one  *)
(* of RegionController and one of ConfigLoad, and with one tool at a time  *)
(* one of their serialised forms.  What is proved of the components then   *)
(* holds of the system, and WordsOnlyWhileHeld and OpenPartialIsRecorded   *)
(* follow from it.                                                         *)
(***************************************************************************)
EXTENDS PartialReconfig, TLAPS

RCP == INSTANCE RegionController_proofs
         WITH Callers <- Tools, Regions <- {Target}, pc <- rpc, ret <- rret

LP == INSTANCE ConfigLoad_proofs
        WITH Callers <- Tools, pc <- lpc, ret <- lret

\* The one region of the design satisfies the assumption of RegionController.
LEMMA OneRegion == {Target} \cap BadOffsets = {}
  BY PartialAssumption

-----------------------------------------------------------------------------
(* The instances the proofs of the components are about.                   *)

\* The specification of the region controller, as PartialReconfig and as the
\* proofs of RegionController instantiate it.
LEMMA RegionInstance ==
    /\ RC!Spec => RCP!Spec
    /\ RC!SerialSpec => RCP!SerialSpec
<1>1. RC!Init => RCP!Init
  BY DEF RC!Init, RCP!Init
<1>2. \A c \in Tools : RC!Call(c) => RCP!Call(c)
  BY DEF RC!Call, RCP!Call, RC!FreezeEnable, RCP!FreezeEnable, RC!FreezeDisable,
         RCP!FreezeDisable, RC!Enter, RCP!Enter, RC!Return, RCP!Return, RC!Goto, RCP!Goto
<1>3. \A c \in Tools : RC!Step(c) => RCP!Step(c)
  BY DEF RC!Step, RCP!Step, RC!Status, RCP!Status, RC!WriteCtrl, RCP!WriteCtrl,
         RC!React, RCP!React, RC!Goto, RCP!Goto, RC!Return, RCP!Return,
         RC!EnableStatus, RCP!EnableStatus, RC!AssertFreeze, RCP!AssertFreeze,
         RC!AwaitFrozen, RCP!AwaitFrozen, RC!AssertReset, RCP!AssertReset,
         RC!DisableStatus, RCP!DisableStatus, RC!ReadCtrl, RCP!ReadCtrl,
         RC!ToggleReset, RCP!ToggleReset, RC!RequestUnfreeze, RCP!RequestUnfreeze,
         RC!AwaitUnfrozen, RCP!AwaitUnfrozen, RC!ClearCtrl, RCP!ClearCtrl
<1>4. \A r \in {Target} : RC!Persona(r) => RCP!Persona(r)
  BY DEF RC!Persona, RCP!Persona, RC!StopAck, RCP!StopAck, RC!StartAck, RCP!StartAck,
         RC!React, RCP!React
<1>5. RC!Next => RCP!Next
  BY <1>2, <1>3, <1>4 DEF RC!Next, RCP!Next
<1>6. RC!Serial' => RCP!Serial'
  BY DEF RC!Serial, RCP!Serial, RC!Busy, RCP!Busy
<1>7. RC!Spec => RCP!Spec
  <2>1. [RC!Next]_(RC!vars) => [RCP!Next]_(RCP!vars)
    BY <1>5 DEF RC!vars, RCP!vars
  <2>. QED
    BY <1>1, <2>1, PTL DEF RC!Spec, RCP!Spec
<1>8. RC!SerialSpec => RCP!SerialSpec
  <2>1. [RC!Next /\ RC!Serial']_(RC!vars) => [RCP!Next /\ RCP!Serial']_(RCP!vars)
    BY <1>5, <1>6 DEF RC!vars, RCP!vars
  <2>. QED
    BY <1>1, <2>1, PTL DEF RC!SerialSpec, RCP!SerialSpec
<1>. QED
  BY <1>7, <1>8

\* The same for the load.
LEMMA LoadInstance ==
    /\ Load!Spec => LP!Spec
    /\ Load!SerialSpec => LP!SerialSpec
<1>1. Load!Init => LP!Init
  BY DEF Load!Init, LP!Init, Load!Statuses, LP!Statuses, Load!ErrStatus, LP!ErrStatus,
         Load!NoLocals, LP!NoLocals
<1>2. \A c \in Tools : Load!Call(c) => LP!Call(c)
  BY DEF Load!Call, LP!Call, Load!BufLoad, LP!BufLoad, Load!Return, LP!Return, Load!Goto, LP!Goto,
         Load!NoLocals, LP!NoLocals, Load!ipVars, LP!ipVars
<1>3. Load!Ip => LP!Ip
  BY DEF Load!Ip, LP!Ip, Load!IpSucceed, LP!IpSucceed, Load!IpFail, LP!IpFail,
         Load!IpReady, LP!IpReady, Load!Contents, LP!Contents, Load!Word, LP!Word,
         Load!Smaller, LP!Smaller, Load!ErrStatus, LP!ErrStatus
<1>4. ASSUME NEW c \in Tools
      PROVE  /\ Load!ReadCsr(c) => LP!ReadCsr(c)
             /\ Load!CheckPofId(c) => LP!CheckPofId(c)
             /\ Load!WaitInitial(c) => LP!WaitInitial(c)
             /\ Load!PollInitial(c) => LP!PollInitial(c)
             /\ Load!WriteStart(c) => LP!WriteStart(c)
  BY DEF Load!ReadCsr, LP!ReadCsr, Load!CheckPofId, LP!CheckPofId, Load!WaitInitial, LP!WaitInitial,
         Load!PollInitial, LP!PollInitial, Load!WriteStart, LP!WriteStart, Load!IpStart, LP!IpStart,
         Load!NotInitial, LP!NotInitial, Load!Return, LP!Return, Load!Continue, LP!Continue,
         Load!Goto, LP!Goto, Load!NoLocals, LP!NoLocals, Load!ipVars, LP!ipVars
<1>5. ASSUME NEW c \in Tools
      PROVE  /\ Load!WriteWord(c) => LP!WriteWord(c)
             /\ Load!ReadFails(c) => LP!ReadFails(c)
  BY DEF Load!WriteWord, LP!WriteWord, Load!ReadFails, LP!ReadFails, Load!IpTake, LP!IpTake,
         Load!AfterBytes, LP!AfterBytes, Load!Word, LP!Word, Load!Smaller, LP!Smaller,
         Load!Garbage, LP!Garbage, Load!Return, LP!Return, Load!Continue, LP!Continue,
         Load!Goto, LP!Goto, Load!NoLocals, LP!NoLocals, Load!ipVars, LP!ipVars
<1>6. ASSUME NEW c \in Tools
      PROVE  /\ Load!CheckChunk(c) => LP!CheckChunk(c)
             /\ Load!FinishWrite(c) => LP!FinishWrite(c)
             /\ Load!PollComplete(c) => LP!PollComplete(c)
  BY DEF Load!CheckChunk, LP!CheckChunk, Load!FinishWrite, LP!FinishWrite,
         Load!PollComplete, LP!PollComplete, Load!FpgaState, LP!FpgaState,
         Load!StateA10, LP!StateA10, Load!StateS10, LP!StateS10, Load!AfterBytes, LP!AfterBytes,
         Load!Return, LP!Return, Load!Continue, LP!Continue, Load!Goto, LP!Goto,
         Load!NoLocals, LP!NoLocals, Load!ipVars, LP!ipVars
<1>7. \A c \in Tools : Load!Step(c) => LP!Step(c)
  BY <1>4, <1>5, <1>6 DEF Load!Step, LP!Step
<1>8. Load!Next => LP!Next
  BY <1>2, <1>3, <1>7 DEF Load!Next, LP!Next
<1>9. Load!Serial' => LP!Serial'
  BY DEF Load!Serial, LP!Serial, Load!Loading, LP!Loading
<1>10. Load!Spec => LP!Spec
  <2>1. [Load!Next]_(Load!vars) => [LP!Next]_(LP!vars)
    BY <1>8 DEF Load!vars, LP!vars
  <2>. QED
    BY <1>1, <2>1, PTL DEF Load!Spec, LP!Spec
<1>11. Load!SerialSpec => LP!SerialSpec
  <2>1. [Load!Next /\ Load!Serial']_(Load!vars) => [LP!Next /\ LP!Serial']_(LP!vars)
    BY <1>8, <1>9 DEF Load!vars, LP!vars
  <2>. QED
    BY <1>1, <2>1, PTL DEF Load!SerialSpec, LP!SerialSpec
<1>. QED
  BY <1>10, <1>11

-----------------------------------------------------------------------------
(* The tools, and the components they drive.                               *)

\* A running tool has an image.
ToolTypeOK ==
    /\ tpc \in [Tools -> {"off", "enable", "load", "disable"}]
    /\ job \in [Tools -> Images \cup {"none"}]
    /\ exit \in [Tools -> {"none", "0", "-1", "killed"}]
    /\ \A t \in Tools : tpc[t] # "off" => job[t] \in Images

\* Only the tool's own steps change its variables, and they keep their types.
LEMMA ToolTypeStep ==
    ASSUME ToolTypeOK, [Next]_vars
    PROVE  ToolTypeOK'
<1>1. ASSUME NEW t \in Tools, NEW code \in {"0", "-1", "killed"}, End(t, code)
      PROVE  ToolTypeOK'
  BY <1>1 DEF End, ToolTypeOK
<1>2. ASSUME NEW t \in Tools, NEW m \in Images, NEW o, Start(t, m, o)
      PROVE  ToolTypeOK'
  BY <1>2 DEF Start, Issue, ToolTypeOK
<1>3. ASSUME NEW t \in Tools, InitiatePR(t) \/ Unfreeze(t)
      PROVE  ToolTypeOK'
  BY <1>3 DEF InitiatePR, Unfreeze, Issue, ToolTypeOK
<1>4. ASSUME NEW t \in Tools, EnableFailed(t) \/ OpenFails(t) \/ Finish(t) \/ Killed(t)
      PROVE  ToolTypeOK'
  BY <1>1, <1>4 DEF EnableFailed, OpenFails, Finish, Killed
<1>5. CASE UNCHANGED toolVars
  BY <1>5 DEF toolVars, ToolTypeOK
<1>6. CASE Ip \/ Persona \/ \E t \in Tools : Kernel(t)
  BY <1>5, <1>6 DEF Ip, Persona, Kernel
<1>. QED
  BY <1>2, <1>3, <1>4, <1>5, <1>6 DEF Next, Run, vars

\* The tools keep their types under any interleaving.
LEMMA ToolTypes == Spec => []ToolTypeOK
<1>1. Init => ToolTypeOK
  BY DEF Init, ToolTypeOK
<1>. QED
  BY <1>1, ToolTypeStep, PTL DEF Spec

\* A step of the system is a step of the region controller, or leaves it alone.
LEMMA RegionStep ==
    ASSUME [Next]_vars
    PROVE  [RC!Next]_(RC!vars)
<1>1. ASSUME NEW t \in Tools, NEW m, NEW o \in {Target} \cup BadOffsets, Start(t, m, o)
      PROVE  RC!Next
  BY <1>1 DEF Start, RC!Next, RC!Call
<1>2. ASSUME NEW t \in Tools, Unfreeze(t)
      PROVE  RC!Next
  BY <1>2 DEF Unfreeze, RC!Next, RC!Call
<1>3. CASE UNCHANGED regionVars
  BY <1>3 DEF regionVars, RC!vars
<1>4. ASSUME NEW t \in Tools, Kernel(t)
      PROVE  [RC!Next]_(RC!vars)
  BY <1>3, <1>4 DEF Kernel, RC!Next
<1>5. ASSUME NEW t \in Tools,
             EnableFailed(t) \/ OpenFails(t) \/ Finish(t) \/ Killed(t) \/ InitiatePR(t)
      PROVE  UNCHANGED regionVars
  BY <1>5 DEF EnableFailed, OpenFails, Finish, Killed, InitiatePR
<1>6. CASE Ip
  BY <1>3, <1>6 DEF Ip
<1>7. CASE Persona
  BY <1>7 DEF Persona, RC!Next
<1>. QED
  BY <1>1, <1>2, <1>3, <1>4, <1>5, <1>6, <1>7 DEF Next, Run, vars

\* A step of the system is a step of the load, or leaves it alone.
LEMMA LoadStep ==
    ASSUME ToolTypeOK, [Next]_vars
    PROVE  [Load!Next]_(Load!vars)
<1>1. ASSUME NEW t \in Tools, InitiatePR(t)
      PROVE  Load!Next
  <2>1. job[t] \in Images
    BY <1>1 DEF InitiatePR, Issue, ToolTypeOK
  <2>. QED
    BY <1>1, <2>1 DEF InitiatePR, Load!Next, Load!Call
<1>2. CASE UNCHANGED loadVars
  BY <1>2 DEF loadVars, Load!vars
<1>3. ASSUME NEW t \in Tools, Kernel(t)
      PROVE  [Load!Next]_(Load!vars)
  BY <1>2, <1>3 DEF Kernel, Load!Next
<1>4. ASSUME NEW t \in Tools,
             \/ EnableFailed(t) \/ OpenFails(t) \/ Finish(t) \/ Killed(t) \/ Unfreeze(t)
             \/ \E m, o : Start(t, m, o)
      PROVE  UNCHANGED loadVars
  BY <1>4 DEF EnableFailed, OpenFails, Finish, Killed, Unfreeze, Start
<1>5. CASE Ip
  BY <1>5 DEF Ip, Load!Next
<1>6. CASE Persona
  BY <1>2, <1>6 DEF Persona
<1>. QED
  BY <1>1, <1>2, <1>3, <1>4, <1>5, <1>6 DEF Next, Run, vars

\* The system implements its two components: whatever the tools do, the region
\* controller and the PR IP see calls of the driver and nothing else.
THEOREM ImplementsComponents == Spec => RC!Spec /\ Load!Spec
<1>1. Init => RC!Init /\ Load!Init
  BY DEF Init
<1>2. Spec => RC!Spec
  BY <1>1, RegionStep, PTL DEF Spec, RC!Spec
<1>3. Spec => Load!Spec
  BY <1>1, LoadStep, ToolTypes, PTL DEF Spec, Load!Spec
<1>. QED
  BY <1>2, <1>3

-----------------------------------------------------------------------------
(* Type correctness, without serialisation.                                *)

\* The components keep their types.
LEMMA ComponentTypes == Spec => [](RC!TypeOK /\ Load!TypeOK)
<1>1. RCP!TypeOK => RC!TypeOK
  BY DEF RCP!TypeOK, RC!TypeOK, RCP!CtrlBits, RC!CtrlBits, RCP!PCs, RC!PCs,
         RCP!EnablePCs, RC!EnablePCs, RCP!DisablePCs, RC!DisablePCs
<1>2. LP!TypeOK => Load!TypeOK
  BY DEF LP!TypeOK, Load!TypeOK, LP!Statuses, Load!Statuses, LP!ErrStatus, Load!ErrStatus,
         LP!Garbage, Load!Garbage, LP!WordsOf, Load!WordsOf, LP!Word, Load!Word,
         LP!Smaller, Load!Smaller, LP!ConfigStates, Load!ConfigStates, LP!PCs, Load!PCs,
         LP!NoLocals, Load!NoLocals
<1>3. RC!Spec => []RC!TypeOK
  BY <1>1, RegionInstance, RCP!TypeCorrect, OneRegion, PTL
<1>4. Load!Spec => []Load!TypeOK
  BY <1>2, LoadInstance, LP!TypeCorrect, PartialAssumption, PTL
<1>. QED
  BY <1>3, <1>4, ImplementsComponents, PTL

\* The ioctl a thread is inside is the one its tool has issued.
Link(t) ==
    /\ rpc[t] \in RC!EnablePCs => tpc[t] = "enable"
    /\ rpc[t] \in RC!DisablePCs => tpc[t] = "disable"
    /\ lpc[t] # "idle" => tpc[t] = "load"

Links == \A t \in Tools : Link(t)

\* A step inside a call of the region controller stays inside that call.
LEMMA RegionStepOwn ==
    ASSUME RC!TypeOK, NEW t \in Tools, RC!Step(t)
    PROVE  /\ rpc[t] # "idle"
           /\ \A d \in Tools \ {t} : rpc'[d] = rpc[d] /\ rret'[d] = rret[d]
           /\ rpc'[t] \in RC!EnablePCs => rpc[t] \in RC!EnablePCs
           /\ rpc'[t] \in RC!DisablePCs => rpc[t] \in RC!DisablePCs
<1> USE DEF RC!TypeOK, RC!Goto, RC!Return, RC!EnablePCs, RC!DisablePCs
<1>1. CASE RC!EnableStatus(t) \/ RC!AssertFreeze(t) \/ RC!AwaitFrozen(t) \/ RC!AssertReset(t)
  BY <1>1 DEF RC!EnableStatus, RC!AssertFreeze, RC!AwaitFrozen, RC!AssertReset
<1>2. CASE RC!DisableStatus(t) \/ RC!ReadCtrl(t) \/ RC!ToggleReset(t)
  BY <1>2 DEF RC!DisableStatus, RC!ReadCtrl, RC!ToggleReset
<1>3. CASE RC!RequestUnfreeze(t) \/ RC!AwaitUnfrozen(t) \/ RC!ClearCtrl(t)
  BY <1>3 DEF RC!RequestUnfreeze, RC!AwaitUnfrozen, RC!ClearCtrl
<1>. QED
  BY <1>1, <1>2, <1>3 DEF RC!Step

\* A step inside a load is one of the thread that loads.
LEMMA LoadStepOwn ==
    ASSUME Load!TypeOK, NEW t \in Tools, Load!Step(t)
    PROVE  /\ lpc[t] # "idle"
           /\ \A d \in Tools \ {t} : lpc'[d] = lpc[d]
<1> USE DEF Load!Goto, Load!Return, Load!Continue
<1>1. PICK from, to : lpc[t] = from /\ from # "idle" /\ lpc' = [lpc EXCEPT ![t] = to]
  <2>1. CASE \/ Load!ReadCsr(t) \/ Load!CheckPofId(t) \/ Load!WaitInitial(t)
             \/ Load!PollInitial(t) \/ Load!WriteStart(t)
    BY <2>1 DEF Load!ReadCsr, Load!CheckPofId, Load!WaitInitial, Load!PollInitial, Load!WriteStart
  <2>2. CASE Load!WriteWord(t) \/ Load!CheckChunk(t) \/ Load!ReadFails(t)
    BY <2>2 DEF Load!WriteWord, Load!CheckChunk, Load!ReadFails
  <2>3. CASE Load!FinishWrite(t) \/ Load!PollComplete(t)
    BY <2>3 DEF Load!FinishWrite, Load!PollComplete
  <2>. QED
    BY <2>1, <2>2, <2>3 DEF Load!Step
<1>2. lpc \in [Tools -> Load!PCs]
  BY DEF Load!TypeOK
<1>. QED
  BY <1>1, <1>2

\* A call of the region controller that begins.
LEMMA EnterOwn ==
    ASSUME RC!TypeOK, NEW t \in Tools, NEW o \in {Target} \cup BadOffsets, NEW first,
           RC!Enter(t, o, first)
    PROVE  /\ rpc[t] = "idle"
           /\ \A d \in Tools \ {t} : rpc'[d] = rpc[d] /\ rret'[d] = rret[d]
           /\ \/ rpc'[t] = "idle" /\ rret'[t] = "EINVAL"
              \/ rpc'[t] = first /\ rret'[t] = "none"
           /\ UNCHANGED <<ctrl, bridge>>
  BY DEF RC!TypeOK, RC!Enter, RC!Goto, RC!Return

\* Every step keeps the threads and the tools together.
LEMMA LinkStep ==
    ASSUME ToolTypeOK, RC!TypeOK, Load!TypeOK, Links, [Next]_vars
    PROVE  Links'
<1> USE DEF Links, Link
<1>0. "idle" \notin RC!EnablePCs \cup RC!DisablePCs /\ RC!EnablePCs \cap RC!DisablePCs = {}
  BY DEF RC!EnablePCs, RC!DisablePCs
<1>1. ASSUME NEW t \in Tools, NEW code, End(t, code), ~InKernel(t), UNCHANGED <<regionVars, loadVars>>
      PROVE  Links'
  BY <1>0, <1>1 DEF End, InKernel, regionVars, loadVars, ToolTypeOK
<1>2. ASSUME NEW t \in Tools, NEW m \in Images, NEW o \in {Target} \cup BadOffsets, Start(t, m, o)
      PROVE  Links'
  <2>1. RC!Enter(t, o, "fe_status") /\ lpc[t] = "idle" /\ UNCHANGED lpc
    BY <1>2 DEF Start, Issue, InKernel, RC!FreezeEnable, loadVars
  <2>2. tpc'[t] = "enable" /\ \A d \in Tools \ {t} : tpc'[d] = tpc[d]
    BY <1>2 DEF Start, Issue, ToolTypeOK
  <2>3. "fe_status" \notin RC!DisablePCs
    BY DEF RC!DisablePCs
  <2>. QED
    BY <1>0, <2>1, <2>2, <2>3, EnterOwn
<1>3. ASSUME NEW t \in Tools, InitiatePR(t)
      PROVE  Links'
  <2>1. rpc[t] = "idle" /\ UNCHANGED rpc
    BY <1>3 DEF InitiatePR, Issue, InKernel, regionVars
  <2>2. tpc'[t] = "load" /\ \A d \in Tools \ {t} : tpc'[d] = tpc[d]
    BY <1>3 DEF InitiatePR, Issue, ToolTypeOK
  <2>3. \A d \in Tools \ {t} : lpc'[d] = lpc[d]
    BY <1>3 DEF InitiatePR, Load!BufLoad, Load!Return, Load!Goto, Load!TypeOK
  <2>. QED
    BY <1>0, <2>1, <2>2, <2>3
<1>4. ASSUME NEW t \in Tools, Unfreeze(t)
      PROVE  Links'
  <2>1. RC!Enter(t, Target, "fd_status") /\ lpc[t] = "idle" /\ UNCHANGED lpc
    BY <1>4 DEF Unfreeze, Issue, InKernel, RC!FreezeDisable, loadVars
  <2>2. tpc'[t] = "disable" /\ \A d \in Tools \ {t} : tpc'[d] = tpc[d]
    BY <1>4 DEF Unfreeze, Issue, ToolTypeOK
  <2>3. "fd_status" \notin RC!EnablePCs
    BY DEF RC!EnablePCs
  <2>. QED
    BY <1>0, <2>1, <2>2, <2>3, EnterOwn
<1>5. ASSUME NEW t \in Tools, EnableFailed(t) \/ OpenFails(t) \/ Finish(t) \/ Killed(t)
      PROVE  Links'
  BY <1>1, <1>5 DEF EnableFailed, OpenFails, Finish, Killed
<1>6. ASSUME NEW t \in Tools, Kernel(t)
      PROVE  Links'
  <2>1. CASE RC!Step(t) /\ UNCHANGED <<toolVars, loadVars>>
    BY <2>1, RegionStepOwn DEF toolVars, loadVars
  <2>2. CASE Load!Step(t) /\ UNCHANGED <<toolVars, regionVars>>
    BY <2>2, LoadStepOwn DEF toolVars, regionVars
  <2>. QED
    BY <1>6, <2>1, <2>2 DEF Kernel
<1>7. CASE Ip
  BY <1>7 DEF Ip, Load!Ip, Load!IpSucceed, Load!IpFail, Load!IpReady, toolVars, regionVars
<1>8. CASE Persona
  BY <1>8 DEF Persona, RC!Persona, RC!StopAck, RC!StartAck, toolVars, loadVars
<1>9. CASE UNCHANGED vars
  BY <1>9 DEF vars, toolVars, regionVars, loadVars
<1>. QED
  BY <1>2, <1>3, <1>4, <1>5, <1>6, <1>7, <1>8, <1>9 DEF Next, Run

\* Under any interleaving of any number of tools the thread of a tool is only
\* inside the ioctl the tool has issued.
LEMMA LinksHold == Spec => []Links
<1>1. Init => Links
  BY DEF Init, Links, Link, RC!Init, Load!Init, RC!EnablePCs, RC!DisablePCs
<1>. QED
  BY <1>1, LinkStep, ToolTypes, ComponentTypes, PTL DEF Spec

\* The tools, the driver and the hardware keep their types under any
\* interleaving: a thread is only ever inside the ioctl its tool has issued, also
\* after tools were killed (my_ioctl(), partial_reconfig()).
THEOREM TypeCorrect == Spec => []TypeOK
<1>1. ToolTypeOK /\ RC!TypeOK /\ Load!TypeOK /\ Links => TypeOK
  <2>. SUFFICES ASSUME ToolTypeOK, RC!TypeOK, Load!TypeOK, Links, NEW t \in Tools, rpc[t] # "idle"
                PROVE  tpc[t] \in {"enable", "disable"}
    BY DEF ToolTypeOK, Links, Link, TypeOK
  <2>1. rpc[t] \in RC!EnablePCs \cup RC!DisablePCs
    BY DEF RC!TypeOK, RC!PCs
  <2>. QED
    BY <2>1 DEF Links, Link
<1>. QED
  BY <1>1, ToolTypes, ComponentTypes, LinksHold, PTL

-----------------------------------------------------------------------------
(* One tool at a time.                                                     *)

\* With one tool at a time no two calls of a component overlap: the system
\* implements the serialised components, and what is proved of those holds of it.
THEOREM ImplementsSerialComponents == SerialSpec => RC!SerialSpec /\ Load!SerialSpec
<1>1. SerialSpec => Spec
  BY PTL DEF SerialSpec, Spec
<1>2. TypeOK /\ Serial => RC!Serial /\ Load!Serial
  BY DEF TypeOK, Serial, RC!Serial, RC!Busy, Load!Serial, Load!Loading
<1>3. SerialSpec => []TypeOK
  BY <1>1, TypeCorrect, PTL
<1>4. ASSUME TypeOK', [Next /\ Serial']_vars
      PROVE  [RC!Next /\ RC!Serial']_(RC!vars)
  <2>1. CASE UNCHANGED vars
    BY <2>1 DEF vars, regionVars, RC!vars
  <2>2. CASE Next /\ Serial'
    <3>1. RC!Serial'
      BY <1>2, <1>4, <2>2, PTL
    <3>. QED
      BY <2>2, <3>1, RegionStep
  <2>. QED
    BY <1>4, <2>1, <2>2
<1>5. ASSUME ToolTypeOK, TypeOK', [Next /\ Serial']_vars
      PROVE  [Load!Next /\ Load!Serial']_(Load!vars)
  <2>1. CASE UNCHANGED vars
    BY <2>1 DEF vars, loadVars, Load!vars
  <2>2. CASE Next /\ Serial'
    <3>1. Load!Serial'
      BY <1>2, <1>5, <2>2, PTL
    <3>. QED
      BY <1>5, <2>2, <3>1, LoadStep
  <2>. QED
    BY <1>5, <2>1, <2>2
<1>6. Init => RC!Init /\ Load!Init
  BY DEF Init
<1>7. SerialSpec => RC!SerialSpec
  BY <1>3, <1>4, <1>6, PTL DEF SerialSpec, RC!SerialSpec
<1>8. SerialSpec => Load!SerialSpec
  BY <1>1, <1>3, <1>5, <1>6, ToolTypes, PTL DEF SerialSpec, Load!SerialSpec
<1>. QED
  BY <1>7, <1>8

\* The region is frozen, in reset, and has no other request in its register.
RegionHeld == bridge[Target] = "frozen" /\ ctrl[Target] = {"RESET_REQ"}

\* The invariant of the composition: from the return of a FREEZE_ENABLE that
\* succeeded up to the FREEZE_DISABLE of the same tool, the region is held.
HeldInv ==
    /\ Serial
    /\ \A t \in Tools :
          \/ tpc[t] = "load"
          \/ tpc[t] = "enable" /\ rpc[t] = "idle" /\ rret[t] = "ok"
          => RegionHeld

\* A FREEZE_ENABLE that returns success leaves the region held.
LEMMA EnableHolds ==
    ASSUME RC!TypeOK, RCP!SerialInv, NEW t \in Tools, RC!Step(t),
           rpc[t] \in RC!EnablePCs, rpc'[t] = "idle", rret'[t] = "ok"
    PROVE  RegionHeld'
<1> USE DEF RC!TypeOK, RC!Goto, RC!Return
<1>1. offset[t] = Target
  OBVIOUS
<1>2. RCP!Stands(t)
  BY DEF RCP!SerialInv
<1>3. RC!EnableStatus(t) \/ RC!AssertReset(t)
  BY DEF RC!Step, RC!EnablePCs, RC!AssertFreeze, RC!AwaitFrozen, RC!DisableStatus, RC!ReadCtrl,
         RC!ToggleReset, RC!RequestUnfreeze, RC!AwaitUnfrozen, RC!ClearCtrl
<1>4. CASE RC!EnableStatus(t)
  <2>1. "FREEZE_REQ_DONE" \in RC!Status(Target) /\ rpc[t] = "fe_status" /\ UNCHANGED <<ctrl, bridge>>
    BY <1>1, <1>4 DEF RC!EnableStatus
  <2>2. bridge[Target] = "frozen"
    BY <2>1 DEF RC!Status
  <2>. QED
    BY <1>1, <1>2, <2>1, <2>2 DEF RCP!Stands, RCP!Open, RCP!Held, RegionHeld
<1>5. CASE RC!AssertReset(t)
  <2>1. bridge[Target] = "frozen"
    BY <1>1, <1>2, <1>5 DEF RC!AssertReset, RCP!Stands
  <2>. QED
    BY <1>1, <1>5, <2>1 DEF RC!AssertReset, RC!WriteCtrl, RC!React, RegionHeld
<1>. QED
  BY <1>3, <1>4, <1>5

\* While one tool runs, the others are off.
LEMMA OthersOff ==
    ASSUME Serial, NEW t \in Tools, tpc[t] # "off", NEW d \in Tools, d # t
    PROVE  tpc[d] = "off"
  BY DEF Serial

\* Every step of the serialised system preserves the invariant.
LEMMA HeldStep ==
    ASSUME TypeOK, Links, RCP!SerialInv, HeldInv, [Next /\ Serial']_vars
    PROVE  HeldInv'
<1>0. RC!TypeOK /\ Load!TypeOK /\ tpc \in [Tools -> {"off", "enable", "load", "disable"}]
  BY DEF TypeOK
<1>1. CASE UNCHANGED vars
  BY <1>1 DEF vars, toolVars, regionVars, HeldInv, Serial, RegionHeld
<1>. SUFFICES ASSUME Next, Serial'
              PROVE  \A t \in Tools :
                        \/ tpc'[t] = "load"
                        \/ tpc'[t] = "enable" /\ rpc'[t] = "idle" /\ rret'[t] = "ok"
                        => RegionHeld'
  BY <1>1 DEF HeldInv
<1>2. ASSUME NEW t \in Tools, NEW m \in Images, NEW o \in {Target} \cup BadOffsets, Start(t, m, o)
      PROVE  \A d \in Tools : tpc'[d] # "load" /\ ~(tpc'[d] = "enable" /\ rret'[d] = "ok")
  <2>1. tpc'[t] = "enable"
    BY <1>0, <1>2 DEF Start, Issue
  <2>2. rret'[t] \in {"none", "EINVAL"}
    BY <1>0, <1>2, EnterOwn DEF Start, RC!FreezeEnable
  <2>3. \A d \in Tools \ {t} : tpc'[d] = "off"
    BY <2>1 DEF Serial
  <2>. QED
    BY <2>1, <2>2, <2>3
<1>3. ASSUME NEW t \in Tools, EnableFailed(t) \/ OpenFails(t) \/ Finish(t) \/ Killed(t) \/ Unfreeze(t)
      PROVE  \A d \in Tools : tpc'[d] \in {"off", "disable"}
  <2>1. tpc[t] # "off"
    BY <1>3 DEF EnableFailed, OpenFails, Finish, Killed, Unfreeze, Issue
  <2>2. tpc'[t] \in {"off", "disable"} /\ \A d \in Tools \ {t} : tpc'[d] = tpc[d]
    BY <1>0, <1>3 DEF EnableFailed, OpenFails, Finish, Killed, Unfreeze, Issue, End
  <2>. QED
    BY <2>1, <2>2, OthersOff DEF HeldInv
<1>4. ASSUME NEW t \in Tools, InitiatePR(t)
      PROVE  RegionHeld'
  <2>1. RegionHeld
    BY <1>4 DEF InitiatePR, Issue, InKernel, HeldInv
  <2>. QED
    BY <1>4, <2>1 DEF InitiatePR, regionVars, RegionHeld
<1>5. ASSUME NEW t \in Tools, RC!Step(t), UNCHANGED <<toolVars, loadVars>>,
             NEW d \in Tools,
             \/ tpc'[d] = "load"
             \/ tpc'[d] = "enable" /\ rpc'[d] = "idle" /\ rret'[d] = "ok"
      PROVE  RegionHeld'
  <2>1. rpc[t] \in RC!EnablePCs \cup RC!DisablePCs
    BY <1>0, <1>5, RegionStepOwn DEF RC!TypeOK, RC!PCs
  <2>2. tpc[t] \in {"enable", "disable"} /\ UNCHANGED tpc
    BY <1>5, <2>1 DEF Links, Link, toolVars
  <2>3. d = t /\ tpc[t] = "enable"
    BY <1>5, <2>2, OthersOff DEF HeldInv
  <2>4. rpc[t] \in RC!EnablePCs
    BY <2>1, <2>3 DEF Links, Link
  <2>. QED
    BY <1>0, <1>5, <2>2, <2>3, <2>4, EnableHolds
<1>6. ASSUME NEW t \in Tools, Kernel(t)
      PROVE  \A d \in Tools :
                \/ tpc'[d] = "load"
                \/ tpc'[d] = "enable" /\ rpc'[d] = "idle" /\ rret'[d] = "ok"
                => RegionHeld'
  <2>1. CASE UNCHANGED <<toolVars, regionVars>>
    BY <2>1 DEF toolVars, regionVars, HeldInv, RegionHeld
  <2>. QED
    BY <1>5, <1>6, <2>1 DEF Kernel
<1>7. CASE Ip
  BY <1>7 DEF Ip, toolVars, regionVars, HeldInv, RegionHeld
<1>8. CASE Persona
  <2>1. ~RegionHeld /\ UNCHANGED <<tpc, rpc, rret>>
    BY <1>8 DEF Persona, RC!Persona, RC!StopAck, RC!StartAck, RegionHeld, toolVars
  <2>. QED
    BY <2>1 DEF HeldInv
<1>. QED
  BY <1>2, <1>3, <1>4, <1>6, <1>7, <1>8 DEF Next, Run

\* What is proved of the serialised components.
LEMMA ComponentInvariants ==
    SerialSpec => [](TypeOK /\ Links /\ RCP!SerialInv /\ LP!LoadInv)
<1>1. SerialSpec => Spec
  BY PTL DEF SerialSpec, Spec
<1>2. SerialSpec => []RCP!SerialInv
  BY ImplementsSerialComponents, RegionInstance, RCP!SerialInvariant, OneRegion, PTL
<1>3. SerialSpec => []LP!LoadInv
  BY ImplementsSerialComponents, LoadInstance, LP!LoadInvariant, PartialAssumption, PTL
<1>. QED
  BY <1>1, <1>2, <1>3, TypeCorrect, LinksHold, PTL

\* The region is held from the FREEZE_ENABLE that succeeded to the FREEZE_DISABLE,
\* whatever earlier runs of the tool left behind.
THEOREM HeldInvariant == SerialSpec => []HeldInv
<1>1. Init => HeldInv
  BY DEF Init, HeldInv, Serial
<1>. QED
  BY <1>1, HeldStep, ComponentInvariants, PTL DEF SerialSpec

\* No word of a bitstream reaches the PR IP unless the region is frozen and in
\* reset (freeze_enable, fpga_config_buf_load()).
THEOREM WordsBehindFreeze == SerialSpec => WordsOnlyWhileHeld
<1>1. ASSUME TypeOK, HeldInv, [Next /\ Serial']_vars
      PROVE  [Len(stream') > Len(stream) => Held]_vars
  <2>. SUFFICES ASSUME Next, Len(stream') > Len(stream)
                PROVE  Held
    BY <1>1
  <2>1. stream \in Seq({Load!Garbage} \cup UNION {Load!WordsOf(m) : m \in Images})
    BY <1>1 DEF TypeOK, Load!TypeOK
  <2>2. stream' # stream /\ stream' # << >>
    BY <2>1
  <2>3. ~UNCHANGED loadVars
    BY <2>2 DEF loadVars
  <2>4. PICK t \in Tools : Load!Step(t)
    <3>1. ~Ip /\ ~Persona
      BY <2>2, <2>3 DEF Ip, Persona, Load!Ip, Load!IpSucceed, Load!IpFail, Load!IpReady
    <3>2. \A t \in Tools : ~EnableFailed(t) /\ ~OpenFails(t) /\ ~Finish(t) /\ ~Killed(t)
                           /\ ~Unfreeze(t) /\ \A m, o : ~Start(t, m, o)
      BY <2>3 DEF EnableFailed, OpenFails, Finish, Killed, Unfreeze, Start
    <3>3. \A t \in Tools : ~InitiatePR(t)
      BY <2>2 DEF InitiatePR, Load!BufLoad, Load!ipVars
    <3>. QED
      BY <2>3, <3>1, <3>2, <3>3 DEF Next, Run, Kernel
  <2>5. lpc[t] # "idle"
    BY <1>1, <2>4, LoadStepOwn DEF TypeOK
  <2>6. tpc[t] = "load"
    BY <1>1, <2>5 DEF TypeOK
  <2>. QED
    BY <1>1, <2>6 DEF HeldInv, RegionHeld, Held
<1>. QED
  BY <1>1, HeldInvariant, ComponentInvariants, PTL DEF SerialSpec, WordsOnlyWhileHeld

\* An open region with a half-written persona is always recorded in config_state
\* (fpga_config_buf_load()).
THEOREM PartialPersonaRecorded == SerialSpec => []OpenPartialIsRecorded
<1>1. TypeOK /\ HeldInv /\ LP!LoadInv => OpenPartialIsRecorded
  <2>. SUFFICES ASSUME TypeOK, HeldInv, LP!LoadInv, bridge[Target] = "unfrozen", loaded = "partial"
                PROVE  config_state \in {"WRITE_INIT_ERR", "WRITE_ERR", "WRITE_COMPLETE_ERR"}
    BY DEF OpenPartialIsRecorded
  <2>1. \A t \in Tools : lpc[t] = "idle"
    BY DEF TypeOK, HeldInv, RegionHeld
  <2>. QED
    BY <2>1 DEF LP!LoadInv, LP!Recorded, LP!AllIdle, LP!ErrStates
<1>. QED
  BY <1>1, HeldInvariant, ComponentInvariants, PTL

\* What the components promise holds of the system: the region is isolated one
\* stage at a time, the load that reports success has loaded its own image, and no
\* configuration is begun again under way.
THEOREM ComponentsPromise ==
    SerialSpec => RCP!StagedIsolation /\ LP!SuccessIsTheImage /\ LP!NoRestart
<1>1. SerialSpec => RCP!StagedIsolation
  BY ImplementsSerialComponents, RegionInstance, RCP!Refinement, OneRegion, PTL
<1>2. SerialSpec => LP!SuccessIsTheImage /\ LP!NoRestart
  BY ImplementsSerialComponents, LoadInstance, LP!SuccessLoadsTheImage,
     LP!ConfigurationNotRestarted, PartialAssumption, PTL
<1>. QED
  BY <1>1, <1>2
=============================================================================
