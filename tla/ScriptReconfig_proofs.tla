------------------------ MODULE ScriptReconfig_proofs ------------------------
(***************************************************************************)
(* Proofs about ScriptReconfig, for any number of scripts, any images and  *)
(* any bounds of the loops, with script and tool killed at any time.       *)
(*                                                                         *)
(* Scripts that run at once keep the types (Spec).  One script at a time   *)
(* (SerialSpec): NeverOpensPartial, WordsBehindBridges, ExitZeroMeansReady *)
(* and the stages of RegionIsolation.  A killed tool leaves the register   *)
(* protocol half way, so the system does not implement RegionController    *)
(* and its serial invariant does not hold here: the region has a weaker    *)
(* one, which still keeps it within the stages.                            *)
(***************************************************************************)
EXTENDS ScriptReconfig, TLAPS

RCP == INSTANCE RegionController_proofs
         WITH Callers <- Scripts, Regions <- {Target}, pc <- rpc, ret <- rret

MP == INSTANCE FpgaMgr_proofs
        WITH Writers <- Scripts, pc <- lpc, ret <- lret

-----------------------------------------------------------------------------
(* The instances the proofs of the components are about.                   *)

\* The one region of the design satisfies the assumption of RegionController.
LEMMA OneRegion == {Target} \cap BadOffsets = {}
  BY ScriptAssumption

\* The region controller, as ScriptReconfig and as its proofs instantiate it.
LEMMA RegionInstance ==
    /\ Uio!TypeOK <=> RCP!TypeOK
    /\ [Uio!Next]_(Uio!vars) => [RCP!Next]_(RCP!vars)
<1>1. \A s \in Scripts : Uio!Call(s) => RCP!Call(s)
  BY DEF Uio!Call, RCP!Call, Uio!FreezeEnable, RCP!FreezeEnable, Uio!FreezeDisable,
         RCP!FreezeDisable, Uio!Enter, RCP!Enter, Uio!Return, RCP!Return, Uio!Goto, RCP!Goto
<1>2. \A s \in Scripts : Uio!Step(s) => RCP!Step(s)
  BY DEF Uio!Step, RCP!Step, Uio!Status, RCP!Status, Uio!WriteCtrl, RCP!WriteCtrl,
         Uio!React, RCP!React, Uio!Goto, RCP!Goto, Uio!Return, RCP!Return,
         Uio!EnableStatus, RCP!EnableStatus, Uio!AssertFreeze, RCP!AssertFreeze,
         Uio!AwaitFrozen, RCP!AwaitFrozen, Uio!AssertReset, RCP!AssertReset,
         Uio!DisableStatus, RCP!DisableStatus, Uio!ReadCtrl, RCP!ReadCtrl,
         Uio!ToggleReset, RCP!ToggleReset, Uio!RequestUnfreeze, RCP!RequestUnfreeze,
         Uio!AwaitUnfrozen, RCP!AwaitUnfrozen, Uio!ClearCtrl, RCP!ClearCtrl
<1>3. \A r \in {Target} : Uio!Persona(r) => RCP!Persona(r)
  BY DEF Uio!Persona, RCP!Persona, Uio!StopAck, RCP!StopAck, Uio!StartAck, RCP!StartAck,
         Uio!React, RCP!React
<1>4. [Uio!Next]_(Uio!vars) => [RCP!Next]_(RCP!vars)
  BY <1>1, <1>2, <1>3 DEF Uio!Next, RCP!Next, Uio!vars, RCP!vars
<1>5. Uio!TypeOK <=> RCP!TypeOK
  BY DEF Uio!TypeOK, RCP!TypeOK, Uio!CtrlBits, RCP!CtrlBits, Uio!PCs, RCP!PCs,
         Uio!EnablePCs, RCP!EnablePCs, Uio!DisablePCs, RCP!DisablePCs
<1>. QED
  BY <1>4, <1>5

\* The steps of the region controller keep its types.
LEMMA RegionType ==
    ASSUME Uio!TypeOK, [Uio!Next]_(Uio!vars)
    PROVE  Uio!TypeOK'
<1>1. RCP!TypeOK'
  BY RegionInstance, OneRegion, RCP!TypeStep
<1>. QED
  BY <1>1 DEF Uio!TypeOK, RCP!TypeOK, Uio!CtrlBits, RCP!CtrlBits, Uio!PCs, RCP!PCs,
         Uio!EnablePCs, RCP!EnablePCs, Uio!DisablePCs, RCP!DisablePCs

\* A load of the manager, as ScriptReconfig and as its proofs instantiate it.
LEMMA LoadInstance ==
    ASSUME NEW s \in Scripts, Mgr!Step(s)
    PROVE  MP!Step(s)
<1> USE DEF Mgr!Pr!Return, MP!Pr!Return, Mgr!Pr!Continue, MP!Pr!Continue, Mgr!Pr!Goto, MP!Pr!Goto,
            Mgr!Pr!NoLocals, MP!Pr!NoLocals, Mgr!Pr!ipVars, MP!Pr!ipVars
<1>0. /\ Mgr!FirmwareLoad(s) => MP!FirmwareLoad(s)
      /\ Mgr!BufLoad(s) => MP!BufLoad(s)
  BY DEF Mgr!FirmwareLoad, MP!FirmwareLoad, Mgr!BufLoad, MP!BufLoad, Mgr!Enter, MP!Enter
<1>1. /\ Mgr!RequestFirmware(s) => MP!RequestFirmware(s)
      /\ Mgr!CheckFlags(s) => MP!CheckFlags(s)
      /\ Mgr!CheckPofId(s) => MP!CheckPofId(s)
  BY DEF Mgr!RequestFirmware, MP!RequestFirmware, Mgr!CheckFlags, MP!CheckFlags, Mgr!CheckPofId,
         MP!CheckPofId
<1>2. Mgr!InitStep(s) => MP!InitStep(s)
  BY DEF Mgr!InitStep, MP!InitStep, Mgr!Pr!ReadCsr, MP!Pr!ReadCsr, Mgr!Pr!WaitInitial,
         MP!Pr!WaitInitial, Mgr!Pr!PollInitial, MP!Pr!PollInitial, Mgr!Pr!WriteStart,
         MP!Pr!WriteStart, Mgr!Pr!IpStart, MP!Pr!IpStart, Mgr!Pr!NotInitial, MP!Pr!NotInitial
<1>3. Mgr!WriteNothing(s) => MP!WriteNothing(s)
  BY DEF Mgr!WriteNothing, MP!WriteNothing
<1>4. Mgr!WriteWord(s) => MP!WriteWord(s)
  BY DEF Mgr!WriteWord, MP!WriteWord, Mgr!Pr!WriteWord, MP!Pr!WriteWord, Mgr!Pr!IpTake,
         MP!Pr!IpTake, Mgr!Pr!AfterBytes, MP!Pr!AfterBytes, Mgr!Pr!Word, MP!Pr!Word,
         Mgr!Pr!Smaller, MP!Pr!Smaller, Mgr!Pr!Garbage, MP!Pr!Garbage
<1>5. Mgr!CheckWrite(s) => MP!CheckWrite(s)
  BY DEF Mgr!CheckWrite, MP!CheckWrite, Mgr!Pr!CheckChunk, MP!Pr!CheckChunk, Mgr!Pr!FinishWrite,
         MP!Pr!FinishWrite, Mgr!Pr!AfterBytes, MP!Pr!AfterBytes, Mgr!Pr!FpgaState, MP!Pr!FpgaState,
         Mgr!Pr!StateA10, MP!Pr!StateA10, Mgr!Pr!StateS10, MP!Pr!StateS10
<1>6. Mgr!PollComplete(s) => MP!PollComplete(s)
  BY DEF Mgr!PollComplete, MP!PollComplete, Mgr!FpgaState, MP!FpgaState, Mgr!Pr!FpgaState,
         MP!Pr!FpgaState, Mgr!Pr!StateA10, MP!Pr!StateA10, Mgr!Pr!StateS10, MP!Pr!StateS10
<1>. QED
  BY <1>0, <1>1, <1>2, <1>3, <1>4, <1>5, <1>6 DEF Mgr!Step, MP!Step, Mgr!mgrVars, MP!mgrVars

\* The other steps of the manager.
LEMMA MgrInstance ==
    ASSUME [Mgr!Next]_(Mgr!vars)
    PROVE  [MP!Next]_(MP!vars)
<1>1. \A s \in Scripts, m \in Images :
         /\ Mgr!WriteFirmwareName(s, m) => MP!WriteFirmwareName(s, m)
         /\ Mgr!WriteImage(s, m) => MP!WriteImage(s, m)
  BY DEF Mgr!WriteFirmwareName, MP!WriteFirmwareName, Mgr!WriteImage, MP!WriteImage, Mgr!Begin,
         MP!Begin, Mgr!Pr!Goto, MP!Pr!Goto
<1>2. \A f \in BOOLEAN, t \in 0 .. MaxTimeout : Mgr!SetInfo(f, t) => MP!SetInfo(f, t)
  BY DEF Mgr!SetInfo, MP!SetInfo, Mgr!loadVars, MP!loadVars
<1>3. Mgr!Register => MP!Register
  BY DEF Mgr!Register, MP!Register, Mgr!FpgaState, MP!FpgaState, Mgr!Pr!FpgaState,
         MP!Pr!FpgaState, Mgr!Pr!StateA10, MP!Pr!StateA10, Mgr!Pr!StateS10, MP!Pr!StateS10
<1>4. Mgr!Unregister => MP!Unregister
  BY DEF Mgr!Unregister, MP!Unregister, Mgr!loadVars, MP!loadVars
<1>5. Mgr!Ip => MP!Ip
  BY DEF Mgr!Ip, MP!Ip, Mgr!mgrVars, MP!mgrVars, Mgr!Pr!Ip, MP!Pr!Ip, Mgr!Pr!IpSucceed,
         MP!Pr!IpSucceed, Mgr!Pr!IpFail, MP!Pr!IpFail, Mgr!Pr!IpReady, MP!Pr!IpReady,
         Mgr!Pr!Contents, MP!Pr!Contents, Mgr!Pr!Word, MP!Pr!Word, Mgr!Pr!Smaller, MP!Pr!Smaller,
         Mgr!Pr!ErrStatus, MP!Pr!ErrStatus
<1>6. UNCHANGED Mgr!vars => UNCHANGED MP!vars
  BY DEF Mgr!vars, MP!vars, Mgr!loadVars, MP!loadVars, Mgr!mgrVars, MP!mgrVars
<1>. QED
  BY <1>1, <1>2, <1>3, <1>4, <1>5, <1>6, LoadInstance DEF Mgr!Next, MP!Next

\* The types of the manager are the same in both instances.
LEMMA MgrTypes == Mgr!TypeOK <=> MP!TypeOK
<1>1. Mgr!Pr!Statuses = MP!Pr!Statuses /\ Mgr!Pr!NoLocals = MP!Pr!NoLocals
  BY DEF Mgr!Pr!Statuses, MP!Pr!Statuses, Mgr!Pr!ErrStatus, MP!Pr!ErrStatus, Mgr!Pr!NoLocals,
         MP!Pr!NoLocals
<1>2. Mgr!Pr!Garbage = MP!Pr!Garbage /\ \A m \in Images : Mgr!Pr!WordsOf(m) = MP!Pr!WordsOf(m)
  BY DEF Mgr!Pr!Garbage, MP!Pr!Garbage, Mgr!Pr!WordsOf, MP!Pr!WordsOf, Mgr!Pr!Word, MP!Pr!Word,
         Mgr!Pr!Smaller, MP!Pr!Smaller
<1>3. {Mgr!Pr!Garbage} \cup UNION {Mgr!Pr!WordsOf(m) : m \in Images}
         = {MP!Pr!Garbage} \cup UNION {MP!Pr!WordsOf(m) : m \in Images}
  BY <1>2
<1>4. /\ Mgr!StepStates \cup Mgr!RestStates = MP!StepStates \cup MP!RestStates
      /\ Mgr!PCs = MP!PCs
  BY DEF Mgr!StepStates, MP!StepStates, Mgr!RestStates, MP!RestStates, Mgr!PCs, MP!PCs,
         Mgr!Pr!PCs, MP!Pr!PCs
<1>. QED
  BY <1>1, <1>3, <1>4, Zenon DEF Mgr!TypeOK, MP!TypeOK

\* The steps of the manager keep its types.
LEMMA MgrType ==
    ASSUME Mgr!TypeOK, [Mgr!Next]_(Mgr!vars)
    PROVE  Mgr!TypeOK'
<1>1. MP!TypeOK'
  BY MgrTypes, MgrInstance, ScriptAssumption, MP!TypeStep
<1>2. Mgr!TypeOK' <=> MP!TypeOK'
  BY MgrTypes, PTL
<1>. QED
  BY <1>1, <1>2

-----------------------------------------------------------------------------
(* Type correctness, without serialisation.                                *)

Ends == {"none", "0", "1", "killed"}

\* The script's own variables.
OwnTypeOK ==
    /\ spc \in [Scripts -> {"off"} \cup Commands]
    /\ args \in [Scripts -> [img : Images \cup {"none"}, at : {Target, "none"} \cup BadOffsets]]
    /\ \A s \in Scripts :
          IF spc[s] = "off" THEN args[s] = NoArgs
          ELSE args[s].img \in Images /\ args[s].at \in {Target} \cup BadOffsets
    /\ exit \in [Scripts -> Ends]
    /\ torn \in BOOLEAN

\* The command that runs is the one the script is at.
Link(s) ==
    /\ rpc[s] # "idle" => spc[s] \in {"enable", "disable"}
    /\ lpc[s] # "idle" => spc[s] = "load"

\* The parts of the type invariant.
LEMMA TypeParts ==
    TypeOK <=> OwnTypeOK /\ (\A s \in Scripts : Link(s)) /\ Uio!TypeOK /\ Mgr!TypeOK
  BY DEF TypeOK, OwnTypeOK, Link, Ends

\* A step of the system is a step of the region controller, or leaves it alone,
\* except that a new process has no results yet and a killed one no call.
LEMMA RegionStep ==
    ASSUME OwnTypeOK, [Next]_vars
    PROVE  \/ [Uio!Next]_(Uio!vars)
           \/ \E s \in Scripts : Killed(s) \/ \E m \in Images, o \in {Target} \cup BadOffsets : Start(s, m, o)
<1>1. CASE UNCHANGED uioVars
  BY <1>1 DEF uioVars, Uio!vars
<1>2. ASSUME NEW s \in Scripts,
             \/ Probe(s) \/ ProbeFails(s) \/ SetFlags(s) \/ SetTimeout(s)
             \/ WriteName(s) \/ Finish(s) \/ Fail(s) \/ Load(s)
      PROVE  UNCHANGED uioVars
  BY <1>2 DEF Probe, ProbeFails, SetFlags, SetTimeout, WriteName, Finish, Fail, Load
<1>3. ASSUME NEW s \in Scripts, Enable(s) \/ Disable(s)
      PROVE  Uio!Next
  <2>1. spc[s] # "off"
    BY <1>3 DEF Enable, Disable, Then
  <2>2. args[s].at \in {Target} \cup BadOffsets
    BY <2>1 DEF OwnTypeOK
  <2>. QED
    BY <1>3, <2>2 DEF Enable, Disable, Uio!Next, Uio!Call
<1>4. ASSUME NEW s \in Scripts, Tool(s)
      PROVE  Uio!Next
  BY <1>4 DEF Tool, Uio!Next
<1>5. CASE Persona
  BY <1>5 DEF Persona, Uio!Next
<1>6. CASE Ip \/ Unprobe
  BY <1>1, <1>6 DEF Ip, Unprobe
<1>. QED
  BY <1>1, <1>2, <1>3, <1>4, <1>5, <1>6 DEF Next, Run, vars

\* A step of the system is a step of the manager, or leaves it alone, except that
\* a new process has no result yet.
LEMMA MgrStep ==
    ASSUME OwnTypeOK, Mgr!TypeOK, [Next]_vars
    PROVE  \/ [Mgr!Next]_(Mgr!vars)
           \/ \E s \in Scripts : \E m \in Images, o \in {Target} \cup BadOffsets : Start(s, m, o)
<1>1. UNCHANGED mgrVars => UNCHANGED Mgr!vars
  BY DEF mgrVars, hwVars, Mgr!vars, Mgr!loadVars, Mgr!mgrVars
<1>2. ASSUME NEW s \in Scripts,
             \/ ProbeFails(s) \/ Enable(s) \/ Disable(s) \/ Fail(s) \/ Tool(s) \/ Killed(s)
      PROVE  UNCHANGED mgrVars
  BY <1>2 DEF ProbeFails, Enable, Disable, Fail, Tool, Killed
<1>3. ASSUME NEW s \in Scripts, Probe(s) \/ Finish(s)
      PROVE  [Mgr!Next]_(Mgr!vars)
  BY <1>1, <1>3 DEF Probe, Finish, Mgr!Next
<1>4. ASSUME NEW s \in Scripts, SetFlags(s) \/ SetTimeout(s)
      PROVE  Mgr!Next
  <2>1. flags \in BOOLEAN /\ config_to \in 0 .. MaxTimeout
    BY DEF Mgr!TypeOK
  <2>2. MaxTimeout \in 0 .. MaxTimeout
    BY ScriptAssumption
  <2>3. \E f \in BOOLEAN, t \in 0 .. MaxTimeout : Mgr!SetInfo(f, t)
    BY <1>4, <2>1, <2>2, Zenon DEF SetFlags, SetTimeout
  <2>. QED
    BY <2>3 DEF Mgr!Next
<1>5. ASSUME NEW s \in Scripts, WriteName(s)
      PROVE  Mgr!Next
  <2>1. args[s].img \in Images
    BY <1>5 DEF WriteName, Then, OwnTypeOK
  <2>. QED
    BY <1>5, <2>1 DEF WriteName, Mgr!Next
<1>6. ASSUME NEW s \in Scripts, Load(s)
      PROVE  Mgr!Next
  BY <1>6 DEF Load, Mgr!Next
<1>7. CASE Ip \/ Unprobe
  BY <1>7 DEF Ip, Unprobe, Mgr!Next
<1>8. CASE Persona \/ UNCHANGED vars
  BY <1>1, <1>8 DEF Persona, vars
<1>. QED
  BY <1>1, <1>2, <1>3, <1>4, <1>5, <1>6, <1>7, <1>8 DEF Next, Run
\* Only the script's own steps change its variables, and they keep their types.
LEMMA OwnTypeStep ==
    ASSUME OwnTypeOK, [Next]_vars
    PROVE  OwnTypeOK'
<1>1. ASSUME NEW s \in Scripts, NEW from, NEW to \in Commands, Then(s, from, to), from # "off"
      PROVE  OwnTypeOK'
  BY <1>1 DEF Then, OwnTypeOK, Commands
<1>2. ASSUME NEW s \in Scripts, NEW code \in Ends, torn' \in BOOLEAN,
             spc' = [spc EXCEPT ![s] = "off"], args' = [args EXCEPT ![s] = NoArgs],
             exit' = [exit EXCEPT ![s] = code]
      PROVE  OwnTypeOK'
  <2>1. NoArgs \in [img : Images \cup {"none"}, at : {Target, "none"} \cup BadOffsets]
    BY DEF NoArgs
  <2>. QED
    BY <1>2, <2>1 DEF OwnTypeOK
<1>3. ASSUME NEW s \in Scripts, NEW m \in Images, NEW o \in {Target} \cup BadOffsets, Start(s, m, o)
      PROVE  OwnTypeOK'
  BY <1>3 DEF Start, OwnTypeOK, Commands, Ends
<1>4. ASSUME NEW s \in Scripts,
             \/ Probe(s) \/ SetFlags(s) \/ SetTimeout(s) \/ Enable(s) \/ WriteName(s) \/ Disable(s)
      PROVE  OwnTypeOK'
  BY <1>1, <1>4 DEF Probe, SetFlags, SetTimeout, Enable, WriteName, Disable, Commands
<1>5. ASSUME NEW s \in Scripts, ProbeFails(s) \/ Finish(s) \/ Fail(s)
      PROVE  OwnTypeOK'
  <2>1. torn' \in BOOLEAN
    BY <1>5 DEF ProbeFails, Finish, Fail, OwnTypeOK
  <2>. QED
    BY <1>2, <1>5, <2>1 DEF ProbeFails, Finish, Fail, End, Ends
<1>6. ASSUME NEW s \in Scripts, Killed(s)
      PROVE  OwnTypeOK'
  <2>1. torn' \in BOOLEAN
    BY <1>6 DEF Killed, OwnTypeOK
  <2>. QED
    BY <1>2, <1>6, <2>1 DEF Killed, Ends
<1>7. CASE UNCHANGED scriptVars
  BY <1>7 DEF scriptVars, OwnTypeOK
<1>. QED
  BY <1>3, <1>4, <1>5, <1>6, <1>7 DEF Next, Run, Tool, Load, Ip, Persona, Unprobe, vars

\* A step of the tool of s is one inside its call.
LEMMA ToolOwn ==
    ASSUME Uio!TypeOK, NEW s \in Scripts, Uio!Step(s)
    PROVE  /\ rpc[s] # "idle"
           /\ \A d \in Scripts \ {s} : rpc'[d] = rpc[d]
<1>1. PICK from, to : rpc[s] = from /\ from # "idle" /\ rpc' = [rpc EXCEPT ![s] = to]
  BY DEF Uio!Step, Uio!Goto, Uio!Return, Uio!EnableStatus, Uio!AssertFreeze, Uio!AwaitFrozen,
         Uio!AssertReset, Uio!DisableStatus, Uio!ReadCtrl, Uio!ToggleReset, Uio!RequestUnfreeze,
         Uio!AwaitUnfrozen, Uio!ClearCtrl
<1>. QED
  BY <1>1 DEF Uio!TypeOK

\* A step of the load of s is one inside its write; the image stays the same, and
\* it succeeds when the IP says so.
LEMMA LoadOwn ==
    ASSUME Mgr!TypeOK, NEW s \in Scripts, Mgr!Step(s)
    PROVE  /\ lpc[s] # "idle"
           /\ \A d \in Scripts \ {s} : lpc'[d] = lpc[d]
           /\ lpc'[s] # "idle" => loc'[s].img = loc[s].img
           /\ lpc'[s] = "idle" /\ lret'[s] = "ok" =>
                 /\ lpc[s] = "complete" /\ status = "PR_SUCCESS"
                 /\ UNCHANGED <<status, loaded>>
<1> USE DEF Mgr!Pr!Goto, Mgr!Pr!Return, Mgr!Pr!Continue
<1>1. lpc \in [Scripts -> Mgr!PCs] /\ lret \in [Scripts -> {"none", "ok", "ENOENT", "EINVAL", "EIO", "ETIMEDOUT"}]
      /\ DOMAIN loc = Scripts /\ DOMAIN loc[s] = {"img", "offset", "polls", "val"}
  BY DEF Mgr!TypeOK
<1>2. CASE \/ Mgr!FirmwareLoad(s) \/ Mgr!BufLoad(s) \/ Mgr!RequestFirmware(s)
           \/ Mgr!CheckFlags(s) \/ Mgr!CheckPofId(s) \/ Mgr!WriteNothing(s)
  BY <1>1, <1>2 DEF Mgr!FirmwareLoad, Mgr!BufLoad, Mgr!Enter, Mgr!RequestFirmware, Mgr!CheckFlags, Mgr!CheckPofId, Mgr!WriteNothing
<1>3. CASE Mgr!InitStep(s)
  BY <1>1, <1>3 DEF Mgr!InitStep, Mgr!Pr!ReadCsr, Mgr!Pr!WaitInitial, Mgr!Pr!PollInitial, Mgr!Pr!WriteStart
<1>4. CASE Mgr!WriteWord(s)
  BY <1>1, <1>4 DEF Mgr!WriteWord, Mgr!Pr!WriteWord, Mgr!Pr!AfterBytes
<1>5. CASE Mgr!CheckWrite(s)
  BY <1>1, <1>5 DEF Mgr!CheckWrite, Mgr!Pr!CheckChunk, Mgr!Pr!FinishWrite, Mgr!Pr!AfterBytes
<1>6. CASE Mgr!PollComplete(s)
  <2>1. Mgr!FpgaState = "OPERATING" => status = "PR_SUCCESS"
    BY ScriptAssumption DEF Mgr!FpgaState, Mgr!Pr!FpgaState, Mgr!Pr!StateA10, Mgr!Pr!StateS10
  <2>. QED
    BY <1>1, <1>6, <2>1 DEF Mgr!PollComplete
<1>. QED
  BY <1>2, <1>3, <1>4, <1>5, <1>6 DEF Mgr!Step

\* A call of the tool that begins.
LEMMA EnterOwn ==
    ASSUME Uio!TypeOK, NEW s \in Scripts, NEW o, NEW first, Uio!Enter(s, o, first)
    PROVE  /\ rpc[s] = "idle"
           /\ \A d \in Scripts \ {s} : rpc'[d] = rpc[d]
           /\ \/ rpc'[s] = "idle" /\ rret'[s] = "EINVAL"
              \/ rpc'[s] = first /\ rret'[s] = "none"
           /\ UNCHANGED <<ctrl, bridge>>
  BY DEF Uio!TypeOK, Uio!Enter, Uio!Goto, Uio!Return

\* Every step keeps the commands and the scripts together.
LEMMA LinkStep ==
    ASSUME TypeOK, [Next]_vars
    PROVE  \A s \in Scripts : Link(s)'
<1> USE DEF Link
<1>0. OwnTypeOK /\ (\A s \in Scripts : Link(s)) /\ Uio!TypeOK /\ Mgr!TypeOK
  BY TypeParts
<1>1. ASSUME NEW s \in Scripts, \A d \in Scripts \ {s} : rpc'[d] = rpc[d] /\ lpc'[d] = lpc[d],
             NEW to, spc' = [spc EXCEPT ![s] = to],
             rpc'[s] # "idle" => to \in {"enable", "disable"}, lpc'[s] # "idle" => to = "load"
      PROVE  \A d \in Scripts : Link(d)'
  BY <1>0, <1>1 DEF OwnTypeOK
<1>2. ASSUME NEW s \in Scripts,
             \/ Probe(s) \/ ProbeFails(s) \/ SetFlags(s) \/ SetTimeout(s) \/ Finish(s) \/ Fail(s)
      PROVE  \A d \in Scripts : Link(d)'
  <2>1. rpc[s] = "idle" /\ lpc[s] = "idle" /\ UNCHANGED rpc /\ \E to : spc' = [spc EXCEPT ![s] = to]
    BY <1>2 DEF Probe, ProbeFails, SetFlags, SetTimeout, Finish, Fail, Then, End, uioVars
  <2>2. UNCHANGED lpc
    BY <1>2 DEF Probe, ProbeFails, SetFlags, SetTimeout, Finish, Fail, mgrVars, hwVars,
          Mgr!Register, Mgr!SetInfo, Mgr!loadVars
  <2>. QED
    BY <1>1, <2>1, <2>2
<1>3. ASSUME NEW s \in Scripts, Enable(s) \/ Disable(s)
      PROVE  \A d \in Scripts : Link(d)'
  <2>1. lpc[s] = "idle" /\ UNCHANGED lpc /\ \E to \in {"enable", "disable"} : spc' = [spc EXCEPT ![s] = to]
    BY <1>3 DEF Enable, Disable, Then, mgrVars, hwVars
  <2>2. \E first : Uio!Enter(s, args[s].at, first)
    BY <1>3 DEF Enable, Disable, Uio!FreezeEnable, Uio!FreezeDisable
  <2>3. \A d \in Scripts \ {s} : rpc'[d] = rpc[d]
    BY <1>0, <2>2, EnterOwn
  <2>. QED
    BY <1>1, <2>1, <2>3
<1>4. ASSUME NEW s \in Scripts, WriteName(s)
      PROVE  \A d \in Scripts : Link(d)'
  <2>1. rpc[s] = "idle" /\ UNCHANGED rpc /\ spc' = [spc EXCEPT ![s] = "load"]
    BY <1>4 DEF WriteName, Then, uioVars
  <2>2. \A d \in Scripts \ {s} : lpc'[d] = lpc[d]
    BY <1>0, <1>4 DEF WriteName, Mgr!WriteFirmwareName, Mgr!Begin, Mgr!Pr!Goto, Mgr!TypeOK
  <2>. QED
    BY <1>1, <2>1, <2>2
<1>5. ASSUME NEW s \in Scripts, Tool(s) \/ Load(s)
      PROVE  \A d \in Scripts : Link(d)'
  <2>1. CASE Tool(s)
    BY <1>0, <2>1, ToolOwn DEF Tool, scriptVars, mgrVars, hwVars
  <2>2. CASE Load(s)
    BY <1>0, <2>2, LoadOwn DEF Load, scriptVars, uioVars
  <2>. QED
    BY <1>5, <2>1, <2>2
<1>6. ASSUME NEW s \in Scripts, Killed(s)
      PROVE  \A d \in Scripts : Link(d)'
  <2>1. lpc[s] = "idle" /\ UNCHANGED lpc /\ spc' = [spc EXCEPT ![s] = "off"]
    BY <1>6 DEF Killed, mgrVars, hwVars
  <2>2. rpc'[s] = "idle" /\ \A d \in Scripts \ {s} : rpc'[d] = rpc[d]
    BY <1>0, <1>6 DEF Killed, Uio!TypeOK
  <2>. QED
    BY <1>1, <2>1, <2>2
<1>7. ASSUME NEW s \in Scripts, NEW m \in Images, NEW o \in {Target} \cup BadOffsets, Start(s, m, o)
      PROVE  \A d \in Scripts : Link(d)'
  <2>1. rpc[s] = "idle" /\ lpc[s] = "idle" /\ UNCHANGED <<rpc, lpc>> /\ spc' = [spc EXCEPT ![s] = "probe"]
    BY <1>0, <1>7 DEF Start, hwVars
  <2>. QED
    BY <1>1, <2>1
<1>8. CASE Ip \/ Persona \/ Unprobe \/ UNCHANGED vars
  <2>1. UNCHANGED <<spc, rpc>>
    BY <1>8 DEF Ip, Persona, Unprobe, vars, scriptVars, uioVars, Uio!Persona, Uio!StopAck, Uio!StartAck
  <2>2. UNCHANGED lpc
    BY <1>8 DEF Ip, Persona, Unprobe, vars, mgrVars, hwVars, Mgr!Ip, Mgr!Pr!Ip, Mgr!Pr!IpSucceed,
          Mgr!Pr!IpFail, Mgr!Pr!IpReady, Mgr!Unregister, Mgr!loadVars
  <2>. QED
    BY <1>0, <2>1, <2>2
<1>. QED
  BY <1>2, <1>3, <1>4, <1>5, <1>6, <1>7, <1>8 DEF Next, Run

\* Every step keeps the types, whatever scripts run at once.
LEMMA TypeStep ==
    ASSUME TypeOK, [Next]_vars
    PROVE  TypeOK'
<1>1. OwnTypeOK /\ Uio!TypeOK /\ Mgr!TypeOK
  BY TypeParts
<1>2. OwnTypeOK' /\ \A s \in Scripts : Link(s)'
  BY <1>1, OwnTypeStep, LinkStep
<1>3. Uio!TypeOK'
  <2>1. ASSUME NEW s \in Scripts, Killed(s)
        PROVE  Uio!TypeOK'
    BY <1>1, <2>1 DEF Killed, Uio!TypeOK, Uio!PCs
  <2>2. ASSUME NEW s \in Scripts, NEW m \in Images, NEW o \in {Target} \cup BadOffsets, Start(s, m, o)
        PROVE  Uio!TypeOK'
    BY <1>1, <2>2 DEF Start, Uio!TypeOK
  <2>. QED
    BY <1>1, <2>1, <2>2, RegionStep, RegionType
<1>4. Mgr!TypeOK'
  <2>1. ASSUME NEW s \in Scripts, NEW m \in Images, NEW o \in {Target} \cup BadOffsets, Start(s, m, o)
        PROVE  Mgr!TypeOK'
    <3>1. UNCHANGED <<status, start, stream, loaded, pof_id, state, lpc, loc, registered, flags,
                      config_to, firmware_name>>
      BY <2>1 DEF Start, hwVars
    <3>2. lret' \in [Scripts -> {"none", "ok", "ENOENT", "EINVAL", "EIO", "ETIMEDOUT"}]
      BY <1>1, <2>1 DEF Start, Mgr!TypeOK
    <3>. QED
      BY <1>1, <3>1, <3>2 DEF Mgr!TypeOK
  <2>. QED
    BY <1>1, <2>1, MgrStep, MgrType
<1>5. TypeOK' <=> (OwnTypeOK /\ (\A s \in Scripts : Link(s)) /\ Uio!TypeOK /\ Mgr!TypeOK)'
  BY TypeParts, PTL
<1>. QED
  BY <1>2, <1>3, <1>4, <1>5

\* The initial state: no script runs.
LEMMA InitType == Init => TypeOK
<1> SUFFICES ASSUME Init PROVE TypeOK
  OBVIOUS
<1>1. OwnTypeOK /\ \A s \in Scripts : Link(s)
  BY DEF Init, OwnTypeOK, Link, NoArgs, Ends, Uio!Init, Mgr!Init
<1>2. Uio!TypeOK
  BY DEF Init, Uio!Init, Uio!TypeOK, Uio!PCs
<1>3. Mgr!TypeOK
  <2>1. Mgr!Init => MP!Init
    BY DEF Mgr!Init, MP!Init, Mgr!Pr!Statuses, MP!Pr!Statuses, Mgr!Pr!ErrStatus, MP!Pr!ErrStatus,
           Mgr!Pr!NoLocals, MP!Pr!NoLocals
  <2>. QED
    BY <2>1, MgrTypes, ScriptAssumption, MP!InitType DEF Init
<1>. QED
  BY <1>1, <1>2, <1>3, TypeParts

\* The types hold for any number of scripts that run at once, killed at any time:
\* a script is never at another command than the tool or the write it waits for.
THEOREM TypeCorrect == Spec => []TypeOK
  BY InitType, TypeStep, PTL DEF Spec

-----------------------------------------------------------------------------
(* One script at a time.                                                   *)

Open == bridge[Target] = "unfrozen" /\ ctrl[Target] = {}

\* Where a load may write: the bridges are closed, and unless a tool was killed the
\* region is in reset.
Behind == bridge[Target] = "frozen" /\ (Held \/ torn)

\* Between two calls the region is given back or taken away, or torn.
Rest == torn \/ Open \/ Held

\* What a killed tool can leave in the register, for each state of the bridges.
RegionInv ==
    /\ bridge[Target] = "unfrozen" => ctrl[Target] \in {{}, {"UNFREEZE_REQ"}}
    /\ bridge[Target] = "freezing" => ctrl[Target] = {"FREEZE_REQ"}
    /\ bridge[Target] = "frozen" => "UNFREEZE_REQ" \notin ctrl[Target]
    /\ bridge[Target] = "unfreezing" => ctrl[Target] = {"UNFREEZE_REQ"}

\* What the tool of s can rely on at its next register access.
ToolStands(s) ==
    /\ rpc[s] = "fe_status" => Rest
    /\ rpc[s] = "fe_freeze" => bridge[Target] = "unfrozen"
    /\ rpc[s] = "fe_poll" => bridge[Target] \in {"freezing", "frozen"} /\ ctrl[Target] = {"FREEZE_REQ"}
    /\ rpc[s] = "fe_reset" => bridge[Target] = "frozen" /\ ctrl[Target] = {"FREEZE_REQ"}
    /\ rpc[s] \in {"fd_status", "fd_read", "fd_toggle", "fd_unfreeze"} => bridge[Target] = "frozen"
    /\ rpc[s] = "fd_toggle" => "UNFREEZE_REQ" \notin val[s]
    /\ rpc[s] = "fd_poll" => bridge[Target] \in {"unfreezing", "unfrozen"} /\ ctrl[Target] = {"UNFREEZE_REQ"}
    /\ rpc[s] = "fd_clear" => bridge[Target] = "unfrozen" /\ ctrl[Target] = {"UNFREEZE_REQ"}

\* The image of s is in the region, whole, and the IP has said so.
HasLoaded(s) == status = "PR_SUCCESS" /\ loaded = args[s].img

\* What the script s can rely on: each command it got past did its work.
ScriptStands(s) ==
    /\ rpc[s] \in Uio!EnablePCs => spc[s] = "enable"
    /\ rpc[s] \in Uio!DisablePCs => spc[s] = "disable"
    /\ lpc[s] # "idle" => loc[s].img = args[s].img
    /\ spc[s] = "enable" /\ rpc[s] = "idle" /\ rret[s] = "ok" => Behind
    /\ spc[s] = "load" => Behind
    /\ spc[s] = "load" /\ lpc[s] = "idle" /\ lret[s] = "ok" => HasLoaded(s)
    /\ spc[s] = "disable" => HasLoaded(s)
    /\ spc[s] = "disable" /\ rpc[s] = "idle" /\ rret[s] = "ok" => Open

\* The inductive invariant of the system.
ScriptInv ==
    /\ Serial
    /\ RegionInv
    /\ NeverOpensPartial
    /\ (\A s \in Scripts : rpc[s] = "idle") => Rest
    /\ \A s \in Scripts : ToolStands(s) /\ ScriptStands(s)
    /\ MP!MgrInv

\* The labels by name.
LEMMA PCType ==
    /\ Uio!EnablePCs = {"fe_status", "fe_freeze", "fe_poll", "fe_reset"}
    /\ Uio!DisablePCs = {"fd_status", "fd_read", "fd_toggle", "fd_unfreeze", "fd_poll", "fd_clear"}
    /\ Uio!PCs = {"idle"} \cup Uio!EnablePCs \cup Uio!DisablePCs
  BY DEF Uio!EnablePCs, Uio!DisablePCs, Uio!PCs

\* A script that does not run has no tool and no write.
LEMMA OffIdle ==
    ASSUME TypeOK
    PROVE  \A d \in Scripts : spc[d] = "off" => rpc[d] = "idle" /\ lpc[d] = "idle"
  BY DEF TypeOK

\* While one script runs, the others do not.
LEMMA OthersOff ==
    ASSUME Serial, NEW s \in Scripts, spc[s] # "off"
    PROVE  \A d \in Scripts \ {s} : spc[d] = "off"
  BY DEF Serial

\* What is left to show of a step of the script s, which runs alone.
LEMMA OwnKeeps ==
    ASSUME TypeOK', NEW s \in Scripts, \A d \in Scripts \ {s} : spc'[d] = "off",
           RegionInv', NeverOpensPartial', rpc'[s] = "idle" => Rest',
           ToolStands(s)', ScriptStands(s)', MP!MgrInv'
    PROVE  ScriptInv'
<1>1. \A d \in Scripts \ {s} : rpc'[d] = "idle" /\ lpc'[d] = "idle"
  <2>1. (\A d \in Scripts : spc[d] = "off" => rpc[d] = "idle" /\ lpc[d] = "idle")'
    BY OffIdle, PTL
  <2>. QED
    BY <2>1
<1>2. Serial'
  BY DEF Serial
<1>3. \A d \in Scripts \ {s} : ToolStands(d)' /\ ScriptStands(d)'
  BY <1>1, PCType DEF ToolStands, ScriptStands
<1>. QED
  BY <1>2, <1>3 DEF ScriptInv

\* The manager's own invariant: no two loads at once, as no two scripts run.
LEMMA MgrKeeps ==
    ASSUME TypeOK, TypeOK', MP!MgrInv, [Next]_vars, Serial'
    PROVE  MP!MgrInv'
<1>1. OwnTypeOK /\ Mgr!TypeOK /\ MP!TypeOK
  BY TypeParts, MgrTypes
<1>2. MP!Serial'
  <2>1. \A d \in Scripts : lpc'[d] # "idle" => spc'[d] = "load"
    BY DEF TypeOK
  <2>. QED
    BY <2>1 DEF MP!Serial, Serial
<1>3. CASE [Mgr!Next]_(Mgr!vars)
  <2>1. [MP!Next /\ MP!Serial']_(MP!vars)
    BY <1>2, <1>3, MgrInstance
  <2>. QED
    BY <1>1, <2>1, ScriptAssumption, MP!MgrStep
<1>4. ASSUME NEW s \in Scripts, NEW m \in Images, NEW o \in {Target} \cup BadOffsets, Start(s, m, o)
      PROVE  MP!MgrInv'
  BY <1>4 DEF Start, hwVars, MP!MgrInv, MP!Serial, MP!IpInv, MP!Stands, MP!Shown, MP!AllIdle, MP!QuietPCs
<1>. QED
  BY <1>1, <1>3, <1>4, MgrStep
\* A step to a command that relies on nothing, with the region and the image as
\* they were.
LEMMA MoveKeeps ==
    ASSUME TypeOK, TypeOK', ScriptInv, MP!MgrInv', NEW s \in Scripts,
           \A d \in Scripts \ {s} : spc'[d] = "off",
           spc'[s] \in {"off", "probe", "flags", "config_to", "freeze"},
           UNCHANGED <<ctrl, bridge, loaded>>, Rest'
    PROVE  ScriptInv'
<1>1. rpc'[s] = "idle" /\ lpc'[s] = "idle"
  BY DEF TypeOK
<1>2. RegionInv' /\ NeverOpensPartial'
  BY DEF ScriptInv, RegionInv, NeverOpensPartial
<1>3. ToolStands(s)' /\ ScriptStands(s)'
  BY <1>1, PCType DEF ToolStands, ScriptStands
<1>. QED
  BY <1>2, <1>3, OwnKeeps

\* Between two commands nobody's tool is at work.
LEMMA BetweenCommands ==
    ASSUME TypeOK, ScriptInv, NEW s \in Scripts, spc[s] # "off", rpc[s] = "idle"
    PROVE  Rest /\ \A d \in Scripts \ {s} : spc[d] = "off"
  BY OthersOff, OffIdle DEF ScriptInv

\* The script gets on, or ends: nothing has been done yet, or nothing is left.
LEMMA ScriptKeeps ==
    ASSUME TypeOK, TypeOK', ScriptInv, MP!MgrInv', NEW s \in Scripts,
           \/ Probe(s) \/ ProbeFails(s) \/ SetFlags(s) \/ SetTimeout(s) \/ Fail(s) \/ Finish(s)
    PROVE  ScriptInv'
<1>1. spc[s] # "off" /\ rpc[s] = "idle" /\ UNCHANGED <<ctrl, bridge>>
  BY DEF Probe, ProbeFails, SetFlags, SetTimeout, Fail, Finish, Then, End, uioVars
<1>2. UNCHANGED loaded
  BY DEF Probe, ProbeFails, SetFlags, SetTimeout, Fail, Finish, mgrVars, hwVars, Mgr!Register,
         Mgr!SetInfo, Mgr!loadVars
<1>3. PICK to \in {"off", "flags", "config_to", "freeze"} : spc' = [spc EXCEPT ![s] = to]
  BY DEF Probe, ProbeFails, SetFlags, SetTimeout, Fail, Finish, Then, End
<1>4. spc'[s] = to /\ \A d \in Scripts \ {s} : spc'[d] = "off"
  BY <1>1, <1>3, BetweenCommands DEF TypeOK
<1>5. Rest'
  <2>1. CASE Finish(s)
    <3>1. Open
      BY <1>1, <2>1 DEF Finish, End, ScriptInv, ScriptStands
    <3>. QED
      BY <1>1, <3>1 DEF Open, Rest
  <2>2. CASE Probe(s) \/ ProbeFails(s) \/ SetFlags(s) \/ SetTimeout(s) \/ Fail(s)
    <3>1. UNCHANGED torn
      BY <2>2 DEF Probe, ProbeFails, SetFlags, SetTimeout, Fail, Then
    <3>. QED
      BY <1>1, <3>1, BetweenCommands DEF Rest, Open, Held
  <2>. QED
    BY <2>1, <2>2
<1>. QED
  BY <1>1, <1>2, <1>4, <1>5, MoveKeeps

\* A new script, or one that is killed: only a tool at work leaves a torn region.
LEMMA StartKillKeeps ==
    ASSUME TypeOK, TypeOK', ScriptInv, MP!MgrInv', Serial', NEW s \in Scripts,
           \/ Killed(s)
           \/ \E m \in Images, o \in {Target} \cup BadOffsets : Start(s, m, o)
    PROVE  ScriptInv'
<1>1. CASE Killed(s)
  <2>1. spc[s] # "off" /\ spc' = [spc EXCEPT ![s] = "off"] /\ UNCHANGED <<ctrl, bridge, loaded>>
    BY <1>1 DEF Killed, mgrVars, hwVars
  <2>2. spc'[s] = "off" /\ \A d \in Scripts \ {s} : spc'[d] = "off"
    BY <2>1, OthersOff DEF TypeOK, ScriptInv
  <2>3. Rest'
    <3>1. CASE rpc[s] = "idle"
      <4>1. torn' = (torn \/ FALSE)
        BY <1>1, <3>1 DEF Killed
      <4>. QED
        BY <2>1, <3>1, <4>1, BetweenCommands DEF Rest, Open, Held
    <3>2. CASE rpc[s] # "idle"
      BY <1>1, <3>2 DEF Killed, Rest
    <3>. QED
      BY <3>1, <3>2
  <2>. QED
    BY <2>1, <2>2, <2>3, MoveKeeps
<1>2. ASSUME NEW m \in Images, NEW o \in {Target} \cup BadOffsets, Start(s, m, o)
      PROVE  ScriptInv'
  <2>1. spc' = [spc EXCEPT ![s] = "probe"] /\ UNCHANGED <<torn, ctrl, bridge, loaded, rpc>>
    BY <1>2 DEF Start, hwVars
  <2>2. spc'[s] = "probe" /\ \A d \in Scripts \ {s} : spc'[d] = "off"
    BY <2>1 DEF TypeOK, Serial
  <2>3. \A d \in Scripts : rpc[d] = "idle"
    BY <2>1, <2>2 DEF TypeOK, Commands
  <2>4. Rest'
    BY <2>1, <2>3 DEF ScriptInv, Rest, Open, Held
  <2>. QED
    BY <2>1, <2>2, <2>4, MoveKeeps
<1>. QED
  BY <1>1, <1>2

\* The tool is started: what it relies on at its first access holds.
LEMMA EnterKeeps ==
    ASSUME TypeOK, TypeOK', ScriptInv, MP!MgrInv', NEW s \in Scripts, Enable(s) \/ Disable(s)
    PROVE  ScriptInv'
<1>1. /\ spc[s] # "off" /\ rpc[s] = "idle" /\ lpc[s] = "idle"
      /\ UNCHANGED <<args, torn, loaded, status, lpc, loc, lret>>
  BY DEF Enable, Disable, Then, mgrVars, hwVars
<1>2. Rest /\ \A d \in Scripts \ {s} : spc[d] = "off"
  BY <1>1, BetweenCommands
<1>3. PICK first \in {"fe_status", "fd_status"} :
         /\ Uio!Enter(s, args[s].at, first)
         /\ spc' = [spc EXCEPT ![s] = IF first = "fe_status" THEN "enable" ELSE "disable"]
         /\ first = "fd_status" => spc[s] = "load" /\ lret[s] = "ok"
  BY DEF Enable, Disable, Then, Uio!FreezeEnable, Uio!FreezeDisable
<1>4. /\ UNCHANGED <<ctrl, bridge>>
      /\ \/ rpc'[s] = "idle" /\ rret'[s] = "EINVAL"
         \/ rpc'[s] = first
  BY <1>3, EnterOwn, TypeParts
<1>5. /\ spc'[s] = IF first = "fe_status" THEN "enable" ELSE "disable"
      /\ \A d \in Scripts \ {s} : spc'[d] = "off"
  BY <1>2, <1>3 DEF TypeOK
<1>6. RegionInv' /\ NeverOpensPartial' /\ Rest'
  BY <1>1, <1>2, <1>4 DEF ScriptInv, RegionInv, NeverOpensPartial, Rest, Open, Held
<1>7. first = "fd_status" => bridge[Target] = "frozen" /\ HasLoaded(s)
  BY <1>1, <1>3 DEF ScriptInv, ScriptStands, Behind
<1>8. ToolStands(s)'
  BY <1>4, <1>6, <1>7 DEF ToolStands
<1>9. ScriptStands(s)'
  BY <1>1, <1>4, <1>5, <1>7, PCType DEF ScriptStands, HasLoaded
<1>. QED
  BY <1>5, <1>6, <1>8, <1>9, OwnKeeps

\* The load begins, behind the bridges that the tool has closed.
LEMMA WriteNameKeeps ==
    ASSUME TypeOK, TypeOK', ScriptInv, MP!MgrInv', NEW s \in Scripts, WriteName(s)
    PROVE  ScriptInv'
<1>1. /\ spc[s] = "enable" /\ rpc[s] = "idle" /\ rret[s] = "ok" /\ lpc[s] = "idle"
      /\ spc' = [spc EXCEPT ![s] = "load"]
      /\ UNCHANGED <<args, torn, ctrl, bridge, rpc, val, rret>>
  BY DEF WriteName, Then, uioVars
<1>2. Mgr!WriteFirmwareName(s, args[s].img)
  BY DEF WriteName
<1>3. lpc'[s] = "named" /\ loc'[s].img = args[s].img /\ UNCHANGED <<status, loaded>>
  BY <1>2 DEF Mgr!WriteFirmwareName, Mgr!Begin, Mgr!Pr!Goto, TypeOK, Mgr!TypeOK
<1>4. Rest /\ \A d \in Scripts \ {s} : spc[d] = "off"
  BY <1>1, BetweenCommands
<1>5. spc'[s] = "load" /\ \A d \in Scripts \ {s} : spc'[d] = "off"
  BY <1>1, <1>4 DEF TypeOK
<1>6. RegionInv' /\ NeverOpensPartial' /\ Rest'
  BY <1>1, <1>3, <1>4 DEF ScriptInv, RegionInv, NeverOpensPartial, Rest, Open, Held
<1>7. ToolStands(s)'
  BY <1>1 DEF ToolStands
<1>8. Behind'
  <2>1. Behind
    BY <1>1 DEF ScriptInv, ScriptStands
  <2>. QED
    BY <1>1, <2>1 DEF Behind, Held
<1>9. ScriptStands(s)'
  BY <1>1, <1>3, <1>5, <1>8, PCType DEF ScriptStands
<1>. QED
  BY <1>5, <1>6, <1>7, <1>9, OwnKeeps

\* A step of the load: the region is behind its bridges meanwhile, and a load that
\* succeeds has put its image there.
LEMMA LoadKeeps ==
    ASSUME TypeOK, TypeOK', ScriptInv, MP!MgrInv', NEW s \in Scripts, Load(s)
    PROVE  ScriptInv'
<1>1. UNCHANGED <<spc, args, torn, ctrl, bridge, rpc, val, rret>> /\ Mgr!Step(s)
  BY DEF Load, scriptVars, uioVars
<1>2. /\ lpc[s] # "idle"
      /\ lpc'[s] # "idle" => loc'[s].img = loc[s].img
      /\ lpc'[s] = "idle" /\ lret'[s] = "ok" =>
            lpc[s] = "complete" /\ status = "PR_SUCCESS" /\ UNCHANGED <<status, loaded>>
  BY <1>1, LoadOwn, TypeParts
<1>3. spc[s] = "load" /\ rpc[s] = "idle"
  BY <1>2 DEF TypeOK
<1>4. Rest /\ \A d \in Scripts \ {s} : spc[d] = "off"
  BY <1>3, BetweenCommands
<1>5. ScriptStands(s) /\ Behind
  BY <1>3 DEF ScriptInv, ScriptStands
<1>6. RegionInv' /\ NeverOpensPartial' /\ Rest' /\ Behind'
  BY <1>1, <1>4, <1>5 DEF ScriptInv, RegionInv, NeverOpensPartial, Rest, Open, Held, Behind
<1>7. ToolStands(s)'
  BY <1>1, <1>3 DEF ToolStands
<1>8. lpc'[s] = "idle" /\ lret'[s] = "ok" => HasLoaded(s)'
  <2>1. lpc[s] = "complete" /\ status = "PR_SUCCESS" => loaded = loc[s].img
    BY DEF ScriptInv, MP!MgrInv, MP!Stands, MP!WritePCs
  <2>2. loc[s].img = args[s].img
    BY <1>2, <1>5 DEF ScriptStands
  <2>. QED
    BY <1>1, <1>2, <2>1, <2>2 DEF HasLoaded
<1>9. ScriptStands(s)'
  BY <1>1, <1>2, <1>3, <1>5, <1>6, <1>8, PCType DEF ScriptStands
<1>. QED
  BY <1>1, <1>4, <1>6, <1>7, <1>9, OwnKeeps
\* What an access of the tool of s does to the region, in the terms of the script.
ToolDoes(s) ==
    /\ RegionInv' /\ ToolStands(s)'
    /\ rpc[s] # "idle"
    /\ rpc'[s] \in {"idle"} \cup (IF rpc[s] \in Uio!EnablePCs THEN Uio!EnablePCs ELSE Uio!DisablePCs)
    /\ rpc'[s] = "idle" => Rest'
    /\ rpc'[s] = "idle" /\ rret'[s] = "ok" => IF rpc[s] \in Uio!EnablePCs THEN Behind' ELSE Open'
    /\ bridge'[Target] \in {"unfrozen", "unfreezing"} =>
          bridge[Target] \in {"unfrozen", "unfreezing"} \/ rpc[s] \in Uio!DisablePCs

\* fpga_region_controller enable: an access, also one that finds what a killed tool
\* has left.
LEMMA EnableDoes ==
    ASSUME Uio!TypeOK, RegionInv, NEW s \in Scripts, ToolStands(s), UNCHANGED torn,
           Uio!EnableStatus(s) \/ Uio!AssertFreeze(s) \/ Uio!AwaitFrozen(s) \/ Uio!AssertReset(s)
    PROVE  ToolDoes(s)
<1> USE DEF Uio!Goto, Uio!Return
<1>1. offset[s] = Target
  BY DEF Uio!TypeOK
<1>2. CASE Uio!EnableStatus(s)
  <2>1. /\ rpc[s] = "fe_status" /\ Rest
        /\ UNCHANGED <<ctrl, bridge, val>>
        /\ \/ bridge[Target] = "frozen" /\ rpc'[s] = "idle"
           \/ rpc'[s] = "idle" /\ rret'[s] = "EINVAL"
           \/ bridge[Target] = "unfrozen" /\ rpc'[s] = "fe_freeze"
    BY <1>1, <1>2 DEF Uio!EnableStatus, Uio!Status, Uio!TypeOK, ToolStands
  <2>2. Rest' /\ RegionInv'
    BY <2>1 DEF Rest, Open, Held, RegionInv
  <2>3. bridge[Target] = "frozen" => Behind'
    BY <2>1 DEF Rest, Open, Held, Behind
  <2>. QED
    BY <2>1, <2>2, <2>3, PCType DEF ToolDoes, ToolStands
<1>3. CASE Uio!AssertFreeze(s)
  <2>1. /\ rpc[s] = "fe_freeze" /\ rpc'[s] = "fe_poll"
        /\ ctrl'[Target] = {"FREEZE_REQ"} /\ bridge'[Target] = "freezing"
    BY <1>1, <1>3 DEF Uio!AssertFreeze, Uio!WriteCtrl, Uio!React, Uio!TypeOK, ToolStands
  <2>. QED
    BY <2>1, PCType DEF ToolDoes, ToolStands, RegionInv
<1>4. CASE Uio!AwaitFrozen(s)
  <2>1. /\ rpc[s] = "fe_poll" /\ rpc'[s] = "fe_reset" /\ UNCHANGED <<ctrl, bridge>>
        /\ ctrl[Target] = {"FREEZE_REQ"} /\ bridge[Target] = "frozen"
    BY <1>1, <1>4 DEF Uio!AwaitFrozen, Uio!Status, Uio!TypeOK, ToolStands
  <2>. QED
    BY <2>1, PCType DEF ToolDoes, ToolStands, RegionInv
<1>5. CASE Uio!AssertReset(s)
  <2>1. /\ rpc[s] = "fe_reset" /\ rpc'[s] = "idle"
        /\ ctrl'[Target] = {"RESET_REQ"} /\ bridge'[Target] = "frozen"
    BY <1>1, <1>5 DEF Uio!AssertReset, Uio!WriteCtrl, Uio!React, Uio!TypeOK, ToolStands
  <2>2. Rest' /\ Behind'
    BY <2>1 DEF Rest, Behind, Held
  <2>. QED
    BY <2>1, <2>2, PCType DEF ToolDoes, ToolStands, RegionInv
<1>. QED
  BY <1>2, <1>3, <1>4, <1>5

\* fpga_region_controller disable: an access.  Whether the XOR releases the reset or,
\* in a torn region, asserts it, the unfreeze request alone stays in the register.
LEMMA DisableDoes ==
    ASSUME Uio!TypeOK, RegionInv, NEW s \in Scripts, ToolStands(s),
           \/ Uio!DisableStatus(s) \/ Uio!ReadCtrl(s) \/ Uio!ToggleReset(s)
           \/ Uio!RequestUnfreeze(s) \/ Uio!AwaitUnfrozen(s) \/ Uio!ClearCtrl(s)
    PROVE  ToolDoes(s)
<1> USE DEF Uio!Goto, Uio!Return
<1>1. offset[s] = Target
  BY DEF Uio!TypeOK
<1>2. CASE Uio!DisableStatus(s)
  <2>1. /\ rpc[s] = "fd_status" /\ rpc'[s] = "fd_read" /\ UNCHANGED <<ctrl, bridge>>
        /\ bridge[Target] = "frozen"
    BY <1>1, <1>2 DEF Uio!DisableStatus, Uio!Status, Uio!TypeOK, ToolStands
  <2>. QED
    BY <2>1, PCType DEF ToolDoes, ToolStands, RegionInv
<1>3. CASE Uio!ReadCtrl(s)
  <2>1. /\ rpc[s] = "fd_read" /\ rpc'[s] = "fd_toggle" /\ UNCHANGED <<ctrl, bridge>>
        /\ bridge[Target] = "frozen" /\ "UNFREEZE_REQ" \notin ctrl[Target]
    BY <1>3 DEF Uio!ReadCtrl, Uio!TypeOK, ToolStands, RegionInv
  <2>2. val'[s] \in {ctrl[Target] \ {"RESET_REQ"}, ctrl[Target] \cup {"RESET_REQ"}}
    BY <1>1, <1>3 DEF Uio!ReadCtrl, Uio!TypeOK
  <2>3. "UNFREEZE_REQ" \notin val'[s]
    BY <2>1, <2>2
  <2>. QED
    BY <2>1, <2>3, PCType DEF ToolDoes, ToolStands, RegionInv
<1>4. CASE Uio!ToggleReset(s)
  <2>1. /\ rpc[s] = "fd_toggle" /\ rpc'[s] = "fd_unfreeze"
        /\ bridge'[Target] = "frozen" /\ "UNFREEZE_REQ" \notin ctrl'[Target]
    BY <1>1, <1>4 DEF Uio!ToggleReset, Uio!WriteCtrl, Uio!React, Uio!TypeOK, ToolStands
  <2>. QED
    BY <2>1, PCType DEF ToolDoes, ToolStands, RegionInv
<1>5. CASE Uio!RequestUnfreeze(s)
  <2>1. /\ rpc[s] = "fd_unfreeze" /\ rpc'[s] = "fd_poll"
        /\ bridge'[Target] = "unfreezing" /\ ctrl'[Target] = {"UNFREEZE_REQ"}
    BY <1>1, <1>5 DEF Uio!RequestUnfreeze, Uio!WriteCtrl, Uio!React, Uio!TypeOK, ToolStands
  <2>. QED
    BY <2>1, PCType DEF ToolDoes, ToolStands, RegionInv
<1>6. CASE Uio!AwaitUnfrozen(s)
  <2>1. /\ rpc[s] = "fd_poll" /\ rpc'[s] = "fd_clear" /\ UNCHANGED <<ctrl, bridge>>
        /\ bridge[Target] = "unfrozen" /\ ctrl[Target] = {"UNFREEZE_REQ"}
    BY <1>1, <1>6 DEF Uio!AwaitUnfrozen, Uio!Status, Uio!TypeOK, ToolStands
  <2>. QED
    BY <2>1, PCType DEF ToolDoes, ToolStands, RegionInv
<1>7. CASE Uio!ClearCtrl(s)
  <2>1. /\ rpc[s] = "fd_clear" /\ rpc'[s] = "idle"
        /\ bridge'[Target] = "unfrozen" /\ ctrl'[Target] = {}
    BY <1>1, <1>7 DEF Uio!ClearCtrl, Uio!WriteCtrl, Uio!React, Uio!TypeOK, ToolStands
  <2>2. Rest' /\ Open'
    BY <2>1 DEF Rest, Open
  <2>. QED
    BY <2>1, <2>2, PCType DEF ToolDoes, ToolStands, RegionInv
<1>. QED
  BY <1>2, <1>3, <1>4, <1>5, <1>6, <1>7

\* A step of the tool: bridges open only for a script whose load succeeded.
LEMMA ToolKeeps ==
    ASSUME TypeOK, TypeOK', ScriptInv, MP!MgrInv', NEW s \in Scripts, Tool(s)
    PROVE  ScriptInv'
<1>1. /\ UNCHANGED <<spc, args, torn, loaded, status, lpc, loc, lret>>
      /\ Uio!Step(s) /\ Uio!TypeOK /\ RegionInv /\ ToolStands(s) /\ ScriptStands(s)
  BY TypeParts DEF Tool, scriptVars, mgrVars, hwVars, ScriptInv
<1>2. ToolDoes(s)
  BY <1>1, EnableDoes, DisableDoes DEF Uio!Step
<1>3. rpc[s] \in Uio!PCs
  BY <1>1 DEF Uio!TypeOK
<1>4. /\ spc[s] = IF rpc[s] \in Uio!EnablePCs THEN "enable" ELSE "disable"
      /\ rpc[s] \in Uio!EnablePCs \/ rpc[s] \in Uio!DisablePCs
      /\ lpc[s] = "idle"
  BY <1>1, <1>2, <1>3, PCType DEF ToolDoes, ScriptStands, TypeOK
<1>5. spc[s] # "off" /\ \A d \in Scripts \ {s} : spc'[d] = "off"
  BY <1>1, <1>4, OthersOff DEF ScriptInv
<1>6. spc[s] = "disable" => HasLoaded(s) /\ HasLoaded(s)'
  BY <1>1 DEF ScriptStands, HasLoaded
<1>7. NeverOpensPartial'
  <2>1. spc[s] = "disable" => loaded # "partial"
    BY <1>5, <1>6, ScriptAssumption DEF HasLoaded, TypeOK
  <2>2. rpc[s] \in Uio!DisablePCs => spc[s] = "disable"
    BY <1>1 DEF ScriptStands
  <2>. QED
    BY <1>1, <1>2, <2>1, <2>2 DEF ToolDoes, ScriptInv, NeverOpensPartial
<1>8. ScriptStands(s)'
  BY <1>1, <1>2, <1>4, <1>6, PCType DEF ToolDoes, ScriptStands
<1>. QED
  BY <1>2, <1>5, <1>7, <1>8, OwnKeeps DEF ToolDoes

\* The persona answers: it moves bridges that are in motion, which no script that
\* relies on them leaves behind.
LEMMA PersonaKeeps ==
    ASSUME TypeOK, ScriptInv, MP!MgrInv', Persona
    PROVE  ScriptInv'
<1>1. UNCHANGED <<spc, args, torn, loaded, status, lpc, loc, lret, ctrl, rpc, val, rret>>
  BY DEF Persona, scriptVars, mgrVars, hwVars, Uio!Persona, Uio!StopAck, Uio!StartAck
<1>2. \/ bridge[Target] = "freezing" /\ bridge'[Target] = "frozen"
      \/ bridge[Target] = "unfreezing" /\ bridge'[Target] = "unfrozen"
  BY DEF Persona, Uio!Persona, Uio!StopAck, Uio!StartAck, Uio!React, ScriptInv, RegionInv, TypeOK,
         Uio!TypeOK
<1>3. RegionInv' /\ NeverOpensPartial' /\ (Rest => Rest')
  BY <1>1, <1>2 DEF ScriptInv, RegionInv, NeverOpensPartial, Rest, Open, Held
<1>4. ASSUME NEW s \in Scripts
      PROVE  ToolStands(s)' /\ ScriptStands(s)'
  <2>1. ToolStands(s) /\ ScriptStands(s)
    BY DEF ScriptInv
  <2>2. ToolStands(s)'
    BY <1>1, <1>2, <1>3, <2>1 DEF ToolStands
  <2>3. ScriptStands(s)'
    BY <1>1, <1>2, <2>1 DEF ScriptStands, HasLoaded, Behind, Open
  <2>. QED
    BY <2>2, <2>3
<1>. QED
  BY <1>1, <1>3, <1>4 DEF ScriptInv, Serial

\* The PR IP ends a configuration, or the manager goes away: neither happens to a
\* script that relies on its image.
LEMMA IpKeeps ==
    ASSUME TypeOK, ScriptInv, MP!MgrInv', Ip \/ Unprobe
    PROVE  ScriptInv'
<1>1. UNCHANGED <<spc, args, torn, ctrl, bridge, rpc, val, rret>>
  BY DEF Ip, Unprobe, scriptVars, uioVars
<1>2. UNCHANGED <<lpc, loc, lret>>
  BY DEF Ip, Unprobe, Mgr!Ip, Mgr!Pr!Ip, Mgr!Pr!IpSucceed, Mgr!Pr!IpFail, Mgr!Pr!IpReady,
         Mgr!Unregister, Mgr!loadVars
<1>3. UNCHANGED <<status, loaded>> \/ status # "PR_SUCCESS"
  BY DEF Ip, Unprobe, Mgr!Ip, Mgr!Pr!Ip, Mgr!Pr!IpSucceed, Mgr!Pr!IpFail, Mgr!Pr!IpReady,
         Mgr!Unregister, Mgr!loadVars
<1>4. loaded' \in {loaded} \cup Images
  BY DEF Ip, Unprobe, Mgr!Ip, Mgr!Pr!Ip, Mgr!Pr!IpSucceed, Mgr!Pr!IpFail, Mgr!Pr!IpReady,
         Mgr!Unregister, Mgr!loadVars
<1>5. RegionInv' /\ NeverOpensPartial' /\ (Rest => Rest')
  BY <1>1, <1>4, ScriptAssumption DEF ScriptInv, RegionInv, NeverOpensPartial, Rest, Open, Held
<1>6. ASSUME NEW s \in Scripts
      PROVE  ToolStands(s)' /\ ScriptStands(s)'
  <2>1. ToolStands(s) /\ ScriptStands(s)
    BY DEF ScriptInv
  <2>2. ToolStands(s)'
    BY <1>1, <1>5, <2>1 DEF ToolStands
  <2>3. HasLoaded(s) => HasLoaded(s)'
    BY <1>1, <1>3 DEF HasLoaded
  <2>4. (Behind => Behind') /\ (Open => Open')
    BY <1>1 DEF Behind, Open, Held
  <2>5. ScriptStands(s)'
    BY <1>1, <1>2, <2>1, <2>3, <2>4 DEF ScriptStands
  <2>. QED
    BY <2>2, <2>5
<1>. QED
  BY <1>1, <1>5, <1>6 DEF ScriptInv, Serial

\* Every step of the serialised system preserves the invariant.
LEMMA ScriptStep ==
    ASSUME TypeOK, TypeOK', ScriptInv, [Next /\ Serial']_vars
    PROVE  ScriptInv'
<1>1. Serial' /\ [Next]_vars
  BY DEF ScriptInv, Serial, vars, scriptVars
<1>2. MP!MgrInv'
  BY <1>1, MgrKeeps DEF ScriptInv
<1>3. CASE UNCHANGED vars
  BY <1>1, <1>2, <1>3 DEF vars, scriptVars, uioVars, mgrVars, hwVars, ScriptInv, RegionInv, NeverOpensPartial,
        Rest, Open, Held, Behind, ToolStands, ScriptStands, HasLoaded
<1>4. ASSUME NEW s \in Scripts, Run(s)
      PROVE  ScriptInv'
  BY <1>2, <1>4, ScriptKeeps, EnterKeeps, WriteNameKeeps, LoadKeeps, ToolKeeps DEF Run
<1>. QED
  BY <1>1, <1>2, <1>3, <1>4, StartKillKeeps, PersonaKeeps, IpKeeps DEF Next

\* One script at a time keeps the invariant, however many ran, failed or were killed
\* before it.
THEOREM ScriptInvariant == SerialSpec => [](TypeOK /\ ScriptInv)
<1>1. Init => ScriptInv
  <2>1. ASSUME Init PROVE MP!MgrInv
    <3>1. MP!Init
      BY <2>1 DEF Init, Mgr!Init, MP!Init, Mgr!Pr!Statuses, MP!Pr!Statuses, Mgr!Pr!ErrStatus,
            MP!Pr!ErrStatus, Mgr!Pr!NoLocals, MP!Pr!NoLocals
    <3>. QED
      BY <3>1, ScriptAssumption, MP!InitMgrInv
  <2>2. ASSUME Init
        PROVE  /\ Serial /\ RegionInv /\ Rest
               /\ \A s \in Scripts : ToolStands(s) /\ ScriptStands(s)
    BY <2>2, PCType DEF Init, Uio!Init, Mgr!Init, Serial, RegionInv, Rest, Open, ToolStands, ScriptStands
  <2>3. ASSUME Init PROVE NeverOpensPartial
    BY <2>3 DEF Init, Mgr!Init, NeverOpensPartial
  <2>. QED
    BY <2>1, <2>2, <2>3 DEF ScriptInv
<1>2. SerialSpec => []TypeOK
  <2>1. SerialSpec => Spec
    BY PTL DEF SerialSpec, Spec
  <2>. QED
    BY <2>1, TypeCorrect, PTL
<1>3. SerialSpec => []ScriptInv
  BY <1>1, <1>2, ScriptStep, PTL DEF SerialSpec
<1>. QED
  BY <1>2, <1>3, PTL
\* The bridges never open on a half-written persona, for any number of scripts and
\* images, whatever failed and was killed before (program-fpga-pcie 36, 144-153).
THEOREM OpensWhole == SerialSpec => []NeverOpensPartial
<1>1. ScriptInv => NeverOpensPartial
  BY DEF ScriptInv
<1>. QED
  BY <1>1, ScriptInvariant, PTL

\* Every word of a bitstream reaches the IP behind closed bridges, and into a region
\* in reset unless a tool was killed at work since the last complete run.
THEOREM WordsBehind == SerialSpec => WordsBehindBridges
<1>1. ASSUME TypeOK, ScriptInv, [Next]_vars, Len(stream') > Len(stream)
      PROVE  bridge[Target] = "frozen" /\ (Held \/ torn)
  <2>1. stream' # stream
    <3>1. Len(stream) \in Nat
      BY <1>1 DEF TypeOK, Mgr!TypeOK
    <3>. QED
      BY <1>1, <3>1
  <2>2. ASSUME NEW s \in Scripts,
               \/ Probe(s) \/ ProbeFails(s) \/ SetFlags(s) \/ SetTimeout(s) \/ Finish(s) \/ Fail(s)
               \/ Enable(s) \/ Disable(s) \/ WriteName(s) \/ Tool(s) \/ Killed(s)
               \/ \E m \in Images, o \in {Target} \cup BadOffsets : Start(s, m, o)
        PROVE  FALSE
    BY <2>1, <2>2 DEF Probe, ProbeFails, SetFlags, SetTimeout, Finish, Fail, Enable, Disable, WriteName,
          Tool, Killed, Start, mgrVars, hwVars, Mgr!Register, Mgr!SetInfo, Mgr!loadVars,
          Mgr!WriteFirmwareName, Mgr!Begin
  <2>3. ~Ip /\ ~Persona /\ ~Unprobe /\ ~UNCHANGED vars
    BY <2>1 DEF Ip, Persona, Unprobe, vars, mgrVars, hwVars, Mgr!Ip, Mgr!Pr!Ip, Mgr!Pr!IpSucceed,
          Mgr!Pr!IpFail, Mgr!Pr!IpReady, Mgr!Unregister, Mgr!loadVars
  <2>4. PICK s \in Scripts : Load(s)
    BY <1>1, <2>2, <2>3 DEF Next, Run
  <2>5. lpc[s] # "idle"
    BY <1>1, <2>4, LoadOwn DEF Load, TypeOK
  <2>6. spc[s] = "load"
    BY <1>1, <2>5 DEF TypeOK
  <2>. QED
    BY <1>1, <2>6 DEF ScriptInv, ScriptStands, Behind
<1>2. TypeOK /\ ScriptInv /\ [Next /\ Serial']_vars
        => [Len(stream') > Len(stream) => bridge[Target] = "frozen" /\ (Held \/ torn)]_vars
  BY <1>1
<1>. QED
  BY <1>2, ScriptInvariant, PTL DEF SerialSpec, WordsBehindBridges

\* A script that runs has not ended.
Running == \A s \in Scripts : spc[s] # "off" => exit[s] = "none"

\* Every step keeps that: exit is set as the script ends.
LEMMA RunningStep ==
    ASSUME OwnTypeOK, Running, [Next]_vars
    PROVE  Running'
<1>1. ASSUME NEW s \in Scripts, NEW from, NEW to, Then(s, from, to), from # "off"
      PROVE  Running'
  BY <1>1 DEF Then, OwnTypeOK, Running
<1>2. ASSUME NEW s \in Scripts, NEW code, spc' = [spc EXCEPT ![s] = "off"],
             exit' = [exit EXCEPT ![s] = code]
      PROVE  Running'
  BY <1>2 DEF OwnTypeOK, Running
<1>3. ASSUME NEW s \in Scripts, NEW m \in Images, NEW o \in {Target} \cup BadOffsets, Start(s, m, o)
      PROVE  Running'
  BY <1>3 DEF Start, OwnTypeOK, Running
<1>4. ASSUME NEW s \in Scripts,
             \/ Probe(s) \/ SetFlags(s) \/ SetTimeout(s) \/ Enable(s) \/ WriteName(s) \/ Disable(s)
      PROVE  Running'
  BY <1>1, <1>4 DEF Probe, SetFlags, SetTimeout, Enable, WriteName, Disable
<1>5. ASSUME NEW s \in Scripts, ProbeFails(s) \/ Finish(s) \/ Fail(s) \/ Killed(s)
      PROVE  Running'
  BY <1>2, <1>5 DEF ProbeFails, Finish, Fail, End, Killed
<1>6. CASE UNCHANGED scriptVars
  BY <1>6 DEF scriptVars, Running
<1>. QED
  BY <1>3, <1>4, <1>5, <1>6 DEF Next, Run, Tool, Load, Ip, Persona, Unprobe, vars

\* A run that ends with 0 has put its image, whole, into the region and given the
\* region back, for any scripts that failed or were killed before.
THEOREM ExitZeroReady == SerialSpec => ExitZeroMeansReady
<1> DEFINE Ready ==
      \A s \in Scripts : spc[s] = "disable" /\ exit'[s] = "0" =>
          /\ loaded = args[s].img
          /\ bridge[Target] = "unfrozen" /\ ctrl[Target] = {}
<1>1. ASSUME TypeOK, ScriptInv, Running, [Next]_vars, NEW s \in Scripts, spc[s] = "disable", exit'[s] = "0"
      PROVE  loaded = args[s].img /\ Open
  <2>1. OwnTypeOK /\ exit[s] = "none"
    BY <1>1, TypeParts DEF Running
  <2>2. PICK d \in Scripts : exit' = [exit EXCEPT ![d] = "0"] /\ Finish(d)
    <3>1. exit' # exit
      BY <1>1, <2>1
    <3>2. \A d \in Scripts :
             Probe(d) \/ SetFlags(d) \/ SetTimeout(d) \/ Enable(d) \/ WriteName(d) \/ Disable(d)
                \/ Tool(d) \/ Load(d) => exit' = exit
      BY DEF Probe, SetFlags, SetTimeout, Enable, WriteName, Disable, Then, Tool, Load, scriptVars
    <3>3. ~Ip /\ ~Persona /\ ~Unprobe /\ ~UNCHANGED vars
      BY <3>1 DEF Ip, Persona, Unprobe, vars, scriptVars
    <3>4. \A d \in Scripts : ProbeFails(d) \/ Fail(d) \/ Killed(d) => exit'[s] # "0"
      BY <1>1, <2>1 DEF ProbeFails, Fail, Killed, End, OwnTypeOK
    <3>5. \A d \in Scripts, m \in Images, o \in {Target} \cup BadOffsets : Start(d, m, o) => exit'[s] # "0"
      BY <1>1, <2>1 DEF Start, OwnTypeOK
    <3>6. \E d \in Scripts : Finish(d)
      BY <1>1, <3>1, <3>2, <3>3, <3>4, <3>5 DEF Next, Run
    <3>. QED
      BY <3>6 DEF Finish, End
  <2>3. d = s
    BY <1>1, <2>1, <2>2 DEF OwnTypeOK
  <2>. QED
    BY <1>1, <2>2, <2>3 DEF Finish, End, ScriptInv, ScriptStands, HasLoaded
<1>2. TypeOK /\ ScriptInv /\ Running /\ [Next /\ Serial']_vars => [Ready]_vars
  BY <1>1 DEF Open
<1>3. SerialSpec => []Running
  <2>1. Init => Running
    BY DEF Init, Running
  <2>2. TypeOK /\ Running /\ [Next /\ Serial']_vars => Running'
    BY RunningStep, TypeParts
  <2>. QED
    BY <2>1, <2>2, ScriptInvariant, PTL DEF SerialSpec
<1>. QED
  BY <1>2, <1>3, ScriptInvariant, PTL DEF SerialSpec, ExitZeroMeansReady

-----------------------------------------------------------------------------
(* The stages of RegionIsolation.                                          *)

\* How a step moves the bridges: round the four states, and a persona that answers
\* does not write the register.
LEMMA BridgeMoves ==
    ASSUME TypeOK, ScriptInv, [Next]_vars
    PROVE  \/ bridge'[Target] = bridge[Target]
           \/ bridge[Target] = "unfrozen" /\ bridge'[Target] = "freezing"
           \/ bridge[Target] = "freezing" /\ bridge'[Target] = "frozen" /\ UNCHANGED ctrl
           \/ bridge[Target] = "frozen" /\ bridge'[Target] = "unfreezing"
           \/ bridge[Target] = "unfreezing" /\ bridge'[Target] = "unfrozen"
<1>0. OwnTypeOK /\ Uio!TypeOK /\ RegionInv
  BY TypeParts DEF ScriptInv
<1>1. ASSUME NEW s \in Scripts, Uio!Step(s)
      PROVE  \/ bridge'[Target] = bridge[Target]
             \/ bridge[Target] = "unfrozen" /\ bridge'[Target] = "freezing"
             \/ bridge[Target] = "frozen" /\ bridge'[Target] = "unfreezing"
  <2>1. UNCHANGED bridge \/ \E v : Uio!WriteCtrl(offset[s], v)
    BY <1>1 DEF Uio!Step, Uio!EnableStatus, Uio!AssertFreeze, Uio!AwaitFrozen, Uio!AssertReset,
       Uio!DisableStatus, Uio!ReadCtrl, Uio!ToggleReset, Uio!RequestUnfreeze, Uio!AwaitUnfrozen,
       Uio!ClearCtrl
  <2>2. offset[s] = Target
    BY <1>0 DEF Uio!TypeOK
  <2>. QED
    BY <1>0, <2>1, <2>2 DEF Uio!WriteCtrl, Uio!React, Uio!TypeOK
<1>2. CASE Uio!Persona(Target)
  BY <1>0, <1>2 DEF Uio!Persona, Uio!StopAck, Uio!StartAck, Uio!React, RegionInv, Uio!TypeOK
<1>3. ASSUME NEW s \in Scripts, Uio!Call(s)
      PROVE  UNCHANGED bridge
  BY <1>3 DEF Uio!Call, Uio!FreezeEnable, Uio!FreezeDisable, Uio!Enter
<1>4. ASSUME NEW s \in Scripts,
             Killed(s) \/ \E m \in Images, o \in {Target} \cup BadOffsets : Start(s, m, o)
      PROVE  UNCHANGED bridge
  BY <1>4 DEF Killed, Start
<1>5. UNCHANGED Uio!vars => UNCHANGED bridge
  BY DEF Uio!vars
<1>. QED
  BY <1>0, <1>1, <1>2, <1>3, <1>4, <1>5, RegionStep DEF Uio!Next

\* The stage goes one step out or one step back, or stays.
LEMMA StageMoves ==
    ASSUME TypeOK, ScriptInv, ScriptInv', [Next]_vars
    PROVE  \/ Uio!StageOf(Target)' = Uio!StageOf(Target)
           \/ <<Uio!StageOf(Target), Uio!StageOf(Target)'>> \in Uio!Isolation!Adjacent
<1>1. RegionInv /\ RegionInv' /\ bridge[Target] \in {"unfrozen", "freezing", "frozen", "unfreezing"}
  BY DEF ScriptInv, TypeOK, Uio!TypeOK
<1>2. /\ bridge[Target] \in {"unfrozen", "freezing"} => Uio!StageOf(Target) = "live"
      /\ bridge[Target] = "unfreezing" => Uio!StageOf(Target) = "frozen"
      /\ bridge[Target] = "frozen" =>
            Uio!StageOf(Target) = IF "RESET_REQ" \in ctrl[Target] THEN "held" ELSE "frozen"
  BY <1>1 DEF RegionInv, Uio!StageOf
<1>3. /\ bridge'[Target] \in {"unfrozen", "freezing"} => Uio!StageOf(Target)' = "live"
      /\ bridge'[Target] = "unfreezing" => Uio!StageOf(Target)' = "frozen"
      /\ bridge'[Target] = "frozen" =>
            Uio!StageOf(Target)' = IF "RESET_REQ" \in ctrl'[Target] THEN "held" ELSE "frozen"
  BY <1>1 DEF RegionInv, Uio!StageOf
<1>4. bridge[Target] = "freezing" => "RESET_REQ" \notin ctrl[Target]
  BY <1>1 DEF RegionInv
<1>. QED
  BY <1>1, <1>2, <1>3, <1>4, BridgeMoves DEF Uio!Isolation!Adjacent

\* Even killed between two register accesses, and whatever the next run finds, the
\* tool moves the region through the stages of RegionIsolation one at a time.
THEOREM StagedIfKilled == SerialSpec => StagedEvenIfKilled
<1> DEFINE stage == [r \in {Target} |-> Uio!StageOf(r)]
<1>1. Init => Uio!Isolation!Init
  BY DEF Init, Uio!Init, Uio!StageOf, Uio!Isolation!Init
<1>2. ASSUME TypeOK, ScriptInv, ScriptInv', [Next]_vars
      PROVE  [Uio!Isolation!Next]_stage
  <2>1. stage' = [r \in {Target} |-> Uio!StageOf(r)']
    BY Zenon
  <2>2. CASE Uio!StageOf(Target)' = Uio!StageOf(Target)
    <3>1. stage' = stage
      BY <2>1, <2>2
    <3>. QED
      BY <3>1
  <2>3. CASE <<Uio!StageOf(Target), Uio!StageOf(Target)'>> \in Uio!Isolation!Adjacent
    <3>1. Uio!StageOf(Target)' \in Uio!Isolation!Stages
      BY <2>3 DEF Uio!Isolation!Adjacent, Uio!Isolation!Stages
    <3>2. stage' = [stage EXCEPT ![Target] = Uio!StageOf(Target)']
      BY <2>1
    <3>3. stage[Target] = Uio!StageOf(Target)
      OBVIOUS
    <3>4. Uio!Isolation!Move(Target)
      BY <2>3, <3>1, <3>2, <3>3 DEF Uio!Isolation!Move
    <3>. QED
      BY <3>4 DEF Uio!Isolation!Next
  <2>. QED
    BY <1>2, <2>2, <2>3, StageMoves
<1>3. (TypeOK /\ ScriptInv) /\ (TypeOK /\ ScriptInv)' /\ [Next /\ Serial']_vars
        => [Uio!Isolation!Next]_stage
  BY <1>2
<1>. QED
  BY <1>1, <1>3, ScriptInvariant, PTL
     DEF SerialSpec, StagedEvenIfKilled, Uio!StagedIsolation, Uio!Isolation!Spec
=============================================================================
