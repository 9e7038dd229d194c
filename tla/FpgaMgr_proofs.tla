--------------------------- MODULE FpgaMgr_proofs ---------------------------
(***************************************************************************)
(* Proofs about FpgaMgr, for any set of writers and images of any size,    *)
(* either core and any bounds of its loops.                                *)
(*                                                                         *)
(* Without serialisation (Spec): type correctness and NoStepPending.  With *)
(* one write at a time (SerialSpec): OperatingIsWhole and NameIsTheImage,  *)
(* with the settings written at any time and the manager removed and       *)
(* registered again at will.                                               *)
(*                                                                         *)
(* The facts about the PR IP are those of ConfigLoad_proofs, instantiated. *)
(***************************************************************************)
EXTENDS FpgaMgr, TLAPS

LP == INSTANCE ConfigLoad_proofs
        WITH Callers <- Writers, config_state <- state,
             HeaderBytes <- 4, ConfigTimeout <- MaxTimeout, PofCheck <- FALSE

(* The parts of the type invariant.                                        *)

AllWords == {Pr!Garbage} \cup UNION {Pr!WordsOf(m) : m \in Images}

Locals == [img : Images \cup {"none"}, offset : Nat, polls : Nat, val : Pr!Statuses]

States == StepStates \cup RestStates

Results == {"none", "ok", "ENOENT", "EINVAL", "EIO", "ETIMEDOUT"}

IpTypeOK ==
    /\ status \in Pr!Statuses
    /\ start \in BOOLEAN
    /\ stream \in Seq(AllWords)
    /\ loaded \in Images \cup {"none", "partial"}

\* The locals l of a load whose next step is p.
LocalsFit(p, l) ==
    IF p = "idle" THEN l = Pr!NoLocals
    ELSE /\ l.img \in Images
         /\ l.offset <= Size[l.img]
         /\ l.polls <= IF p = "complete" THEN MaxTimeout ELSE InitPolls

LoadTypeOK ==
    /\ state \in States
    /\ pc \in [Writers -> PCs]
    /\ loc \in [Writers -> Locals]
    /\ \A w \in Writers : LocalsFit(pc[w], loc[w])
    /\ ret \in [Writers -> Results]

FilesTypeOK ==
    /\ pof_id \in {"none", "zero", "set"}
    /\ registered \in BOOLEAN /\ flags \in BOOLEAN
    /\ config_to \in 0 .. MaxTimeout
    /\ firmware_name \in Images \cup {"NULL"}

\* The three parts are the type invariant.
LEMMA TypeParts == TypeOK <=> IpTypeOK /\ LoadTypeOK /\ FilesTypeOK
<1>1. TypeOK => IpTypeOK /\ LoadTypeOK /\ FilesTypeOK
  BY DEF TypeOK, IpTypeOK, LoadTypeOK, FilesTypeOK, LocalsFit, AllWords, Locals, Results, States
<1>2. IpTypeOK /\ LoadTypeOK /\ FilesTypeOK => TypeOK
  BY DEF TypeOK, IpTypeOK, LoadTypeOK, FilesTypeOK, LocalsFit, AllWords, Locals, Results, States
<1>. QED
  BY <1>1, <1>2

-----------------------------------------------------------------------------
(* What ConfigLoad_proofs knows of the PR IP.                              *)

\* A word of an image, and how far it moves the offset.
LEMMA WordType ==
    ASSUME NEW m \in Images, NEW o \in Nat, o <= Size[m]
    PROVE  /\ Pr!Word(m, o) \in Pr!WordsOf(m)
           /\ Pr!Word(m, o) \in AllWords
           /\ Pr!Smaller(4, Size[m] - o) \in Nat
           /\ o + Pr!Smaller(4, Size[m] - o) <= Size[m]
  BY MgrAssumption, LP!WordType
     DEF AllWords, LP!AllWords, Pr!Word, LP!Word, Pr!WordsOf, LP!WordsOf, Pr!Garbage, LP!Garbage,
         Pr!Smaller, LP!Smaller

\* What the IP may report includes the states it is put in.
LEMMA StatusType ==
    /\ {"NRESET", "PR_IN_PROG", "PR_SUCCESS"} \subseteq Pr!Statuses
    /\ Pr!ErrStatus \subseteq Pr!Statuses
    /\ Pr!ErrStatus \cap {"NRESET", "PR_IN_PROG", "PR_SUCCESS", "BUSY"} = {}
  BY DEF Pr!Statuses, Pr!ErrStatus

\* The core reports success for the status that says so.
LEMMA StateOfStatus ==
    /\ FpgaState = "OPERATING" <=> status = "PR_SUCCESS"
    /\ FpgaState \in {"UNKNOWN", "RESET", "WRITE", "WRITE_ERR", "OPERATING"}
  BY MgrAssumption DEF FpgaState, Pr!FpgaState, Pr!StateA10, Pr!StateS10

\* The steps of the IP and the accesses to it keep its types.
LEMMA IpType ==
    ASSUME IpTypeOK, Pr!Ip \/ Pr!IpStart \/ \E w \in AllWords : Pr!IpTake(w)
    PROVE  IpTypeOK'
<1>1. IpTypeOK <=> LP!IpTypeOK
  BY DEF IpTypeOK, LP!IpTypeOK, AllWords, LP!AllWords, Pr!WordsOf, LP!WordsOf, Pr!Word, LP!Word,
         Pr!Smaller, LP!Smaller, Pr!Garbage, LP!Garbage, Pr!Statuses, LP!Statuses,
         Pr!ErrStatus, LP!ErrStatus
<1>2. AllWords = LP!AllWords
  BY DEF AllWords, LP!AllWords, Pr!WordsOf, LP!WordsOf, Pr!Word, LP!Word, Pr!Smaller, LP!Smaller,
         Pr!Garbage, LP!Garbage
<1>3. Pr!Ip => LP!Ip
  BY DEF Pr!Ip, LP!Ip, Pr!IpSucceed, LP!IpSucceed, Pr!IpFail, LP!IpFail, Pr!IpReady, LP!IpReady,
         Pr!Contents, LP!Contents, Pr!Word, LP!Word, Pr!Smaller, LP!Smaller,
         Pr!ErrStatus, LP!ErrStatus
<1>4. Pr!IpStart => LP!IpStart
  BY DEF Pr!IpStart, LP!IpStart
<1>5. \A w : Pr!IpTake(w) => LP!IpTake(w)
  BY DEF Pr!IpTake, LP!IpTake
<1>6. LP!IpTypeOK'
  BY <1>1, <1>2, <1>3, <1>4, <1>5, MgrAssumption, LP!IpType, LP!TakeType
<1>7. IpTypeOK' <=> LP!IpTypeOK'
  BY DEF IpTypeOK, LP!IpTypeOK, AllWords, LP!AllWords, Pr!WordsOf, LP!WordsOf, Pr!Word, LP!Word,
         Pr!Smaller, LP!Smaller, Pr!Garbage, LP!Garbage, Pr!Statuses, LP!Statuses,
         Pr!ErrStatus, LP!ErrStatus
<1>. QED
  BY <1>6, <1>7

\* A request that finds no configuration under way empties the stream.
LEMMA StartStream ==
    ASSUME Pr!IpStart, status # "PR_IN_PROG"
    PROVE  stream' = << >>
  BY Zenon DEF Pr!IpStart

\* A stream of words of one image is the contents of no other.
LEMMA ContentsOwner ==
    ASSUME NEW m \in Images, NEW n \in Images, stream \in Seq(Pr!WordsOf(m)),
           stream # << >>, stream = Pr!Contents(n)
    PROVE  m = n
  BY MgrAssumption, LP!ContentsOwner
     DEF Pr!WordsOf, LP!WordsOf, Pr!Word, LP!Word, Pr!Smaller, LP!Smaller, Pr!Contents, LP!Contents

-----------------------------------------------------------------------------
(* Type correctness, without serialisation.                                *)

\* Locals of a load that has not begun.
LEMMA NoLocalsType == Pr!NoLocals \in Locals /\ LocalsFit("idle", Pr!NoLocals)
  BY StatusType DEF Pr!NoLocals, Locals, LocalsFit

\* A step of w that goes to label p with locals l and leaves the others alone.
Moves(w, p, l) ==
    /\ pc' = [pc EXCEPT ![w] = p]
    /\ loc' = [loc EXCEPT ![w] = l]

\* Such a step keeps the types of the loads.
LEMMA MovesType ==
    ASSUME LoadTypeOK, NEW w \in Writers, NEW p \in PCs, NEW l \in Locals,
           LocalsFit(p, l), Moves(w, p, l),
           state' \in States, ret' \in [Writers -> Results]
    PROVE  LoadTypeOK'
<1>1. pc' \in [Writers -> PCs] /\ loc' \in [Writers -> Locals]
  BY DEF LoadTypeOK, Moves
<1>2. \A d \in Writers : LocalsFit(pc'[d], loc'[d])
  BY DEF LoadTypeOK, Moves
<1>. QED
  BY <1>1, <1>2 DEF LoadTypeOK, LocalsFit

\* A load that returns keeps the types.
LEMMA ReturnType ==
    ASSUME LoadTypeOK, NEW w \in Writers, NEW from, NEW v \in Results, NEW st \in States,
           Pr!Return(w, from, v, st)
    PROVE  LoadTypeOK'
<1>1. Moves(w, "idle", Pr!NoLocals)
  BY DEF Pr!Return, Pr!Goto, Moves
<1>2. ret' \in [Writers -> Results] /\ state' \in States
  BY DEF Pr!Return, LoadTypeOK
<1>3. "idle" \in PCs
  BY DEF PCs, Pr!PCs
<1>. QED
  BY <1>1, <1>2, <1>3, NoLocalsType, MovesType

\* The labels between the first and the last loop of a load.
MidPCs == PCs \ {"idle", "complete"}

\* The labels ConfigLoad and FpgaMgr name.
LEMMA PCType ==
    MidPCs = {"named", "unnamed", "firmware", "init_flags", "init_csr", "init_id", "init_wait",
              "init_poll", "init_start", "write", "chunk", "write_end"}
  BY DEF MidPCs, PCs, Pr!PCs

\* So does one that goes on with the same locals.
LEMMA ContinueType ==
    ASSUME LoadTypeOK, NEW w \in Writers, NEW from \in MidPCs, NEW to \in MidPCs,
           Pr!Goto(w, from, to), UNCHANGED <<loc, ret>>, state' \in States
    PROVE  LoadTypeOK'
<1>1. Moves(w, to, loc[w])
  BY DEF Pr!Goto, Moves, LoadTypeOK
<1>2. loc[w] \in Locals /\ LocalsFit(to, loc[w])
  BY DEF Pr!Goto, LoadTypeOK, LocalsFit, MidPCs
<1>3. ret' \in [Writers -> Results] /\ to \in PCs
  BY DEF LoadTypeOK, MidPCs
<1>. QED
  BY <1>1, <1>2, <1>3, MovesType

\* A write to one of the two files that load.
LEMMA BeginType ==
    ASSUME LoadTypeOK, NEW w \in Writers, NEW m \in Images, NEW first \in MidPCs,
           Begin(w, m, first)
    PROVE  LoadTypeOK'
<1> DEFINE l == [Pr!NoLocals EXCEPT !.img = m]
<1>1. loc[w] = Pr!NoLocals
  BY DEF Begin, Pr!Goto, LoadTypeOK, LocalsFit
<1>2. Moves(w, first, l)
  BY <1>1 DEF Begin, Pr!Goto, Moves, LoadTypeOK
<1>3. l \in Locals
  BY StatusType DEF Pr!NoLocals, Locals
<1>4. LocalsFit(first, l)
  BY MgrAssumption DEF Pr!NoLocals, LocalsFit, MidPCs
<1>5. ret' \in [Writers -> Results] /\ state' \in States /\ first \in PCs
  BY DEF Begin, LoadTypeOK, Results, MidPCs
<1>. HIDE DEF l
<1>. QED
  BY <1>2, <1>3, <1>4, <1>5, MovesType

\* A step up to the request of the configuration keeps the types of the loads.
LEMMA InitStepType ==
    ASSUME IpTypeOK, LoadTypeOK, NEW w \in Writers,
           \/ FirmwareLoad(w) \/ BufLoad(w) \/ RequestFirmware(w)
           \/ CheckFlags(w) \/ CheckPofId(w) \/ InitStep(w)
    PROVE  LoadTypeOK'
<1>0. {"UNKNOWN", "FIRMWARE_REQ", "FIRMWARE_REQ_ERR", "WRITE_INIT", "WRITE_INIT_ERR", "WRITE"} \subseteq States
  BY DEF States, StepStates, RestStates
<1>1. CASE RequestFirmware(w)
  <2>1. CASE Pr!Return(w, "firmware", "ENOENT", "FIRMWARE_REQ_ERR")
    BY <1>0, <2>1, ReturnType DEF Results
  <2>2. CASE Pr!Goto(w, "firmware", "init_flags") /\ state' = "WRITE_INIT" /\ UNCHANGED <<loc, ret>>
    BY <1>0, <2>2, ContinueType, PCType
  <2>. QED
    BY <1>1, <2>1, <2>2 DEF RequestFirmware
<1>2. ASSUME NEW from \in MidPCs, Pr!Return(w, from, "EINVAL", "WRITE_INIT_ERR")
      PROVE  LoadTypeOK'
  BY <1>0, <1>2, ReturnType DEF Results
<1>3. ASSUME NEW from \in MidPCs, NEW to \in MidPCs, Pr!Continue(w, from, to), UNCHANGED loc
      PROVE  LoadTypeOK'
  BY <1>3, ContinueType DEF Pr!Continue, LoadTypeOK
<1>4. CASE CheckFlags(w)
  BY <1>2, <1>3, <1>4, PCType DEF CheckFlags
<1>5. CASE CheckPofId(w)
  <2>1. \/ Pr!Return(w, "init_id", "EINVAL", "WRITE_INIT_ERR")
        \/ /\ Pr!Continue(w, "init_id", IF Family = "s10" THEN "init_wait" ELSE "init_start")
           /\ UNCHANGED loc
    BY <1>5 DEF CheckPofId
  <2>. QED
    BY <1>2, <1>3, <2>1, PCType
<1>6. CASE Pr!ReadCsr(w)
  BY <1>2, <1>3, <1>6, PCType DEF Pr!ReadCsr
<1>7. CASE Pr!WaitInitial(w)
  <2> DEFINE to == IF status = "BUSY" THEN "init_poll" ELSE "init_start"
             l == [loc[w] EXCEPT !.val = status]
  <2>1. to \in MidPCs
    BY PCType
  <2>2. Moves(w, to, l)
    BY <1>7 DEF Pr!WaitInitial, Pr!Continue, Pr!Goto, Moves, LoadTypeOK
  <2>3. loc[w] \in Locals /\ LocalsFit("init_wait", loc[w])
    BY <1>7 DEF Pr!WaitInitial, Pr!Continue, Pr!Goto, LoadTypeOK
  <2>4. l \in Locals /\ LocalsFit(to, l)
    BY <2>3 DEF Locals, LocalsFit, IpTypeOK
  <2>5. ret' \in [Writers -> Results] /\ state' \in States /\ to \in PCs
    BY <1>7, <2>1 DEF Pr!WaitInitial, Pr!Continue, LoadTypeOK, MidPCs
  <2>. HIDE DEF to, l
  <2>. QED
    BY <2>2, <2>4, <2>5, MovesType
<1>8. CASE Pr!PollInitial(w)
  <2>1. CASE Pr!Return(w, "init_poll", "ETIMEDOUT", "WRITE_INIT_ERR")
    BY <1>0, <2>1, ReturnType DEF Results
  <2>2. CASE /\ loc[w].polls < InitPolls
             /\ Pr!Continue(w, "init_poll",
                            IF Pr!NotInitial(loc[w].val) THEN "init_poll" ELSE "init_start")
             /\ loc' = [loc EXCEPT ![w].polls = @ + 1,
                                   ![w].val = IF Pr!NotInitial(@) THEN status ELSE @]
    <3> DEFINE to == IF Pr!NotInitial(loc[w].val) THEN "init_poll" ELSE "init_start"
               v == IF Pr!NotInitial(loc[w].val) THEN status ELSE loc[w].val
               k == [loc[w] EXCEPT !.polls = @ + 1]
               l == [k EXCEPT !.val = v]
    <3>1. to \in MidPCs
      BY PCType
    <3>2. Moves(w, to, l)
      <4>1. loc' = [loc EXCEPT ![w] = l]
        BY <2>2, Zenon
      <4>. QED
        BY <2>2, <4>1 DEF Pr!Continue, Pr!Goto, Moves
    <3>3. loc[w] \in Locals /\ LocalsFit("init_poll", loc[w])
      BY <2>2 DEF Pr!Continue, Pr!Goto, LoadTypeOK
    <3>4. v \in Pr!Statuses
      BY <3>3 DEF Locals, IpTypeOK
    <3>5. k \in Locals /\ LocalsFit("init_poll", k)
      BY <2>2, <3>3, MgrAssumption DEF Locals, LocalsFit
    <3>. HIDE DEF k, v
    <3>6. l \in Locals /\ LocalsFit(to, l)
      BY <3>4, <3>5 DEF Locals, LocalsFit
    <3>7. ret' \in [Writers -> Results] /\ state' \in States /\ to \in PCs
      BY <2>2, <3>1 DEF Pr!Continue, LoadTypeOK, MidPCs
    <3>. HIDE DEF to, l
    <3>. QED
      BY <3>2, <3>6, <3>7, MovesType
  <2>. QED
    BY <1>8, <2>1, <2>2 DEF Pr!PollInitial
<1>9. CASE Pr!WriteStart(w)
  BY <1>0, <1>9, ContinueType, PCType DEF Pr!WriteStart
<1>10. CASE FirmwareLoad(w) \/ BufLoad(w)
  BY <1>0, <1>10, ContinueType, PCType DEF FirmwareLoad, BufLoad, Enter
<1>. QED
  BY <1>1, <1>4, <1>5, <1>6, <1>7, <1>8, <1>9, <1>10 DEF InitStep

\* One word of alt_pr_fpga_write(): the offset stays within the image.
LEMMA WriteWordType ==
    ASSUME IpTypeOK, LoadTypeOK, NEW w \in Writers, WriteWord(w)
    PROVE  IpTypeOK' /\ LoadTypeOK'
<1> DEFINE m == loc[w].img
           next == loc[w].offset + Pr!Smaller(4, Size[m] - loc[w].offset)
           l == [loc[w] EXCEPT !.offset = next]
<1>1. loc[w] \in Locals /\ LocalsFit("write", loc[w])
  BY DEF WriteWord, LoadTypeOK
<1>2. m \in Images /\ loc[w].offset \in Nat /\ loc[w].offset <= Size[m]
  BY <1>1 DEF LocalsFit, Locals
<1>3. Pr!Word(m, loc[w].offset) \in AllWords /\ next \in Nat /\ next <= Size[m]
  BY <1>2, WordType
<1>4. IpTypeOK'
  BY <1>3, IpType DEF WriteWord, Pr!WriteWord
<1>5. PICK to \in {"chunk", "write_end", "write"} : Pr!Continue(w, "write", to)
  BY DEF WriteWord, Pr!WriteWord, Pr!AfterBytes
<1>6. Moves(w, to, l)
  BY <1>5 DEF WriteWord, Pr!WriteWord, Pr!Continue, Pr!Goto, Moves, LoadTypeOK
<1>7. l \in Locals /\ LocalsFit(to, l)
  BY <1>1, <1>3 DEF Locals, LocalsFit
<1>8. ret' \in [Writers -> Results] /\ state' \in States /\ to \in PCs
  BY <1>5, PCType DEF Pr!Continue, LoadTypeOK, MidPCs
<1>. HIDE DEF l
<1>9. LoadTypeOK'
  BY <1>6, <1>7, <1>8, MovesType
<1>. QED
  BY <1>4, <1>9

\* The end of a load.
LEMMA EndStepType ==
    ASSUME LoadTypeOK, FilesTypeOK, NEW w \in Writers,
           WriteNothing(w) \/ CheckWrite(w) \/ PollComplete(w)
    PROVE  LoadTypeOK'
<1>1. CASE \E from \in PCs, v \in Results, st \in RestStates : Pr!Return(w, from, v, st)
  BY <1>1, ReturnType DEF States
<1>2. {"idle", "write", "chunk", "write_end", "complete"} \subseteq PCs
  BY DEF PCs, Pr!PCs
<1>3. CASE WriteNothing(w)
  BY <1>1, <1>2, <1>3 DEF WriteNothing, Results, RestStates
<1>4. CASE Pr!CheckChunk(w)
  <2>1. CASE Pr!Return(w, "chunk", "EIO", "WRITE_ERR")
    BY <1>1, <1>2, <2>1 DEF Results, RestStates
  <2>2. CASE Pr!Continue(w, "chunk", Pr!AfterBytes(loc[w].img, loc[w].offset)) /\ UNCHANGED loc
    BY <2>2, ContinueType, PCType DEF Pr!Continue, Pr!AfterBytes, LoadTypeOK
  <2>. QED
    BY <1>4, <2>1, <2>2 DEF Pr!CheckChunk
<1>5. CASE Pr!FinishWrite(w)
  <2>1. CASE Pr!Return(w, "write_end", "EIO", "WRITE_ERR")
    BY <1>1, <1>2, <2>1 DEF Results, RestStates
  <2>2. CASE /\ Pr!Goto(w, "write_end", "complete")
             /\ state' = "WRITE_COMPLETE"
             /\ loc' = [loc EXCEPT ![w].polls = 0]
             /\ UNCHANGED ret
    <3> DEFINE l == [loc[w] EXCEPT !.polls = 0]
    <3>1. Moves(w, "complete", l)
      BY <2>2 DEF Pr!Goto, Moves, LoadTypeOK
    <3>2. loc[w] \in Locals /\ LocalsFit("write_end", loc[w])
      BY <2>2 DEF Pr!Goto, LoadTypeOK
    <3>3. l \in Locals /\ LocalsFit("complete", l)
      BY <3>2, MgrAssumption DEF Locals, LocalsFit
    <3>4. ret' \in [Writers -> Results] /\ state' \in States
      BY <2>2 DEF LoadTypeOK, States, StepStates
    <3>. HIDE DEF l
    <3>. QED
      BY <1>2, <3>1, <3>3, <3>4, MovesType
  <2>. QED
    BY <1>5, <2>1, <2>2 DEF Pr!FinishWrite
<1>6. CASE PollComplete(w)
  <2>1. CASE \/ Pr!Return(w, "complete", "EIO", "WRITE_COMPLETE_ERR")
             \/ Pr!Return(w, "complete", "ok", "OPERATING")
             \/ Pr!Return(w, "complete", "ETIMEDOUT", "WRITE_COMPLETE_ERR")
    BY <1>1, <1>2, <2>1 DEF Results, RestStates
  <2>2. CASE /\ loc[w].polls < config_to
             /\ Pr!Continue(w, "complete", "complete")
             /\ loc' = [loc EXCEPT ![w].polls = @ + 1]
    <3> DEFINE l == [loc[w] EXCEPT !.polls = @ + 1]
    <3>1. Moves(w, "complete", l)
      BY <2>2 DEF Pr!Continue, Pr!Goto, Moves, LoadTypeOK
    <3>2. loc[w] \in Locals /\ LocalsFit("complete", loc[w])
      BY <2>2 DEF Pr!Continue, Pr!Goto, LoadTypeOK
    <3>3. l \in Locals /\ LocalsFit("complete", l)
      BY <2>2, <3>2, MgrAssumption DEF Locals, LocalsFit, FilesTypeOK
    <3>4. ret' \in [Writers -> Results] /\ state' \in States
      BY <2>2 DEF Pr!Continue, LoadTypeOK
    <3>. HIDE DEF l
    <3>. QED
      BY <1>2, <3>1, <3>3, <3>4, MovesType
  <2>. QED
    BY <1>6, <2>1, <2>2 DEF PollComplete
<1>. QED
  BY <1>3, <1>4, <1>5, <1>6 DEF CheckWrite

\* Every step of the unserialised system preserves the types.
LEMMA TypeStep ==
    ASSUME TypeOK, [Next]_vars
    PROVE  TypeOK'
<1>0. IpTypeOK /\ LoadTypeOK /\ FilesTypeOK
  BY TypeParts
<1>. SUFFICES IpTypeOK' /\ LoadTypeOK' /\ FilesTypeOK'
  BY TypeParts, PTL
<1>1. CASE Ip
  <2>1. UNCHANGED <<state, pc, loc, ret>>
    BY <1>1 DEF Ip, Pr!Ip, Pr!IpSucceed, Pr!IpFail, Pr!IpReady
  <2>. QED
    BY <1>0, <1>1, <2>1, IpType DEF Ip, mgrVars, LoadTypeOK, FilesTypeOK
<1>2. ASSUME NEW w \in Writers, NEW m \in Images, WriteFirmwareName(w, m) \/ WriteImage(w, m)
      PROVE  IpTypeOK' /\ LoadTypeOK' /\ FilesTypeOK'
  <2>1. UNCHANGED <<status, start, stream, loaded, registered, flags, config_to, pof_id>>
    BY <1>2 DEF WriteFirmwareName, WriteImage, Begin
  <2>2. firmware_name' \in {m, "NULL"}
    BY <1>2 DEF WriteFirmwareName, WriteImage
  <2>3. LoadTypeOK'
    BY <1>0, <1>2, BeginType, PCType DEF WriteFirmwareName, WriteImage
  <2>. QED
    BY <1>0, <2>1, <2>2, <2>3 DEF IpTypeOK, FilesTypeOK
<1>3. ASSUME NEW w \in Writers, Step(w)
      PROVE  IpTypeOK' /\ LoadTypeOK' /\ FilesTypeOK'
  <2>1. FilesTypeOK'
    BY <1>0, <1>3 DEF Step, mgrVars, FilesTypeOK
  <2>2. CASE \/ FirmwareLoad(w) \/ BufLoad(w)
             \/ RequestFirmware(w) \/ CheckFlags(w) \/ CheckPofId(w)
             \/ Pr!ReadCsr(w) \/ Pr!WaitInitial(w) \/ Pr!PollInitial(w)
    <3>1. UNCHANGED <<status, start, stream, loaded>>
      BY <2>2 DEF FirmwareLoad, BufLoad, Enter, RequestFirmware, CheckFlags, CheckPofId,
            Pr!ReadCsr, Pr!WaitInitial, Pr!PollInitial, Pr!ipVars
    <3>. QED
      BY <1>0, <2>1, <2>2, <3>1, InitStepType DEF InitStep, IpTypeOK
  <2>3. CASE Pr!WriteStart(w)
    BY <1>0, <2>1, <2>3, InitStepType, IpType DEF InitStep, Pr!WriteStart
  <2>4. CASE WriteWord(w)
    BY <1>0, <2>1, <2>4, WriteWordType
  <2>5. CASE WriteNothing(w) \/ CheckWrite(w) \/ PollComplete(w)
    <3>1. UNCHANGED <<status, start, stream, loaded>>
      BY <2>5 DEF WriteNothing, CheckWrite, Pr!CheckChunk, Pr!FinishWrite, PollComplete, Pr!ipVars
    <3>. QED
      BY <1>0, <2>1, <2>5, <3>1, EndStepType DEF IpTypeOK
  <2>. QED
    BY <1>3, <2>2, <2>3, <2>4, <2>5 DEF Step, InitStep
<1>4. ASSUME NEW f \in BOOLEAN, NEW t \in 0 .. MaxTimeout, SetInfo(f, t)
      PROVE  IpTypeOK' /\ LoadTypeOK' /\ FilesTypeOK'
  BY <1>0, <1>4 DEF SetInfo, loadVars, IpTypeOK, LoadTypeOK, FilesTypeOK
<1>5. CASE Register
  <2>1. state' \in States /\ UNCHANGED <<pc, loc, ret, status, start, stream, loaded, pof_id>>
    BY <1>5, StateOfStatus DEF Register, States, StepStates, RestStates
  <2>2. FilesTypeOK'
    <3>1. registered' \in BOOLEAN /\ flags' \in BOOLEAN
      BY <1>5 DEF Register
    <3>2. config_to' \in 0 .. MaxTimeout /\ firmware_name' \in Images \cup {"NULL"}
      BY <1>5, MgrAssumption DEF Register
    <3>. QED
      BY <1>0, <2>1, <3>1, <3>2 DEF FilesTypeOK
  <2>. QED
    BY <1>0, <2>1, <2>2 DEF IpTypeOK, LoadTypeOK
<1>6. CASE Unregister
  <2>1. registered' \in BOOLEAN
    BY <1>6 DEF Unregister
  <2>. QED
    BY <1>0, <1>6, <2>1 DEF Unregister, loadVars, IpTypeOK, LoadTypeOK, FilesTypeOK
<1>7. CASE UNCHANGED vars
  BY <1>0, <1>7 DEF vars, loadVars, mgrVars, IpTypeOK, LoadTypeOK, FilesTypeOK
<1>. QED
  BY <1>1, <1>2, <1>3, <1>4, <1>5, <1>6, <1>7 DEF Next

\* In the initial state there is no manager and nobody writes.
LEMMA InitType == Init => TypeOK
<1>1. Init => IpTypeOK
  <2>1. Init => status \in Pr!Statuses /\ stream \in Seq(AllWords) /\ loaded \in {"none"}
    BY DEF Init
  <2>2. Init => start \in BOOLEAN
    BY DEF Init
  <2>. QED
    BY <2>1, <2>2 DEF IpTypeOK
<1>2. Init => LoadTypeOK
  <2>1. "UNKNOWN" \in States /\ "idle" \in PCs
    BY DEF States, RestStates, PCs, Pr!PCs
  <2>. QED
    BY <2>1, NoLocalsType DEF Init, LoadTypeOK, Results
<1>3. Init => FilesTypeOK
  <2>1. Init => registered \in BOOLEAN /\ flags \in BOOLEAN
    BY DEF Init
  <2>2. Init => config_to \in 0 .. MaxTimeout /\ firmware_name \in Images \cup {"NULL"}
                /\ pof_id \in {"none", "zero", "set"}
    BY MgrAssumption DEF Init
  <2>. QED
    BY <2>1, <2>2 DEF FilesTypeOK
<1>. QED
  BY <1>1, <1>2, <1>3, TypeParts

\* The manager, its debugfs files and the loads keep their types under any
\* interleaving of any number of writes, also when the bound of the last loop is
\* written while it is polling.
THEOREM TypeCorrect == Spec => []TypeOK
  BY InitType, TypeStep, PTL DEF Spec

\* When the last load under way ends, mgr->state is at rest: it never claims a
\* step that nobody takes, for any interleaving of writes (fpga_mgr_buf_load()).
THEOREM EndsAtRest == Spec => NoStepPending
<1>1. ASSUME TypeOK, [Next]_vars
      PROVE  [(\E w \in Writers : pc[w] # "idle") /\ (\A w \in Writers : pc'[w] = "idle")
                => state' \in RestStates]_vars
  <2>. SUFFICES ASSUME Next, NEW w \in Writers, pc[w] # "idle", \A d \in Writers : pc'[d] = "idle"
                PROVE  state' \in RestStates
    BY <1>1 DEF vars, loadVars
  <2>1. PICK d \in Writers : Step(d)
    <3>1. ~Ip /\ ~Register /\ ~Unregister
      BY DEF Ip, Pr!Ip, Pr!IpSucceed, Pr!IpFail, Pr!IpReady, Register, Unregister, loadVars
    <3>2. \A f, t : ~SetInfo(f, t)
      BY DEF SetInfo, loadVars
    <3>3. \A d \in Writers, m \in Images : ~WriteFirmwareName(d, m) /\ ~WriteImage(d, m)
      BY <1>1 DEF WriteFirmwareName, WriteImage, Begin, Pr!Goto, TypeOK
    <3>. QED
      BY <3>1, <3>2, <3>3 DEF Next
  <2>2. pc \in [Writers -> PCs] /\ pc'[d] = "idle"
    BY <1>1 DEF TypeOK
  <2>3. ASSUME NEW to, pc' = [pc EXCEPT ![d] = to]
        PROVE  to = "idle"
    BY <2>2, <2>3
  <2>4. ASSUME NEW from, NEW v, NEW st \in RestStates, Pr!Return(d, from, v, st)
        PROVE  state' \in RestStates
    BY <2>4 DEF Pr!Return
  <2>5. CASE \/ FirmwareLoad(d) \/ BufLoad(d)
             \/ RequestFirmware(d) \/ CheckFlags(d) \/ CheckPofId(d) \/ WriteNothing(d)
    <3>1. {"FIRMWARE_REQ_ERR", "WRITE_INIT_ERR", "WRITE_ERR"} \subseteq RestStates
      BY DEF RestStates
    <3>. QED
      BY <2>3, <2>4, <2>5, <3>1 DEF FirmwareLoad, BufLoad, Enter, RequestFirmware,
            CheckFlags, CheckPofId, WriteNothing, Pr!Continue, Pr!Goto
  <2>6. CASE InitStep(d)
    BY <2>3, <2>4, <2>6 DEF InitStep, Pr!ReadCsr, Pr!WaitInitial, Pr!PollInitial, Pr!WriteStart,
          Pr!Continue, Pr!Goto, RestStates
  <2>7. CASE WriteWord(d) \/ CheckWrite(d)
    BY <2>3, <2>4, <2>7 DEF WriteWord, Pr!WriteWord, CheckWrite, Pr!CheckChunk, Pr!FinishWrite,
          Pr!AfterBytes, Pr!Continue, Pr!Goto, RestStates
  <2>8. CASE PollComplete(d)
    BY <2>3, <2>4, <2>8 DEF PollComplete, Pr!Continue, Pr!Goto, RestStates
  <2>. QED
    BY <2>1, <2>5, <2>6, <2>7, <2>8 DEF Step
<1>. QED
  BY <1>1, TypeCorrect, PTL DEF Spec, NoStepPending

-----------------------------------------------------------------------------
(* One write at a time.                                                    *)

InitPCs == {"init_id", "init_wait", "init_poll", "init_start"}

WritePCs == {"write", "chunk", "write_end", "complete"}

AllIdle == \A w \in Writers : pc[w] = "idle"

\* PR_START reads as set exactly while a configuration is under way, and a
\* configuration that succeeded has left a whole image.
IpInv ==
    /\ start <=> status = "PR_IN_PROG"
    /\ status = "PR_SUCCESS" => loaded \in Images

\* What a load can rely on at its next step: as in ConfigLoad_proofs, and the
\* name the file shows is that of its image or none.
Stands(w) ==
    /\ pc[w] \in InitPCs => status # "PR_IN_PROG"
    /\ pc[w] \in WritePCs /\ status = "PR_IN_PROG" => stream \in Seq(Pr!WordsOf(loc[w].img))
    /\ pc[w] \in WritePCs /\ status = "PR_SUCCESS" => loaded = loc[w].img
    /\ pc[w] # "idle" => firmware_name \in {"NULL", loc[w].img}

\* The labels at which a write has not touched mgr->state yet.
QuietPCs == {"idle", "named", "unnamed"}

\* What mgr->state says: a manager that is operating has no load under way, the
\* IP still reports the success, and a name that is shown is the image's or was
\* just set.
Shown ==
    /\ ~registered => AllIdle
    /\ registered /\ state = "OPERATING" =>
          /\ \A w \in Writers : pc[w] \in QuietPCs
          /\ status = "PR_SUCCESS"
          /\ \/ firmware_name = "NULL"
             \/ loaded = firmware_name
             \/ \E w \in Writers : pc[w] = "named"

\* The inductive invariant of the serialised manager.
MgrInv ==
    /\ Serial
    /\ IpInv
    /\ \A w \in Writers : Stands(w)
    /\ Shown

\* The IP's own steps: it ends a configuration with the image of the load that
\* feeds it, or after that load has given up, and then no manager is operating.
LEMMA IpKeeps ==
    ASSUME TypeOK, MgrInv, Ip
    PROVE  MgrInv'
<1>1. UNCHANGED <<state, pc, loc, ret, registered, firmware_name>> /\ Serial'
  BY DEF Ip, Pr!Ip, Pr!IpSucceed, Pr!IpFail, Pr!IpReady, mgrVars, MgrInv, Serial
<1>2. status' # "PR_IN_PROG" /\ status # "PR_SUCCESS"
  BY StatusType DEF Ip, Pr!Ip, Pr!IpSucceed, Pr!IpFail, Pr!IpReady
<1>3. ~start'
  <2>1. CASE Pr!IpSucceed \/ Pr!IpFail
    BY <2>1 DEF Pr!IpSucceed, Pr!IpFail
  <2>2. CASE Pr!IpReady
    BY <2>2 DEF Pr!IpReady, MgrInv, IpInv
  <2>. QED
    BY <2>1, <2>2 DEF Ip, Pr!Ip
<1>4. Shown'
  BY <1>1, <1>2 DEF MgrInv, Shown, AllIdle
<1>5. CASE Pr!IpSucceed
  <2>1. PICK m \in Images : stream = Pr!Contents(m) /\ loaded' = m
    BY <1>5 DEF Pr!IpSucceed
  <2>2. \A w \in Writers : Stands(w)'
    <3>. SUFFICES ASSUME NEW w \in Writers, pc[w] \in WritePCs
                  PROVE  loaded' = loc[w].img
      BY <1>1, <1>2 DEF MgrInv, Stands
    <3>1. loc[w].img \in Images
      BY DEF TypeOK, WritePCs
    <3>2. stream \in Seq(Pr!WordsOf(loc[w].img)) /\ stream # << >>
      BY <1>5 DEF Pr!IpSucceed, MgrInv, Stands
    <3>. QED
      BY <2>1, <3>1, <3>2, ContentsOwner
  <2>3. IpInv'
    BY <1>2, <1>3, <2>1 DEF IpInv
  <2>. QED
    BY <1>1, <1>4, <2>2, <2>3 DEF MgrInv
<1>6. CASE Pr!IpFail \/ Pr!IpReady
  <2>1. status' # "PR_SUCCESS"
    BY <1>6, StatusType DEF Pr!IpFail, Pr!IpReady
  <2>2. IpInv' /\ \A w \in Writers : Stands(w)'
    BY <1>1, <1>2, <1>3, <2>1 DEF MgrInv, IpInv, Stands
  <2>. QED
    BY <1>1, <1>4, <2>2 DEF MgrInv
<1>. QED
  BY <1>5, <1>6 DEF Ip, Pr!Ip

\* While one write is under way, the others are not in the driver and the manager
\* is there; once its load has begun, the manager does not claim to be operating.
LEMMA OthersIdle ==
    ASSUME MgrInv, NEW w \in Writers, pc[w] # "idle"
    PROVE  /\ \A d \in Writers \ {w} : pc[d] = "idle"
           /\ registered
           /\ pc[w] \notin QuietPCs => state # "OPERATING"
  BY DEF MgrInv, Serial, Shown, AllIdle

\* What is left to show of a step of the load of w, alone in the driver.
LEMMA OwnStep ==
    ASSUME TypeOK, NEW w \in Writers, \A d \in Writers \ {w} : pc[d] = "idle",
           NEW p, pc' = [pc EXCEPT ![w] = p],
           IpInv', Stands(w)', registered',
           state' = "OPERATING" =>
              /\ p \in QuietPCs
              /\ status' = "PR_SUCCESS"
              /\ firmware_name' # "NULL" => loaded' = firmware_name' \/ p = "named"
    PROVE  MgrInv'
<1>1. pc'[w] = p /\ \A d \in Writers \ {w} : pc'[d] = "idle"
  BY DEF TypeOK
<1>2. Serial'
  BY <1>1 DEF Serial
<1>3. \A d \in Writers : Stands(d)'
  BY <1>1 DEF Stands, InitPCs, WritePCs
<1>4. AllIdle' <=> p = "idle"
  BY <1>1 DEF AllIdle
<1>5. Shown'
  BY <1>1, <1>4 DEF Shown, QuietPCs
<1>. QED
  BY <1>2, <1>3, <1>5 DEF MgrInv

\* A load that fails: what it leaves in the region does not matter.
LEMMA FailKeeps ==
    ASSUME TypeOK, MgrInv, NEW w \in Writers, NEW from, from # "idle",
           NEW v, NEW st, st # "OPERATING", Pr!Return(w, from, v, st),
           UNCHANGED <<status, start, stream, loaded>>, UNCHANGED mgrVars
    PROVE  MgrInv'
<1>1. pc[w] # "idle" /\ pc' = [pc EXCEPT ![w] = "idle"] /\ pc'[w] = "idle" /\ state' = st
  BY DEF Pr!Return, Pr!Goto, TypeOK
<1>2. Stands(w)'
  BY <1>1 DEF Stands, InitPCs, WritePCs
<1>3. IpInv'
  BY DEF MgrInv, IpInv
<1>4. registered'
  BY <1>1, OthersIdle DEF mgrVars
<1>. QED
  BY <1>1, <1>2, <1>3, <1>4, OthersIdle, OwnStep

\* A load that goes on without touching the IP, past the look at PR_START only
\* when it is clear.
LEMMA GoOnKeeps ==
    ASSUME TypeOK, MgrInv, NEW w \in Writers, NEW from, NEW to, Pr!Goto(w, from, to),
           \/ /\ from \in {"named", "unnamed", "firmware", "init_flags"}
              /\ to \in {"firmware", "init_flags", "init_csr"}
           \/ from = "init_csr" /\ ~start /\ to \in InitPCs
           \/ from \in InitPCs /\ to \in InitPCs
           \/ from \in WritePCs /\ to \in WritePCs,
           state' # "OPERATING", loc'[w].img = loc[w].img,
           UNCHANGED <<status, start, stream, loaded>>, UNCHANGED mgrVars
    PROVE  MgrInv'
<1>1. pc[w] = from /\ from # "idle" /\ to # "idle" /\ pc' = [pc EXCEPT ![w] = to] /\ pc'[w] = to
  BY DEF Pr!Goto, TypeOK, InitPCs, WritePCs
<1>2. IpInv /\ Stands(w)
  BY DEF MgrInv
<1>3. IpInv'
  BY <1>2 DEF IpInv
<1>4. UNCHANGED firmware_name /\ registered'
  BY <1>1, OthersIdle DEF mgrVars
<1>5. Stands(w)'
  <2>0. firmware_name' \in {"NULL", loc'[w].img}
    BY <1>1, <1>2, <1>4 DEF Stands
  <2>1. CASE to \in {"firmware", "init_flags", "init_csr"}
    BY <1>1, <2>0, <2>1 DEF Stands, InitPCs, WritePCs
  <2>2. CASE to \in InitPCs
    BY <1>1, <1>2, <2>0, <2>2 DEF Stands, IpInv, InitPCs, WritePCs
  <2>3. CASE from \in WritePCs /\ to \in WritePCs
    BY <1>1, <1>2, <2>0, <2>3 DEF Stands, InitPCs, WritePCs
  <2>. QED
    BY <2>1, <2>2, <2>3
<1>. QED
  BY <1>1, <1>3, <1>4, <1>5, OthersIdle, OwnStep

\* A write to one of the two files: the name becomes that of the image, or none,
\* while a manager that is operating still says so.
LEMMA BeginKeeps ==
    ASSUME TypeOK, MgrInv, Serial', NEW w \in Writers, NEW m \in Images,
           WriteFirmwareName(w, m) \/ WriteImage(w, m)
    PROVE  MgrInv'
<1>1. PICK first \in {"named", "unnamed"} : Begin(w, m, first) /\ (first = "named" \/ firmware_name' = "NULL")
  BY DEF WriteFirmwareName, WriteImage
<1>2. /\ pc' = [pc EXCEPT ![w] = first] /\ pc'[w] = first
      /\ UNCHANGED <<status, state, registered>> /\ registered'
  BY <1>1 DEF Begin, Pr!Goto, TypeOK
<1>3. loc'[w].img = m
  BY <1>1 DEF Begin, TypeOK
<1>4. firmware_name' \in {"NULL", m}
  BY DEF WriteFirmwareName, WriteImage
<1>5. \A d \in Writers \ {w} : pc[d] = "idle"
  BY <1>2 DEF Serial, TypeOK
<1>6. IpInv'
  BY <1>1 DEF Begin, MgrInv, IpInv
<1>7. Stands(w)'
  BY <1>2, <1>3, <1>4 DEF Stands, InitPCs, WritePCs
<1>8. state' = "OPERATING" => status' = "PR_SUCCESS"
  BY <1>2 DEF MgrInv, Shown
<1>. QED
  BY <1>1, <1>2, <1>5, <1>6, <1>7, <1>8, OwnStep DEF QuietPCs

\* The steps up to the request: no request reaches an IP that is configuring.
LEMMA InitStepKeeps ==
    ASSUME TypeOK, MgrInv, NEW w \in Writers, UNCHANGED mgrVars,
           \/ FirmwareLoad(w) \/ BufLoad(w)
           \/ RequestFirmware(w) \/ CheckFlags(w) \/ CheckPofId(w)
           \/ Pr!ReadCsr(w) \/ Pr!WaitInitial(w) \/ Pr!PollInitial(w)
    PROVE  MgrInv'
<1>1. UNCHANGED <<status, start, stream, loaded>>
  BY DEF FirmwareLoad, BufLoad, Enter, RequestFirmware, CheckFlags, CheckPofId, Pr!ReadCsr, Pr!WaitInitial, Pr!PollInitial,
         Pr!ipVars
<1>2. CASE \E from \in {"firmware", "init_flags", "init_csr", "init_id", "init_poll"}, v \in Results,
              st \in {"FIRMWARE_REQ_ERR", "WRITE_INIT_ERR"} : Pr!Return(w, from, v, st)
  BY <1>1, <1>2, FailKeeps
<1>3. CASE /\ \E from, to \in InitPCs \cup {"init_csr"} :
                 /\ Pr!Goto(w, from, to)
                 /\ to \in InitPCs
                 /\ from = "init_csr" => ~start
           /\ UNCHANGED state
           /\ loc'[w].img = loc[w].img
  <2>1. state' # "OPERATING"
    BY <1>3, OthersIdle DEF Pr!Goto, InitPCs, QuietPCs
  <2>. QED
    BY <1>1, <1>3, <2>1, GoOnKeeps
<1>4. CASE RequestFirmware(w)
  <2>1. CASE Pr!Goto(w, "firmware", "init_flags") /\ state' = "WRITE_INIT" /\ UNCHANGED loc
    BY <1>1, <2>1, GoOnKeeps
  <2>. QED
    BY <1>2, <1>4, <2>1 DEF RequestFirmware, Results
<1>5. CASE CheckFlags(w)
  <2>1. CASE Pr!Continue(w, "init_flags", "init_csr") /\ UNCHANGED loc
    <3>1. state' # "OPERATING"
      BY <2>1, OthersIdle DEF Pr!Continue, Pr!Goto, QuietPCs
    <3>. QED
      BY <1>1, <2>1, <3>1, GoOnKeeps DEF Pr!Continue
  <2>. QED
    BY <1>2, <1>5, <2>1 DEF CheckFlags, Results
<1>6. CASE CheckPofId(w)
  <2>1. \/ Pr!Return(w, "init_id", "EINVAL", "WRITE_INIT_ERR")
        \/ /\ Pr!Continue(w, "init_id", IF Family = "s10" THEN "init_wait" ELSE "init_start")
           /\ UNCHANGED loc
    BY <1>6 DEF CheckPofId
  <2>. QED
    BY <1>2, <1>3, <2>1 DEF Pr!Continue, InitPCs, Results
<1>7. CASE Pr!ReadCsr(w)
  BY <1>2, <1>3, <1>7 DEF Pr!ReadCsr, Pr!Continue, InitPCs, Results
<1>8. CASE Pr!WaitInitial(w)
  <2>1. loc'[w].img = loc[w].img
    BY <1>8 DEF Pr!WaitInitial, TypeOK
  <2>. QED
    BY <1>3, <1>8, <2>1 DEF Pr!WaitInitial, Pr!Continue, InitPCs
<1>9. CASE Pr!PollInitial(w)
  <2>1. CASE Pr!Return(w, "init_poll", "ETIMEDOUT", "WRITE_INIT_ERR")
    BY <1>2, <2>1 DEF Results
  <2>2. CASE /\ Pr!Continue(w, "init_poll",
                            IF Pr!NotInitial(loc[w].val) THEN "init_poll" ELSE "init_start")
             /\ loc' = [loc EXCEPT ![w].polls = @ + 1,
                                   ![w].val = IF Pr!NotInitial(@) THEN status ELSE @]
    <3>1. loc'[w].img = loc[w].img
      BY <2>2 DEF TypeOK
    <3>. QED
      BY <1>3, <2>2, <3>1 DEF Pr!Continue, InitPCs
  <2>. QED
    BY <1>9, <2>1, <2>2 DEF Pr!PollInitial
<1>10. CASE FirmwareLoad(w) \/ BufLoad(w)
  BY <1>1, <1>10, GoOnKeeps DEF FirmwareLoad, BufLoad, Enter
<1>. QED
  BY <1>4, <1>5, <1>6, <1>7, <1>8, <1>9, <1>10

\* The request: it begins a configuration, and its stream is empty.
LEMMA StartKeeps ==
    ASSUME TypeOK, MgrInv, NEW w \in Writers, UNCHANGED mgrVars, Pr!WriteStart(w)
    PROVE  MgrInv'
<1>1. status # "PR_IN_PROG" /\ pc[w] = "init_start" /\ Stands(w)
  BY DEF Pr!WriteStart, Pr!Goto, MgrInv, Stands, InitPCs
<1>2. stream' = << >>
  BY <1>1, StartStream DEF Pr!WriteStart
<1>3. pc' = [pc EXCEPT ![w] = "write"] /\ pc'[w] = "write" /\ state' = "WRITE" /\ UNCHANGED loc
  BY DEF Pr!WriteStart, Pr!Goto, TypeOK
<1>4. status' = "PR_IN_PROG"
  BY DEF Pr!WriteStart, Pr!IpStart
<1>5. start'
  BY Zenon DEF Pr!WriteStart, Pr!IpStart
<1>6. IpInv'
  BY <1>4, <1>5 DEF IpInv
<1>7. firmware_name' \in {"NULL", loc'[w].img} /\ registered'
  BY <1>1, <1>3, OthersIdle DEF Stands, mgrVars
<1>8. Stands(w)'
  BY <1>2, <1>3, <1>4, <1>7 DEF Stands, InitPCs
<1>. QED
  BY <1>1, <1>3, <1>6, <1>7, <1>8, OthersIdle, OwnStep

\* One word: it is a word of the load's own image.
LEMMA WordKeeps ==
    ASSUME TypeOK, MgrInv, NEW w \in Writers, UNCHANGED mgrVars, WriteWord(w)
    PROVE  MgrInv'
<1>1. pc[w] = "write" /\ Stands(w) /\ IpInv
  BY DEF WriteWord, MgrInv
<1>2. loc[w].img \in Images /\ loc[w].offset \in Nat /\ loc[w].offset <= Size[loc[w].img]
  BY <1>1 DEF TypeOK
<1>3. Pr!Word(loc[w].img, loc[w].offset) \in Pr!WordsOf(loc[w].img)
  BY <1>2, WordType
<1>4. PICK to \in {"chunk", "write_end", "write"} : Pr!Continue(w, "write", to)
  BY DEF WriteWord, Pr!WriteWord, Pr!AfterBytes
<1>5. pc' = [pc EXCEPT ![w] = to] /\ pc'[w] = to /\ UNCHANGED state
  BY <1>4 DEF Pr!Continue, Pr!Goto, TypeOK
<1>6. loc'[w].img = loc[w].img
  BY DEF WriteWord, Pr!WriteWord, TypeOK
<1>7. Pr!IpTake(Pr!Word(loc[w].img, loc[w].offset))
  BY DEF WriteWord, Pr!WriteWord
<1>8. IpInv'
  BY <1>1, <1>7 DEF Pr!IpTake, IpInv
<1>9. firmware_name' \in {"NULL", loc'[w].img} /\ registered'
  BY <1>1, <1>6, OthersIdle DEF Stands, mgrVars
<1>10. Stands(w)'
  <2>1. CASE status = "PR_IN_PROG"
    <3>1. stream \in Seq(Pr!WordsOf(loc[w].img))
      BY <1>1, <2>1 DEF Stands, WritePCs
    <3>2. stream' \in Seq(Pr!WordsOf(loc[w].img)) /\ status' = "PR_IN_PROG"
      BY <1>3, <1>7, <2>1, <3>1 DEF Pr!IpTake
    <3>. QED
      BY <1>5, <1>6, <1>9, <3>2 DEF Stands, InitPCs
  <2>2. CASE status # "PR_IN_PROG"
    BY <1>1, <1>5, <1>6, <1>7, <1>9, <2>2 DEF Stands, InitPCs, WritePCs, Pr!IpTake
  <2>. QED
    BY <2>1, <2>2
<1>. QED
  BY <1>1, <1>5, <1>8, <1>9, <1>10, OthersIdle, OwnStep DEF QuietPCs

\* The end of a load: it claims success only of its own image.
LEMMA EndKeeps ==
    ASSUME TypeOK, MgrInv, NEW w \in Writers, UNCHANGED mgrVars,
           WriteNothing(w) \/ CheckWrite(w) \/ PollComplete(w)
    PROVE  MgrInv'
<1>1. UNCHANGED <<status, start, stream, loaded>>
  BY DEF WriteNothing, CheckWrite, Pr!CheckChunk, Pr!FinishWrite, PollComplete, Pr!ipVars
<1>2. CASE \E from \in WritePCs, v \in Results, st \in {"WRITE_ERR", "WRITE_COMPLETE_ERR"} :
              Pr!Return(w, from, v, st)
  BY <1>1, <1>2, FailKeeps DEF WritePCs
<1>3. CASE /\ \E from, to \in WritePCs : Pr!Goto(w, from, to)
           /\ state' \in {state, "WRITE_COMPLETE"}
           /\ loc'[w].img = loc[w].img
  <2>1. state' # "OPERATING"
    BY <1>3, OthersIdle DEF Pr!Goto, WritePCs, QuietPCs
  <2>. QED
    BY <1>1, <1>3, <2>1, GoOnKeeps
<1>4. CASE WriteNothing(w)
  BY <1>2, <1>4 DEF WriteNothing, WritePCs, Results
<1>5. CASE Pr!CheckChunk(w)
  BY <1>2, <1>3, <1>5 DEF Pr!CheckChunk, Pr!Continue, Pr!AfterBytes, WritePCs, Results
<1>6. CASE Pr!FinishWrite(w)
  <2>1. CASE Pr!Return(w, "write_end", "EIO", "WRITE_ERR")
    BY <1>2, <2>1 DEF WritePCs, Results
  <2>2. CASE /\ Pr!Goto(w, "write_end", "complete")
             /\ state' = "WRITE_COMPLETE"
             /\ loc' = [loc EXCEPT ![w].polls = 0]
    <3>1. loc'[w].img = loc[w].img
      BY <2>2 DEF TypeOK
    <3>. QED
      BY <1>3, <2>2, <3>1 DEF WritePCs
  <2>. QED
    BY <1>6, <2>1, <2>2 DEF Pr!FinishWrite
<1>7. CASE PollComplete(w)
  <2>1. CASE \/ Pr!Return(w, "complete", "EIO", "WRITE_COMPLETE_ERR")
             \/ Pr!Return(w, "complete", "ETIMEDOUT", "WRITE_COMPLETE_ERR")
    BY <1>2, <2>1 DEF WritePCs, Results
  <2>2. CASE FpgaState = "OPERATING" /\ Pr!Return(w, "complete", "ok", "OPERATING")
    <3>1. pc[w] = "complete" /\ pc' = [pc EXCEPT ![w] = "idle"] /\ pc'[w] = "idle"
      BY <2>2 DEF Pr!Return, Pr!Goto, TypeOK
    <3>2. status = "PR_SUCCESS" /\ loaded = loc[w].img /\ firmware_name \in {"NULL", loc[w].img}
      BY <2>2, <3>1, StateOfStatus DEF MgrInv, Stands, WritePCs
    <3>3. IpInv' /\ Stands(w)'
      BY <1>1, <3>1 DEF MgrInv, IpInv, Stands, InitPCs, WritePCs
    <3>4. registered' /\ UNCHANGED firmware_name
      BY <3>1, OthersIdle DEF mgrVars
    <3>5. firmware_name' # "NULL" => loaded' = firmware_name'
      BY <1>1, <3>2, <3>4
    <3>. QED
      BY <1>1, <3>1, <3>2, <3>3, <3>4, <3>5, OthersIdle, OwnStep DEF QuietPCs
  <2>3. CASE /\ Pr!Continue(w, "complete", "complete")
             /\ loc' = [loc EXCEPT ![w].polls = @ + 1]
    <3>1. loc'[w].img = loc[w].img
      BY <2>3 DEF TypeOK
    <3>. QED
      BY <1>3, <2>3, <3>1 DEF Pr!Continue, WritePCs
  <2>. QED
    BY <1>7, <2>1, <2>2, <2>3 DEF PollComplete
<1>. QED
  BY <1>4, <1>5, <1>6, <1>7 DEF CheckWrite

\* Every step of the serialised manager preserves the invariant.
LEMMA MgrStep ==
    ASSUME TypeOK, MgrInv, [Next /\ Serial']_vars
    PROVE  MgrInv'
<1>1. CASE UNCHANGED vars
  BY <1>1 DEF vars, loadVars, mgrVars, MgrInv, Serial, IpInv, Stands, Shown, AllIdle
<1>2. ASSUME NEW w \in Writers, Step(w)
      PROVE  MgrInv'
  BY <1>2, InitStepKeeps, StartKeeps, WordKeeps, EndKeeps DEF Step, InitStep
<1>3. ASSUME NEW f \in BOOLEAN, NEW t \in 0 .. MaxTimeout, SetInfo(f, t)
      PROVE  MgrInv'
  BY <1>3 DEF SetInfo, loadVars, MgrInv, Serial, IpInv, Stands, Shown, AllIdle
<1>4. CASE Register
  <2>1. AllIdle /\ UNCHANGED <<status, start, stream, loaded, pc, loc>>
    BY <1>4 DEF Register, MgrInv, Shown
  <2>2. Serial' /\ IpInv' /\ AllIdle' /\ \A w \in Writers : Stands(w)'
    BY <2>1 DEF MgrInv, Serial, IpInv, AllIdle, Stands, InitPCs, WritePCs
  <2>3. registered' /\ state' = FpgaState /\ firmware_name' = "NULL"
    BY <1>4 DEF Register
  <2>4. state' = "OPERATING" => status' = "PR_SUCCESS"
    BY <2>1, <2>3, StateOfStatus
  <2>. QED
    BY <2>2, <2>3, <2>4 DEF MgrInv, Shown, AllIdle, QuietPCs
<1>5. CASE Unregister
  <2>1. AllIdle /\ UNCHANGED <<status, start, stream, loaded, pc, loc, firmware_name>> /\ ~registered'
    BY <1>5 DEF Unregister, loadVars, AllIdle
  <2>. QED
    BY <2>1 DEF MgrInv, Serial, IpInv, Stands, Shown, AllIdle
<1>. QED
  BY <1>1, <1>2, <1>3, <1>4, <1>5, IpKeeps, BeginKeeps DEF Next

\* A serialised manager is a manager.
LEMMA SerialIsSpec == SerialSpec => Spec
  BY PTL DEF SerialSpec, Spec

\* The initial state: there is no manager.
LEMMA InitMgrInv == Init => MgrInv
  BY DEF Init, MgrInv, Serial, IpInv, Stands, InitPCs, WritePCs, Shown, AllIdle

\* One write at a time keeps the invariant, with the settings written at any time
\* and the manager removed and registered again between loads.
THEOREM MgrInvariant == SerialSpec => [](TypeOK /\ MgrInv)
<1>1. SerialSpec => []TypeOK
  BY SerialIsSpec, TypeCorrect, PTL
<1>2. SerialSpec => []MgrInv
  BY <1>1, InitMgrInv, MgrStep, PTL DEF SerialSpec
<1>. QED
  BY <1>1, <1>2, PTL

\* A manager that says operating, after a load or because a new one read it from
\* the IP, has a whole image in the region (fpga_mgr_register()).
THEOREM OperatingHoldsAnImage == SerialSpec => []OperatingIsWhole
<1>1. MgrInv => OperatingIsWhole
  BY DEF MgrInv, Shown, IpInv, OperatingIsWhole
<1>. QED
  BY <1>1, MgrInvariant, PTL

\* A name that an operating manager shows is that of the image in the region, or
\* the one a write has just set before its load leaves OPERATING
\* (fpga_mgr_firmware_write_file(), fpga_mgr_image_write_file()).
THEOREM NameShownIsLoaded == SerialSpec => []NameIsTheImage
<1>1. MgrInv => NameIsTheImage
  BY DEF MgrInv, Shown, Stands, NameIsTheImage
<1>. QED
  BY <1>1, MgrInvariant, PTL
=============================================================================
