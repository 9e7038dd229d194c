-------------------------- MODULE ConfigLoad_proofs --------------------------
(***************************************************************************)
(* Proofs about ConfigLoad, for any set of callers and images of any size, *)
(* either core and any bounds of its loops.                                *)
(*                                                                         *)
(* Without serialisation (Spec): type correctness.  With one load at a     *)
(* time (SerialSpec): OperatingIsWhole, SuccessIsTheImage and NoRestart.   *)
(***************************************************************************)
EXTENDS ConfigLoad, TLAPS

(* The parts of the type invariant.                                        *)

AllWords == {Garbage} \cup UNION {WordsOf(m) : m \in Images}

Locals == [img : Images \cup {"none"}, offset : Nat, polls : Nat, val : Statuses]

Results == {"none", "ok", "EINVAL", "EFAULT", "EIO", "ETIMEDOUT"}

IpTypeOK ==
    /\ status \in Statuses
    /\ start \in BOOLEAN
    /\ stream \in Seq(AllWords)
    /\ loaded \in Images \cup {"none", "partial"}

\* The locals l of a load whose next access is p.
LocalsFit(p, l) ==
    IF p = "idle" THEN l = NoLocals
    ELSE /\ l.img \in Images
         /\ l.offset <= Size[l.img]
         /\ l.polls <= IF p = "complete" THEN ConfigTimeout ELSE InitPolls

LoadTypeOK ==
    /\ config_state \in ConfigStates
    /\ pc \in [Callers -> PCs]
    /\ loc \in [Callers -> Locals]
    /\ \A c \in Callers : LocalsFit(pc[c], loc[c])
    /\ ret \in [Callers -> Results]

\* The two parts are the type invariant.
LEMMA TypeParts == TypeOK <=> IpTypeOK /\ LoadTypeOK
  BY DEF TypeOK, IpTypeOK, LoadTypeOK, LocalsFit, AllWords, Locals, Results

\* A word the loop of alt_pr_ip_fpga_write() takes from a file is one of the
\* image's, and no image has more than four bytes of it left.
LEMMA WordType ==
    ASSUME NEW m \in Images, NEW o \in Nat, o <= Size[m]
    PROVE  /\ Word(m, o) \in WordsOf(m)
           /\ Word(m, o) \in AllWords
           /\ Smaller(4, Size[m] - o) \in Nat
           /\ o + Smaller(4, Size[m] - o) <= Size[m]
<1>1. Size[m] \in Nat
  BY LoadAssumption
<1>2. Word(m, o) \in WordsOf(m)
  BY <1>1 DEF WordsOf
<1>3. Word(m, o) \in AllWords
  BY <1>2 DEF AllWords
<1>4. Smaller(4, Size[m] - o) \in Nat /\ o + Smaller(4, Size[m] - o) <= Size[m]
  BY <1>1 DEF Smaller
<1>. QED
  BY <1>2, <1>3, <1>4

\* What the IP may report includes the states it is put in.
LEMMA StatusType ==
    /\ {"NRESET", "PR_IN_PROG", "PR_SUCCESS"} \subseteq Statuses
    /\ ErrStatus \subseteq Statuses
    /\ ErrStatus \cap {"NRESET", "PR_IN_PROG", "PR_SUCCESS", "BUSY"} = {}
  BY DEF Statuses, ErrStatus

\* Locals of a load that has not begun.
LEMMA NoLocalsType == NoLocals \in Locals /\ LocalsFit("idle", NoLocals)
  BY StatusType DEF NoLocals, Locals, LocalsFit

\* A step of c that goes to label p with locals l and leaves the others alone.
Moves(c, p, l) ==
    /\ pc' = [pc EXCEPT ![c] = p]
    /\ loc' = [loc EXCEPT ![c] = l]

\* Such a step keeps the types of the loads.
LEMMA MovesType ==
    ASSUME LoadTypeOK, NEW c \in Callers, NEW p \in PCs, NEW l \in Locals,
           LocalsFit(p, l), Moves(c, p, l),
           config_state' \in ConfigStates, ret' \in [Callers -> Results]
    PROVE  LoadTypeOK'
<1>1. pc' \in [Callers -> PCs] /\ loc' \in [Callers -> Locals]
  BY DEF LoadTypeOK, Moves
<1>2. \A d \in Callers : LocalsFit(pc'[d], loc'[d])
  BY DEF LoadTypeOK, Moves
<1>. QED
  BY <1>1, <1>2 DEF LoadTypeOK, LocalsFit

\* A load that returns keeps the types.
LEMMA ReturnType ==
    ASSUME LoadTypeOK, NEW c \in Callers, NEW from, NEW v \in Results, NEW st \in ConfigStates,
           Return(c, from, v, st)
    PROVE  LoadTypeOK'
<1>1. Moves(c, "idle", NoLocals)
  BY DEF Return, Goto, Moves
<1>2. ret' \in [Callers -> Results] /\ config_state' \in ConfigStates
  BY DEF Return, LoadTypeOK
<1>. QED
  BY <1>1, <1>2, NoLocalsType, MovesType DEF PCs

\* So does one that goes on with the same locals.
LEMMA ContinueType ==
    ASSUME LoadTypeOK, NEW c \in Callers, NEW from \in PCs \ {"idle", "complete"},
           NEW to \in PCs \ {"idle", "complete"}, Goto(c, from, to), UNCHANGED <<loc, ret>>,
           config_state' \in ConfigStates
    PROVE  LoadTypeOK'
<1>1. Moves(c, to, loc[c])
  BY DEF Goto, Moves, LoadTypeOK
<1>2. loc[c] \in Locals /\ LocalsFit(to, loc[c])
  BY DEF Goto, LoadTypeOK, LocalsFit
<1>3. ret' \in [Callers -> Results]
  BY DEF LoadTypeOK
<1>. QED
  BY <1>1, <1>2, <1>3, MovesType

-----------------------------------------------------------------------------
(* Type correctness, without serialisation.                                *)

\* Taking a word keeps the types of the IP.
LEMMA TakeType ==
    ASSUME IpTypeOK, NEW w \in AllWords, IpTake(w)
    PROVE  IpTypeOK'
  BY DEF IpTypeOK, IpTake

\* A request empties the stream, unless it comes in the middle of one.
LEMMA StartStream ==
    ASSUME IpStart
    PROVE  stream' = << >> \/ (stream' = stream /\ status = "PR_IN_PROG")
  BY Zenon DEF IpStart

\* The IP's own steps, and a request to it, keep its types.
LEMMA IpType ==
    ASSUME IpTypeOK, Ip \/ IpStart
    PROVE  IpTypeOK'
<1>1. CASE IpSucceed
  BY <1>1, StatusType DEF IpTypeOK, IpSucceed
<1>2. CASE IpFail
  BY <1>2, StatusType DEF IpTypeOK, IpFail
<1>3. CASE IpReady
  BY <1>3, StatusType DEF IpTypeOK, IpReady
<1>4. CASE IpStart
  <2>1. stream' \in Seq(AllWords)
    <3>1. << >> \in Seq(AllWords) /\ stream \in Seq(AllWords)
      BY DEF IpTypeOK
    <3>2. stream' = << >> \/ stream' = stream
      BY <1>4, StartStream
    <3>. QED
      BY <3>1, <3>2, Zenon
  <2>2. start' \in BOOLEAN
    BY <1>4 DEF IpStart
  <2>. QED
    BY <1>4, <2>1, <2>2, StatusType DEF IpTypeOK, IpStart
<1>. QED
  BY <1>1, <1>2, <1>3, <1>4 DEF Ip

\* A load that begins keeps the types.
LEMMA CallType ==
    ASSUME LoadTypeOK, NEW c \in Callers, NEW m \in Images, BufLoad(c, m)
    PROVE  LoadTypeOK'
<1>1. CASE Return(c, "idle", "ok", config_state)
  BY <1>1, ReturnType DEF LoadTypeOK, Results
<1>2. CASE /\ Goto(c, "idle", "init_csr")
           /\ config_state' = "WRITE_INIT"
           /\ loc' = [loc EXCEPT ![c].img = m]
           /\ ret' = [ret EXCEPT ![c] = "none"]
  <2>1. loc[c] = NoLocals
    BY <1>2 DEF Goto, LoadTypeOK, LocalsFit
  <2>2. Moves(c, "init_csr", [NoLocals EXCEPT !.img = m])
    BY <1>2, <2>1 DEF Goto, Moves, LoadTypeOK
  <2>3. [NoLocals EXCEPT !.img = m] \in Locals
    BY StatusType DEF NoLocals, Locals
  <2>4. LocalsFit("init_csr", [NoLocals EXCEPT !.img = m])
    BY LoadAssumption DEF NoLocals, LocalsFit
  <2>5. ret' \in [Callers -> Results] /\ config_state' \in ConfigStates
    BY <1>2 DEF LoadTypeOK, Results, ConfigStates
  <2>. QED
    BY <2>2, <2>3, <2>4, <2>5, MovesType DEF PCs
<1>. QED
  BY <1>1, <1>2 DEF BufLoad

\* A step of alt_pr_ip_write_init() keeps the types of the loads.
LEMMA InitStepType ==
    ASSUME IpTypeOK, LoadTypeOK, NEW c \in Callers,
           \/ ReadCsr(c) \/ CheckPofId(c) \/ WaitInitial(c) \/ PollInitial(c) \/ WriteStart(c)
    PROVE  LoadTypeOK'
<1>1. CASE ReadCsr(c)
  <2>1. CASE Return(c, "init_csr", "EINVAL", "WRITE_INIT_ERR")
    BY <2>1, ReturnType DEF Results, ConfigStates
  <2>2. CASE Continue(c, "init_csr", "init_id") /\ UNCHANGED loc
    BY <2>2, ContinueType DEF Continue, PCs, LoadTypeOK
  <2>. QED
    BY <1>1, <2>1, <2>2 DEF ReadCsr
<1>2. CASE CheckPofId(c)
  <2>1. CASE Return(c, "init_id", "EINVAL", "WRITE_INIT_ERR")
    BY <2>1, ReturnType DEF Results, ConfigStates
  <2>2. CASE /\ Continue(c, "init_id", IF Family = "s10" THEN "init_wait" ELSE "init_start")
             /\ UNCHANGED loc
    BY <2>2, ContinueType DEF Continue, PCs, LoadTypeOK
  <2>. QED
    BY <1>2, <2>1, <2>2 DEF CheckPofId
<1>3. CASE WaitInitial(c)
  <2> DEFINE to == IF status = "BUSY" THEN "init_poll" ELSE "init_start"
             l == [loc[c] EXCEPT !.val = status]
  <2>1. to \in PCs /\ to \notin {"idle", "complete"}
    BY DEF PCs
  <2>2. Moves(c, to, l)
    BY <1>3 DEF WaitInitial, Continue, Goto, Moves, LoadTypeOK
  <2>3. loc[c] \in Locals /\ LocalsFit("init_wait", loc[c])
    BY <1>3 DEF WaitInitial, Continue, Goto, LoadTypeOK
  <2>4. l \in Locals /\ LocalsFit(to, l)
    BY <2>1, <2>3 DEF Locals, LocalsFit, IpTypeOK
  <2>5. ret' \in [Callers -> Results] /\ config_state' \in ConfigStates
    BY <1>3 DEF WaitInitial, Continue, LoadTypeOK
  <2>. HIDE DEF to, l
  <2>. QED
    BY <2>1, <2>2, <2>4, <2>5, MovesType
<1>4. CASE PollInitial(c)
  <2>1. CASE Return(c, "init_poll", "ETIMEDOUT", "WRITE_INIT_ERR")
    BY <2>1, ReturnType DEF Results, ConfigStates
  <2>2. CASE /\ loc[c].polls < InitPolls
             /\ Continue(c, "init_poll", IF NotInitial(loc[c].val) THEN "init_poll" ELSE "init_start")
             /\ loc' = [loc EXCEPT ![c].polls = @ + 1,
                                   ![c].val = IF NotInitial(@) THEN status ELSE @]
    <3> DEFINE to == IF NotInitial(loc[c].val) THEN "init_poll" ELSE "init_start"
               v == IF NotInitial(loc[c].val) THEN status ELSE loc[c].val
               k == [loc[c] EXCEPT !.polls = @ + 1]
               l == [k EXCEPT !.val = v]
    <3>1. to \in PCs /\ to \notin {"idle", "complete"}
      BY DEF PCs
    <3>2. Moves(c, to, l)
      <4>1. loc' = [loc EXCEPT ![c] = l]
        BY <2>2, Zenon
      <4>. QED
        BY <2>2, <4>1 DEF Continue, Goto, Moves
    <3>3. loc[c] \in Locals /\ LocalsFit("init_poll", loc[c])
      BY <2>2 DEF Continue, Goto, LoadTypeOK
    <3>4. v \in Statuses
      BY <3>3 DEF Locals, IpTypeOK
    <3>5. k \in Locals /\ LocalsFit("init_poll", k)
      BY <2>2, <3>3, LoadAssumption DEF Locals, LocalsFit
    <3>. HIDE DEF k, v
    <3>6. l \in Locals /\ LocalsFit(to, l)
      BY <3>1, <3>4, <3>5 DEF Locals, LocalsFit
    <3>7. ret' \in [Callers -> Results] /\ config_state' \in ConfigStates
      BY <2>2 DEF Continue, LoadTypeOK
    <3>. HIDE DEF to, l
    <3>. QED
      BY <3>1, <3>2, <3>6, <3>7, MovesType
  <2>. QED
    BY <1>4, <2>1, <2>2 DEF PollInitial
<1>5. CASE WriteStart(c)
  BY <1>5, ContinueType DEF WriteStart, PCs, ConfigStates
<1>. QED
  BY <1>1, <1>2, <1>3, <1>4, <1>5

\* One word of alt_pr_ip_fpga_write(): the offset stays within the file.
LEMMA WriteWordType ==
    ASSUME IpTypeOK, LoadTypeOK, NEW c \in Callers, WriteWord(c)
    PROVE  IpTypeOK' /\ LoadTypeOK'
<1> DEFINE m == loc[c].img
           next == loc[c].offset + Smaller(4, Size[m] - loc[c].offset)
           l == [loc[c] EXCEPT !.offset = next]
<1>1. loc[c] \in Locals /\ LocalsFit("write", loc[c])
  BY DEF WriteWord, LoadTypeOK
<1>2. m \in Images /\ loc[c].offset \in Nat /\ loc[c].offset <= Size[m]
  BY <1>1 DEF LocalsFit, Locals
<1>3. Word(m, loc[c].offset) \in AllWords /\ next \in Nat /\ next <= Size[m]
  BY <1>2, WordType
<1>4. IpTypeOK'
  BY <1>3, TakeType DEF WriteWord
<1>5. PICK to \in {"chunk", "write_end", "write"} : Continue(c, "write", to)
  BY DEF WriteWord, AfterBytes
<1>6. Moves(c, to, l)
  BY <1>5 DEF WriteWord, Continue, Goto, Moves, LoadTypeOK
<1>7. l \in Locals /\ LocalsFit(to, l)
  BY <1>1, <1>3 DEF Locals, LocalsFit
<1>8. ret' \in [Callers -> Results] /\ config_state' \in ConfigStates
  BY <1>5 DEF Continue, LoadTypeOK
<1>. HIDE DEF l
<1>9. LoadTypeOK'
  BY <1>6, <1>7, <1>8, MovesType DEF PCs
<1>. QED
  BY <1>4, <1>9

\* The looks at the state, and the read that fails.
LEMMA CheckType ==
    ASSUME LoadTypeOK, NEW c \in Callers, CheckChunk(c) \/ ReadFails(c) \/ FinishWrite(c)
    PROVE  LoadTypeOK'
<1>1. CASE CheckChunk(c)
  <2>1. CASE Return(c, "chunk", "EIO", "WRITE_ERR")
    BY <2>1, ReturnType DEF Results, ConfigStates
  <2>2. CASE Continue(c, "chunk", AfterBytes(loc[c].img, loc[c].offset)) /\ UNCHANGED loc
    BY <2>2, ContinueType DEF Continue, AfterBytes, PCs, LoadTypeOK
  <2>. QED
    BY <1>1, <2>1, <2>2 DEF CheckChunk
<1>2. CASE ReadFails(c)
  BY <1>2, ReturnType DEF ReadFails, Results, ConfigStates
<1>3. CASE FinishWrite(c)
  <2>1. CASE Return(c, "write_end", "EIO", "WRITE_ERR")
    BY <2>1, ReturnType DEF Results, ConfigStates
  <2>2. CASE /\ Goto(c, "write_end", "complete")
             /\ config_state' = "WRITE_COMPLETE"
             /\ loc' = [loc EXCEPT ![c].polls = 0]
             /\ UNCHANGED ret
    <3> DEFINE l == [loc[c] EXCEPT !.polls = 0]
    <3>1. Moves(c, "complete", l)
      BY <2>2 DEF Goto, Moves, LoadTypeOK
    <3>2. loc[c] \in Locals /\ LocalsFit("write_end", loc[c])
      BY <2>2 DEF Goto, LoadTypeOK
    <3>3. l \in Locals /\ LocalsFit("complete", l)
      BY <3>2, LoadAssumption DEF Locals, LocalsFit
    <3>4. ret' \in [Callers -> Results] /\ config_state' \in ConfigStates
      BY <2>2 DEF LoadTypeOK, ConfigStates
    <3>. HIDE DEF l
    <3>. QED
      BY <3>1, <3>3, <3>4, MovesType DEF PCs
  <2>. QED
    BY <1>3, <2>1, <2>2 DEF FinishWrite
<1>. QED
  BY <1>1, <1>2, <1>3

\* A turn of alt_pr_ip_fpga_write_complete(): the counter keeps its bound.
LEMMA PollCompleteType ==
    ASSUME LoadTypeOK, NEW c \in Callers, PollComplete(c)
    PROVE  LoadTypeOK'
<1>1. CASE \/ Return(c, "complete", "EIO", "WRITE_COMPLETE_ERR")
           \/ Return(c, "complete", "ok", "OPERATING")
           \/ Return(c, "complete", "ETIMEDOUT", "WRITE_COMPLETE_ERR")
  BY <1>1, ReturnType DEF Results, ConfigStates
<1>2. CASE /\ loc[c].polls < ConfigTimeout
           /\ Continue(c, "complete", "complete")
           /\ loc' = [loc EXCEPT ![c].polls = @ + 1]
  <2> DEFINE l == [loc[c] EXCEPT !.polls = @ + 1]
  <2>1. Moves(c, "complete", l)
    BY <1>2 DEF Continue, Goto, Moves, LoadTypeOK
  <2>2. loc[c] \in Locals /\ LocalsFit("complete", loc[c])
    BY <1>2 DEF Continue, Goto, LoadTypeOK
  <2>3. l \in Locals /\ LocalsFit("complete", l)
    BY <1>2, <2>2, LoadAssumption DEF Locals, LocalsFit
  <2>4. ret' \in [Callers -> Results] /\ config_state' \in ConfigStates
    BY <1>2 DEF Continue, LoadTypeOK
  <2>. HIDE DEF l
  <2>. QED
    BY <2>1, <2>3, <2>4, MovesType DEF PCs
<1>. QED
  BY <1>1, <1>2 DEF PollComplete

\* Every step of the unserialised system preserves the types.
LEMMA TypeStep ==
    ASSUME TypeOK, [Next]_vars
    PROVE  TypeOK'
<1>0. IpTypeOK /\ LoadTypeOK
  BY TypeParts
<1>. SUFFICES IpTypeOK' /\ LoadTypeOK'
  BY TypeParts, PTL
<1>1. CASE Ip
  <2>1. UNCHANGED <<config_state, pc, loc, ret>>
    BY <1>1 DEF Ip, IpSucceed, IpFail, IpReady
  <2>. QED
    BY <1>0, <1>1, <2>1, IpType DEF LoadTypeOK
<1>2. ASSUME NEW c \in Callers, Call(c)
      PROVE  IpTypeOK' /\ LoadTypeOK'
  BY <1>0, <1>2, CallType DEF Call, BufLoad, ipVars, IpTypeOK
<1>3. ASSUME NEW c \in Callers,
             \/ ReadCsr(c) \/ CheckPofId(c) \/ WaitInitial(c) \/ PollInitial(c)
      PROVE  IpTypeOK' /\ LoadTypeOK'
  <2>1. UNCHANGED ipVars
    BY <1>3 DEF ReadCsr, CheckPofId, WaitInitial, PollInitial
  <2>. QED
    BY <1>0, <1>3, <2>1, InitStepType DEF ipVars, IpTypeOK
<1>4. ASSUME NEW c \in Callers, WriteStart(c)
      PROVE  IpTypeOK' /\ LoadTypeOK'
  BY <1>0, <1>4, InitStepType, IpType DEF WriteStart
<1>5. ASSUME NEW c \in Callers, WriteWord(c)
      PROVE  IpTypeOK' /\ LoadTypeOK'
  BY <1>0, <1>5, WriteWordType
<1>6. ASSUME NEW c \in Callers, CheckChunk(c) \/ FinishWrite(c) \/ PollComplete(c)
      PROVE  IpTypeOK' /\ LoadTypeOK'
  <2>1. UNCHANGED ipVars
    BY <1>6 DEF CheckChunk, FinishWrite, PollComplete
  <2>. QED
    BY <1>0, <1>6, <2>1, CheckType, PollCompleteType DEF ipVars, IpTypeOK
<1>7. ASSUME NEW c \in Callers, ReadFails(c)
      PROVE  IpTypeOK' /\ LoadTypeOK'
  <2>1. Garbage \in AllWords
    BY DEF AllWords
  <2>2. IpTypeOK'
    BY <1>0, <1>7, <2>1, TakeType DEF ReadFails, ipVars, IpTypeOK
  <2>. QED
    BY <1>0, <1>7, <2>2, CheckType
<1>8. CASE UNCHANGED vars
  BY <1>0, <1>8 DEF vars, IpTypeOK, LoadTypeOK
<1>. QED
  BY <1>1, <1>2, <1>3, <1>4, <1>5, <1>6, <1>7, <1>8 DEF Next, Step

\* In the initial state the IP is reset or busy and nobody loads.
LEMMA InitType == Init => TypeOK
<1>1. Init => IpTypeOK
  <2>1. Init => status \in Statuses /\ stream \in Seq(AllWords) /\ loaded \in {"none"}
    BY DEF Init
  <2>2. Init => start \in BOOLEAN
    BY DEF Init
  <2>. QED
    BY <2>1, <2>2 DEF IpTypeOK
<1>2. Init => LoadTypeOK
  BY NoLocalsType DEF Init, LoadTypeOK, ConfigStates, PCs, Results
<1>. QED
  BY <1>1, <1>2, TypeParts

\* The registers of the PR IP, config_state and the locals of the loads keep
\* their types under any interleaving of any number of loads: no load reads past
\* the end of its file, and no loop counter passes its bound.
THEOREM TypeCorrect == Spec => []TypeOK
  BY InitType, TypeStep, PTL DEF Spec

-----------------------------------------------------------------------------
(* One load at a time.                                                     *)

InitPCs == {"init_id", "init_wait", "init_poll", "init_start"}

WritePCs == {"write", "chunk", "write_end", "complete"}

\* PR_START reads as set exactly while a configuration is under way, and a
\* configuration that succeeded has left a whole image.
IpInv ==
    /\ start <=> status = "PR_IN_PROG"
    /\ status = "PR_SUCCESS" => loaded \in Images

\* What a load can rely on at its next access: no configuration is under way
\* before it has requested one; from then on the IP has taken words of its image
\* only, and if it has succeeded it has done so with that image.
Stands(c) ==
    /\ pc[c] \in InitPCs => status # "PR_IN_PROG"
    /\ pc[c] \in WritePCs /\ status = "PR_IN_PROG" => stream \in Seq(WordsOf(loc[c].img))
    /\ pc[c] \in WritePCs /\ status = "PR_SUCCESS" => loaded = loc[c].img

AllIdle == \A c \in Callers : pc[c] = "idle"

ErrStates == {"WRITE_INIT_ERR", "WRITE_ERR", "WRITE_COMPLETE_ERR"}

\* What config_state says between loads.
Recorded ==
    /\ config_state = "OPERATING" => AllIdle /\ loaded \in Images
    /\ AllIdle /\ loaded = "partial" => config_state \in ErrStates

\* The inductive invariant of the serialised system.
LoadInv ==
    /\ Serial
    /\ IpInv
    /\ \A c \in Callers : Stands(c)
    /\ Recorded

\* The core reports success and error for the statuses that say so.
LEMMA StateOfStatus ==
    /\ FpgaState = "OPERATING" <=> status = "PR_SUCCESS"
    /\ FpgaState = "WRITE" <=> status = "PR_IN_PROG"
  BY LoadAssumption DEF FpgaState, StateA10, StateS10

\* The IP recognises an image by its first word: a stream of words of one image
\* is the contents of no other.
LEMMA ContentsOwner ==
    ASSUME NEW m \in Images, NEW n \in Images, stream \in Seq(WordsOf(m)),
           stream # << >>, stream = Contents(n)
    PROVE  m = n
<1>1. Len(stream) \in Nat \ {0} /\ DOMAIN stream = 1 .. Len(stream)
  OBVIOUS
<1>2. stream[1] \in WordsOf(m)
  BY <1>1
<1>3. 1 \in 1 .. (Size[n] + 3) \div 4
  <2>1. DOMAIN stream = 1 .. (Size[n] + 3) \div 4
    BY DEF Contents
  <2>2. 1 \in DOMAIN stream
    BY <1>1
  <2>. QED
    BY <2>1, <2>2, Zenon
<1>4. stream[1] = Word(n, 4 * (1 - 1))
  BY <1>3 DEF Contents
<1>5. PICK o \in 0 .. Size[m] : stream[1] = Word(m, o)
  BY <1>2 DEF WordsOf
<1>. QED
  BY <1>4, <1>5 DEF Word

\* The IP's own steps disturb nothing: it can only end a configuration, and
\* succeeds with the image of the load that feeds it.
LEMMA IpKeeps ==
    ASSUME TypeOK, LoadInv, Ip
    PROVE  LoadInv'
<1>1. UNCHANGED <<config_state, pc, loc, ret>> /\ Serial'
  BY DEF Ip, IpSucceed, IpFail, IpReady, LoadInv, Serial, Loading
<1>2. status' # "PR_IN_PROG"
  BY StatusType DEF Ip, IpSucceed, IpFail, IpReady
<1>3. ~start'
  <2>1. CASE IpSucceed \/ IpFail
    BY <2>1 DEF IpSucceed, IpFail
  <2>2. CASE IpReady
    BY <2>2 DEF IpReady, LoadInv, IpInv
  <2>. QED
    BY <2>1, <2>2 DEF Ip
<1>4. CASE IpSucceed
  <2>1. PICK m \in Images : stream = Contents(m) /\ loaded' = m
    BY <1>4 DEF IpSucceed
  <2>2. \A c \in Callers : Stands(c)'
    <3>. SUFFICES ASSUME NEW c \in Callers, pc[c] \in WritePCs
                  PROVE  loaded' = loc[c].img
      BY <1>1, <1>2 DEF Stands
    <3>1. loc[c].img \in Images
      BY DEF TypeOK, WritePCs
    <3>2. stream \in Seq(WordsOf(loc[c].img)) /\ stream # << >>
      BY <1>4 DEF IpSucceed, LoadInv, Stands
    <3>. QED
      BY <2>1, <3>1, <3>2, ContentsOwner
  <2>3. IpInv' /\ Recorded'
    BY <1>1, <1>2, <1>3, <2>1, LoadAssumption DEF IpInv, Recorded, AllIdle, LoadInv
  <2>. QED
    BY <1>1, <2>2, <2>3 DEF LoadInv
<1>5. CASE IpFail \/ IpReady
  <2>1. status' # "PR_SUCCESS" /\ UNCHANGED loaded
    BY <1>5, StatusType DEF IpFail, IpReady
  <2>. QED
    BY <1>1, <1>2, <1>3, <2>1 DEF LoadInv, IpInv, Stands, Recorded, AllIdle
<1>. QED
  BY <1>4, <1>5 DEF Ip
\* While one load is under way, the others are not in the driver.
LEMMA OthersIdle ==
    ASSUME LoadInv, NEW c \in Callers, pc[c] # "idle"
    PROVE  /\ \A d \in Callers \ {c} : pc[d] = "idle"
           /\ config_state # "OPERATING"
  BY DEF LoadInv, Serial, Loading, Recorded, AllIdle

\* What is left to show of a step of the load of c, alone in the driver.
LEMMA OwnStep ==
    ASSUME TypeOK, NEW c \in Callers, \A d \in Callers \ {c} : pc[d] = "idle",
           NEW p, pc' = [pc EXCEPT ![c] = p],
           IpInv', Stands(c)',
           config_state' = "OPERATING" => p = "idle" /\ loaded' \in Images,
           p = "idle" /\ loaded' = "partial" => config_state' \in ErrStates
    PROVE  LoadInv'
<1>1. pc'[c] = p /\ \A d \in Callers \ {c} : pc'[d] = "idle"
  BY DEF TypeOK
<1>2. Serial'
  BY <1>1 DEF Serial, Loading
<1>3. \A d \in Callers : Stands(d)'
  BY <1>1 DEF Stands, InitPCs, WritePCs
<1>4. AllIdle' <=> p = "idle"
  BY <1>1 DEF AllIdle
<1>5. Recorded'
  BY <1>4 DEF Recorded
<1>. QED
  BY <1>2, <1>3, <1>5 DEF LoadInv

\* A load that fails records it: what it leaves in the region does not matter.
LEMMA FailKeeps ==
    ASSUME TypeOK, LoadInv, NEW c \in Callers, NEW from, from # "idle",
           NEW v, NEW st \in ErrStates, Return(c, from, v, st), IpInv'
    PROVE  LoadInv'
<1>1. pc[c] # "idle" /\ pc' = [pc EXCEPT ![c] = "idle"] /\ pc'[c] = "idle" /\ config_state' = st
  BY DEF Return, Goto, TypeOK
<1>2. Stands(c)'
  BY <1>1 DEF Stands, InitPCs, WritePCs
<1>3. st # "OPERATING"
  BY DEF ErrStates
<1>. QED
  BY <1>1, <1>2, <1>3, OthersIdle, OwnStep

\* A load that goes on without touching the IP, past the look at PR_START only
\* when it is clear.
LEMMA GoOnKeeps ==
    ASSUME TypeOK, LoadInv, NEW c \in Callers, NEW from, NEW to, Goto(c, from, to),
           \/ from = "init_csr" /\ ~start /\ to \in InitPCs
           \/ from \in InitPCs /\ to \in InitPCs
           \/ from \in WritePCs /\ to \in WritePCs,
           config_state' # "OPERATING", loc'[c].img = loc[c].img, UNCHANGED ipVars
    PROVE  LoadInv'
<1>1. pc[c] = from /\ from # "idle" /\ to # "idle" /\ pc' = [pc EXCEPT ![c] = to] /\ pc'[c] = to
  BY DEF Goto, TypeOK, InitPCs, WritePCs
<1>2. IpInv /\ Stands(c)
  BY DEF LoadInv
<1>3. UNCHANGED <<status, start, stream, loaded>>
  BY DEF ipVars
<1>4. IpInv'
  BY <1>2, <1>3 DEF IpInv
<1>5. Stands(c)'
  <2>1. CASE to \in InitPCs
    BY <1>1, <1>2, <1>3, <2>1 DEF Stands, IpInv, InitPCs, WritePCs
  <2>2. CASE from \in WritePCs /\ to \in WritePCs
    BY <1>1, <1>2, <1>3, <2>2 DEF Stands, InitPCs, WritePCs
  <2>. QED
    BY <2>1, <2>2
<1>. QED
  BY <1>1, <1>4, <1>5, OthersIdle, OwnStep

\* The beginning of a load: config_state leaves OPERATING before anything else.
LEMMA CallKeeps ==
    ASSUME TypeOK, LoadInv, Serial', NEW c \in Callers, NEW m \in Images, BufLoad(c, m)
    PROVE  LoadInv'
<1>0. IpInv'
  BY DEF BufLoad, ipVars, LoadInv, IpInv
<1>1. CASE Return(c, "idle", "ok", config_state)
  <2>1. UNCHANGED <<pc, loc, config_state, status, start, stream, loaded>>
    BY <1>1 DEF BufLoad, ipVars, Return, Goto, TypeOK
  <2>. QED
    BY <2>1, <1>0 DEF LoadInv, Stands, Recorded, AllIdle
<1>2. CASE Goto(c, "idle", "init_csr") /\ config_state' = "WRITE_INIT"
  <2>1. pc' = [pc EXCEPT ![c] = "init_csr"] /\ pc'[c] = "init_csr"
    BY <1>2 DEF Goto, TypeOK
  <2>2. \A d \in Callers \ {c} : pc[d] = "idle"
    BY <2>1 DEF Serial, Loading, TypeOK
  <2>3. Stands(c)'
    BY <2>1 DEF Stands, InitPCs, WritePCs
  <2>. QED
    BY <1>0, <1>2, <2>1, <2>2, <2>3, OwnStep
<1>. QED
  BY <1>1, <1>2 DEF BufLoad

\* alt_pr_ip_write_init(): no request reaches an IP that is configuring.
LEMMA InitStepKeeps ==
    ASSUME TypeOK, LoadInv, NEW c \in Callers,
           \/ ReadCsr(c) \/ CheckPofId(c) \/ WaitInitial(c) \/ PollInitial(c)
    PROVE  LoadInv'
<1>1. UNCHANGED ipVars
  BY DEF ReadCsr, CheckPofId, WaitInitial, PollInitial
<1>2. IpInv'
  BY <1>1 DEF LoadInv, IpInv, ipVars
<1>3. CASE \E from \in {"init_csr", "init_id", "init_poll"}, v \in Results :
              Return(c, from, v, "WRITE_INIT_ERR")
  BY <1>2, <1>3, FailKeeps DEF ErrStates
<1>4. CASE /\ \E from, to \in InitPCs \cup {"init_csr"} :
                 /\ Goto(c, from, to)
                 /\ to \in InitPCs
                 /\ from = "init_csr" => ~start
           /\ UNCHANGED config_state
           /\ loc'[c].img = loc[c].img
  <2>1. config_state' # "OPERATING"
    BY <1>4, OthersIdle DEF Goto, InitPCs
  <2>. QED
    BY <1>1, <1>4, <2>1, GoOnKeeps
<1>5. CASE ReadCsr(c)
  BY <1>3, <1>4, <1>5 DEF ReadCsr, Continue, InitPCs, Results
<1>6. CASE CheckPofId(c)
  BY <1>3, <1>4, <1>6 DEF CheckPofId, Continue, InitPCs, Results
<1>7. CASE WaitInitial(c)
  <2>1. loc'[c].img = loc[c].img
    BY <1>7 DEF WaitInitial, TypeOK
  <2>. QED
    BY <1>4, <1>7, <2>1 DEF WaitInitial, Continue, InitPCs
<1>8. CASE PollInitial(c)
  <2>1. CASE Return(c, "init_poll", "ETIMEDOUT", "WRITE_INIT_ERR")
    BY <1>3, <2>1 DEF Results
  <2>2. CASE /\ Continue(c, "init_poll", IF NotInitial(loc[c].val) THEN "init_poll" ELSE "init_start")
             /\ loc' = [loc EXCEPT ![c].polls = @ + 1,
                                   ![c].val = IF NotInitial(@) THEN status ELSE @]
    <3>1. loc'[c].img = loc[c].img
      BY <2>2 DEF TypeOK
    <3>. QED
      BY <1>4, <2>2, <3>1 DEF Continue, InitPCs
  <2>. QED
    BY <1>8, <2>1, <2>2 DEF PollInitial
<1>. QED
  BY <1>5, <1>6, <1>7, <1>8

\* The request: it begins a configuration, and its stream is empty.
LEMMA StartKeeps ==
    ASSUME TypeOK, LoadInv, NEW c \in Callers, WriteStart(c)
    PROVE  LoadInv' /\ status # "PR_IN_PROG"
<1>1. status # "PR_IN_PROG" /\ pc[c] # "idle"
  BY DEF WriteStart, Goto, LoadInv, Stands, InitPCs
<1>2. stream' = << >>
  BY <1>1, StartStream DEF WriteStart
<1>3. pc' = [pc EXCEPT ![c] = "write"] /\ pc'[c] = "write" /\ config_state' = "WRITE"
  BY DEF WriteStart, Goto, TypeOK
<1>4. status' = "PR_IN_PROG"
  BY DEF WriteStart, IpStart
<1>5. start'
  BY Zenon DEF WriteStart, IpStart
<1>6. IpInv'
  BY <1>4, <1>5 DEF IpInv
<1>7. Stands(c)'
  BY <1>2, <1>3, <1>4 DEF Stands, InitPCs
<1>. QED
  BY <1>1, <1>3, <1>6, <1>7, OthersIdle, OwnStep

\* One word: it is a word of the load's own image.
LEMMA WordKeeps ==
    ASSUME TypeOK, LoadInv, NEW c \in Callers, WriteWord(c)
    PROVE  LoadInv'
<1>1. pc[c] = "write" /\ Stands(c) /\ IpInv
  BY DEF WriteWord, LoadInv
<1>2. loc[c].img \in Images /\ loc[c].offset \in Nat /\ loc[c].offset <= Size[loc[c].img]
  BY <1>1 DEF TypeOK
<1>3. Word(loc[c].img, loc[c].offset) \in WordsOf(loc[c].img)
  BY <1>2, WordType
<1>4. PICK to \in {"chunk", "write_end", "write"} : Continue(c, "write", to)
  BY DEF WriteWord, AfterBytes
<1>5. pc' = [pc EXCEPT ![c] = to] /\ pc'[c] = to /\ UNCHANGED config_state
  BY <1>4 DEF Continue, Goto, TypeOK
<1>6. loc'[c].img = loc[c].img
  BY DEF WriteWord, TypeOK
<1>7. IpTake(Word(loc[c].img, loc[c].offset))
  BY DEF WriteWord
<1>8. IpInv'
  BY <1>1, <1>7 DEF IpTake, IpInv
<1>9. Stands(c)'
  <2>1. CASE status = "PR_IN_PROG"
    <3>1. stream \in Seq(WordsOf(loc[c].img))
      BY <1>1, <2>1 DEF Stands, WritePCs
    <3>2. stream' \in Seq(WordsOf(loc[c].img)) /\ status' = "PR_IN_PROG"
      BY <1>3, <1>7, <2>1, <3>1 DEF IpTake
    <3>. QED
      BY <1>5, <1>6, <3>2 DEF Stands, InitPCs
  <2>2. CASE status # "PR_IN_PROG"
    BY <1>1, <1>5, <1>6, <1>7, <2>2 DEF Stands, InitPCs, WritePCs, IpTake
  <2>. QED
    BY <2>1, <2>2
<1>. QED
  BY <1>1, <1>5, <1>8, <1>9, OthersIdle, OwnStep

\* The looks at the state, the read that fails and the end of the load.
LEMMA EndKeeps ==
    ASSUME TypeOK, LoadInv, NEW c \in Callers,
           CheckChunk(c) \/ ReadFails(c) \/ FinishWrite(c) \/ PollComplete(c)
    PROVE  LoadInv'
<1>1. IpInv'
  BY DEF CheckChunk, ReadFails, FinishWrite, PollComplete, IpTake, ipVars, LoadInv, IpInv
<1>2. CASE \E from \in WritePCs, v \in Results, st \in ErrStates : Return(c, from, v, st)
  BY <1>1, <1>2, FailKeeps DEF WritePCs
<1>3. CASE /\ \E from, to \in WritePCs : Goto(c, from, to)
           /\ config_state' \in {config_state, "WRITE_COMPLETE"}
           /\ loc'[c].img = loc[c].img
           /\ UNCHANGED ipVars
  <2>1. config_state' # "OPERATING"
    BY <1>3, OthersIdle DEF Goto, WritePCs
  <2>. QED
    BY <1>3, <2>1, GoOnKeeps
<1>4. CASE CheckChunk(c)
  BY <1>2, <1>3, <1>4 DEF CheckChunk, Continue, AfterBytes, WritePCs, Results, ErrStates
<1>5. CASE ReadFails(c)
  BY <1>2, <1>5 DEF ReadFails, WritePCs, Results, ErrStates
<1>6. CASE FinishWrite(c)
  <2>1. CASE Return(c, "write_end", "EIO", "WRITE_ERR")
    BY <1>2, <2>1 DEF WritePCs, Results, ErrStates
  <2>2. CASE /\ Goto(c, "write_end", "complete")
             /\ config_state' = "WRITE_COMPLETE"
             /\ loc' = [loc EXCEPT ![c].polls = 0]
    <3>1. loc'[c].img = loc[c].img
      BY <2>2 DEF TypeOK
    <3>. QED
      BY <1>3, <1>6, <2>2, <3>1 DEF FinishWrite, WritePCs
  <2>. QED
    BY <1>6, <2>1, <2>2 DEF FinishWrite
<1>7. CASE PollComplete(c)
  <2>1. CASE \/ Return(c, "complete", "EIO", "WRITE_COMPLETE_ERR")
             \/ Return(c, "complete", "ETIMEDOUT", "WRITE_COMPLETE_ERR")
    BY <1>2, <2>1 DEF WritePCs, Results, ErrStates
  <2>2. CASE FpgaState = "OPERATING" /\ Return(c, "complete", "ok", "OPERATING")
    <3>1. pc[c] = "complete" /\ pc' = [pc EXCEPT ![c] = "idle"] /\ pc'[c] = "idle"
      BY <2>2 DEF Return, Goto, TypeOK
    <3>2. loaded \in Images /\ UNCHANGED loaded
      BY <1>7, <2>2, StateOfStatus DEF PollComplete, ipVars, LoadInv, IpInv
    <3>3. loaded' # "partial"
      BY <3>2, LoadAssumption
    <3>4. Stands(c)'
      BY <3>1 DEF Stands, InitPCs, WritePCs
    <3>. QED
      BY <1>1, <3>1, <3>2, <3>3, <3>4, OthersIdle, OwnStep
  <2>3. CASE /\ Continue(c, "complete", "complete")
             /\ loc' = [loc EXCEPT ![c].polls = @ + 1]
    <3>1. loc'[c].img = loc[c].img
      BY <2>3 DEF TypeOK
    <3>. QED
      BY <1>3, <1>7, <2>3, <3>1 DEF PollComplete, Continue, WritePCs
  <2>. QED
    BY <1>7, <2>1, <2>2, <2>3 DEF PollComplete
<1>. QED
  BY <1>4, <1>5, <1>6, <1>7

\* Every step of the serialised system preserves the invariant.
LEMMA LoadStep ==
    ASSUME TypeOK, LoadInv, [Next /\ Serial']_vars
    PROVE  LoadInv'
<1>1. CASE UNCHANGED vars
  BY <1>1 DEF vars, LoadInv, Serial, Loading, IpInv, Stands, Recorded, AllIdle
<1>2. ASSUME NEW c \in Callers, Call(c), Serial'
      PROVE  LoadInv'
  BY <1>2, CallKeeps DEF Call
<1>3. ASSUME NEW c \in Callers, Step(c)
      PROVE  LoadInv'
  BY <1>3, InitStepKeeps, StartKeeps, WordKeeps, EndKeeps DEF Step
<1>. QED
  BY <1>1, <1>2, <1>3, IpKeeps DEF Next

-----------------------------------------------------------------------------
(* What a serialised load promises.                                        *)

\* A serialised load is a load.
LEMMA SerialIsSpec == SerialSpec => Spec
  BY PTL DEF SerialSpec, Spec

\* The initial state: nothing is loaded and nobody loads.
LEMMA InitLoadInv == Init => LoadInv
  BY LoadAssumption DEF Init, LoadInv, Serial, Loading, IpInv, Stands, InitPCs, WritePCs,
                        Recorded, AllIdle

\* One load at a time keeps the invariant: a load that waits to request a
\* configuration finds none under way, a load that writes is the only one whose
\* words the IP takes, and config_state tells a whole image from an overwritten one.
THEOREM LoadInvariant == SerialSpec => [](TypeOK /\ LoadInv)
<1>1. SerialSpec => []TypeOK
  BY SerialIsSpec, TypeCorrect, PTL
<1>2. SerialSpec => []LoadInv
  BY <1>1, InitLoadInv, LoadStep, PTL DEF SerialSpec
<1>. QED
  BY <1>1, <1>2, PTL

\* As long as the driver says OPERATING the region holds a whole image, for any
\* callers, images and bounds (fpga_config_buf_load(), alt_pr_ip_write_init()).
THEOREM OperatingHoldsAnImage == SerialSpec => []OperatingIsWhole
<1>1. LoadInv => OperatingIsWhole
  BY DEF LoadInv, Recorded, OperatingIsWhole
<1>. QED
  BY <1>1, LoadInvariant, PTL

\* A load that returns success left its own image, whole, in the region
\* (alt_pr_ip_fpga_write_complete()).
THEOREM SuccessLoadsTheImage == SerialSpec => SuccessIsTheImage
<1>1. ASSUME TypeOK, LoadInv, [Next /\ Serial']_vars
      PROVE  [\A c \in Callers :
                 pc[c] = "complete" /\ pc'[c] = "idle" /\ ret'[c] = "ok" => loaded' = loc[c].img]_vars
  <2>. SUFFICES ASSUME NEW c \in Callers, Next,
                       pc[c] = "complete", pc'[c] = "idle", ret'[c] = "ok"
                PROVE  loaded' = loc[c].img
    BY <1>1 DEF vars
  <2>1. PollComplete(c)
    <3>1. ~Ip
      BY DEF Ip, IpSucceed, IpFail, IpReady
    <3>2. PICK d \in Callers : Call(d) \/ Step(d)
      BY <3>1 DEF Next
    <3>3. pc'[c] = pc[c] \/ d = c
      BY <1>1, <3>2 DEF Call, BufLoad, Step, ReadCsr, CheckPofId, WaitInitial, PollInitial,
            WriteStart, WriteWord, CheckChunk, ReadFails, FinishWrite, PollComplete,
            Return, Continue, Goto, TypeOK
    <3>. QED
      BY <3>2, <3>3 DEF Call, BufLoad, Step, ReadCsr, CheckPofId, WaitInitial, PollInitial,
            WriteStart, WriteWord, CheckChunk, ReadFails, FinishWrite,
            Return, Continue, Goto
  <2>2. status = "PR_SUCCESS" /\ UNCHANGED loaded
    BY <1>1, <2>1, StateOfStatus DEF PollComplete, Return, Continue, Goto, ipVars, TypeOK
  <2>. QED
    BY <1>1, <2>2 DEF LoadInv, Stands, WritePCs
<1>. QED
  BY <1>1, LoadInvariant, PTL DEF SerialSpec, SuccessIsTheImage

\* A configuration the IP has begun is not begun again under it: while it is
\* under way the stream only grows (alt_pr_ip_write_init(), the look at PR_START).
THEOREM ConfigurationNotRestarted == SerialSpec => NoRestart
<1>1. ASSUME TypeOK, LoadInv, [Next /\ Serial']_vars
      PROVE  [status = "PR_IN_PROG" /\ status' = "PR_IN_PROG" =>
                 \E n \in 0 .. Len(stream') : stream = SubSeq(stream', 1, n)]_vars
  <2>. SUFFICES ASSUME Next, status = "PR_IN_PROG", status' = "PR_IN_PROG"
                PROVE  \E n \in 0 .. Len(stream') : stream = SubSeq(stream', 1, n)
    BY <1>1 DEF vars
  <2>0. stream \in Seq(AllWords)
    BY <1>1, TypeParts DEF IpTypeOK
  <2>1. CASE UNCHANGED stream
    <3>1. stream = SubSeq(stream, 1, Len(stream)) /\ Len(stream) \in 0 .. Len(stream)
      BY <2>0
    <3>. QED
      BY <2>1, <3>1
  <2>2. ASSUME NEW w \in AllWords, stream' = Append(stream, w)
        PROVE  \E n \in 0 .. Len(stream') : stream = SubSeq(stream', 1, n)
    <3>1. stream = SubSeq(stream', 1, Len(stream)) /\ Len(stream) \in 0 .. Len(stream')
      BY <2>0, <2>2
    <3>. QED
      BY <3>1
  <2>3. ~Ip
    BY StatusType DEF Ip, IpSucceed, IpFail, IpReady
  <2>4. PICK c \in Callers : Call(c) \/ Step(c)
    BY <2>3 DEF Next
  <2>5. CASE WriteWord(c)
    <3>1. loc[c].img \in Images /\ loc[c].offset \in Nat /\ loc[c].offset <= Size[loc[c].img]
      BY <1>1, <2>5 DEF WriteWord, TypeOK
    <3>2. Word(loc[c].img, loc[c].offset) \in AllWords
      BY <3>1, WordType
    <3>. QED
      BY <2>2, <2>5, <3>2 DEF WriteWord, IpTake
  <2>6. CASE ReadFails(c)
    <3>1. Garbage \in AllWords
      BY DEF AllWords
    <3>. QED
      BY <2>1, <2>2, <2>6, <3>1 DEF ReadFails, IpTake, ipVars
  <2>7. ~WriteStart(c)
    BY <1>1, StartKeeps
  <2>8. CASE Call(c) \/ ReadCsr(c) \/ CheckPofId(c) \/ WaitInitial(c) \/ PollInitial(c)
             \/ CheckChunk(c) \/ FinishWrite(c) \/ PollComplete(c)
    BY <2>1, <2>8 DEF Call, BufLoad, ReadCsr, CheckPofId, WaitInitial, PollInitial, CheckChunk,
          FinishWrite, PollComplete, ipVars
  <2>. QED
    BY <2>4, <2>5, <2>6, <2>7, <2>8 DEF Step
<1>. QED
  BY <1>1, LoadInvariant, PTL DEF SerialSpec, NoRestart
=============================================================================
