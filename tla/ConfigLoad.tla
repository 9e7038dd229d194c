----------------------------- MODULE ConfigLoad -----------------------------
(***************************************************************************)
(* Loading an RBF image into the PR IP: fpga_config_buf_load() (fpga-      *)
(* pcie.c) and the alt_pr_ip_* functions it calls (altera-pr-ip-core-a10.c *)
(* and -s10.c), run by threads inside FPGA_INITIATE_PR, against the PR IP  *)
(* behind BAR 2.                                                           *)
(*                                                                         *)
(* One step is one access to the IP's registers, with the file reads and   *)
(* local decisions around it.  Nothing in the driver keeps two loads       *)
(* apart: Spec interleaves them, SerialSpec is the system when user space  *)
(* runs one load at a time.                                                *)
(***************************************************************************)
EXTENDS Naturals, Sequences

CONSTANTS
    Callers,       \* kernel threads that may be loading an image
    Images,        \* the RBF files
    Size,          \* Size[m]: bytes of file m
    PofMatch,      \* images whose POF ID is the one in the IP
    PofCheck,      \* the IP is a version with a nonzero POF ID
    Family,        \* "a10" or "s10": which core the driver was built for
    Verbose,       \* built with VERBOSE_TRUE (s10 only)
    HeaderBytes,   \* bytes fpga_config_buf_load() reads first (1024)
    ChunkWords,    \* words between two pauses of the s10 core (1024)
    InitPolls,     \* polls for the initial state of the s10 core (5000)
    ConfigTimeout  \* polls for the end of the configuration (an argument)

ASSUME LoadAssumption ==
    /\ Images \cap {"none", "partial"} = {}
    /\ Size \in [Images -> Nat]
    /\ PofMatch \subseteq Images
    /\ PofCheck \in BOOLEAN
    /\ Verbose \in BOOLEAN
    /\ Family \in {"a10", "s10"}
    /\ HeaderBytes \in Nat /\ HeaderBytes >= 4
    /\ ChunkWords \in Nat \ {0}
    /\ InitPolls \in Nat /\ ConfigTimeout \in Nat

VARIABLES
    status,        \* the status field of the IP's CSR
    start,         \* the PR_START bit of the CSR
    stream,        \* the words the IP has taken since PR_START
    loaded,        \* the image in the region, "none" before the first,
                   \* "partial" when it was overwritten and not completed
    config_state,  \* priv->config_state
    pc,            \* pc[c]: the next register access of caller c
    loc,           \* loc[c]: the locals of the load c is in
    ret            \* ret[c]: what the last load returned

ipVars == <<status, start, stream, loaded>>
vars == <<status, start, stream, loaded, config_state, pc, loc, ret>>

-----------------------------------------------------------------------------
ErrStatus ==
    IF Family = "a10" THEN {"PR_ERR", "CRC_ERR", "BAD_BITS"} ELSE {"PR_ERR"}

Statuses ==
    {"NRESET", "PR_IN_PROG", "PR_SUCCESS"} \cup ErrStatus
        \cup (IF Family = "s10" THEN {"BUSY"} ELSE {})

\* fpga_config_states the load goes through; UNKNOWN is the zeroed struct.
ConfigStates ==
    {"UNKNOWN", "WRITE_INIT", "WRITE_INIT_ERR", "WRITE", "WRITE_ERR",
     "WRITE_COMPLETE", "WRITE_COMPLETE_ERR", "OPERATING"}

PCs == {"idle", "init_csr", "init_id", "init_wait", "init_poll", "init_start",
        "write", "chunk", "write_end", "complete"}

Smaller(a, b) == IF a < b THEN a ELSE b

\* The word at byte o of image m: the bytes of it that are in the file.
Word(m, o) == <<m, o, Smaller(4, Size[m] - o)>>

Garbage == <<"garbage", 0, 4>>

\* The words the loop of alt_pr_ip_fpga_write() may send of image m.
WordsOf(m) == {Word(m, o) : o \in 0 .. Size[m]}

\* The words of the whole image, in order.
Contents(m) == [i \in 1 .. (Size[m] + 3) \div 4 |-> Word(m, 4 * (i - 1))]

\* The locals of a load: the open file, the bytes of it that were read, the
\* loop counter, and the status alt_pr_ip_wait_for_initial_state() last read.
NoLocals == [img |-> "none", offset |-> 0, polls |-> 0, val |-> "NRESET"]

TypeOK ==
    /\ status \in Statuses
    /\ start \in BOOLEAN
    /\ stream \in Seq({Garbage} \cup UNION {WordsOf(m) : m \in Images})
    /\ loaded \in Images \cup {"none", "partial"}
    /\ config_state \in ConfigStates
    /\ pc \in [Callers -> PCs]
    /\ loc \in [Callers -> [img : Images \cup {"none"}, offset : Nat, polls : Nat, val : Statuses]]
    /\ \A c \in Callers :
          IF pc[c] = "idle" THEN loc[c] = NoLocals
          ELSE /\ loc[c].img \in Images
               /\ loc[c].offset <= Size[loc[c].img]
               /\ loc[c].polls <= IF pc[c] = "complete" THEN ConfigTimeout ELSE InitPolls
    /\ ret \in [Callers -> {"none", "ok", "EINVAL", "EFAULT", "EIO", "ETIMEDOUT"}]

-----------------------------------------------------------------------------
(* The PR IP.                                                              *)

\* The IP ends a configuration when the stream it took is a whole image.
IpSucceed ==
    /\ status = "PR_IN_PROG"
    /\ stream # << >>
    /\ \E m \in Images : stream = Contents(m) /\ loaded' = m
    /\ status' = "PR_SUCCESS"
    /\ start' = FALSE
    /\ UNCHANGED <<stream, config_state, pc, loc, ret>>

IpFail ==
    /\ status = "PR_IN_PROG"
    /\ status' \in ErrStatus
    /\ start' = FALSE
    /\ UNCHANGED <<stream, loaded, config_state, pc, loc, ret>>

\* The s10 core reports BUSY until its secure device manager is up.
IpReady ==
    /\ status = "BUSY"
    /\ status' = "NRESET"
    /\ UNCHANGED <<start, stream, loaded, config_state, pc, loc, ret>>

\* writel(PR_START): PR_START reads as set until the configuration ends, as
\* the check in alt_pr_ip_write_init() takes for granted.  An IP that is
\* already configuring may ignore a second request or begin again.
IpStart ==
    /\ start' = TRUE
    /\ status' = "PR_IN_PROG"
    /\ stream' \in {<< >>} \cup {s \in {stream} : status = "PR_IN_PROG"}
    /\ UNCHANGED loaded

\* writel(w, reg_base): words outside a configuration are dropped.
IpTake(w) ==
    /\ IF status = "PR_IN_PROG"
       THEN stream' = Append(stream, w) /\ loaded' = "partial"
       ELSE UNCHANGED <<stream, loaded>>
    /\ UNCHANGED <<status, start>>

-----------------------------------------------------------------------------
(* alt_pr_ip_fpga_state() of the two cores.                                *)

StateA10(st) ==
    CASE st = "NRESET" -> "RESET"
      [] st \in {"PR_ERR", "CRC_ERR", "BAD_BITS"} -> "WRITE_ERR"
      [] st = "PR_IN_PROG" -> "WRITE"
      [] st = "PR_SUCCESS" -> "OPERATING"
      [] OTHER -> "UNKNOWN"

StateS10(st) ==
    CASE st = "NRESET" -> "RESET"
      [] st = "PR_ERR" -> "WRITE_ERR"
      [] st = "PR_IN_PROG" -> "WRITE"
      [] st = "PR_SUCCESS" -> "OPERATING"
      [] OTHER -> "UNKNOWN"

FpgaState == IF Family = "a10" THEN StateA10(status) ELSE StateS10(status)

-----------------------------------------------------------------------------
(* The steps of a load.                                                    *)

Goto(c, from, to) ==
    /\ pc[c] = from
    /\ pc' = [pc EXCEPT ![c] = to]

\* The load goes back to my_ioctl() with v and leaves config_state at st.
Return(c, from, v, st) ==
    /\ Goto(c, from, "idle")
    /\ ret' = [ret EXCEPT ![c] = v]
    /\ loc' = [loc EXCEPT ![c] = NoLocals]
    /\ config_state' = st

\* The load goes on.
Continue(c, from, to) ==
    /\ Goto(c, from, to)
    /\ UNCHANGED <<config_state, ret>>

\* The first kernel_read(): a file that is too short, or cannot be read, ends
\* the load with 0 and with config_state as it was.
BufLoad(c, m) ==
    /\ \/ Return(c, "idle", "ok", config_state)
       \/ /\ Size[m] >= HeaderBytes
          /\ Goto(c, "idle", "init_csr")
          /\ config_state' = "WRITE_INIT"
          /\ loc' = [loc EXCEPT ![c].img = m]
          /\ ret' = [ret EXCEPT ![c] = "none"]
    /\ UNCHANGED ipVars

\* Fault: PR_START is not looked at.
ReadCsrUnchecked(c) ==
    /\ Continue(c, "init_csr", "init_id")
    /\ UNCHANGED <<ipVars, loc>>

\* alt_pr_ip_write_init(), first read: refuse while PR_START is set.
ReadCsr(c) ==
    /\ \/ start /\ Return(c, "init_csr", "EINVAL", "WRITE_INIT_ERR")
       \/ ~start /\ Continue(c, "init_csr", "init_id") /\ UNCHANGED loc
    /\ UNCHANGED ipVars

\* The POF ID of the IP against the one in the image.
CheckPofId(c) ==
    /\ pc[c] = "init_id"
    /\ \/ /\ PofCheck /\ loc[c].img \notin PofMatch
          /\ Return(c, "init_id", "EINVAL", "WRITE_INIT_ERR")
       \/ /\ PofCheck => loc[c].img \in PofMatch
          /\ Continue(c, "init_id", IF Family = "s10" THEN "init_wait" ELSE "init_start")
          /\ UNCHANGED loc
    /\ UNCHANGED ipVars

\* alt_pr_ip_wait_for_initial_state(), first read (s10).
WaitInitial(c) ==
    /\ Continue(c, "init_wait", IF status = "BUSY" THEN "init_poll" ELSE "init_start")
    /\ loc' = [loc EXCEPT ![c].val = status]
    /\ UNCHANGED ipVars

\* The condition of the wait loop, as it is written.
NotInitial(v) == v # "NRESET" \/ v # "PR_SUCCESS"

\* One turn of the wait loop: read again, or leave the loop; after the last
\* turn the wait gives up.
PollInitial(c) ==
    /\ \/ /\ loc[c].polls < InitPolls
          /\ Continue(c, "init_poll", IF NotInitial(loc[c].val) THEN "init_poll" ELSE "init_start")
          /\ loc' = [loc EXCEPT ![c].polls = @ + 1,
                                ![c].val = IF NotInitial(@) THEN status ELSE @]
       \/ /\ loc[c].polls = InitPolls
          /\ Return(c, "init_poll", "ETIMEDOUT", "WRITE_INIT_ERR")
    /\ UNCHANGED ipVars

\* Fault: config_state is set as if the configuration could not fail.
WriteStartHasty(c) ==
    /\ Goto(c, "init_start", "write")
    /\ IpStart
    /\ config_state' = "OPERATING"
    /\ UNCHANGED <<loc, ret>>

\* The end of alt_pr_ip_write_init(): request the configuration.
WriteStart(c) ==
    /\ Goto(c, "init_start", "write")
    /\ IpStart
    /\ config_state' = "WRITE"
    /\ UNCHANGED <<loc, ret>>

\* Where alt_pr_ip_fpga_write() goes on once n bytes of m are written.
AfterBytes(m, n) == IF n = Size[m] THEN "write_end" ELSE "write"

\* One word of alt_pr_ip_fpga_write(): the last one keeps the 1 to 3 bytes
\* the file has left.  A verbose s10 build looks at the state after a chunk.
WriteWord(c) ==
    LET m == loc[c].img
        next == loc[c].offset + Smaller(4, Size[m] - loc[c].offset)
        chunkEnd == /\ Family = "s10" /\ Verbose
                    /\ next = loc[c].offset + 4
                    /\ (next \div 4) % ChunkWords = 0
    IN
    /\ pc[c] = "write"
    /\ IpTake(Word(m, loc[c].offset))
    /\ Continue(c, "write", IF chunkEnd THEN "chunk" ELSE AfterBytes(m, next))
    /\ loc' = [loc EXCEPT ![c].offset = next]

CheckChunk(c) ==
    /\ pc[c] = "chunk"
    /\ \/ FpgaState # "WRITE" /\ Return(c, "chunk", "EIO", "WRITE_ERR")
       \/ /\ FpgaState = "WRITE"
          /\ Continue(c, "chunk", AfterBytes(loc[c].img, loc[c].offset))
          /\ UNCHANGED loc
    /\ UNCHANGED ipVars

\* kernel_read() fails.  The first read is not looked at before its buffer is
\* written out; a later one, the one at the end of the file included, ends the
\* load with the word before it written.
ReadFails(c) ==
    /\ \/ Return(c, "write", "EFAULT", "WRITE_ERR")
       \/ /\ pc[c] = "write_end" /\ Size[loc[c].img] % 4 = 0
          /\ Return(c, "write_end", "EFAULT", "WRITE_ERR")
    /\ IF loc[c].offset = 0 THEN IpTake(Garbage) ELSE UNCHANGED ipVars

\* The state check at the end of alt_pr_ip_fpga_write().
FinishWrite(c) ==
    /\ \/ /\ FpgaState = "WRITE_ERR"
          /\ Return(c, "write_end", "EIO", "WRITE_ERR")
       \/ /\ FpgaState # "WRITE_ERR"
          /\ Goto(c, "write_end", "complete")
          /\ config_state' = "WRITE_COMPLETE"
          /\ loc' = [loc EXCEPT ![c].polls = 0]
          /\ UNCHANGED ret
    /\ UNCHANGED ipVars

\* Fault: the loop has no bound.
PollCompleteForever(c) ==
    /\ \/ /\ FpgaState = "WRITE_ERR"
          /\ Return(c, "complete", "EIO", "WRITE_COMPLETE_ERR")
       \/ /\ FpgaState = "OPERATING"
          /\ Return(c, "complete", "ok", "OPERATING")
    /\ UNCHANGED ipVars

\* Fault: whatever is not an error is taken for the end of the configuration.
PollCompleteHasty(c) ==
    /\ \/ /\ FpgaState = "WRITE_ERR"
          /\ Return(c, "complete", "EIO", "WRITE_COMPLETE_ERR")
       \/ /\ FpgaState # "WRITE_ERR"
          /\ Return(c, "complete", "ok", "OPERATING")
    /\ UNCHANGED ipVars

\* Fault: the error of the last step is returned but not recorded.
PollCompleteSilent(c) ==
    /\ \/ /\ FpgaState = "OPERATING"
          /\ Return(c, "complete", "ok", "OPERATING")
       \/ /\ FpgaState # "OPERATING"
          /\ Return(c, "complete", "ETIMEDOUT", config_state)
    /\ UNCHANGED ipVars

\* One turn of alt_pr_ip_fpga_write_complete(), or its end.
PollComplete(c) ==
    /\ \/ /\ loc[c].polls < ConfigTimeout
          /\ \/ /\ FpgaState = "WRITE_ERR"
                /\ Return(c, "complete", "EIO", "WRITE_COMPLETE_ERR")
             \/ /\ FpgaState = "OPERATING"
                /\ Return(c, "complete", "ok", "OPERATING")
             \/ /\ FpgaState \notin {"WRITE_ERR", "OPERATING"}
                /\ Continue(c, "complete", "complete")
                /\ loc' = [loc EXCEPT ![c].polls = @ + 1]
       \/ /\ loc[c].polls = ConfigTimeout
          /\ Return(c, "complete", "ETIMEDOUT", "WRITE_COMPLETE_ERR")
    /\ UNCHANGED ipVars

-----------------------------------------------------------------------------
Init ==
    /\ status \in {"NRESET", "BUSY"} \cap Statuses
    /\ start = FALSE
    /\ stream = << >>
    /\ loaded = "none"
    /\ config_state = "UNKNOWN"
    /\ pc = [c \in Callers |-> "idle"]
    /\ loc = [c \in Callers |-> NoLocals]
    /\ ret = [c \in Callers |-> "none"]

Call(c) == \E m \in Images : BufLoad(c, m)

Step(c) ==
    \/ ReadCsr(c) \/ CheckPofId(c) \/ WaitInitial(c) \/ PollInitial(c)
    \/ WriteStart(c) \/ WriteWord(c) \/ CheckChunk(c) \/ ReadFails(c)
    \/ FinishWrite(c) \/ PollComplete(c)

Ip == IpSucceed \/ IpFail \/ IpReady

Next == Ip \/ \E c \in Callers : Call(c) \/ Step(c)

Spec == Init /\ [][Next]_vars

Loading(c) == pc[c] # "idle"

Serial == \A c, d \in Callers : Loading(c) /\ Loading(d) => c = d

SerialSpec == Init /\ [][Next /\ Serial']_vars

\* A thread in the kernel keeps running; the IP may take forever.
Fairness == \A c \in Callers : WF_vars(Step(c))

FairSerialSpec == SerialSpec /\ Fairness

-----------------------------------------------------------------------------
(* Properties.                                                             *)

\* A load that ends in OPERATING left its own image, whole, in the region:
\* no success of an earlier load, of a late one or of a half-sent stream is
\* taken for its own (alt_pr_ip_write_init 100-106, write_complete 192-205).
SuccessIsTheImage ==
    [][\A c \in Callers :
          pc[c] = "complete" /\ pc'[c] = "idle" /\ ret'[c] = "ok" => loaded' = loc[c].img]_vars

\* As long as the driver says OPERATING, what is in the region is a whole
\* image: a new load leaves OPERATING before the IP takes its first word.
OperatingIsWhole == config_state = "OPERATING" => loaded \in Images

\* A configuration the IP has begun is not begun again under it: after a
\* timeout or a failed read, a retry is refused until the IP has ended it
\* (alt_pr_ip_write_init 100-106).
NoRestart ==
    [][status = "PR_IN_PROG" /\ status' = "PR_IN_PROG" =>
          \E n \in 0 .. Len(stream') : stream = SubSeq(stream', 1, n)]_vars

\* Every load returns, whatever the IP does: its loops are bounded.
LoadReturns == \A c \in Callers : Loading(c) ~> ~Loading(c)

\* "PR IP was not ready after %d ms." (altera-pr-ip-core-s10.c 91) is said of
\* an IP that was not ready when it was last read.
TimedOutMeansNotReady ==
    [][\A c \in Callers :
          pc[c] = "init_poll" /\ ret'[c] = "ETIMEDOUT" =>
              loc[c].val \notin {"NRESET", "PR_SUCCESS"}]_vars
=============================================================================
