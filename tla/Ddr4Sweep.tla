----------------------------- MODULE Ddr4Sweep ------------------------------
(***************************************************************************)
(* The DDR4 access persona and the host program that tests it:             *)
(* do_ddr4_access_persona() of s10_pcie_devkit_pr/software/util/example_   *)
(* host_uio.c against the RTL under source/ddr4_access_persona.            *)
(*                                                                         *)
(* Tick is one edge of the region clock: every RTL module computes its     *)
(* next registers from the current ones.  A host step is one access to the *)
(* register file.  The two are asynchronous: all that is known is that at  *)
(* least MinGap clocks pass between two accesses.  The data written to the *)
(* memory is not modelled, only whether it is read back as it was written. *)
(***************************************************************************)
EXTENDS Naturals, Sequences

CONSTANTS
    MemSize,       \* words of the memory (2^25)
    FinalStages,   \* registers between the offset and final_address (3)
    MinGap,        \* least clocks between two accesses of the host
    MaxWait,       \* most clocks the memory asserts waitrequest or owes an answer
    MaxReads,      \* most reads the memory owes an answer for
    CounterSize,   \* values of the performance counter (2^32)
    number_of_runs,\* the option -n
    Offsets        \* the values of final_offset that rand() may give

Addresses == 0 .. MemSize - 1

VARIABLES
    regs,      \* the register file: control register and three host_pr registers
    ctl,       \* ddr4_access_persona_controller
    acc,       \* mem_access
    gen,       \* traffic_generator
    mem,       \* ddr_wr_rd
    perf,      \* perf_cntr
    reads,     \* reads the memory owes an answer for: those of the word at hand
               \* (live), and before them those of earlier words (stale)
    held,      \* clocks it has asserted waitrequest
    age,       \* clocks the oldest read has waited
    host,      \* the host program: next access, run, parameters, exit status
    gap,       \* clocks since the host's last access, up to MinGap
    verified,  \* history: addresses verified since the last clear, in order
    wrong      \* history: what went wrong since the last clear

hwVars == <<ctl, acc, gen, mem, perf, reads, held, age, verified, wrong>>
vars == <<regs, ctl, acc, gen, mem, perf, reads, held, age, host, gap, verified, wrong>>

-----------------------------------------------------------------------------
PCs == {"idle", "rst0", "rst1", "rst2", "cal", "seed", "load", "seedback",
        "addr", "offset", "start", "stop", "poll", "check"}

MemStates == {"IDLE", "WRITE", "WAIT_WRITE_DONE", "READ", "WAIT_READ_ACCEPTED",
              "WAIT_READ_DONE", "DATA_VERIFICATION"}

ClearedRegs == [ctrl |-> {}, addr |-> 0, seed |-> 0, offset |-> 0]

ClearedAcc == [state |-> "IDLE", busy |-> FALSE, clear |-> FALSE, start_tg |-> FALSE]

ClearedGen == [state |-> "IDLE", completed |-> FALSE, start_wr |-> FALSE, target |-> 0]

ClearedMem(addr) == [state |-> "IDLE", addr |-> addr, write |-> FALSE, read |-> FALSE,
                     pass |-> FALSE, fail |-> FALSE]

TypeOK ==
    /\ regs \in [ctrl : SUBSET {"clr", "load_seed", "start"}, addr : Addresses,
                 seed : {0, 1}, offset : Addresses]
    /\ ctl \in [clr_d : BOOLEAN, clr : BOOLEAN, start_d : BOOLEAN, start_pulse : BOOLEAN,
                start_operation : BOOLEAN, mem_addr : Addresses,
                final : [1 .. FinalStages -> Addresses]]
    /\ acc \in [state : {"IDLE", "DDR_ACCESS"}, busy : BOOLEAN, clear : BOOLEAN, start_tg : BOOLEAN]
    /\ gen \in [state : {"IDLE", "ACTIVE", "WAIT"}, completed : BOOLEAN, start_wr : BOOLEAN,
                target : Addresses]
    /\ mem \in [state : MemStates, addr : Addresses, write : BOOLEAN, read : BOOLEAN,
                pass : BOOLEAN, fail : BOOLEAN]
    /\ perf \in 0 .. CounterSize - 1
    /\ reads \in [stale : 0 .. MaxReads, live : 0 .. 2]
    /\ held \in 0 .. MaxWait /\ age \in 0 .. MaxWait
    /\ host \in [pc : PCs, i : 0 .. number_of_runs + 1, base : Addresses, offset : Addresses,
                 exit : {"none", "killed", "passed", "uncalibrated", "bad_seed", "bad_count"}]
    /\ gap \in 0 .. MinGap
    /\ wrong \subseteq {"memory", "misread", "twice"}

\* The program before its start and after its end.
Ended(status) == [pc |-> "idle", i |-> 0, base |-> 0, offset |-> 0, exit |-> status]

Init ==
    /\ regs = ClearedRegs
    /\ ctl = [clr_d |-> FALSE, clr |-> FALSE, start_d |-> FALSE, start_pulse |-> FALSE,
              start_operation |-> FALSE, mem_addr |-> 0, final |-> [s \in 1 .. FinalStages |-> 0]]
    /\ acc = ClearedAcc
    /\ gen = ClearedGen
    /\ mem = ClearedMem(0)
    /\ perf = 0
    /\ reads = [stale |-> 0, live |-> 0] /\ held = 0 /\ age = 0
    /\ host = Ended("none")
    /\ gap = MinGap
    /\ verified = <<>> /\ wrong = {}

-----------------------------------------------------------------------------
(* The persona, one operator per RTL module.                               *)

\* final_address is the sum of the two registers, FinalStages clocks late.
final_addr == ctl.final[FinalStages]

\* The clear of the registers is a pulse of one clock on a rising bit.
Controller ==
    [clr_d           |-> "clr" \in regs.ctrl,
     clr             |-> ~ctl.clr_d /\ "clr" \in regs.ctrl,
     start_d         |-> "start" \in regs.ctrl,
     start_pulse     |-> ~ctl.start_d /\ "start" \in regs.ctrl,
     start_operation |-> ctl.start_pulse
                           \/ (ctl.start_operation /\ ~acc.clear /\ ~gen.completed),
     mem_addr        |-> regs.addr,
     final           |-> [s \in 1 .. FinalStages |->
                             IF s = 1 THEN (regs.addr + regs.offset) % MemSize
                             ELSE ctl.final[s - 1]]]

MemAccess ==
    LET next == IF acc.state = "IDLE"
                THEN IF ctl.start_operation /\ ~gen.completed THEN "DDR_ACCESS" ELSE "IDLE"
                ELSE IF gen.completed THEN "IDLE" ELSE "DDR_ACCESS"
    IN [state    |-> next,
        busy     |-> next = "DDR_ACCESS",
        clear    |-> next = "IDLE" \/ gen.completed,
        start_tg |-> next = "DDR_ACCESS" /\ ~gen.completed]

\* The last address of the sweep; address 0 never counts as one.
AtFinal == gen.target = final_addr /\ gen.target # 0

NextGenState ==
    CASE gen.state = "IDLE"   -> IF ~AtFinal /\ acc.start_tg THEN "ACTIVE" ELSE "IDLE"
      [] gen.state = "ACTIVE" -> IF gen.target = final_addr THEN "IDLE" ELSE "WAIT"
      [] gen.state = "WAIT"   -> IF mem.pass \/ mem.fail THEN "ACTIVE" ELSE "WAIT"

TrafficGenerator ==
    [state     |-> NextGenState,
     completed |-> NextGenState = "IDLE" /\ AtFinal,
     start_wr  |-> NextGenState # "IDLE",
     target    |-> IF ~gen.start_wr THEN ctl.mem_addr
                   ELSE IF mem.pass \/ mem.fail THEN (gen.target + 1) % MemSize
                   ELSE gen.target]

\* One write and one read of the target address.  `ready' is the memory not
\* asserting waitrequest, `answer' its readdatavalid, `match' the comparison.
NextMemState(ready, answer) ==
    CASE mem.state = "IDLE"               -> IF gen.start_wr THEN "WRITE" ELSE "IDLE"
      [] mem.state = "WRITE"              -> "WAIT_WRITE_DONE"
      [] mem.state = "WAIT_WRITE_DONE"    -> IF ready THEN "READ" ELSE "WAIT_WRITE_DONE"
      [] mem.state = "READ"               -> "WAIT_READ_ACCEPTED"
      [] mem.state = "WAIT_READ_ACCEPTED" -> IF ready THEN "WAIT_READ_DONE" ELSE "WAIT_READ_ACCEPTED"
      [] mem.state = "WAIT_READ_DONE"     -> IF answer THEN "DATA_VERIFICATION" ELSE "WAIT_READ_DONE"
      [] mem.state = "DATA_VERIFICATION"  -> IF mem.pass \/ mem.fail THEN "IDLE" ELSE "DATA_VERIFICATION"

\* The request is on the bus in WRITE and READ already, and again for as long as
\* waitrequest is seen after that, whether it was taken meanwhile or not.
DdrWrRd(ready, answer, match) ==
    LET next == NextMemState(ready, answer)
        verifying == next = "DATA_VERIFICATION" /\ answer
    IN [state |-> next,
        addr  |-> IF next = "WRITE" THEN gen.target ELSE mem.addr,
        write |-> next = "WRITE" \/ (next = "WAIT_WRITE_DONE" /\ ~ready),
        read  |-> next = "READ" \/ (next = "WAIT_READ_ACCEPTED" /\ ~ready),
        pass  |-> verifying /\ match,
        fail  |-> verifying /\ ~match]

\* An answer is compared in one state only, and ignored in all others.
Compares(answer) == mem.state = "WAIT_READ_DONE" /\ answer

\* A read that was taken in READ is asked for once more.
AskedTwice(ready) == mem.state = "WAIT_READ_ACCEPTED" /\ ~mem.read /\ ~ready

\* The memory asserts waitrequest when it likes, for MaxWait clocks at most; it
\* takes a read whenever one is on the bus and it is ready; it answers reads in
\* order, each within MaxWait clocks of the one before, but not in the clock
\* after it took it.  Where nobody looks at waitrequest it counts as ready.
MemoryHolds(ready, answer) ==
    LET looked == mem.state \in {"WRITE", "WAIT_WRITE_DONE", "READ", "WAIT_READ_ACCEPTED"}
        pending == reads.stale + reads.live
        stale == IF answer /\ reads.stale > 0 THEN reads.stale - 1 ELSE reads.stale
        live == IF answer /\ reads.stale = 0 THEN reads.live - 1 ELSE reads.live
        own == IF mem.read /\ ready THEN live + 1 ELSE live
    IN /\ answer => pending > 0
       /\ mem.state = "WAIT_READ_ACCEPTED" /\ ~mem.read /\ answer => reads.stale > 0
       /\ pending > 0 /\ age = MaxWait => answer
       /\ ~looked \/ held = MaxWait => ready
       /\ mem.read /\ ready => stale + live < MaxReads
       /\ reads' = IF ctl.clr \/ Compares(answer) THEN [stale |-> stale + own, live |-> 0]
                   ELSE [stale |-> stale, live |-> own]
       /\ held' = IF ready THEN 0 ELSE held + 1
       /\ age' = IF pending > 0 /\ ~answer THEN age + 1 ELSE 0

\* A comparison since the last clear failed, or was one with the answer to
\* another read than the word's own.
Spoilt == "memory" \in wrong \/ "misread" \in wrong

\* The data of two words differ as long as every comparison has succeeded: the
\* pattern moves on with each.
Matches(answer, match) ==
    /\ match => Compares(answer)
    /\ Compares(answer) /\ reads.stale > 0 /\ ~Spoilt => ~match

Tick ==
    \E ready, answer, match \in BOOLEAN :
        /\ MemoryHolds(ready, answer)
        /\ Matches(answer, match)
        /\ ctl' = Controller
        /\ IF ctl.clr
           THEN /\ regs' = ClearedRegs
                /\ acc' = ClearedAcc
                /\ gen' = ClearedGen
                /\ mem' = ClearedMem(mem.addr)
                /\ perf' = 0
                /\ verified' = <<>> /\ wrong' = {}
           ELSE /\ acc' = MemAccess
                /\ gen' = TrafficGenerator
                /\ mem' = DdrWrRd(ready, answer, match)
                /\ perf' = IF mem.pass THEN (perf + 1) % CounterSize ELSE perf
                /\ verified' = IF mem.pass /\ Len(verified) <= MemSize
                               THEN Append(verified, mem.addr) ELSE verified
                /\ wrong' = wrong
                     \cup (IF AskedTwice(ready) THEN {"twice"} ELSE {})
                     \cup (IF ~Compares(answer) THEN {}
                           ELSE IF reads.stale > 0 THEN {"misread"}
                           ELSE IF match THEN {} ELSE {"memory"})
                /\ UNCHANGED regs
        /\ gap' = IF gap < MinGap THEN gap + 1 ELSE gap
        /\ UNCHANGED host

-----------------------------------------------------------------------------
(* The host program.                                                       *)

\* read_pr() or write_pr(): an access, and the clocks until the next one.
Access(from, to) ==
    /\ host.pc = from
    /\ gap = MinGap
    /\ gap' = 0
    /\ host' = [host EXCEPT !.pc = to]
    /\ UNCHANGED hwVars

Write(from, to, newRegs) == Access(from, to) /\ regs' = newRegs

Ends(from, status) ==
    /\ host.pc = from
    /\ gap = MinGap
    /\ gap' = 0
    /\ host' = Ended(status)
    /\ UNCHANGED <<regs, hwVars>>

Start ==
    /\ host.pc = "idle"
    /\ host' = [Ended("none") EXCEPT !.pc = "rst0"]
    /\ UNCHANGED <<regs, gap, hwVars>>

\* reset_pr_logic(): the clear bit goes down, up and down.
ResetPrLogic ==
    \/ Write("rst0", "rst1", [regs EXCEPT !.ctrl = {}])
    \/ Write("rst1", "rst2", [regs EXCEPT !.ctrl = {"clr"}])
    \/ Write("rst2", IF host.i = 0 THEN "cal" ELSE "seed", [regs EXCEPT !.ctrl = {}])

\* The next test of the loop, or its end.
NextTest(from) ==
    /\ host.pc = from
    /\ gap = MinGap
    /\ gap' = 0
    /\ host' = IF host.i < number_of_runs
               THEN [host EXCEPT !.pc = "rst0", !.i = host.i + 1]
               ELSE Ended("passed")
    /\ UNCHANGED <<regs, hwVars>>

ReadCalibration == NextTest("cal") \/ Ends("cal", "uncalibrated")

LoadSeed ==
    \/ Write("seed", "load", [regs EXCEPT !.seed = 1])
    \/ Write("load", "seedback", [regs EXCEPT !.ctrl = {"load_seed"}])
    \/ IF regs.seed = 1 THEN Access("seedback", "addr") /\ UNCHANGED regs
                        ELSE Ends("seedback", "bad_seed")

\* run_ddr4_address_sweep() up to the poll, with the range rand() gives.
WriteAddress ==
    \E base \in Addresses, offset \in Offsets :
        /\ base + offset \in Addresses
        /\ host.pc = "addr" /\ gap = MinGap
        /\ host' = [host EXCEPT !.pc = "offset", !.base = base, !.offset = offset]
        /\ regs' = [regs EXCEPT !.addr = base]
        /\ gap' = 0
        /\ UNCHANGED hwVars

StartSweep ==
    \/ Write("offset", "start", [regs EXCEPT !.offset = host.offset])
    \/ Write("start", "stop", [regs EXCEPT !.ctrl = {"start"}])
    \/ Write("stop", "poll", [regs EXCEPT !.ctrl = {}])

\* Fault: busy is not polled.
PollBusySkipped == Access("poll", "check") /\ UNCHANGED regs

PollBusy == Access("poll", IF acc.busy THEN "poll" ELSE "check") /\ UNCHANGED regs

\* Fault: the word at the offset itself is not counted.
CheckCounterShort ==
    \/ perf = host.offset /\ NextTest("check")
    \/ perf # host.offset /\ Ends("check", "bad_count")

CheckCounter ==
    \/ perf = host.offset + 1 /\ NextTest("check")
    \/ perf # host.offset + 1 /\ Ends("check", "bad_count")

\* The program is interrupted between two accesses; the persona goes on.
Kill ==
    /\ host.pc # "idle"
    /\ host' = Ended("killed")
    /\ UNCHANGED <<regs, gap, hwVars>>

HostStep ==
    \/ ResetPrLogic \/ ReadCalibration \/ LoadSeed \/ WriteAddress \/ StartSweep
    \/ PollBusy \/ CheckCounter

Next == Tick \/ Start \/ HostStep \/ Kill

Spec == Init /\ [][Next]_vars

-----------------------------------------------------------------------------
\* A test is only passed when every address of the sweep, the last one
\* included, was written, read back and found equal, once each and in order,
\* each by the answer to a read of its own: nothing of an earlier or an
\* interrupted sweep is counted (405, check of the counter; perf_cntr.sv).
PassedMeansSwept ==
    [][(host.pc = "check" /\ (host'.i > host.i \/ host'.exit = "passed"))
         => /\ verified = [k \in 1 .. host.offset + 1 |-> host.base + k - 1]
            /\ ~Spoilt]_vars

=============================================================================
