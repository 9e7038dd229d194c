---------------------------- MODULE HostProgram -----------------------------
(***************************************************************************)
(* example_host_uio, the program that tests the persona of a region        *)
(* through a UIO device: main(), the search for the device, the dispatch   *)
(* on the persona's ID, the two children of a hierarchical (HPR) persona,  *)
(* and the four personas it knows.  The two arithmetic personas are here;  *)
(* Ddr4Sweep and GolGame are the other two, with their part of the         *)
(* program.  main(), UIO, HPR and arithmetic are those of                  *)
(* a10_pcie_devkit_cvp_hpr.                                                *)
(*                                                                         *)
(* Tick is an edge of the clock of the persona under test.  A register     *)
(* holds one of WordSize values, an operand of the multiplier one of       *)
(* DspSize.                                                                *)
(***************************************************************************)
EXTENDS Integers, Sequences, SequencesExt

CONSTANTS
    WordSize,      \* 2^32
    DspSize,       \* 2^27
    Values,        \* what rand() may give
    Cards,         \* cards: the ID read in the region and in its two children,
                   \* and the size of the mapping in register blocks
    Directories,   \* contents of /sys/class/uio: a name per number, <<>> if there is none
    Names,         \* arguments of -d
    number_of_runs,
    CalcGap, DdrGap, GolGap,             \* least clocks between two accesses of the program
    MemSize, FinalStages, MaxWait, MaxReads, CounterSize, Offsets,    \* see Ddr4Sweep
    Rows, Cols, Runs, Boards                            \* see GolGame

VARIABLES
    card,      \* the card under test
    calc,      \* calc[r]: registers and pipeline of the arithmetic persona at r
    gap,       \* clocks since the program's last access to it, up to CalcGap
    prog,      \* the program
    dregs, ctl, acc, gen, mem, perf, reads, held, age, dhost, dgap, verified, wrong, \* Ddr4Sweep
    gregs, mod, cells, board_final, ghost, ggap                      \* GolGame

D == INSTANCE Ddr4Sweep WITH MinGap <- DdrGap, regs <- dregs, host <- dhost, gap <- dgap
G == INSTANCE GolGame WITH MinGap <- GolGap, regs <- gregs, host <- ghost, gap <- ggap

ddrVars == <<dregs, ctl, acc, gen, mem, perf, reads, held, age, dhost, dgap, verified, wrong>>
golVars == <<gregs, mod, cells, board_final, ghost, ggap>>
calcVars == <<calc, gap>>
vars == <<card, calcVars, prog, ddrVars, golVars>>

-----------------------------------------------------------------------------
\* The region and the two children of an HPR persona, by register block.
Blocks == [top |-> 0, child0 |-> 1, child1 |-> 2]
Regions == DOMAIN Blocks

IDs == {"BASIC_ARITHMETIC", "BASIC_DSP", "DDR4_ACCESS", "GOL_ACCELERATOR",
        "HPR_PARENT_ALPHA", "unknown"}
Calculators == {"BASIC_ARITHMETIC", "BASIC_DSP"}

PCs == {"off", "open", "id", "id0", "id1", "dispatch", "rst0", "rst1", "rst2",
        "a", "b", "high", "low", "ddr4", "gol", "close"}

Cleared == [ctrl |-> 0, a |-> 0, b |-> 0]
Unused == [regs |-> Cleared, clr_q |-> FALSE, clr |-> FALSE, in |-> <<0, 0>>,
           mid |-> <<0, 0>>, out |-> 0]

Word == 0 .. WordSize - 1

\* A product takes at least a word and at most two.
ASSUME WordAssumption ==
    /\ DspSize \in Nat \ {0} /\ WordSize \in DspSize .. DspSize * DspSize
    /\ Values \subseteq Word
    /\ number_of_runs \in Nat

\* The two children run calculators, if anything the program knows.
ASSUME CardAssumption ==
    Cards \subseteq [top : IDs, size : Nat,
                    child0 : IDs \ {"DDR4_ACCESS", "GOL_ACCELERATOR"},
                    child1 : IDs \ {"DDR4_ACCESS", "GOL_ACCELERATOR"}]

\* The accesses of the program are slower than the pipelines of the personas,
\* than the memory that takes as long as it may for a write and a read, and
\* than all the answers it may owe.
ASSUME GapAssumption ==
    /\ CalcGap \in Nat /\ CalcGap >= 3
    /\ GolGap \in Nat \ {0}
    /\ MaxWait \in Nat \ {0} /\ MaxReads \in Nat \ {0} /\ FinalStages \in Nat \ {0}
    /\ DdrGap \in Nat /\ DdrGap > FinalStages
    /\ DdrGap >= 5 + 3 * MaxWait /\ DdrGap >= 2 + MaxReads * (MaxWait + 1)

\* The performance counter can count all the words.
ASSUME SweepAssumption ==
    /\ MemSize \in Nat \ {0} /\ Offsets \subseteq Nat
    /\ CounterSize \in Nat /\ CounterSize > MemSize

\* The board is square, and a cell has eight neighbours.
ASSUME BoardAssumption ==
    /\ Rows \in Nat /\ Rows >= 3 /\ Cols = Rows
    /\ Runs \subseteq Nat
    /\ Boards \subseteq SUBSET G!Cells

TypeOK ==
    /\ card \in Cards
    /\ \A r \in Regions : LET c == calc[r] IN
          /\ c.regs \in [ctrl : {0, 1}, a : Word, b : Word]
          /\ c.clr_q \in BOOLEAN /\ c.clr \in BOOLEAN
          /\ c.in \in Word \X Word /\ c.mid \in (0 .. DspSize - 1) \X (0 .. DspSize - 1)
          /\ c.out \in 0 .. DspSize * DspSize - 1
    /\ gap \in 0 .. CalcGap
    /\ prog \in [pc : PCs, region : Regions,
                 ids : [Regions -> IDs], ret : [Regions -> {"none", "zero", "einval"}],
                 i : 0 .. number_of_runs, a : Word, b : Word, high : Word,
                 status : {"none", "killed", "usage", "failure", "zero", "einval"}]
    /\ D!TypeOK
    /\ G!TypeOK

Fresh == [pc |-> "off", region |-> "top",
          ids |-> [r \in Regions |-> "unknown"], ret |-> [r \in Regions |-> "none"],
          i |-> 0, a |-> 0, b |-> 0, high |-> 0, status |-> "none"]

Init ==
    /\ card \in Cards
    /\ calc = [r \in Regions |-> Unused]
    /\ gap = CalcGap
    /\ prog = Fresh
    /\ D!Init
    /\ G!Init

-----------------------------------------------------------------------------
(* The arithmetic personas.                                                *)

\* basic_arithmetic_reg_blk and basic_arithmetic: two registers deep; the
\* registers of the host are cleared when the clear bit falls.
BasicArithmetic(c) ==
    [regs  |-> IF c.clr THEN Cleared ELSE c.regs,
     clr_q |-> c.regs.ctrl = 1,
     clr   |-> c.clr_q /\ c.regs.ctrl = 0,
     in    |-> <<c.regs.a, c.regs.b>>,
     mid   |-> c.mid,
     out   |-> (c.in[1] + c.in[2]) % WordSize]

\* basic_dsp_top and the multiplier: three registers deep, the last two of
\* which the clear resets too; it comes when the clear bit rises.
BasicDsp(c) ==
    LET clr == ~c.clr_q /\ c.regs.ctrl = 1
    IN [regs  |-> IF c.clr THEN Cleared ELSE c.regs,
        clr_q |-> c.regs.ctrl = 1,
        clr   |-> clr,
        in    |-> <<c.regs.a % DspSize, c.regs.b % DspSize>>,
        mid   |-> IF clr \/ c.clr THEN <<0, 0>> ELSE c.in,
        out   |-> IF clr \/ c.clr THEN 0 ELSE c.mid[1] * c.mid[2]]

CalcTick ==
    /\ \E r \in Regions : card[r] \in Calculators
    /\ calc' = [r \in Regions |->
                   CASE card[r] = "BASIC_ARITHMETIC" -> BasicArithmetic(calc[r])
                     [] card[r] = "BASIC_DSP"        -> BasicDsp(calc[r])
                     [] OTHER                        -> calc[r]]
    /\ gap' = IF gap < CalcGap THEN gap + 1 ELSE gap
    /\ UNCHANGED <<ddrVars, golVars>>

Tick ==
    /\ \/ CalcTick
       \/ card["top"] = "DDR4_ACCESS" /\ D!Tick /\ UNCHANGED <<calcVars, golVars>>
       \/ card["top"] = "GOL_ACCELERATOR" /\ G!Tick /\ UNCHANGED <<calcVars, ddrVars>>
    /\ UNCHANGED <<card, prog>>

-----------------------------------------------------------------------------
(* main() and the UIO device.                                              *)

Local(from, newProg) ==
    prog.pc = from /\ prog' = newProg /\ UNCHANGED <<card, calcVars, ddrVars, golVars>>

\* The numbers are tried in order; the search ends at the first that is not
\* there, and takes the first whose name starts with the one it looks for.
uio_find_dev_num(names, name) ==
    LET Missing(n) == n > Len(names) \/ names[n] = <<>>
        first == CHOOSE n \in 1 .. Len(names) + 1 :
                    /\ Missing(n) \/ IsPrefix(name, names[n])
                    /\ \A k \in 1 .. n - 1 : ~Missing(k) /\ ~IsPrefix(name, names[k])
    IN IF Missing(first) THEN -2 ELSE first - 1

\* The options: -d looks for the device; -h, an unknown option, a device that
\* is not given or not found end in usage().
Start ==
    \/ \E name \in Names, names \in Directories :
          Local("off", IF uio_find_dev_num(names, name) < 0
                       THEN [Fresh EXCEPT !.status = "usage"]
                       ELSE [Fresh EXCEPT !.pc = "open"])
    \/ Local("off", [Fresh EXCEPT !.status = "usage"])

\* uio_open(): any of its steps may fail, and the size must be positive.
uio_open ==
    \/ card.size > 0 /\ Local("open", [prog EXCEPT !.pc = "id"])
    \/ Local("open", [Fresh EXCEPT !.status = "usage"])

\* An access to the register block of the region under test.
Access(from, newProg) ==
    /\ prog.pc = from
    /\ gap = CalcGap
    /\ gap' = 0
    /\ prog' = newProg
    /\ UNCHANGED <<card, ddrVars, golVars>>

uio_write_u32(from, to, f, v) ==
    /\ Access(from, [prog EXCEPT !.pc = to])
    /\ calc' = [calc EXCEPT ![prog.region].regs[f] = v]

uio_read_u32(from, newProg) == Access(from, newProg) /\ UNCHANGED calc

\* The ID of a region, which no test changes; a block past the end of the
\* mapping leaves the caller's zero in place.
IdAt(r) == IF Blocks[r] < card.size THEN card[r] ELSE "unknown"

ReadIds ==
    \/ Local("id", [prog EXCEPT !.pc = "dispatch", !.ids["top"] = IdAt("top")])
    \/ Local("id0", [prog EXCEPT !.pc = "id1", !.ids["child0"] = IdAt("child0")])
    \/ Local("id1", [prog EXCEPT !.pc = "dispatch", !.ids["child1"] = IdAt("child1"),
                                  !.region = "child0"])

-----------------------------------------------------------------------------
(* The dispatch on the ID, and the way back.                               *)

\* Fault: ret_0 ^ ret_1.
BothReturnedXor(ret0, ret1) == IF ret0 = ret1 THEN "zero" ELSE "einval"

\* ret_0 & ret_1 of do_hpr_config_a().
BothReturned(ret0, ret1) == IF ret0 = "zero" \/ ret1 = "zero" THEN "zero" ELSE "einval"

\* What the program does once region r's test has returned ret: the second
\* child comes after the first, and after the second their results are
\* combined for main().
Returned(r, ret) ==
    LET here == [prog EXCEPT !.ret[r] = ret]
    IN CASE r = "top"    -> [here EXCEPT !.pc = "close"]
         [] r = "child0" -> [here EXCEPT !.pc = "dispatch", !.region = "child1"]
         [] r = "child1" -> [here EXCEPT !.pc = "close",
                                         !.ret["top"] = BothReturned(prog.ret["child0"], ret)]

\* The switch of main() and the two of do_hpr_config_a(); the children run
\* only calculators here, and an HPR persona is not one of their cases.
Dispatch ==
    LET r == prog.region
        id == prog.ids[r]
    IN \/ /\ id \in Calculators
          /\ Local("dispatch", [prog EXCEPT !.pc = "rst0", !.i = 0])
       \/ /\ id = "DDR4_ACCESS"
          /\ prog.pc = "dispatch" /\ prog' = [prog EXCEPT !.pc = "ddr4"]
          /\ D!Start
          /\ UNCHANGED <<card, calcVars, golVars>>
       \/ /\ id = "GOL_ACCELERATOR"
          /\ prog.pc = "dispatch" /\ prog' = [prog EXCEPT !.pc = "gol"]
          /\ G!Start
          /\ UNCHANGED <<card, calcVars, ddrVars>>
       \/ /\ id = "HPR_PARENT_ALPHA"
          /\ Local("dispatch", IF r = "top" THEN [prog EXCEPT !.pc = "id0"] ELSE Returned(r, "einval"))
       \/ /\ id = "unknown"
          /\ Local("dispatch", Returned(r, "einval"))

\* uio_close() and the return of main().
Close == Local("close", [Fresh EXCEPT !.status = prog.ret["top"], !.ret = prog.ret, !.ids = prog.ids])

-----------------------------------------------------------------------------
(* do_basic_math_persona() and do_basic_dsp_persona().                     *)

Fails == [Fresh EXCEPT !.status = "failure"]

\* The next turn of the loop, or its end.
NextTest == IF prog.i < number_of_runs
            THEN [prog EXCEPT !.pc = "rst0", !.i = prog.i + 1]
            ELSE Returned(prog.region, "zero")

\* The reset before the loop leads to the loop, the one in it to the test.
reset_pr_logic ==
    \/ uio_write_u32("rst0", "rst1", "ctrl", 0)
    \/ uio_write_u32("rst1", "rst2", "ctrl", 1)
    \/ /\ Access("rst2", IF prog.i = 0 THEN NextTest ELSE [prog EXCEPT !.pc = "a"])
       /\ calc' = [calc EXCEPT ![prog.region].regs.ctrl = 0]

IsDsp == prog.ids[prog.region] = "BASIC_DSP"

\* Two numbers of generate_random_number(); those for the multiplier are less
\* than the largest it takes.
Operands ==
    \E a, b \in Values :
        /\ IsDsp => a < DspSize - 1 /\ b < DspSize - 1
        /\ Access("a", [prog EXCEPT !.pc = "b", !.a = a, !.b = b])
        /\ calc' = [calc EXCEPT ![prog.region].regs.a = a]

Increment == uio_write_u32("b", IF IsDsp THEN "high" ELSE "low", "b", prog.b)

\* The product is read in two words; the sum is one.
ReadHigh == uio_read_u32("high", [prog EXCEPT !.pc = "low", !.high = calc[prog.region].out \div WordSize])

CheckResult ==
    LET low == calc[prog.region].out % WordSize
        good == IF IsDsp THEN prog.a * prog.b = prog.high * WordSize + low
                         ELSE (prog.a + prog.b) % WordSize = low
    IN uio_read_u32("low", IF good THEN NextTest ELSE Fails)

-----------------------------------------------------------------------------
\* A step of the DDR4 test, and what the program makes of its end: all its
\* failures call exit().
Ddr4Test ==
    /\ prog.pc = "ddr4"
    /\ D!HostStep
    /\ prog' = IF dhost'.pc # "idle" THEN prog
               ELSE IF dhost'.exit = "passed" THEN Returned("top", "zero") ELSE Fails
    /\ UNCHANGED <<card, calcVars, golVars>>

\* The same for the game of life.
GolTest ==
    /\ prog.pc = "gol"
    /\ G!HostStep
    /\ prog' = IF ghost'.pc # "idle" THEN prog
               ELSE IF ghost'.exit = "passed" THEN Returned("top", "zero") ELSE Fails
    /\ UNCHANGED <<card, calcVars, ddrVars>>

\* The program is interrupted; the card goes on.
Kill ==
    /\ prog.pc # "off"
    /\ prog' = [Fresh EXCEPT !.status = "killed"]
    /\ IF prog.pc = "ddr4" THEN D!Kill ELSE UNCHANGED ddrVars
    /\ IF prog.pc = "gol" THEN G!Kill ELSE UNCHANGED golVars
    /\ UNCHANGED <<card, calcVars>>

ProgramStep ==
    \/ uio_open \/ ReadIds \/ Dispatch \/ reset_pr_logic \/ Operands \/ Increment
    \/ ReadHigh \/ CheckResult \/ Ddr4Test \/ GolTest \/ Close

Next == Tick \/ Start \/ ProgramStep \/ Kill

\* The clock runs and the program is scheduled; nobody has to start it.
Spec == Init /\ [][Next]_vars /\ WF_vars(Tick) /\ WF_vars(ProgramStep)

-----------------------------------------------------------------------------
\* A DDR4 test is only passed when every address of the sweep was written,
\* read back and found equal, whatever ran before (see Ddr4Sweep).
PassedMeansSwept == D!PassedMeansSwept

\* The board read back is the one after the generations asked for, whatever
\* ran before (see GolGame).
ResultIsTheGame == G!ResultIsTheGame

\* With a persona and a memory that work, and whatever interrupted tests left
\* in them, no result is read too early, torn or stale: a test only fails for a
\* memory that is not calibrated or gives back what was not written, for a
\* read the persona asked for twice (ddr_wr_rd.sv 221), or for a sweep of one
\* word, which is never counted as one (traffic_generator.sv).
SoundPersonaPasses ==
    [][prog.status # "failure" /\ prog'.status = "failure"
         => /\ prog.pc = "ddr4"
            /\ \/ "memory" \in wrong \/ "twice" \in wrong
               \/ dhost'.exit = "uncalibrated"
               \/ dhost.pc = "check" /\ dhost.offset = 0]_vars

\* Once the device is open, exit status 0 means that every persona the program
\* found and knows has passed its tests, and that there was one: the results
\* of two children are combined with & (748), which hides an unknown child but
\* never two.
ZeroMeansAPass ==
    prog.status = "zero" =>
        LET tested == {r \in Regions : prog.ids[r] \notin {"unknown", "HPR_PARENT_ALPHA"}}
        IN tested # {} /\ \A r \in tested : prog.ret[r] = "zero"

\* The polls of the busy registers have no bound; the program ends all the
\* same, but for a sweep of the one word at address 0: that one is busy for
\* ever, because the generator does not take address 0 for a last one.
ProgramEnds ==
    prog.pc # "off" ~>
        \/ prog.pc = "off"
        \/ prog.pc = "ddr4" /\ dhost.pc = "poll" /\ dhost.base = 0 /\ dhost.offset = 0

=============================================================================
