------------------------- MODULE HostProgram_proofs -------------------------
(***************************************************************************)
(* Proofs about HostProgram, and with it about the two personas that it    *)
(* instantiates: what the program does to the DDR4 persona and to the game *)
(* of life is what Ddr4Sweep and GolGame allow, so an invariant of theirs  *)
(* is one of the program's.                                                *)
(***************************************************************************)
EXTENDS HostProgram, FiniteSetTheorems, FunctionTheorems, WellFoundedInduction, TLAPS

-----------------------------------------------------------------------------
(* The program and its personas.                                           *)

\* A step of the program or of a persona's clock changes the DDR4 persona and
\* its test only as Ddr4Sweep allows, and the game of life as GolGame allows.
LEMMA StepOfPersonas ==
    ASSUME [Next]_vars
    PROVE  [D!Next]_(D!vars) /\ [G!Next]_(G!vars)
<1> USE DEF ddrVars, golVars, D!vars, G!vars
<1>1. CASE Tick
  BY <1>1 DEF Tick, CalcTick, D!Next, G!Next
<1>2. CASE Start
  BY <1>2 DEF Start, Local
<1>3. CASE uio_open \/ ReadIds \/ Close
  BY <1>3 DEF uio_open, ReadIds, Close, Local
<1>4. CASE Dispatch
  BY <1>4 DEF Dispatch, Local, D!Next, G!Next
<1>5. CASE reset_pr_logic \/ Operands \/ Increment \/ ReadHigh \/ CheckResult
  BY <1>5 DEF reset_pr_logic, Operands, Increment, ReadHigh, CheckResult,
              uio_write_u32, uio_read_u32, Access
<1>6. CASE Ddr4Test
  BY <1>6 DEF Ddr4Test, D!Next
<1>7. CASE GolTest
  BY <1>7 DEF GolTest, G!Next
<1>8. CASE Kill
  BY <1>8 DEF Kill, D!Next, G!Next
<1>9. CASE UNCHANGED vars
  BY <1>9 DEF vars
<1> QED
  BY <1>1, <1>2, <1>3, <1>4, <1>5, <1>6, <1>7, <1>8, <1>9 DEF Next, ProgramStep

\* Every run of the program, killed and started again at any point, is a run
\* of the DDR4 sweep and a run of the game of life.
THEOREM ImplementsPersonas == Spec => D!Spec /\ G!Spec
<1>1. Init => D!Init /\ G!Init
  BY DEF Init
<1>2. [Next]_vars => [D!Next]_(D!vars) /\ [G!Next]_(G!vars)
  BY StepOfPersonas
<1> QED
  BY <1>1, <1>2, PTL DEF Spec, D!Spec, G!Spec

-----------------------------------------------------------------------------
(* The program and the calculators.                                        *)

Narrow == 0 .. DspSize - 1

Calculator == [regs : [ctrl : {0, 1}, a : Word, b : Word],
               clr_q : BOOLEAN, clr : BOOLEAN, in : Word \X Word,
               mid : Narrow \X Narrow, out : 0 .. DspSize * DspSize - 1]

Returns == {"none", "zero", "einval"}

Program == [pc : PCs, region : Regions, ids : [Regions -> IDs], ret : [Regions -> Returns],
            i : 0 .. number_of_runs, a : Word, b : Word, high : Word,
            status : {"none", "killed", "usage", "failure", "zero", "einval"}]

Testing == {"rst0", "rst1", "rst2", "a", "b", "high", "low"}

\* The multiplier takes its operands from the low bits of the registers.
CalcTypeOK ==
    /\ card \in Cards
    /\ calc \in [Regions -> Calculator]
    /\ \A r \in Regions : card[r] = "BASIC_DSP" => calc[r].in \in Narrow \X Narrow
    /\ gap \in 0 .. CalcGap
    /\ prog \in Program

\* A region that was tested and passed has a persona the program knows, one
\* that returned an error has none.
Answered(r) ==
    /\ prog.ret[r] # "none"
    /\ prog.ret[r] = "zero" <=> prog.ids[r] \notin {"unknown", "HPR_PARENT_ALPHA"}

\* Where the program is: the IDs it has read so far, the region under test
\* and the regions that have returned.
WhereItIs ==
    /\ \A r \in Regions : prog.ids[r] \in {"unknown", card[r]}
    /\ prog.pc # "off" => prog.status = "none"
    /\ prog.pc \in {"open", "id"} =>
          prog.region = "top" /\ prog.ids = [r \in Regions |-> "unknown"]
    /\ prog.pc \in {"id0", "id1"} => prog.region = "top" /\ prog.ids["top"] = "HPR_PARENT_ALPHA"
    /\ prog.pc \in {"dispatch", "close"} \cup Testing /\ prog.region = "top" =>
          prog.ids["child0"] = "unknown" /\ prog.ids["child1"] = "unknown"
    /\ prog.region # "top" => prog.ids["top"] = "HPR_PARENT_ALPHA"
    /\ prog.region = "child1" => Answered("child0")
    /\ prog.pc \in Testing => prog.ids[prog.region] \in Calculators
    /\ prog.pc \in {"ddr4", "gol"} =>
          /\ prog.region = "top"
          /\ prog.ids["child0"] = "unknown" /\ prog.ids["child1"] = "unknown"
          /\ prog.ids["top"] = IF prog.pc = "ddr4" THEN "DDR4_ACCESS" ELSE "GOL_ACCELERATOR"
    /\ prog.pc = "close" =>
          \/ prog.region = "top" /\ Answered("top") /\ prog.ids["top"] # "HPR_PARENT_ALPHA"
          \/ /\ prog.region = "child1" /\ Answered("child1")
             /\ prog.ret["top"] = BothReturned(prog.ret["child0"], prog.ret["child1"])

\* What the pipeline of the calculator under test holds, by the clocks since
\* the last access: the clear is over when the first operand is written, and
\* the result is there when it is read.
Pipeline ==
    LET c == calc[prog.region]
    IN /\ prog.pc \in {"a", "b", "high", "low"} =>
             /\ c.regs.ctrl = 0
             /\ prog.pc # "a" \/ gap >= 1 => ~c.clr_q
             /\ prog.pc # "a" \/ gap >= 2 => ~c.clr
       /\ prog.pc \in {"b", "high", "low"} =>
             /\ c.regs.a = prog.a
             /\ IsDsp => prog.a \in Narrow /\ prog.b \in Narrow
       /\ prog.pc \in {"high", "low"} => c.regs.b = prog.b
       /\ prog.pc = "high" => IsDsp
       /\ prog.pc \in {"high", "low"} /\ (prog.pc = "high" \/ ~IsDsp) =>
             /\ gap >= 1 => c.in = <<prog.a, prog.b>>
             /\ gap >= 2 /\ IsDsp => c.mid = <<prog.a, prog.b>>
             /\ gap >= 2 /\ ~IsDsp => c.out = (prog.a + prog.b) % WordSize
             /\ gap >= 3 /\ IsDsp => c.out = prog.a * prog.b
       /\ prog.pc = "low" /\ IsDsp =>
             /\ c.in = <<prog.a, prog.b>> /\ c.mid = <<prog.a, prog.b>>
             /\ c.out = prog.a * prog.b /\ prog.high = c.out \div WordSize

CalcInv == CalcTypeOK /\ WhereItIs /\ ZeroMeansAPass /\ Pipeline

LEMMA RegionsAre == Regions = {"top", "child0", "child1"}
  BY DEF Regions, Blocks

LEMMA NarrowIsWord == Narrow \subseteq Word /\ 0 \in Word /\ 0 \in Narrow
  BY WordAssumption DEF Narrow, Word

\* Quotient and remainder.
LEMMA DivMod ==
    ASSUME NEW N \in Nat \ {0}, NEW x \in Int
    PROVE  /\ x % N \in 0 .. N - 1
           /\ x \div N \in Int
           /\ x = N * (x \div N) + (x % N)
  OBVIOUS

\* A product of two operands of the multiplier fits in its result.
LEMMA ProductFits ==
    ASSUME NEW a \in Narrow, NEW b \in Narrow
    PROVE  a * b \in 0 .. DspSize * DspSize - 1
<1> DEFINE m == DspSize - 1
<1>1. a \in Nat /\ b \in Nat /\ m \in Nat /\ a <= m /\ b <= m
  BY WordAssumption DEF Narrow
<1>2. a * b <= m * b
  BY <1>1
<1>3. m * b <= m * m
  BY <1>1
<1>4. m * m < DspSize * DspSize
  BY WordAssumption
<1>5. a * b \in Nat /\ m * b \in Nat /\ m * m \in Nat /\ DspSize * DspSize \in Nat
  BY <1>1, WordAssumption
<1> HIDE DEF m
<1> QED
  BY <1>2, <1>3, <1>4, <1>5

\* Both words of a result are words.
LEMMA WordsOfResult ==
    ASSUME NEW x \in 0 .. DspSize * DspSize - 1
    PROVE  /\ x \in Nat /\ x \div WordSize \in Word /\ x % WordSize \in Word
           /\ x = (x \div WordSize) * WordSize + (x % WordSize)
<1>1. WordSize \in Nat \ {0} /\ DspSize \in Nat \ {0} /\ DspSize <= WordSize
  BY WordAssumption
<1>2. DspSize * DspSize <= DspSize * WordSize /\ DspSize * WordSize <= WordSize * WordSize
  BY <1>1
<1>3. DspSize * DspSize \in Nat /\ WordSize * WordSize \in Nat /\ DspSize * WordSize \in Nat
  BY <1>1
<1>4. x \in Nat /\ x < WordSize * WordSize
  BY <1>2, <1>3
<1>5. /\ x % WordSize \in 0 .. WordSize - 1 /\ x \div WordSize \in Int
      /\ x = WordSize * (x \div WordSize) + (x % WordSize)
  BY <1>1, <1>4, DivMod
<1>6. x \div WordSize >= 0
  BY <1>1, <1>4, <1>5
<1>7. x \div WordSize < WordSize
  <2> SUFFICES ASSUME x \div WordSize >= WordSize
               PROVE  FALSE
    BY <1>1, <1>5
  <2> WordSize * (x \div WordSize) >= WordSize * WordSize
    BY <1>1, <1>5
  <2> QED
    BY <1>1, <1>4, <1>5
<1> QED
  BY <1>1, <1>4, <1>5, <1>6, <1>7 DEF Word

LEMMA IdAtIs ==
    ASSUME card \in Cards, NEW r \in Regions
    PROVE  IdAt(r) \in {"unknown", card[r]} /\ IdAt(r) \in IDs /\ card[r] \in IDs
<1>1. card[r] \in IDs
  BY RegionsAre, CardAssumption
<1> QED
  BY <1>1 DEF IdAt, IDs

LEMMA CalculatorTypes ==
    /\ Cleared \in [ctrl : {0, 1}, a : Word, b : Word]
    /\ Unused \in Calculator
    /\ Fresh \in Program
<1>1. 0 \in 0 .. DspSize * DspSize - 1
  BY NarrowIsWord, ProductFits
<1>2. 0 \in 0 .. number_of_runs
  BY WordAssumption
<1> QED
  BY <1>1, <1>2, NarrowIsWord, RegionsAre
     DEF Cleared, Unused, Calculator, Fresh, Program, PCs, IDs, Returns

\* The clock of an arithmetic persona, and that of a multiplier.
LEMMA AdderTypes ==
    ASSUME NEW c \in Calculator
    PROVE  BasicArithmetic(c) \in Calculator
<1>1. (c.in[1] + c.in[2]) % WordSize \in 0 .. DspSize * DspSize - 1
  <2>1. c.in[1] \in Word /\ c.in[2] \in Word
    BY DEF Calculator
  <2>2. c.in[1] + c.in[2] \in Int /\ WordSize \in Nat \ {0}
    BY <2>1, WordAssumption DEF Word
  <2>3. (c.in[1] + c.in[2]) % WordSize \in 0 .. WordSize - 1
    BY <2>2, DivMod
  <2>4. WordSize <= DspSize * DspSize /\ DspSize * DspSize \in Nat
    BY WordAssumption
  <2> QED
    BY <2>2, <2>3, <2>4
<1> HIDE DEF Word
<1> QED
  BY <1>1, CalculatorTypes DEF BasicArithmetic, Calculator

LEMMA MultiplierTypes ==
    ASSUME NEW c \in Calculator, c.in \in Narrow \X Narrow
    PROVE  BasicDsp(c) \in Calculator /\ BasicDsp(c).in \in Narrow \X Narrow
<1>1. c.mid[1] * c.mid[2] \in 0 .. DspSize * DspSize - 1
  <2>1. c.mid[1] \in Narrow /\ c.mid[2] \in Narrow
    BY DEF Calculator
  <2> QED
    BY <2>1, ProductFits
<1>2. c.regs.a % DspSize \in Narrow /\ c.regs.b % DspSize \in Narrow
  <2>1. c.regs.a \in Int /\ c.regs.b \in Int /\ DspSize \in Nat \ {0}
    BY WordAssumption DEF Calculator, Word
  <2> QED
    BY <2>1, DivMod DEF Narrow
<1>3. 0 \in 0 .. DspSize * DspSize - 1
  BY NarrowIsWord, ProductFits
<1>4. BasicDsp(c).in = <<c.regs.a % DspSize, c.regs.b % DspSize>>
  BY DEF BasicDsp
<1> QED
  BY <1>1, <1>2, <1>3, <1>4, CalculatorTypes, NarrowIsWord DEF BasicDsp, Calculator

LEMMA ReturnedTypes ==
    ASSUME prog \in Program, NEW r \in Regions, NEW ret \in {"zero", "einval"}
    PROVE  Returned(r, ret) \in Program
<1>1. BothReturned(prog.ret["child0"], ret) \in Returns
  BY DEF BothReturned, Returns
<1>2. [prog EXCEPT !.ret[r] = ret] \in Program
  BY DEF Program, Returns
<1>3. CASE r = "top"
  BY <1>2, <1>3 DEF Returned, Program, PCs
<1>4. CASE r = "child0"
  BY <1>2, <1>4, RegionsAre DEF Returned, Program, PCs
<1>5. CASE r = "child1"
  BY <1>1, <1>2, <1>5, RegionsAre DEF Returned, Program, PCs
<1> QED
  BY <1>3, <1>4, <1>5, RegionsAre

\* The types, and with them that a product is read as two words.
LEMMA CalcTypeStep ==
    ASSUME CalcTypeOK, [Next]_vars
    PROVE  CalcTypeOK'
<1> USE DEF CalcTypeOK
<1>0. /\ WordSize \in Nat \ {0} /\ CalcGap \in Nat /\ number_of_runs \in Nat
      /\ 0 \in 0 .. CalcGap
  BY WordAssumption, GapAssumption
<1>1. CASE CalcTick /\ UNCHANGED <<card, prog>>
  <2>1. gap' \in 0 .. CalcGap
    BY <1>0, <1>1 DEF CalcTick
  <2>2. \A r \in Regions : /\ calc'[r] \in Calculator
                           /\ card[r] = "BASIC_DSP" => calc'[r].in \in Narrow \X Narrow
    BY <1>1, AdderTypes, MultiplierTypes DEF CalcTick
  <2>3. calc' \in [Regions -> Calculator]
    BY <1>1, <2>2 DEF CalcTick
  <2> QED
    BY <1>1, <2>1, <2>2, <2>3
<1>2. CASE Start \/ uio_open \/ Kill
  <2>1. \A s \in {"usage", "killed"} : [Fresh EXCEPT !.status = s] \in Program
    BY CalculatorTypes DEF Program
  <2>2. [Fresh EXCEPT !.pc = "open"] \in Program /\ [prog EXCEPT !.pc = "id"] \in Program
    BY CalculatorTypes DEF Program, PCs
  <2> QED
    BY <1>2, <2>1, <2>2 DEF Start, uio_open, Kill, Local, calcVars
<1>3. ASSUME NEW p \in Program, prog' = p, UNCHANGED <<card, calc>>, gap' \in {0, gap}
      PROVE  CalcTypeOK'
  BY <1>0, <1>3
<1>4. CASE ReadIds
  <2>1. IdAt("top") \in IDs /\ IdAt("child0") \in IDs /\ IdAt("child1") \in IDs
    BY IdAtIs, RegionsAre
  <2>2. /\ [prog EXCEPT !.pc = "dispatch", !.ids["top"] = IdAt("top")] \in Program
        /\ [prog EXCEPT !.pc = "id1", !.ids["child0"] = IdAt("child0")] \in Program
        /\ [prog EXCEPT !.pc = "dispatch", !.ids["child1"] = IdAt("child1"),
                        !.region = "child0"] \in Program
    BY <2>1, RegionsAre DEF Program, PCs
  <2> QED
    BY <1>3, <1>4, <2>2 DEF ReadIds, Local, calcVars
<1>5. CASE Dispatch
  <2>1. prog.region \in Regions
    BY DEF Program
  <2>2. /\ [prog EXCEPT !.pc = "rst0", !.i = 0] \in Program
        /\ \A p \in {"ddr4", "gol", "id0"} : [prog EXCEPT !.pc = p] \in Program
    <3>1. 0 \in 0 .. number_of_runs
      BY <1>0
    <3> QED
      BY <3>1 DEF Program, PCs
  <2> QED
    BY <1>5, <2>1, <2>2, ReturnedTypes DEF Dispatch, Local, calcVars
<1>6. NextTest \in Program /\ Fails \in Program
  <2>1. prog.region \in Regions /\ prog.i \in 0 .. number_of_runs
    BY DEF Program
  <2>2. ASSUME prog.i < number_of_runs
        PROVE  [prog EXCEPT !.pc = "rst0", !.i = prog.i + 1] \in Program
    <3>1. prog.i + 1 \in 0 .. number_of_runs
      BY <1>0, <2>1, <2>2
    <3> QED
      BY <3>1 DEF Program, PCs
  <2> QED
    BY <2>1, <2>2, ReturnedTypes, CalculatorTypes DEF NextTest, Fails, Program
<1>7. CASE Close
  <2>1. prog.ret["top"] \in Returns
    BY RegionsAre DEF Program
  <2>2. [Fresh EXCEPT !.status = prog.ret["top"], !.ret = prog.ret, !.ids = prog.ids] \in Program
    BY <2>1, CalculatorTypes DEF Program, Returns
  <2> QED
    BY <1>3, <1>7, <2>2 DEF Close, Local, calcVars
<1>8. ASSUME NEW v \in Word, NEW f \in {"a", "b"}
      PROVE  [calc EXCEPT ![prog.region].regs[f] = v] \in [Regions -> Calculator]
  BY DEF Calculator, Program
<1>9. ASSUME NEW v \in {0, 1}
      PROVE  [calc EXCEPT ![prog.region].regs.ctrl = v] \in [Regions -> Calculator]
  BY DEF Calculator, Program
<1>10. ASSUME NEW v, NEW f \in {"ctrl", "a", "b"},
              calc' = [calc EXCEPT ![prog.region].regs[f] = v],
              calc' \in [Regions -> Calculator], gap' = 0, card' = card, prog' \in Program
       PROVE  CalcTypeOK'
  <2>1. \A r \in Regions : calc'[r].in = calc[r].in
    BY <1>10 DEF Calculator
  <2> QED
    BY <1>0, <1>10, <2>1
<1>11. CASE reset_pr_logic
  <2>1. prog' \in Program /\ gap' = 0 /\ card' = card
    BY <1>11, <1>6 DEF reset_pr_logic, uio_write_u32, Access, Program, PCs
  <2>2. PICK v \in {0, 1} : calc' = [calc EXCEPT ![prog.region].regs["ctrl"] = v]
    BY <1>11 DEF reset_pr_logic, uio_write_u32
  <2> QED
    BY <1>9, <1>10, <2>1, <2>2
<1>12. CASE Operands
  <2>1. PICK a \in Values, b \in Values :
            /\ Access("a", [prog EXCEPT !.pc = "b", !.a = a, !.b = b])
            /\ calc' = [calc EXCEPT ![prog.region].regs.a = a]
    BY <1>12 DEF Operands
  <2>2. a \in Word /\ b \in Word
    BY WordAssumption
  <2> QED
    BY <1>8, <1>10, <2>1, <2>2 DEF Access, Program, PCs
<1>13. CASE Increment
  BY <1>13, <1>8, <1>10 DEF Increment, uio_write_u32, Access, Program, PCs
<1>14. CASE ReadHigh
  <2>1. calc[prog.region].out \div WordSize \in Word
    BY WordsOfResult DEF Calculator, Program
  <2>2. [prog EXCEPT !.pc = "low", !.high = calc[prog.region].out \div WordSize] \in Program
    BY <2>1 DEF Program, PCs
  <2> QED
    BY <1>3, <1>14, <2>2 DEF ReadHigh, uio_read_u32, Access
<1>15. CASE CheckResult
  BY <1>3, <1>6, <1>15 DEF CheckResult, uio_read_u32, Access
<1>16. CASE Ddr4Test \/ GolTest
  <2>1. Returned("top", "zero") \in Program
    BY ReturnedTypes, RegionsAre
  <2> QED
    BY <1>3, <1>6, <1>16, <2>1 DEF Ddr4Test, GolTest, calcVars
<1>17. CASE UNCHANGED <<card, calc, gap, prog>>
  BY <1>17
<1> QED
  BY <1>1, <1>2, <1>4, <1>5, <1>7, <1>11, <1>12, <1>13, <1>14, <1>15, <1>16, <1>17
     DEF Next, ProgramStep, Tick, vars, calcVars

\* A persona that passed or returned an error counts as one.
LEMMA ReturnedAnswers ==
    ASSUME CalcTypeOK, WhereItIs, prog.pc \in {"dispatch", "ddr4", "gol"} \cup Testing,
           NEW ret \in {"zero", "einval"},
           ret = "zero" <=> prog.ids[prog.region] \notin {"unknown", "HPR_PARENT_ALPHA"},
           prog.region = "top" => prog.ids["top"] # "HPR_PARENT_ALPHA",
           prog' = Returned(prog.region, ret), card' = card
    PROVE  WhereItIs' /\ prog'.status = "none"
<1> DEFINE r == prog.region
<1>0. r \in Regions /\ prog \in Program
  BY DEF CalcTypeOK, Program
<1>1. CASE r = "top"
  <2>1. prog' = [prog EXCEPT !.ret["top"] = ret, !.pc = "close"]
    BY <1>1, RegionsAre DEF Returned
  <2>2. /\ prog'.pc = "close" /\ prog'.region = "top" /\ prog'.ids = prog.ids
        /\ prog'.ret["top"] = ret /\ prog'.status = prog.status
    BY <1>0, <1>1, <2>1, RegionsAre DEF Program
  <2> QED
    BY <1>1, <2>2, RegionsAre DEF WhereItIs, Answered, Testing
<1>2. CASE r = "child0"
  <2>1. prog' = [prog EXCEPT !.ret["child0"] = ret, !.pc = "dispatch", !.region = "child1"]
    BY <1>2, RegionsAre DEF Returned
  <2> QED
    BY <1>0, <1>2, <2>1, RegionsAre DEF WhereItIs, Answered, Testing, Program
<1>3. CASE r = "child1"
  <2> DEFINE both == BothReturned(prog.ret["child0"], ret)
             here == [prog EXCEPT !.ret["child1"] = ret]
  <2>0. /\ here.pc = prog.pc /\ here.region = "child1" /\ here.ids = prog.ids
        /\ here.ret = [prog.ret EXCEPT !["child1"] = ret] /\ here.status = prog.status
        /\ here \in [pc : PCs, region : Regions, ids : [Regions -> IDs], ret : [Regions -> Returns],
                      i : 0 .. number_of_runs, a : Word, b : Word, high : Word,
                      status : {"none", "killed", "usage", "failure", "zero", "einval"}]
    BY <1>0, <1>3, RegionsAre DEF Program, Returns
  <2>1. prog' = [here EXCEPT !.pc = "close", !.ret["top"] = both]
    BY <1>3, RegionsAre DEF Returned
  <2> HIDE DEF both, here
  <2>2. /\ prog'.pc = "close" /\ prog'.region = "child1" /\ prog'.ids = prog.ids
        /\ prog'.ret["child0"] = prog.ret["child0"] /\ prog'.ret["child1"] = ret
        /\ prog'.ret["top"] = both
        /\ prog'.status = prog.status
    <3>1. /\ prog'.pc = "close" /\ prog'.region = "child1" /\ prog'.ids = prog.ids
          /\ prog'.ret = [here.ret EXCEPT !["top"] = both] /\ prog'.status = prog.status
      BY <2>0, <2>1
    <3>2. prog.ret \in [Regions -> Returns]
      BY <1>0 DEF Program
    <3> QED
      BY <2>0, <3>1, <3>2, RegionsAre
  <2>3. prog'.ret["top"] = BothReturned(prog'.ret["child0"], prog'.ret["child1"])
    BY <2>2 DEF both
  <2> QED
    BY <1>3, <2>2, <2>3, RegionsAre DEF WhereItIs, Answered, Testing
<1> QED
  BY <1>0, <1>1, <1>2, <1>3, RegionsAre

\* What the program knows of the regions, and its exit status.
LEMMA WhereStep ==
    ASSUME CalcTypeOK, WhereItIs, ZeroMeansAPass, [Next]_vars
    PROVE  WhereItIs' /\ ZeroMeansAPass'
<1>0. prog \in Program /\ card \in Cards /\ prog.region \in Regions
  BY DEF CalcTypeOK, Program
<1> SUFFICES ASSUME ~UNCHANGED <<card, prog>>
             PROVE  WhereItIs' /\ ZeroMeansAPass'
  BY DEF WhereItIs, ZeroMeansAPass, Answered
<1>1. ASSUME WhereItIs', prog'.status # "zero"
      PROVE  WhereItIs' /\ ZeroMeansAPass'
  BY <1>1 DEF ZeroMeansAPass
<1>2. ASSUME NEW s \in {"usage", "killed", "failure"}, prog' = [Fresh EXCEPT !.status = s]
      PROVE  WhereItIs' /\ ZeroMeansAPass'
  BY <1>1, <1>2, RegionsAre DEF WhereItIs, Answered, Fresh, Testing
<1>3. CASE Start
  <2>1. CASE prog' = [Fresh EXCEPT !.pc = "open"]
    BY <1>1, <2>1, RegionsAre DEF WhereItIs, Answered, Fresh, Testing
  <2> QED
    BY <1>2, <1>3, <2>1 DEF Start, Local
<1>4. CASE uio_open
  <2>1. CASE prog.pc = "open" /\ prog' = [prog EXCEPT !.pc = "id"] /\ card' = card
    BY <1>0, <1>1, <2>1, RegionsAre DEF WhereItIs, Answered, Testing, Program
  <2> QED
    BY <1>2, <1>4, <2>1 DEF uio_open, Local
<1>5. CASE ReadIds
  <2>0. \A r \in Regions : IdAt(r) \in {"unknown", card[r]}
    BY <1>0, IdAtIs
  <2>1. CASE /\ prog.pc = "id" /\ card' = card
             /\ prog' = [prog EXCEPT !.pc = "dispatch", !.ids["top"] = IdAt("top")]
    BY <1>0, <1>1, <2>0, <2>1, RegionsAre DEF WhereItIs, Answered, Testing, Program
  <2>2. CASE /\ prog.pc = "id0" /\ card' = card
             /\ prog' = [prog EXCEPT !.pc = "id1", !.ids["child0"] = IdAt("child0")]
    BY <1>0, <1>1, <2>0, <2>2, RegionsAre DEF WhereItIs, Answered, Testing, Program
  <2>3. CASE /\ prog.pc = "id1" /\ card' = card
             /\ prog' = [prog EXCEPT !.pc = "dispatch", !.ids["child1"] = IdAt("child1"),
                                     !.region = "child0"]
    BY <1>0, <1>1, <2>0, <2>3, RegionsAre DEF WhereItIs, Answered, Testing, Program
  <2> QED
    BY <1>5, <2>1, <2>2, <2>3 DEF ReadIds, Local
<1>6. CASE Dispatch
  <2>1. prog.pc = "dispatch" /\ card' = card
    BY <1>6 DEF Dispatch, Local
  <2>2. CASE /\ prog.ids[prog.region] \in Calculators
             /\ prog' = [prog EXCEPT !.pc = "rst0", !.i = 0]
    BY <1>0, <1>1, <2>1, <2>2 DEF WhereItIs, Answered, Testing, Program
  <2>3. CASE \/ /\ prog.ids[prog.region] = "DDR4_ACCESS"
                /\ prog' = [prog EXCEPT !.pc = "ddr4"]
             \/ /\ prog.ids[prog.region] = "GOL_ACCELERATOR"
                /\ prog' = [prog EXCEPT !.pc = "gol"]
    <3>1. card["child0"] \notin {"DDR4_ACCESS", "GOL_ACCELERATOR"}
          /\ card["child1"] \notin {"DDR4_ACCESS", "GOL_ACCELERATOR"}
      BY <1>0, CardAssumption
    <3>2. prog.region = "top"
      BY <1>0, <2>3, <3>1, RegionsAre DEF WhereItIs
    <3> QED
      BY <1>0, <1>1, <2>1, <2>3, <3>2 DEF WhereItIs, Answered, Testing, Program
  <2>4. CASE /\ prog.ids[prog.region] = "HPR_PARENT_ALPHA" /\ prog.region = "top"
             /\ prog' = [prog EXCEPT !.pc = "id0"]
    BY <1>0, <1>1, <2>1, <2>4 DEF WhereItIs, Answered, Testing, Program
  <2>5. CASE /\ \/ prog.ids[prog.region] = "HPR_PARENT_ALPHA" /\ prog.region # "top"
                \/ prog.ids[prog.region] = "unknown"
             /\ prog' = Returned(prog.region, "einval")
    BY <1>1, <2>1, <2>5, ReturnedAnswers
  <2> QED
    BY <1>6, <2>1, <2>2, <2>3, <2>4, <2>5 DEF Dispatch, Local
<1>7. ASSUME prog.pc \in Testing, card' = card, prog' = NextTest
      PROVE  WhereItIs' /\ ZeroMeansAPass'
  <2>1. prog.ids[prog.region] \notin {"unknown", "HPR_PARENT_ALPHA"}
    BY <1>7 DEF WhereItIs, Calculators
  <2>2. CASE prog' = [prog EXCEPT !.pc = "rst0", !.i = prog.i + 1]
    BY <1>0, <1>1, <1>7, <2>2 DEF WhereItIs, Answered, Testing, Program
  <2>3. CASE prog' = Returned(prog.region, "zero")
    BY <1>1, <1>7, <2>1, <2>3, ReturnedAnswers
  <2> QED
    BY <1>7, <2>2, <2>3 DEF NextTest
<1>8. ASSUME prog.pc \in Testing, card' = card, prog' \in Program, prog'.pc \in Testing,
             prog'.region = prog.region, prog'.ids = prog.ids, prog'.ret = prog.ret,
             prog'.status = prog.status
      PROVE  WhereItIs' /\ ZeroMeansAPass'
  BY <1>0, <1>1, <1>8 DEF WhereItIs, Answered, Testing, Program
<1>9. CASE reset_pr_logic \/ Operands \/ Increment \/ ReadHigh \/ CheckResult
  <2>0. prog' \in Program
    BY CalcTypeStep DEF CalcTypeOK
  <2>1. CASE reset_pr_logic
    BY <1>0, <1>7, <1>8, <2>0, <2>1
       DEF reset_pr_logic, uio_write_u32, Access, Testing, Program
  <2>2. CASE Operands \/ Increment \/ ReadHigh
    BY <1>0, <1>8, <2>0, <2>2
       DEF Operands, Increment, ReadHigh, uio_write_u32, uio_read_u32, Access, Testing, Program
  <2>3. CASE CheckResult
    BY <1>2, <1>7, <2>3 DEF CheckResult, uio_read_u32, Access, Testing, Fails
  <2> QED
    BY <1>9, <2>1, <2>2, <2>3
<1>10. CASE Ddr4Test \/ GolTest
  <2>1. /\ prog.region = "top" /\ card' = card
        /\ prog.ids[prog.region] \notin {"unknown", "HPR_PARENT_ALPHA"}
        /\ prog.pc \in {"ddr4", "gol"}
    BY <1>10 DEF Ddr4Test, GolTest, WhereItIs
  <2>2. CASE prog' = Returned("top", "zero")
    BY <1>1, <2>1, <2>2, ReturnedAnswers
  <2> QED
    BY <1>2, <1>10, <2>1, <2>2 DEF Ddr4Test, GolTest, Fails
<1>11. CASE Close
  <2>1. /\ prog.pc = "close" /\ card' = card
        /\ prog' = [Fresh EXCEPT !.status = prog.ret["top"], !.ret = prog.ret, !.ids = prog.ids]
    BY <1>11 DEF Close, Local
  <2>2. /\ prog'.status = prog.ret["top"] /\ prog'.ret = prog.ret /\ prog'.ids = prog.ids
        /\ prog'.pc = "off" /\ prog'.region = "top"
    BY <2>1 DEF Fresh
  <2>3. WhereItIs'
    BY <1>0, <2>1, <2>2 DEF WhereItIs, Answered, Testing, Program
  <2>4. ZeroMeansAPass'
    <3> SUFFICES ASSUME prog.ret["top"] = "zero"
                 PROVE  ZeroMeansAPass'
      BY <2>2 DEF ZeroMeansAPass
    <3>1. CASE prog.region = "top"
      <4>1. {r \in Regions : prog.ids[r] \notin {"unknown", "HPR_PARENT_ALPHA"}} = {"top"}
        BY <2>1, <3>1, RegionsAre DEF WhereItIs, Answered, Testing
      <4> QED
        BY <2>2, <4>1 DEF ZeroMeansAPass
    <3>2. CASE prog.region = "child1"
      <4>1. /\ Answered("child0") /\ Answered("child1") /\ prog.ids["top"] = "HPR_PARENT_ALPHA"
            /\ prog.ret["child0"] = "zero" \/ prog.ret["child1"] = "zero"
        BY <2>1, <3>2 DEF WhereItIs, BothReturned
      <4> QED
        BY <2>2, <4>1, RegionsAre DEF ZeroMeansAPass, Answered
    <3> QED
      BY <2>1, <3>1, <3>2 DEF WhereItIs
  <2> QED
    BY <2>3, <2>4
<1>12. CASE Kill
  BY <1>2, <1>12 DEF Kill
<1> QED
  BY <1>3, <1>4, <1>5, <1>6, <1>9, <1>10, <1>11, <1>12 DEF Next, ProgramStep, Tick, vars

\* One clock moves the operands one register on.
LEMMA PipelineTick ==
    ASSUME CalcTypeOK, WhereItIs, Pipeline, CalcTick, UNCHANGED <<card, prog>>
    PROVE  Pipeline'
<1> DEFINE r == prog.region
           c == calc[r]
<1>0. /\ prog \in Program /\ r \in Regions /\ c \in Calculator /\ gap \in 0 .. CalcGap
      /\ CalcGap \in Nat /\ CalcGap >= 3
      /\ gap' = IF gap < CalcGap THEN gap + 1 ELSE gap
  BY GapAssumption DEF CalcTypeOK, Program, CalcTick
<1> SUFFICES ASSUME prog.pc \in {"a", "b", "high", "low"}
             PROVE  Pipeline'
  BY DEF Pipeline
<1>1. prog.ids[r] \in Calculators /\ card[r] = prog.ids[r]
  BY <1>0 DEF WhereItIs, Testing, Calculators
<1>2. calc'[r] = IF IsDsp THEN BasicDsp(c) ELSE BasicArithmetic(c)
  BY <1>0, <1>1 DEF CalcTick, IsDsp, Calculators
<1>3. IsDsp' <=> IsDsp
  BY DEF IsDsp
<1>4. c.regs.ctrl = 0 /\ (c.clr => prog.pc = "a")
  BY DEF Pipeline
<1>5. /\ ~calc'[r].clr_q /\ (~c.clr_q \/ IsDsp => ~calc'[r].clr)
      /\ ~c.clr => calc'[r].regs = c.regs
      /\ calc'[r].regs.ctrl = 0
  <2>1. /\ calc'[r].clr_q = (c.regs.ctrl = 1)
        /\ calc'[r].regs = IF c.clr THEN Cleared ELSE c.regs
    BY <1>2 DEF BasicDsp, BasicArithmetic
  <2>2. calc'[r].clr = IF IsDsp THEN ~c.clr_q /\ c.regs.ctrl = 1 ELSE c.clr_q /\ c.regs.ctrl = 0
    BY <1>2 DEF BasicDsp, BasicArithmetic
  <2>3. ~(c.regs.ctrl = 1)
    BY <1>4
  <2>4. ~calc'[r].clr_q /\ (~c.clr_q \/ IsDsp => ~calc'[r].clr)
    BY <2>1, <2>2, <2>3, Zenon
  <2>5. Cleared.ctrl = 0
    BY DEF Cleared
  <2> QED
    BY <1>4, <2>1, <2>4, <2>5, Zenon
<1>6. ~IsDsp => /\ calc'[r].in = <<c.regs.a, c.regs.b>>
                /\ calc'[r].out = (c.in[1] + c.in[2]) % WordSize
  BY <1>2 DEF BasicArithmetic
<1>7. IsDsp /\ ~c.clr =>
          /\ calc'[r].in = <<c.regs.a % DspSize, c.regs.b % DspSize>>
          /\ calc'[r].mid = c.in
          /\ calc'[r].out = c.mid[1] * c.mid[2]
  BY <1>2, <1>4 DEF BasicDsp
<1>8. \A x \in Narrow : x % DspSize = x
  BY WordAssumption DEF Narrow
<1>9. CASE prog.pc = "a"
  BY <1>0, <1>3, <1>5, <1>9 DEF Pipeline
<1>10. CASE prog.pc = "b"
  BY <1>0, <1>3, <1>4, <1>5, <1>10 DEF Pipeline
<1>11. CASE prog.pc \in {"high", "low"} /\ ~IsDsp
  <2>1. c.regs.a = prog.a /\ c.regs.b = prog.b /\ ~c.clr /\ ~c.clr_q /\ prog.pc = "low"
    BY <1>11 DEF Pipeline
  <2>2. gap >= 1 => c.in = <<prog.a, prog.b>>
    BY <1>11 DEF Pipeline
  <2>3. gap' >= 2 => gap >= 1
    BY <1>0
  <2> QED
    BY <1>3, <1>5, <1>6, <1>11, <2>1, <2>2, <2>3 DEF Pipeline
<1>12. CASE prog.pc \in {"high", "low"} /\ IsDsp
  <2>1. /\ c.regs.a = prog.a /\ c.regs.b = prog.b /\ ~c.clr /\ ~c.clr_q
        /\ prog.a \in Narrow /\ prog.b \in Narrow
    BY <1>12 DEF Pipeline
  <2>2. calc'[r].in = <<prog.a, prog.b>>
    BY <1>7, <1>8, <1>12, <2>1
  <2>3. (gap' >= 2 => gap >= 1) /\ (gap' >= 3 => gap >= 2)
    BY <1>0
  <2>4. CASE prog.pc = "high"
    BY <1>3, <1>5, <1>7, <1>12, <2>1, <2>2, <2>3, <2>4 DEF Pipeline
  <2>5. CASE prog.pc = "low"
    BY <1>3, <1>5, <1>7, <1>12, <2>1, <2>2, <2>5 DEF Pipeline
  <2> QED
    BY <1>12, <2>4, <2>5
<1> QED
  BY <1>9, <1>10, <1>11, <1>12

\* The accesses of the program.
LEMMA PipelineStep ==
    ASSUME CalcTypeOK, WhereItIs, Pipeline, [Next]_vars
    PROVE  Pipeline'
<1> DEFINE r == prog.region
           c == calc[r]
<1>0. /\ prog \in Program /\ r \in Regions /\ calc \in [Regions -> Calculator]
      /\ CalcGap \in Nat /\ CalcGap >= 3
  BY GapAssumption DEF CalcTypeOK, Program
<1>1. CASE CalcTick /\ UNCHANGED <<card, prog>>
  BY <1>1, PipelineTick
<1>2. CASE UNCHANGED <<calc, gap, prog>>
  BY <1>2 DEF Pipeline, IsDsp
<1>3. ASSUME prog'.pc \notin {"a", "b", "high", "low"}
      PROVE  Pipeline'
  BY <1>3 DEF Pipeline
<1>4. \A s \in Regions, ret \in {"zero", "einval"} :
          Returned(s, ret).pc \notin {"a", "b", "high", "low"}
  BY <1>0, RegionsAre DEF Returned, Program
<1>5. NextTest.pc \notin {"a", "b", "high", "low"} /\ Fails.pc = "off"
  BY <1>0, <1>4 DEF NextTest, Fails, Fresh, Program
<1>6. CASE Start \/ uio_open \/ ReadIds \/ Dispatch \/ Close \/ Kill
  <2>1. prog'.pc \notin {"a", "b", "high", "low"}
    <3>1. CASE Start \/ uio_open \/ Close \/ Kill
      BY <1>0, <3>1 DEF Start, uio_open, Close, Kill, Local, Fresh, Program
    <3>2. CASE ReadIds
      BY <1>0, <3>2 DEF ReadIds, Local, Program
    <3>3. CASE Dispatch
      BY <1>0, <1>4, <3>3 DEF Dispatch, Local, Program
    <3> QED
      BY <1>6, <3>1, <3>2, <3>3
  <2> QED
    BY <1>3, <2>1
<1>7. CASE reset_pr_logic
  <2>1. CASE prog' = [prog EXCEPT !.pc = "a"] /\ gap' = 0
             /\ calc' = [calc EXCEPT ![r].regs.ctrl = 0]
    <3>1. prog'.pc = "a" /\ prog'.region = r /\ calc'[r].regs.ctrl = 0
      BY <1>0, <2>1 DEF Program, Calculator
    <3> QED
      BY <2>1, <3>1 DEF Pipeline
  <2>2. prog' = [prog EXCEPT !.pc = "a"] \/ prog'.pc \notin {"a", "b", "high", "low"}
    BY <1>0, <1>5, <1>7 DEF reset_pr_logic, uio_write_u32, Access, Program
  <2>3. CASE prog' = [prog EXCEPT !.pc = "a"]
    <3>1. prog'.pc = "a"
      BY <1>0, <2>3 DEF Program
    <3> QED
      BY <1>0, <1>7, <2>1, <2>3, <3>1 DEF reset_pr_logic, uio_write_u32, Access, Program
  <2> QED
    BY <1>3, <2>2, <2>3
<1>8. CASE Operands
  <2>1. PICK a \in Values, b \in Values :
            /\ IsDsp => a < DspSize - 1 /\ b < DspSize - 1
            /\ Access("a", [prog EXCEPT !.pc = "b", !.a = a, !.b = b])
            /\ calc' = [calc EXCEPT ![prog.region].regs.a = a]
    BY <1>8 DEF Operands
  <2>2. /\ prog.pc = "a" /\ gap >= 2
        /\ c.regs.ctrl = 0 /\ ~c.clr_q /\ ~c.clr
    BY <1>0, <2>1 DEF Access, Pipeline
  <2>3. /\ prog'.pc = "b" /\ prog'.a = a /\ prog'.b = b /\ prog'.region = r
        /\ prog'.ids = prog.ids
    BY <1>0, <2>1 DEF Access, Program
  <2>4. /\ calc'[r].regs.a = a /\ calc'[r].regs.ctrl = 0
        /\ calc'[r].clr_q = c.clr_q /\ calc'[r].clr = c.clr
    BY <1>0, <2>1, <2>2 DEF Calculator
  <2>5. IsDsp => a \in Narrow /\ b \in Narrow
    BY <2>1, WordAssumption DEF Narrow, Word
  <2> QED
    BY <2>2, <2>3, <2>4, <2>5 DEF Pipeline, IsDsp
<1>9. CASE Increment
  <2>1. /\ prog.pc = "b" /\ c.regs.ctrl = 0 /\ ~c.clr_q /\ ~c.clr /\ c.regs.a = prog.a
        /\ IsDsp => prog.a \in Narrow /\ prog.b \in Narrow
    BY <1>9 DEF Increment, uio_write_u32, Access, Pipeline
  <2>2. /\ prog' = [prog EXCEPT !.pc = IF IsDsp THEN "high" ELSE "low"] /\ gap' = 0
        /\ calc' = [calc EXCEPT ![r].regs.b = prog.b]
    BY <1>9 DEF Increment, uio_write_u32, Access
  <2>3. /\ prog'.pc = IF IsDsp THEN "high" ELSE "low"
        /\ prog'.a = prog.a /\ prog'.b = prog.b /\ prog'.region = r /\ prog'.ids = prog.ids
    BY <1>0, <2>2 DEF Program
  <2>4. /\ calc'[r].regs.b = prog.b /\ calc'[r].regs.a = prog.a /\ calc'[r].regs.ctrl = 0
        /\ calc'[r].clr_q = c.clr_q /\ calc'[r].clr = c.clr
    BY <1>0, <2>1, <2>2 DEF Calculator
  <2>5. ~(gap' >= 1) /\ ~(gap' >= 2) /\ ~(gap' >= 3)
    BY <2>2
  <2>6. IsDsp' <=> IsDsp
    BY <2>3 DEF IsDsp
  <2> QED
    BY <2>1, <2>3, <2>4, <2>5, <2>6 DEF Pipeline
<1>10. CASE ReadHigh
  <2>1. /\ prog.pc = "high" /\ gap = CalcGap /\ calc' = calc
        /\ prog' = [prog EXCEPT !.pc = "low", !.high = c.out \div WordSize]
    BY <1>10 DEF ReadHigh, uio_read_u32, Access
  <2>2. /\ prog'.pc = "low" /\ prog'.high = c.out \div WordSize
        /\ prog'.a = prog.a /\ prog'.b = prog.b /\ prog'.region = r /\ prog'.ids = prog.ids
    BY <1>0, <2>1 DEF Program
  <2>3. gap >= 1 /\ gap >= 2 /\ gap >= 3
    BY <1>0, <2>1
  <2>4. IsDsp /\ IsDsp'
    BY <2>1, <2>2 DEF Pipeline, IsDsp
  <2> QED
    BY <2>1, <2>2, <2>3, <2>4 DEF Pipeline
<1>11. CASE CheckResult
  <2>1. prog' \in {NextTest, Fails}
    BY <1>11 DEF CheckResult, uio_read_u32, Access
  <2> QED
    BY <1>3, <1>5, <2>1
<1>12. CASE Ddr4Test \/ GolTest
  BY <1>2, <1>3, <1>4, <1>5, <1>12, RegionsAre DEF Ddr4Test, GolTest, calcVars
<1> QED
  BY <1>1, <1>2, <1>6, <1>7, <1>8, <1>9, <1>10, <1>11, <1>12
     DEF Next, ProgramStep, Tick, vars, calcVars

LEMMA CalcInvariant == Spec => []CalcInv
<1>1. Init => CalcInv
  <2> SUFFICES ASSUME Init
               PROVE  CalcInv
    OBVIOUS
  <2>1. CalcTypeOK
    BY CalculatorTypes, NarrowIsWord, GapAssumption DEF Init, CalcTypeOK, Unused
  <2>2. WhereItIs /\ ZeroMeansAPass /\ Pipeline
    BY DEF Init, Fresh, WhereItIs, ZeroMeansAPass, Pipeline, Testing
  <2> QED
    BY <2>1, <2>2 DEF CalcInv
<1>2. CalcInv /\ [Next]_vars => CalcInv'
  BY CalcTypeStep, WhereStep, PipelineStep DEF CalcInv
<1> QED
  BY <1>1, <1>2, PTL DEF Spec

\* An exit status of 0 tells that something was tested and that nothing the
\* program knows has failed (WhereItIs is the induction).
THEOREM ZeroIsAPass == Spec => []ZeroMeansAPass
  BY CalcInvariant, PTL DEF CalcInv

-----------------------------------------------------------------------------
(* The game of life: the board after n generations, and the neighbours.    *)

LEMMA NatInduction1 ==
    ASSUME NEW S \in SUBSET Nat, 0 \in S, \A n \in S : n + 1 \in S
    PROVE  S = Nat
<1> SUFFICES ASSUME S # Nat
             PROVE  FALSE
  OBVIOUS
<1> DEFINE T == Nat \ S
           R == OpToRel(<, Nat)
<1>1. T \subseteq Nat /\ T # {}
  OBVIOUS
<1>2. \E x \in T : \A y \in T : ~ (<<y, x>> \in R)
  <2> HIDE DEF T
  <2> QED
    BY <1>1, WFMin, NatLessThanWellFounded
<1>3. PICK x \in T : \A y \in T : ~ (<<y, x>> \in R)
  BY <1>2
<1>4. \A y \in T : ~(y < x)
  BY <1>3 DEF OpToRel
<1>5. x - 1 \in Nat /\ x - 1 \notin T
  BY <1>4
<1> QED
  BY <1>5

\* The first n generations of a board, as a function.
FirstGenerations(g, n, board) ==
    /\ g \in [0 .. n -> SUBSET G!Cells]
    /\ g[0] = board
    /\ \A k \in 0 .. n - 1 : g[k + 1] = G!Life(g[k])

LEMMA LifeIsABoard ==
    ASSUME NEW b
    PROVE  G!Life(b) \in SUBSET G!Cells
  BY DEF G!Life

LEMMA FirstGenerationsExist ==
    ASSUME NEW board \in SUBSET G!Cells
    PROVE  \A n \in Nat : \E g : FirstGenerations(g, n, board)
<1> DEFINE S == {n \in Nat : \E g : FirstGenerations(g, n, board)}
<1>1. 0 \in S
  <2>1. FirstGenerations([k \in 0 .. 0 |-> board], 0, board)
    BY DEF FirstGenerations
  <2> QED
    BY <2>1
<1>2. ASSUME NEW n \in S
      PROVE  n + 1 \in S
  <2>1. PICK g : FirstGenerations(g, n, board)
    BY <1>2
  <2> DEFINE h == [k \in 0 .. n + 1 |-> IF k <= n THEN g[k] ELSE G!Life(g[n])]
  <2>2. \A k \in 0 .. n + 1 : h[k] \in SUBSET G!Cells
    BY <2>1, LifeIsABoard DEF FirstGenerations
  <2>3. h \in [0 .. n + 1 -> SUBSET G!Cells]
    BY <2>2
  <2>4. ASSUME NEW k \in 0 .. (n + 1) - 1
        PROVE  h[k + 1] = G!Life(h[k])
    <3>1. k \in 0 .. n /\ k + 1 \in 0 .. n + 1 /\ h[k] = g[k]
      OBVIOUS
    <3>2. CASE k = n
      BY <3>1, <3>2
    <3>3. CASE k # n
      <4>1. k \in 0 .. n - 1 /\ k + 1 <= n
        BY <3>1, <3>3
      <4> QED
        BY <2>1, <3>1, <4>1 DEF FirstGenerations
    <3> QED
      BY <3>2, <3>3
  <2>5. h[0] = board
    BY <2>1 DEF FirstGenerations
  <2> HIDE DEF h
  <2>6. FirstGenerations(h, n + 1, board)
    BY <2>3, <2>4, <2>5 DEF FirstGenerations
  <2> QED
    BY <2>6
<1> HIDE DEF S
<1>3. S = Nat
  BY <1>1, <1>2, NatInduction1 DEF S
<1> QED
  BY <1>3 DEF S

LEMMA FirstGenerationsAgree ==
    ASSUME NEW board, NEW m \in Nat, NEW n \in Nat, NEW g, NEW h,
           FirstGenerations(g, m, board), FirstGenerations(h, n, board)
    PROVE  \A k \in Nat : k <= m /\ k <= n => g[k] = h[k]
<1> DEFINE S == {k \in Nat : k <= m /\ k <= n => g[k] = h[k]}
<1>1. 0 \in S
  BY DEF FirstGenerations
<1>2. ASSUME NEW k \in S
      PROVE  k + 1 \in S
  BY <1>2 DEF FirstGenerations
<1> HIDE DEF S
<1>3. S = Nat
  BY <1>1, <1>2, NatInduction1 DEF S
<1> QED
  BY <1>3 DEF S

\* The definition of Generations is sound: there is such a function, so the
\* one it chooses follows the rules of the game.
LEMMA GenerationsFollow ==
    ASSUME NEW board \in SUBSET G!Cells
    PROVE  /\ G!Generations(board)[0] = board
           /\ \A n \in Nat : G!Generations(board)[n + 1] = G!Life(G!Generations(board)[n])
<1> DEFINE a(n) == CHOOSE g : FirstGenerations(g, n, board)
           f == [n \in Nat |-> a(n)[n]]
           gens == G!Generations(board)
<1>1. \A n \in Nat : FirstGenerations(a(n), n, board)
  BY FirstGenerationsExist
<1> HIDE DEF a
<1>2. f = [n \in Nat |-> IF n = 0 THEN board ELSE G!Life(f[n - 1])]
  <2> SUFFICES ASSUME NEW n \in Nat
               PROVE  a(n)[n] = IF n = 0 THEN board ELSE G!Life(f[n - 1])
    OBVIOUS
  <2>1. CASE n = 0
    BY <1>1, <2>1 DEF FirstGenerations
  <2>2. CASE n # 0
    <3>1. n - 1 \in Nat /\ n - 1 <= n /\ n - 1 \in 0 .. n - 1
      BY <2>2
    <3>2. f[n - 1] = a(n - 1)[n - 1]
      BY <3>1
    <3>3. FirstGenerations(a(n - 1), n - 1, board) /\ FirstGenerations(a(n), n, board)
      BY <1>1, <3>1
    <3>4. a(n - 1)[n - 1] = a(n)[n - 1]
      BY <3>1, <3>3, FirstGenerationsAgree
    <3>5. a(n)[(n - 1) + 1] = G!Life(a(n)[n - 1])
      BY <3>1, <3>3 DEF FirstGenerations
    <3> QED
      BY <2>2, <3>2, <3>4, <3>5
  <2> QED
    BY <2>1, <2>2
<1> HIDE DEF f
<1>3. gens = CHOOSE x : x = [n \in Nat |-> IF n = 0 THEN board ELSE G!Life(x[n - 1])]
  BY DEF G!Generations
<1>4. gens = [n \in Nat |-> IF n = 0 THEN board ELSE G!Life(gens[n - 1])]
  <2> HIDE DEF gens
  <2> QED
    BY <1>2, <1>3
<1> HIDE DEF gens
<1>5. gens[0] = board
  BY <1>4
<1>6. ASSUME NEW n \in Nat
      PROVE  gens[n + 1] = G!Life(gens[n])
  <2>1. n + 1 \in Nat /\ n + 1 # 0 /\ (n + 1) - 1 = n
    OBVIOUS
  <2>2. gens[n + 1] = G!Life(gens[(n + 1) - 1])
    BY <1>4, <2>1
  <2> QED
    BY <2>1, <2>2
<1> QED
  BY <1>5, <1>6 DEF gens

LEMMA SmallMultiple ==
    ASSUME NEW N \in Nat \ {0}, NEW k \in Int, N * k < N, -N < N * k
    PROVE  k = 0
<1>1. CASE k >= 1
  BY <1>1
<1>2. CASE k <= -1
  BY <1>2
<1> QED
  BY <1>1, <1>2

LEMMA DivModUnique ==
    ASSUME NEW N \in Nat \ {0}, NEW q \in Int, NEW r \in 0 .. N - 1
    PROVE  (N * q + r) % N = r /\ (N * q + r) \div N = q
<1> DEFINE x == N * q + r
<1>1. x \in Int
  OBVIOUS
<1>2. x % N \in 0 .. N - 1 /\ x \div N \in Int /\ x = N * (x \div N) + (x % N)
  <2> HIDE DEF x
  <2> QED
    BY <1>1, DivMod
<1>3. N * (q - x \div N) = (x % N) - r
  BY <1>2
<1> QED
  BY <1>1, <1>2, <1>3, SmallMultiple

\* The coordinate next to i in direction x on a ring of N.
Beside(N, i, x) == IF i + x < 0 THEN N - 1 ELSE IF i + x > N - 1 THEN 0 ELSE i + x

LEMMA BesideIs ==
    ASSUME NEW N \in Nat, N >= 3, NEW i \in 0 .. N - 1, NEW x \in {-1, 0, 1}
    PROVE  (i + x + N) % N = Beside(N, i, x) /\ Beside(N, i, x) \in 0 .. N - 1
<1>1. N \in Nat \ {0} /\ x \in Int /\ i \in Int
  OBVIOUS
<1>2. Beside(N, i, x) \in 0 .. N - 1
  BY <1>1 DEF Beside
<1>3. CASE i + x < 0
  <2>1. i + x + N = N * 0 + (N - 1) /\ Beside(N, i, x) = N - 1
    BY <1>1, <1>3 DEF Beside
  <2> QED
    BY <1>1, <1>2, <2>1, DivModUnique
<1>4. CASE i + x > N - 1
  <2>1. i + x + N = N * 2 + 0 /\ Beside(N, i, x) = 0
    BY <1>1, <1>4 DEF Beside
  <2> QED
    BY <1>1, <1>2, <2>1, DivModUnique
<1>5. CASE i + x \in 0 .. N - 1
  <2>1. i + x + N = N * 1 + (i + x) /\ Beside(N, i, x) = i + x
    BY <1>1, <1>5 DEF Beside
  <2>2. (N * 1 + (i + x)) % N = i + x
    BY <1>1, <1>5, DivModUnique
  <2> QED
    BY <1>2, <2>1, <2>2
<1> QED
  BY <1>1, <1>2, <1>3, <1>4, <1>5

\* Two coordinates are at most one apart on the ring exactly when one is
\* beside the other, in one direction only.
LEMMA BesideIsNear ==
    ASSUME NEW N \in Nat, N >= 3, NEW i \in 0 .. N - 1, NEW k \in 0 .. N - 1
    PROVE  /\ (i - k) % N \in {0, 1, N - 1} <=> \E x \in {-1, 0, 1} : k = Beside(N, i, x)
           /\ \A x, y \in {-1, 0, 1} : Beside(N, i, x) = Beside(N, i, y) => x = y
<1>1. N \in Nat \ {0} /\ i \in Int /\ k \in Int
  OBVIOUS
<1>2. (i - k) % N = IF i >= k THEN i - k ELSE i - k + N
  <2>1. CASE i >= k
    <3>1. i - k = N * 0 + (i - k) /\ i - k \in 0 .. N - 1
      BY <1>1, <2>1
    <3> QED
      BY <1>1, <2>1, <3>1, DivModUnique
  <2>2. CASE i < k
    <3>1. i - k = N * (-1) + (i - k + N) /\ i - k + N \in 0 .. N - 1
      BY <1>1, <2>2
    <3> QED
      BY <1>1, <2>2, <3>1, DivModUnique
  <2> QED
    BY <1>1, <2>1, <2>2
<1>3. (i - k) % N \in {0, 1, N - 1} =>
          k = Beside(N, i, 0) \/ k = Beside(N, i, 1) \/ k = Beside(N, i, -1)
  BY <1>1, <1>2 DEF Beside
<1>4. k = Beside(N, i, 0) \/ k = Beside(N, i, 1) \/ k = Beside(N, i, -1) =>
          (i - k) % N \in {0, 1, N - 1}
  BY <1>1, <1>2 DEF Beside
<1>5. \A x, y \in {-1, 0, 1} : Beside(N, i, x) = Beside(N, i, y) => x = y
  BY <1>1 DEF Beside
<1> QED
  BY <1>3, <1>4, <1>5

LEMMA CellParts ==
    ASSUME NEW c \in G!Cells
    PROVE  /\ c % Rows \in 0 .. Rows - 1 /\ c \div Rows \in 0 .. Rows - 1
           /\ c = (c % Rows) + (c \div Rows) * Rows
<1>1. Rows \in Nat \ {0} /\ Cols = Rows /\ c \in Nat /\ c < Rows * Rows
  BY BoardAssumption DEF G!Cells
<1>2. /\ c % Rows \in 0 .. Rows - 1 /\ c \div Rows \in Int
      /\ c = Rows * (c \div Rows) + (c % Rows)
  BY <1>1, DivMod
<1>3. c \div Rows >= 0
  BY <1>1, <1>2
<1>4. c \div Rows < Rows
  <2> SUFFICES ASSUME c \div Rows >= Rows
               PROVE  FALSE
    BY <1>1, <1>2
  <2> Rows * (c \div Rows) >= Rows * Rows
    BY <1>1, <1>2
  <2> QED
    BY <1>1, <1>2
<1> QED
  BY <1>1, <1>2, <1>3, <1>4

LEMMA CellFromParts ==
    ASSUME NEW i \in 0 .. Rows - 1, NEW j \in 0 .. Rows - 1
    PROVE  /\ i + j * Rows \in G!Cells
           /\ (i + j * Rows) % Rows = i /\ (i + j * Rows) \div Rows = j
<1>1. Rows \in Nat \ {0} /\ Cols = Rows /\ i \in Nat /\ j \in Nat
  BY BoardAssumption
<1>2. i + j * Rows = Rows * j + i /\ i + j * Rows \in Nat
  BY <1>1
<1>3. j * Rows <= (Rows - 1) * Rows
  BY <1>1
<1>4. i + j * Rows < Rows * Rows
  BY <1>1, <1>3
<1>5. i + j * Rows \in G!Cells
  BY <1>1, <1>2, <1>4 DEF G!Cells
<1> QED
  BY <1>1, <1>2, <1>5, DivModUnique

\* The cell of c in direction x along a row and y across them.
Wire(c, x, y) == Beside(Rows, c % Rows, x) + Beside(Rows, c \div Rows, y) * Rows

\* On a board of at least three by three the eight directions lead to the
\* eight cells that touch c, each to one of its own.
LEMMA WiresTouch ==
    ASSUME NEW c \in G!Cells
    PROVE  /\ \A x, y \in {-1, 0, 1} : <<x, y>> # <<0, 0>> => Wire(c, x, y) \in G!Touching[c]
           /\ \A x, y, u, v \in {-1, 0, 1} : Wire(c, x, y) = Wire(c, u, v) => x = u /\ y = v
           /\ \A e \in G!Touching[c] : \E x, y \in {-1, 0, 1} :
                 <<x, y>> # <<0, 0>> /\ Wire(c, x, y) = e
<1> DEFINE i == c % Rows
           j == c \div Rows
<1>0. Rows \in Nat /\ Rows >= 3 /\ Cols = Rows
  BY BoardAssumption
<1>1. i \in 0 .. Rows - 1 /\ j \in 0 .. Rows - 1
  BY CellParts
<1>2. \A x, y \in {-1, 0, 1} :
          /\ Wire(c, x, y) \in G!Cells
          /\ Wire(c, x, y) % Rows = Beside(Rows, i, x)
          /\ Wire(c, x, y) \div Rows = Beside(Rows, j, y)
  BY <1>0, <1>1, BesideIs, CellFromParts DEF Wire
<1>3. G!Touching[c] = {e \in G!Cells : G!Touch(c, e)}
  BY DEF G!Touching
<1>4. \A e \in G!Cells : e % Rows \in 0 .. Rows - 1 /\ e \div Rows \in 0 .. Rows - 1
  BY CellParts
<1>5. \A e \in G!Cells : G!Touch(c, e) <=>
          /\ c # e
          /\ \E x \in {-1, 0, 1} : e % Rows = Beside(Rows, i, x)
          /\ \E y \in {-1, 0, 1} : e \div Rows = Beside(Rows, j, y)
  BY <1>0, <1>1, <1>4, BesideIsNear DEF G!Touch, G!Row, G!Column
<1>6. Beside(Rows, i, 0) = i /\ Beside(Rows, j, 0) = j
  BY <1>0, <1>1 DEF Beside
<1>7. \A x, y, u, v \in {-1, 0, 1} : Wire(c, x, y) = Wire(c, u, v) => x = u /\ y = v
  <2>1. \A x, y \in {-1, 0, 1} : /\ Beside(Rows, i, x) = Beside(Rows, i, y) => x = y
                                 /\ Beside(Rows, j, x) = Beside(Rows, j, y) => x = y
    BY <1>0, <1>1, BesideIsNear
  <2> QED
    BY <1>2, <2>1
<1>8. ASSUME NEW x \in {-1, 0, 1}, NEW y \in {-1, 0, 1}, <<x, y>> # <<0, 0>>
      PROVE  Wire(c, x, y) \in G!Touching[c]
  <2>1. Wire(c, 0, 0) = c
    BY <1>6, CellParts DEF Wire
  <2>2. Wire(c, x, y) # c
    <3>1. 0 \in {-1, 0, 1} /\ (x # 0 \/ y # 0)
      BY <1>8
    <3> QED
      BY <1>7, <2>1, <3>1
  <2> QED
    BY <1>2, <1>3, <1>5, <2>2
<1>9. ASSUME NEW e \in G!Touching[c]
      PROVE  \E x, y \in {-1, 0, 1} : <<x, y>> # <<0, 0>> /\ Wire(c, x, y) = e
  <2>0. e \in G!Cells /\ G!Touch(c, e)
    BY <1>3
  <2>1. PICK x \in {-1, 0, 1} : e % Rows = Beside(Rows, i, x)
    BY <1>5, <2>0
  <2>2. PICK y \in {-1, 0, 1} : e \div Rows = Beside(Rows, j, y)
    BY <1>5, <2>0
  <2>3. Wire(c, x, y) = e
    BY <2>0, <2>1, <2>2, CellParts DEF Wire
  <2>4. ~(x = 0 /\ y = 0)
    <3> SUFFICES ASSUME x = 0, y = 0
                 PROVE  FALSE
      OBVIOUS
    <3>1. Wire(c, 0, 0) = c
      BY <1>6, CellParts DEF Wire
    <3> QED
      BY <1>5, <2>0, <2>3, <3>1
  <2> QED
    BY <2>3, <2>4
<1> QED
  BY <1>7, <1>8, <1>9

\* The instance counts as the program does.
LEMMA SameCardinality ==
    ASSUME NEW S
    PROVE  G!Cardinality(S) = Cardinality(S)
  BY DEF G!Cardinality, Cardinality

\* What is counted along the eight directions is what touches.
LEMMA CountAround ==
    ASSUME NEW c \in G!Cells, NEW b,
           NEW F \in Bijection(G!Around, G!Touching[c])
    PROVE  Cardinality({d \in G!Around : F[d] \in b}) = Cardinality(G!Touching[c] \cap b)
<1> DEFINE S == {d \in G!Around : F[d] \in b}
           T == G!Touching[c] \cap b
           H == [d \in S |-> F[d]]
<1>1. /\ F \in [G!Around -> G!Touching[c]]
      /\ \A d, e \in G!Around : F[d] = F[e] => d = e
      /\ \A t \in G!Touching[c] : \E s \in G!Around : F[s] = t
  BY Fun_BijectionProperties
<1>2. H \in [S -> T]
  BY <1>1
<1>3. \A d, e \in S : H[d] = H[e] => d = e
  BY <1>1
<1>4. \A t \in T : \E s \in S : H[s] = t
  BY <1>1
<1>5. H \in Bijection(S, T)
  <2> HIDE DEF H, S, T
  <2> QED
    BY <1>2, <1>3, <1>4, Fun_IsBij
<1>6. ExistsBijection(T, S)
  <2> HIDE DEF H, S, T
  <2>1. ExistsBijection(S, T)
    BY <1>5, Fun_ExistsBij
  <2> QED
    BY <2>1, Fun_ExistsBijSymmetric
<1>7. IsFiniteSet(T)
  <2>1. Rows * Cols - 1 \in Int
    BY BoardAssumption
  <2>2. IsFiniteSet(G!Cells)
    BY <2>1, FS_Interval DEF G!Cells
  <2>3. T \in SUBSET G!Cells
    BY DEF G!Touching
  <2> HIDE DEF T
  <2> QED
    BY <2>2, <2>3, FS_Subset
<1> HIDE DEF S, T
<1>8. Cardinality(S) = Cardinality(T)
  BY <1>6, <1>7, FS_Bijection
<1> QED
  BY <1>8 DEF S, T

\* gol_cell.v, with the wires of block.sv, computes the rules of the game.
THEOREM NextCellsIsLife ==
    ASSUME cells \in SUBSET G!Cells
    PROVE  G!NextCells = G!Life(cells)
<1>0. Rows \in Nat /\ Rows >= 3 /\ Cols = Rows
  BY BoardAssumption
<1>1. ASSUME NEW c \in G!Cells
      PROVE  Cardinality({d \in G!Around : G!NeighborWire[c][d] \in cells})
               = Cardinality(G!Touching[c] \cap cells)
  <2> DEFINE F == G!NeighborWire[c]
  <2>1. c % Rows \in 0 .. Rows - 1 /\ c \div Rows \in 0 .. Rows - 1
    BY CellParts
  <2>2. \A d \in G!Around : d[1] \in {-1, 0, 1} /\ d[2] \in {-1, 0, 1}
                            /\ d = <<d[1], d[2]>> /\ <<d[1], d[2]>> # <<0, 0>>
    BY DEF G!Around
  <2>3. \A x, y \in {-1, 0, 1} : <<x, y>> # <<0, 0>> => <<x, y>> \in G!Around
    BY DEF G!Around
  <2>4. F = [d \in G!Around |-> (((c % Rows) + d[1] + Rows) % Rows)
                                 + (((c \div Rows) + d[2] + Cols) % Cols) * Rows]
    BY DEF G!NeighborWire
  <2> HIDE DEF F
  <2>5. \A d \in G!Around : F[d] = Wire(c, d[1], d[2])
    BY <1>0, <2>1, <2>2, <2>4, BesideIs DEF Wire
  <2>6. F \in [G!Around -> G!Touching[c]]
    BY <2>2, <2>4, <2>5, WiresTouch
  <2>7. \A d, e \in G!Around : F[d] = F[e] => d = e
    BY <2>2, <2>5, WiresTouch
  <2>8. \A t \in G!Touching[c] : \E s \in G!Around : F[s] = t
    BY <2>3, <2>5, WiresTouch
  <2>9. F \in Bijection(G!Around, G!Touching[c])
    BY <2>6, <2>7, <2>8, Fun_IsBij
  <2> QED
    BY <2>9, CountAround DEF F
<1> DEFINE ones(c) == Cardinality({d \in G!Around : G!NeighborWire[c][d] \in cells})
           n(c) == Cardinality(G!Touching[c] \cap cells)
<1>2. G!NextCells = {c \in G!Cells : IF c \in cells THEN ones(c) \in {2, 3} ELSE ones(c) = 3}
  BY SameCardinality DEF G!NextCells
<1>3. G!Life(cells) = {c \in G!Cells : n(c) = 3 \/ (n(c) = 2 /\ c \in cells)}
  BY SameCardinality DEF G!Life
<1>4. \A c \in G!Cells : ones(c) = n(c)
  BY <1>1
<1> HIDE DEF ones, n
<1> QED
  BY <1>2, <1>3, <1>4

\* So do calculate_neighbors() and apply_gol_rules() of the host program.
LEMMA HostRulesAreLife ==
    ASSUME NEW b \in SUBSET G!Cells
    PROVE  G!apply_gol_rules(b, G!calculate_neighbors(b)) = G!Life(b)
<1>0. Rows \in Nat /\ Rows >= 3 /\ Cols = Rows
  BY BoardAssumption
<1> DEFINE Count(c) == {d \in G!Around : (((c % Cols) + d[2] + Rows) % Rows)
                                          + (((c \div Cols) + d[1] + Cols) % Cols) * Cols \in b}
<1>1. ASSUME NEW c \in G!Cells
      PROVE  Cardinality(Count(c)) = Cardinality(G!Touching[c] \cap b)
  <2> DEFINE F == [d \in G!Around |-> (((c % Cols) + d[2] + Rows) % Rows)
                                       + (((c \div Cols) + d[1] + Cols) % Cols) * Cols]
  <2>1. c % Rows \in 0 .. Rows - 1 /\ c \div Rows \in 0 .. Rows - 1
    BY CellParts
  <2>2. \A d \in G!Around : d[1] \in {-1, 0, 1} /\ d[2] \in {-1, 0, 1}
                            /\ d = <<d[1], d[2]>> /\ <<d[2], d[1]>> # <<0, 0>>
    BY DEF G!Around
  <2>3. \A x, y \in {-1, 0, 1} : <<x, y>> # <<0, 0>> => <<y, x>> \in G!Around
    BY DEF G!Around
  <2>4. \A d \in G!Around : F[d] = Wire(c, d[2], d[1])
    BY <1>0, <2>1, <2>2, BesideIs DEF Wire
  <2>5. Count(c) = {d \in G!Around : F[d] \in b}
    OBVIOUS
  <2>6. DOMAIN F = G!Around /\ F = [d \in G!Around |-> F[d]]
    OBVIOUS
  <2> HIDE DEF F, Count
  <2>7. F \in [G!Around -> G!Touching[c]]
    BY <2>2, <2>4, <2>6, WiresTouch
  <2>8. \A d, e \in G!Around : F[d] = F[e] => d = e
    BY <2>2, <2>4, WiresTouch
  <2>9. \A t \in G!Touching[c] : \E s \in G!Around : F[s] = t
    BY <2>3, <2>4, WiresTouch
  <2>10. F \in Bijection(G!Around, G!Touching[c])
    BY <2>7, <2>8, <2>9, Fun_IsBij
  <2> QED
    BY <2>5, <2>10, CountAround
<1> DEFINE ones == G!calculate_neighbors(b)
           n(c) == Cardinality(G!Touching[c] \cap b)
<1>2. ones = [c \in G!Cells |-> Cardinality(Count(c))]
  BY SameCardinality DEF G!calculate_neighbors
<1> HIDE DEF Count, ones
<1>3. G!apply_gol_rules(b, ones) = {c \in G!Cells : IF c \in b THEN ones[c] \in {2, 3} ELSE ones[c] = 3}
  BY DEF G!apply_gol_rules
<1>4. G!Life(b) = {c \in G!Cells : n(c) = 3 \/ (n(c) = 2 /\ c \in b)}
  BY SameCardinality DEF G!Life
<1>5. \A c \in G!Cells : ones[c] = n(c)
  BY <1>1, <1>2
<1> HIDE DEF n
<1> QED
  BY <1>3, <1>4, <1>5 DEF ones

\* The game on the host is the game.
THEOREM HostPlaysTheGame ==
    ASSUME NEW board \in SUBSET G!Cells, NEW runs \in Nat
    PROVE  G!run_gol_verify(board, runs) = G!Generations(board)[runs]
<1> DEFINE gens == G!Generations(board)
           rules == [b \in SUBSET G!Cells |-> G!apply_gol_rules(b, G!calculate_neighbors(b))]
           cur == CHOOSE x : x = [n \in 0 .. runs |-> IF n = 0 THEN board ELSE rules[x[n - 1]]]
           f == [n \in 0 .. runs |-> gens[n]]
<1>1. gens[0] = board /\ \A n \in Nat : gens[n + 1] = G!Life(gens[n])
  BY GenerationsFollow
<1>2. G!run_gol_verify(board, runs) = cur[runs]
  BY DEF G!run_gol_verify
<1> HIDE DEF gens
<1>3. \A b \in SUBSET G!Cells : rules[b] = G!Life(b)
  BY HostRulesAreLife
<1> HIDE DEF rules
<1>4. \A n \in Nat : gens[n] \in SUBSET G!Cells
  <2>1. ASSUME NEW n \in Nat
        PROVE  gens[n] \in SUBSET G!Cells
    <3>1. CASE n = 0
      BY <1>1, <3>1
    <3>2. CASE n # 0
      <4>1. n - 1 \in Nat /\ (n - 1) + 1 = n
        BY <3>2
      <4>2. gens[(n - 1) + 1] = G!Life(gens[n - 1])
        BY <1>1, <4>1
      <4> QED
        BY <4>1, <4>2, LifeIsABoard
    <3> QED
      BY <3>1, <3>2
  <2> QED
    BY <2>1
<1>5. f = [n \in 0 .. runs |-> IF n = 0 THEN board ELSE rules[f[n - 1]]]
  <2>1. ASSUME NEW n \in 0 .. runs
        PROVE  gens[n] = IF n = 0 THEN board ELSE rules[f[n - 1]]
    <3>1. CASE n = 0
      BY <1>1, <3>1
    <3>2. CASE n # 0
      <4>1. n - 1 \in Nat /\ n - 1 \in 0 .. runs /\ (n - 1) + 1 = n
        BY <3>2
      <4>2. gens[(n - 1) + 1] = G!Life(gens[n - 1])
        BY <1>1, <4>1
      <4>3. f[n - 1] = gens[n - 1]
        BY <4>1
      <4> QED
        BY <1>3, <1>4, <3>2, <4>1, <4>2, <4>3
    <3> QED
      BY <3>1, <3>2
  <2> QED
    BY <2>1
<1> HIDE DEF f
<1>6. cur = [n \in 0 .. runs |-> IF n = 0 THEN board ELSE rules[cur[n - 1]]]
  BY <1>5
<1> HIDE DEF cur
<1> DEFINE S == {n \in Nat : n <= runs => cur[n] = gens[n]}
<1>7. 0 \in S
  BY <1>1, <1>6
<1>8. ASSUME NEW n \in S
      PROVE  n + 1 \in S
  <2> SUFFICES ASSUME n + 1 <= runs
               PROVE  cur[n + 1] = gens[n + 1]
    OBVIOUS
  <2>1. n \in Nat /\ n + 1 \in 0 .. runs /\ n <= runs /\ (n + 1) - 1 = n /\ n + 1 # 0
    OBVIOUS
  <2>2. cur[n] = gens[n]
    BY <2>1
  <2>3. cur[n + 1] = rules[cur[(n + 1) - 1]]
    BY <1>6, <2>1
  <2> QED
    BY <1>1, <1>3, <1>4, <2>1, <2>2, <2>3
<1> HIDE DEF S
<1>9. S = Nat
  BY <1>7, <1>8, NatInduction1 DEF S
<1> QED
  BY <1>2, <1>9 DEF S, gens

-----------------------------------------------------------------------------
(* The game of life: the persona and the program.                          *)

GolTypeOK ==
    /\ gregs \in [ctrl : SUBSET {"clr", "start"}, limit : Runs \cup {0},
                  top : SUBSET G!TopHalf, bottom : SUBSET G!BottomHalf]
    /\ mod \in [clr_q : BOOLEAN, clr : BOOLEAN, start_d : BOOLEAN, start_pulse : BOOLEAN,
                start_game : BOOLEAN, limit : Runs \cup {0}, board : SUBSET G!Cells,
                counter : Nat]
    /\ \E n \in Runs \cup {0} : mod.counter \in 0 .. n
    /\ cells \in SUBSET G!Cells
    /\ board_final \in SUBSET G!Cells
    /\ ghost \in [pc : G!PCs, collecting : BOOLEAN, runs : Runs \cup {0},
                  board : SUBSET G!Cells, top : SUBSET G!Cells, result : SUBSET G!Cells,
                  exit : {"none", "killed", "passed", "mismatch"}]
    /\ ggap \in 0 .. GolGap

\* No game runs and none is about to.
Quiet == ~mod.start_d /\ ~mod.start_pulse /\ ~mod.start_game

\* The reset: the bit is down long enough for its rise to be seen, and when
\* the registers are loaded the clear is over.
GolReset ==
    /\ ghost.pc = "rst1" =>
          gregs.ctrl = {} /\ (ggap >= 1 => ~mod.clr_q /\ ~mod.clr)
    /\ ghost.pc = "rst2" =>
          \/ gregs.ctrl = {"clr"} /\ ggap = 0 /\ ~mod.clr_q /\ ~mod.clr
          \/ gregs.ctrl = {"clr"} /\ mod.clr_q /\ mod.clr
          \/ gregs.ctrl = {} /\ ~mod.clr /\ Quiet
    /\ ghost.pc = "top" =>
          /\ gregs.ctrl = {} /\ (mod.clr \/ Quiet)
          /\ ggap >= 1 => Quiet /\ ~mod.clr_q /\ ~mod.clr

\* The load: the moderator has the board and the limit when the start comes.
GolLoad ==
    /\ ghost.pc \in {"bottom", "limit", "low", "start", "stop", "poll"} =>
          ~mod.clr_q /\ ~mod.clr /\ gregs.top = ghost.board \cap G!TopHalf
    /\ ghost.pc \in {"bottom", "limit", "low", "start"} => gregs.ctrl = {} /\ Quiet
    /\ ghost.pc \in {"limit", "low", "start", "stop", "poll"} =>
          gregs.bottom = ghost.board \cap G!BottomHalf
    /\ ghost.pc \in {"low", "start", "stop", "poll"} => gregs.limit = ghost.runs
    /\ ghost.pc \in {"start", "stop", "poll"} \/ (ghost.pc = "low" /\ ggap >= 1) =>
          mod.limit = ghost.runs /\ mod.board = ghost.board

TheGame == G!Generations(ghost.board)

\* The game: the start is not seen yet, its pulse, the generations so far,
\* and the end of the game.
GolPlay ==
    ghost.pc \in {"stop", "poll"} =>
        /\ gregs.ctrl = IF ghost.pc = "stop" THEN {"start"} ELSE {}
        /\ \/ ghost.pc = "stop" /\ ggap = 0 /\ Quiet
           \/ /\ mod.start_pulse /\ mod.start_d /\ ~mod.start_game
              /\ ghost.pc = "poll" => ggap = 0
           \/ /\ ~mod.start_pulse /\ (ghost.pc = "stop" => mod.start_d) /\ mod.start_game
              /\ mod.counter <= ghost.runs /\ cells = TheGame[mod.counter]
           \/ /\ ~mod.start_pulse /\ (ghost.pc = "stop" => mod.start_d) /\ ~mod.start_game
              /\ cells = TheGame[ghost.runs]

\* The result stands in the cells, whatever the second reset clears.
GolCollect ==
    /\ ghost.pc \in {"top", "bottom", "limit", "low", "start", "stop", "poll"} => ~ghost.collecting
    /\ ghost.pc \in {"rtop", "rbottom", "verify"} => ghost.collecting
    /\ ghost.pc \in {"rst0", "rst1", "rst2", "rtop", "rbottom"} /\ ghost.collecting =>
          /\ "start" \notin gregs.ctrl /\ ~mod.start_pulse /\ ~G!counting
          /\ cells = TheGame[ghost.runs]
          /\ ghost.pc # "rst0" \/ ggap >= 1 => board_final = cells
    /\ ghost.pc = "rbottom" => ghost.top = TheGame[ghost.runs] \cap G!TopHalf
    /\ ghost.pc = "verify" => ghost.result = TheGame[ghost.runs]

GolInv == GolTypeOK /\ GolReset /\ GolLoad /\ GolPlay /\ GolCollect

LEMMA GenerationsAreBoards ==
    ASSUME NEW board \in SUBSET G!Cells, NEW n \in Nat
    PROVE  G!Generations(board)[n] \in SUBSET G!Cells
<1>1. CASE n = 0
  BY <1>1, GenerationsFollow
<1>2. CASE n # 0
  <2>1. n - 1 \in Nat /\ (n - 1) + 1 = n
    BY <1>2
  <2>2. G!Generations(board)[(n - 1) + 1] = G!Life(G!Generations(board)[n - 1])
    BY <2>1, GenerationsFollow
  <2> QED
    BY <2>1, <2>2, LifeIsABoard
<1> QED
  BY <1>1, <1>2

LEMMA Halves ==
    /\ G!TopHalf \subseteq G!Cells /\ G!BottomHalf \subseteq G!Cells
    /\ G!TopHalf \cup G!BottomHalf = G!Cells
  BY DEF G!TopHalf, G!BottomHalf

LEMMA RunsAreNat == \A n \in Runs \cup {0} : n \in Nat
  BY BoardAssumption

\* The registers after a clock.
LEMMA GolClock ==
    ASSUME GolTypeOK, G!Tick
    PROVE  /\ mod'.clr_q <=> "clr" \in gregs.ctrl
           /\ mod'.clr <=> ~mod.clr_q /\ "clr" \in gregs.ctrl
           /\ mod'.start_d <=> ~mod.clr /\ "start" \in gregs.ctrl
           /\ mod'.start_pulse <=> ~mod.clr /\ ~mod.start_d /\ "start" \in gregs.ctrl
           /\ mod'.start_game <=> ~mod.clr /\ (IF mod.start_game THEN G!counting ELSE mod.start_pulse)
           /\ mod'.limit = IF mod.clr THEN 0 ELSE gregs.limit
           /\ mod'.board = IF mod.clr THEN {} ELSE gregs.top \cup gregs.bottom
           /\ mod'.counter = G!Counter
           /\ gregs' = IF mod.clr THEN G!ClearedRegs ELSE gregs
           /\ ghost' = ghost
           /\ ggap' = IF ggap < GolGap THEN ggap + 1 ELSE ggap
           /\ ggap' >= 1
           /\ cells' = IF mod.start_pulse THEN mod.board
                       ELSE IF G!counting THEN G!NextCells ELSE cells
           /\ board_final' = IF mod.start_pulse THEN {} ELSE cells
<1>1. mod' = G!Moderator
  BY DEF G!Tick
<1>2. /\ mod'.clr_q = ("clr" \in gregs.ctrl)
      /\ mod'.clr = (~mod.clr_q /\ "clr" \in gregs.ctrl)
      /\ mod'.start_d = (~mod.clr /\ "start" \in gregs.ctrl)
      /\ mod'.start_pulse = (~mod.clr /\ ~mod.start_d /\ "start" \in gregs.ctrl)
      /\ mod'.start_game = (~mod.clr /\ (IF mod.start_game THEN G!counting ELSE mod.start_pulse))
  BY <1>1, Zenon DEF G!Moderator
<1>3. /\ mod'.limit = IF mod.clr THEN 0 ELSE gregs.limit
      /\ mod'.board = IF mod.clr THEN {} ELSE gregs.top \cup gregs.bottom
      /\ mod'.counter = G!Counter
  BY <1>1 DEF G!Moderator
<1>4. ggap' >= 1
  BY GapAssumption DEF G!Tick, GolTypeOK
<1> QED
  BY <1>2, <1>3, <1>4, Zenon DEF G!Tick

LEMMA GolTypeTick ==
    ASSUME GolTypeOK, G!Tick
    PROVE  GolTypeOK'
<1>0. /\ mod.counter \in Nat /\ mod.limit \in Runs \cup {0}
      /\ mod.limit \in Nat /\ GolGap \in Nat
  <2>1. mod.counter \in Nat /\ mod.limit \in Runs \cup {0}
    BY DEF GolTypeOK
  <2> QED
    BY <2>1, RunsAreNat, GapAssumption
<1>1. \E n \in Runs \cup {0} : G!Counter \in 0 .. n
  <2>1. CASE G!Counter = 0
    BY <2>1
  <2>2. CASE G!Counter = mod.counter
    BY <2>2 DEF GolTypeOK
  <2>3. CASE G!Counter = mod.counter + 1 /\ mod.counter < mod.limit
    <3>1. G!Counter \in 0 .. mod.limit
      BY <1>0, <2>3
    <3> QED
      BY <1>0, <3>1
  <2> QED
    BY <2>1, <2>2, <2>3 DEF G!Counter, G!counting
<1>2. G!Counter \in Nat
  BY <1>0 DEF G!Counter
<1>3. G!Moderator \in [clr_q : BOOLEAN, clr : BOOLEAN, start_d : BOOLEAN,
                       start_pulse : BOOLEAN, start_game : BOOLEAN, limit : Runs \cup {0},
                       board : SUBSET G!Cells, counter : Nat]
  <2>1. gregs.top \cup gregs.bottom \in SUBSET G!Cells /\ gregs.limit \in Runs \cup {0}
    BY Halves DEF GolTypeOK
  <2>2. (~mod.clr /\ (IF mod.start_game THEN G!counting ELSE mod.start_pulse)) \in BOOLEAN
    OBVIOUS
  <2>3. /\ ("clr" \in gregs.ctrl) \in BOOLEAN
        /\ (~mod.clr_q /\ "clr" \in gregs.ctrl) \in BOOLEAN
        /\ (~mod.clr /\ "start" \in gregs.ctrl) \in BOOLEAN
        /\ (~mod.clr /\ ~mod.start_d /\ "start" \in gregs.ctrl) \in BOOLEAN
    OBVIOUS
  <2>4. /\ (IF mod.clr THEN 0 ELSE gregs.limit) \in Runs \cup {0}
        /\ (IF mod.clr THEN {} ELSE gregs.top \cup gregs.bottom) \in SUBSET G!Cells
    BY <2>1
  <2> QED
    BY <1>2, <2>2, <2>3, <2>4, Zenon DEF G!Moderator
<1>4. gregs' \in [ctrl : SUBSET {"clr", "start"}, limit : Runs \cup {0},
                  top : SUBSET G!TopHalf, bottom : SUBSET G!BottomHalf]
  BY GolClock DEF GolTypeOK, G!ClearedRegs
<1>5. cells' \in SUBSET G!Cells /\ board_final' \in SUBSET G!Cells
  <2>1. G!NextCells \in SUBSET G!Cells
    BY DEF G!NextCells
  <2>2. mod.board \in SUBSET G!Cells
    BY DEF GolTypeOK
  <2> QED
    BY <2>1, <2>2, GolClock DEF GolTypeOK
<1>6. ggap' \in 0 .. GolGap
  BY <1>0, GolClock DEF GolTypeOK
<1>7. mod' = G!Moderator /\ ghost' = ghost
  BY DEF G!Tick
<1>8. mod'.counter = G!Counter
  BY GolClock
<1> QED
  BY <1>1, <1>3, <1>4, <1>5, <1>6, <1>7, <1>8 DEF GolTypeOK

LEMMA GolTick ==
    ASSUME GolInv, G!Tick
    PROVE  GolInv'
<1> USE DEF GolInv
<1>0. /\ ghost.board \in SUBSET G!Cells /\ ghost.runs \in Nat
      /\ TheGame' = TheGame /\ ghost' = ghost
      /\ G!ClearedRegs.ctrl = {}
  <2>1. ghost.board \in SUBSET G!Cells /\ ghost.runs \in Runs \cup {0}
    BY DEF GolTypeOK
  <2>2. ghost' = ghost
    BY DEF G!Tick
  <2>3. G!ClearedRegs.ctrl = {}
    BY DEF G!ClearedRegs
  <2> QED
    BY <2>1, <2>2, <2>3, RunsAreNat DEF TheGame
<1>1. GolTypeOK'
  BY GolTypeTick
<1>2. GolReset'
  <2>1. CASE ghost.pc = "rst1"
    BY <1>0, <2>1, GolClock DEF GolReset
  <2>2. CASE ghost.pc = "rst2"
    BY <1>0, <2>2, GolClock DEF GolReset, Quiet
  <2>3. CASE ghost.pc = "top"
    BY <1>0, <2>3, GolClock DEF GolReset, Quiet
  <2> QED
    BY <1>0, <2>1, <2>2, <2>3 DEF GolReset
<1>3. GolLoad'
  <2> SUFFICES ASSUME ghost.pc \in {"bottom", "limit", "low", "start", "stop", "poll"}
               PROVE  GolLoad'
    BY <1>0 DEF GolLoad
  <2>1. ~mod.clr /\ gregs' = gregs /\ mod'.limit = gregs.limit
        /\ mod'.board = gregs.top \cup gregs.bottom
    BY GolClock DEF GolLoad
  <2>2. "clr" \notin gregs.ctrl
    BY DEF GolLoad, GolPlay
  <2>3. ~mod'.clr_q /\ ~mod'.clr
    BY <2>2, GolClock
  <2>4. ghost.pc \in {"bottom", "limit", "low", "start"} => Quiet'
    BY GolClock DEF GolLoad, Quiet
  <2>5. ghost.pc \in {"low", "start", "stop", "poll"} =>
            mod'.limit = ghost.runs /\ mod'.board = ghost.board
    BY <1>0, <2>1, Halves DEF GolLoad
  <2> QED
    BY <1>0, <2>1, <2>3, <2>4, <2>5 DEF GolLoad
<1>4. GolPlay'
  <2> SUFFICES ASSUME ghost.pc \in {"stop", "poll"}
               PROVE  GolPlay'
    BY <1>0 DEF GolPlay
  <2>1. /\ ~mod.clr /\ mod.limit = ghost.runs /\ mod.board = ghost.board /\ gregs' = gregs
        /\ gregs.ctrl = IF ghost.pc = "stop" THEN {"start"} ELSE {}
    BY GolClock DEF GolLoad, GolPlay
  <2>2. mod'.start_d <=> ghost.pc = "stop"
    BY <2>1, GolClock
  <2>3. mod'.start_pulse <=> ~mod.start_d /\ ghost.pc = "stop"
    BY <2>1, GolClock
  <2>4. mod'.start_game <=> IF mod.start_game THEN G!counting ELSE mod.start_pulse
    BY <2>1, GolClock
  <2>5. CASE ghost.pc = "stop" /\ ggap = 0 /\ Quiet
    BY <1>0, <2>1, <2>2, <2>3, <2>4, <2>5 DEF GolPlay, Quiet
  <2>6. CASE mod.start_pulse /\ mod.start_d /\ ~mod.start_game
    <3>1. mod'.counter = 0 /\ cells' = ghost.board
      BY <2>1, <2>6, GolClock DEF G!Counter, G!counting
    <3>2. cells' = TheGame[mod'.counter] /\ mod'.counter <= ghost.runs
      BY <1>0, <3>1, GenerationsFollow DEF TheGame
    <3> QED
      BY <1>0, <2>1, <2>2, <2>3, <2>4, <2>6, <3>2 DEF GolPlay
  <2>7. CASE /\ ~mod.start_pulse /\ (ghost.pc = "stop" => mod.start_d) /\ mod.start_game
             /\ mod.counter <= ghost.runs /\ cells = TheGame[mod.counter]
    <3>1. mod.counter \in Nat
      BY DEF GolTypeOK
    <3>2. CASE mod.counter < ghost.runs
      <4>1. G!counting
        BY <2>1, <2>7, <3>2 DEF G!counting
      <4>2. mod'.counter = mod.counter + 1 /\ cells' = G!NextCells
        BY <2>1, <2>7, <4>1, GolClock DEF G!Counter
      <4>3. G!NextCells = G!Life(cells)
        BY NextCellsIsLife DEF GolTypeOK
      <4>4. cells' = TheGame[mod'.counter]
        BY <1>0, <2>7, <3>1, <4>2, <4>3, GenerationsFollow DEF TheGame
      <4>5. mod'.counter <= ghost.runs
        BY <1>0, <3>1, <3>2, <4>2
      <4> QED
        BY <1>0, <2>1, <2>2, <2>3, <2>4, <2>7, <4>1, <4>4, <4>5 DEF GolPlay
    <3>3. CASE mod.counter = ghost.runs
      <4>1. ~G!counting
        BY <1>0, <2>1, <3>3 DEF G!counting
      <4>2. cells' = TheGame[ghost.runs]
        BY <2>7, <3>3, <4>1, GolClock
      <4> QED
        BY <1>0, <2>1, <2>2, <2>3, <2>4, <2>7, <4>1, <4>2 DEF GolPlay
    <3> QED
      BY <1>0, <2>7, <3>1, <3>2, <3>3
  <2>8. CASE /\ ~mod.start_pulse /\ (ghost.pc = "stop" => mod.start_d) /\ ~mod.start_game
             /\ cells = TheGame[ghost.runs]
    <3>1. cells' = cells
      BY <2>8, GolClock DEF G!counting
    <3> QED
      BY <1>0, <2>1, <2>2, <2>3, <2>4, <2>8, <3>1 DEF GolPlay
  <2> QED
    BY <2>5, <2>6, <2>7, <2>8 DEF GolPlay
<1>5. GolCollect'
  <2>1. CASE ghost.pc \in {"rst0", "rst1", "rst2", "rtop", "rbottom"} /\ ghost.collecting
    <3>1. /\ "start" \notin gregs.ctrl /\ ~mod.start_pulse /\ ~G!counting
          /\ cells = TheGame[ghost.runs]
      BY <2>1 DEF GolCollect
    <3>2. cells' = cells /\ board_final' = cells /\ ~mod'.start_pulse /\ ~mod'.start_game
      BY <3>1, GolClock
    <3>3. "start" \notin gregs'.ctrl
      BY <1>0, <3>1, GolClock
    <3>4. ~G!counting'
      BY <3>2 DEF G!counting
    <3> QED
      BY <1>0, <2>1, <3>1, <3>2, <3>3, <3>4 DEF GolCollect
  <2>2. CASE ~(ghost.pc \in {"rst0", "rst1", "rst2", "rtop", "rbottom"} /\ ghost.collecting)
    BY <1>0, <2>2 DEF GolCollect
  <2> QED
    BY <2>1, <2>2
<1> QED
  BY <1>1, <1>2, <1>3, <1>4, <1>5

\* An access of the program to the persona leaves the persona's own registers
\* alone.
LEMMA GolHost ==
    ASSUME GolInv, G!Start \/ G!HostStep \/ G!Kill
    PROVE  GolInv'
<1> USE DEF GolInv
<1>0. /\ ghost.pc \in G!PCs /\ ghost.board \in SUBSET G!Cells /\ ghost.runs \in Nat
      /\ ghost.runs \in Runs \cup {0} /\ GolGap \in Nat /\ 0 \in 0 .. GolGap
  <2>1. ghost.pc \in G!PCs /\ ghost.board \in SUBSET G!Cells /\ ghost.runs \in Runs \cup {0}
    BY DEF GolTypeOK
  <2> QED
    BY <2>1, RunsAreNat, GapAssumption
<1> DEFINE Shape == [pc : G!PCs, collecting : BOOLEAN, runs : Runs \cup {0},
                     board : SUBSET G!Cells, top : SUBSET G!Cells, result : SUBSET G!Cells,
                     exit : {"none", "killed", "passed", "mismatch"}]
<1>1. /\ mod' = mod /\ cells' = cells /\ board_final' = board_final
      /\ G!counting' = G!counting /\ Quiet' = Quiet
  <2>1. UNCHANGED G!hwVars
    BY DEF G!Start, G!HostStep, G!Kill, G!ResetPrLogic, G!RunAccelerated, G!PollBusy,
           G!ReadResult, G!CheckResult, G!Write, G!Read, G!Access
  <2> QED
    BY <2>1 DEF G!hwVars, G!counting, Quiet
<1>2. ASSUME ghost' \in Shape, ggap' \in {0, ggap},
             gregs' \in [ctrl : SUBSET {"clr", "start"}, limit : Runs \cup {0},
                         top : SUBSET G!TopHalf, bottom : SUBSET G!BottomHalf]
      PROVE  GolTypeOK'
  BY <1>0, <1>1, <1>2 DEF GolTypeOK
<1>3. ASSUME NEW s \in {"none", "killed", "passed", "mismatch"}
      PROVE  G!Ended(s) \in Shape /\ G!Ended(s).pc = "idle"
  BY <1>3 DEF G!Ended, G!PCs
<1>4. ASSUME NEW s \in {"none", "killed", "passed", "mismatch"}, ghost' = G!Ended(s),
             UNCHANGED <<gregs, ggap>>
      PROVE  GolInv'
  <2>1. GolTypeOK'
    BY <1>2, <1>3, <1>4 DEF GolTypeOK
  <2>2. ghost'.pc = "idle"
    BY <1>3, <1>4
  <2> QED
    BY <2>1, <2>2 DEF GolReset, GolLoad, GolPlay, GolCollect
<1>5. CASE G!Kill \/ G!CheckResult
  BY <1>4, <1>5 DEF G!Kill, G!CheckResult
<1>6. CASE G!Start
  <2>1. PICK n \in Runs, b \in Boards :
            /\ ghost' = [G!Ended("none") EXCEPT !.pc = "rst0", !.runs = n, !.board = b]
            /\ UNCHANGED <<gregs, ggap>>
    BY <1>6 DEF G!Start
  <2>2. b \in SUBSET G!Cells
    BY BoardAssumption
  <2>3. ghost' \in Shape /\ ghost'.pc = "rst0" /\ ~ghost'.collecting
    BY <2>1, <2>2 DEF G!Ended, G!PCs
  <2>4. GolTypeOK'
    BY <1>2, <2>1, <2>3 DEF GolTypeOK
  <2> QED
    BY <2>3, <2>4 DEF GolReset, GolLoad, GolPlay, GolCollect
<1> DEFINE Moved(from, to) ==
             /\ ghost.pc = from /\ ggap >= 1 /\ ggap # 0 /\ ggap' = 0
             /\ ghost' \in Shape /\ ghost'.pc = to /\ ghost'.collecting = ghost.collecting
             /\ ghost'.runs = ghost.runs /\ ghost'.board = ghost.board
             /\ ghost'.top = ghost.top /\ TheGame' = TheGame
<1>7. ASSUME NEW from, NEW to \in G!PCs, NEW r, G!Write(from, to, r)
      PROVE  Moved(from, to) /\ gregs' = r
  <2>1. /\ ghost.pc = from /\ ggap = GolGap /\ ggap' = 0 /\ gregs' = r
        /\ ghost' = [ghost EXCEPT !.pc = to]
    BY <1>7 DEF G!Write, G!Access
  <2>2. /\ ghost' \in Shape
        /\ ghost'.pc = to /\ ghost'.collecting = ghost.collecting
        /\ ghost'.runs = ghost.runs /\ ghost'.board = ghost.board /\ ghost'.top = ghost.top
    BY <1>7, <2>1 DEF GolTypeOK
  <2>3. ggap >= 1 /\ ggap # 0
    BY <2>1, GapAssumption
  <2> QED
    BY <2>1, <2>2, <2>3 DEF TheGame
<1>8. ASSUME NEW c \in SUBSET {"clr", "start"}
      PROVE  /\ [gregs EXCEPT !.ctrl = c] \in
                   [ctrl : SUBSET {"clr", "start"}, limit : Runs \cup {0},
                    top : SUBSET G!TopHalf, bottom : SUBSET G!BottomHalf]
             /\ [gregs EXCEPT !.ctrl = c].ctrl = c
             /\ [gregs EXCEPT !.ctrl = c].limit = gregs.limit
             /\ [gregs EXCEPT !.ctrl = c].top = gregs.top
             /\ [gregs EXCEPT !.ctrl = c].bottom = gregs.bottom
  BY <1>8 DEF GolTypeOK
<1>9. CASE G!ResetPrLogic
  <2>1. CASE G!Write("rst0", "rst1", [gregs EXCEPT !.ctrl = {}])
    <3>0. "rst1" \in G!PCs
      BY DEF G!PCs
    <3>1. Moved("rst0", "rst1") /\ gregs' = [gregs EXCEPT !.ctrl = {}]
      BY <1>7, <2>1, <3>0
    <3>2. GolTypeOK' /\ gregs'.ctrl = {}
      BY <1>2, <1>8, <3>1
    <3> QED
      BY <1>1, <3>1, <3>0, <3>2 DEF GolReset, GolLoad, GolPlay, GolCollect
  <2>2. CASE G!Write("rst1", "rst2", [gregs EXCEPT !.ctrl = {"clr"}])
    <3>0. "rst2" \in G!PCs
      BY DEF G!PCs
    <3>1. Moved("rst1", "rst2") /\ gregs' = [gregs EXCEPT !.ctrl = {"clr"}]
      BY <1>7, <2>2, <3>0
    <3>2. GolTypeOK' /\ gregs'.ctrl = {"clr"}
      BY <1>2, <1>8, <3>1
    <3> QED
      BY <1>1, <3>1, <3>0, <3>2 DEF GolReset, GolLoad, GolPlay, GolCollect
  <2>3. CASE G!Write("rst2", IF ghost.collecting THEN "rtop" ELSE "top", [gregs EXCEPT !.ctrl = {}])
    <3>0. "rtop" \in G!PCs /\ "top" \in G!PCs
      BY DEF G!PCs
    <3>1. Moved("rst2", IF ghost.collecting THEN "rtop" ELSE "top") /\ gregs' = [gregs EXCEPT !.ctrl = {}]
      BY <1>7, <2>3, <3>0
    <3>2. GolTypeOK' /\ gregs'.ctrl = {}
      BY <1>2, <1>8, <3>1
    <3>3. CASE ghost.collecting
      BY <1>1, <3>1, <3>0, <3>2, <3>3 DEF GolReset, GolLoad, GolPlay, GolCollect
    <3>4. CASE ~ghost.collecting
      BY <1>1, <3>1, <3>0, <3>2, <3>4 DEF GolReset, GolLoad, GolPlay, GolCollect
    <3> QED
      BY <3>3, <3>4
  <2> QED
    BY <1>9, <2>1, <2>2, <2>3 DEF G!ResetPrLogic
<1>10. CASE G!RunAccelerated
  <2>0. {"bottom", "limit", "low", "start", "stop", "poll"} \subseteq G!PCs
    BY DEF G!PCs
  <2>1. CASE G!Write("top", "bottom", [gregs EXCEPT !.top = ghost.board \cap G!TopHalf])
    <3>0. Moved("top", "bottom") /\ gregs' = [gregs EXCEPT !.top = ghost.board \cap G!TopHalf]
      BY <1>7, <2>0, <2>1
    <3>1. GolTypeOK' /\ gregs'.ctrl = gregs.ctrl /\ gregs'.top = ghost.board \cap G!TopHalf
      BY <1>2, <3>0 DEF GolTypeOK
    <3> QED
      BY <1>1, <3>0, <3>1 DEF GolReset, GolLoad, GolPlay, GolCollect
  <2>2. CASE G!Write("bottom", "limit", [gregs EXCEPT !.bottom = ghost.board \cap G!BottomHalf])
    <3>0. Moved("bottom", "limit") /\ gregs' = [gregs EXCEPT !.bottom = ghost.board \cap G!BottomHalf]
      BY <1>7, <2>0, <2>2
    <3>1. GolTypeOK' /\ gregs'.ctrl = gregs.ctrl /\ gregs'.top = gregs.top
          /\ gregs'.bottom = ghost.board \cap G!BottomHalf
      BY <1>2, <3>0 DEF GolTypeOK
    <3> QED
      BY <1>1, <3>0, <3>1 DEF GolReset, GolLoad, GolPlay, GolCollect
  <2>3. CASE G!Write("limit", "low", [gregs EXCEPT !.limit = ghost.runs])
    <3>0. Moved("limit", "low") /\ gregs' = [gregs EXCEPT !.limit = ghost.runs]
      BY <1>7, <2>0, <2>3
    <3>1. GolTypeOK' /\ gregs'.ctrl = gregs.ctrl /\ gregs'.top = gregs.top
          /\ gregs'.bottom = gregs.bottom /\ gregs'.limit = ghost.runs
      BY <1>0, <1>2, <3>0 DEF GolTypeOK
    <3> QED
      BY <1>1, <3>0, <3>1 DEF GolReset, GolLoad, GolPlay, GolCollect
  <2>4. CASE G!Write("low", "start", [gregs EXCEPT !.ctrl = {}])
    <3>0. Moved("low", "start") /\ gregs' = [gregs EXCEPT !.ctrl = {}]
      BY <1>7, <2>0, <2>4
    <3>1. GolTypeOK' /\ gregs'.ctrl = {} /\ gregs'.top = gregs.top
          /\ gregs'.bottom = gregs.bottom /\ gregs'.limit = gregs.limit
      BY <1>2, <1>8, <3>0
    <3> QED
      BY <1>1, <3>0, <3>1 DEF GolReset, GolLoad, GolPlay, GolCollect
  <2>5. CASE G!Write("start", "stop", [gregs EXCEPT !.ctrl = {"start"}])
    <3>0. Moved("start", "stop") /\ gregs' = [gregs EXCEPT !.ctrl = {"start"}]
      BY <1>7, <2>0, <2>5
    <3>1. GolTypeOK' /\ gregs'.ctrl = {"start"} /\ gregs'.top = gregs.top
          /\ gregs'.bottom = gregs.bottom /\ gregs'.limit = gregs.limit
      BY <1>2, <1>8, <3>0
    <3> QED
      BY <1>1, <3>0, <3>1 DEF GolReset, GolLoad, GolPlay, GolCollect
  <2>6. CASE G!Write("stop", "poll", [gregs EXCEPT !.ctrl = {}])
    <3>0. Moved("stop", "poll") /\ gregs' = [gregs EXCEPT !.ctrl = {}]
      BY <1>7, <2>0, <2>6
    <3>1. GolTypeOK' /\ gregs'.ctrl = {} /\ gregs'.top = gregs.top
          /\ gregs'.bottom = gregs.bottom /\ gregs'.limit = gregs.limit
      BY <1>2, <1>8, <3>0
    <3> QED
      BY <1>1, <3>0, <3>1 DEF GolReset, GolLoad, GolPlay, GolCollect
  <2> QED
    BY <1>10, <2>1, <2>2, <2>3, <2>4, <2>5, <2>6 DEF G!RunAccelerated
<1>11. CASE G!PollBusy
  <2>1. /\ ghost.pc = "poll" /\ ggap = GolGap /\ ggap' = 0 /\ gregs' = gregs
        /\ ghost' = IF G!counting THEN ghost ELSE [ghost EXCEPT !.pc = "rst0", !.collecting = TRUE]
    BY <1>11 DEF G!PollBusy, G!Read, G!Access
  <2>2. ggap >= 1 /\ ggap # 0
    BY <2>1, GapAssumption
  <2>3. CASE G!counting
    <3>1. GolTypeOK' /\ TheGame' = TheGame
      BY <1>2, <2>1, <2>3 DEF GolTypeOK, TheGame
    <3> QED
      BY <1>1, <2>1, <2>2, <2>3, <3>1 DEF GolReset, GolLoad, GolPlay, GolCollect
  <2>4. CASE ~G!counting
    <3>1. /\ ghost' \in Shape /\ ghost'.pc = "rst0" /\ ghost'.collecting
          /\ ghost'.runs = ghost.runs /\ ghost'.board = ghost.board
      BY <2>1, <2>4 DEF GolTypeOK, G!PCs
    <3>2. GolTypeOK' /\ TheGame' = TheGame
      BY <1>2, <2>1, <3>1 DEF GolTypeOK, TheGame
    <3>3. ~mod.start_pulse /\ cells = TheGame[ghost.runs] /\ gregs.ctrl = {}
      <4>1. mod.limit = ghost.runs /\ mod.counter \in Nat
        BY <2>1 DEF GolLoad, GolTypeOK
      <4>2. mod.start_game /\ mod.counter <= ghost.runs => mod.counter = ghost.runs
        BY <1>0, <2>4, <4>1 DEF G!counting
      <4> QED
        BY <2>1, <2>2, <4>2 DEF GolPlay
    <3> QED
      BY <1>1, <2>1, <2>4, <3>1, <3>2, <3>3 DEF GolReset, GolLoad, GolPlay, GolCollect
  <2> QED
    BY <2>3, <2>4
<1>12. CASE G!ReadResult
  <2>0. /\ ggap' = 0 /\ gregs' = gregs /\ ghost.pc \in {"rtop", "rbottom"}
        /\ ghost.collecting /\ board_final = TheGame[ghost.runs]
        /\ cells = board_final
    BY <1>12 DEF G!ReadResult, G!Read, G!Access, GolCollect
  <2>1. CASE ghost' = [ghost EXCEPT !.pc = "rbottom", !.top = board_final \cap G!TopHalf]
             /\ ghost.pc = "rtop"
    <3>1. board_final \cap G!TopHalf \in SUBSET G!Cells
      BY DEF GolTypeOK
    <3>2. /\ ghost' \in Shape /\ ghost'.pc = "rbottom" /\ ghost'.collecting
          /\ ghost'.runs = ghost.runs /\ ghost'.board = ghost.board
          /\ ghost'.top = board_final \cap G!TopHalf
      BY <2>0, <2>1, <3>1 DEF GolTypeOK, G!PCs
    <3>3. GolTypeOK' /\ TheGame' = TheGame
      BY <1>2, <2>0, <3>2 DEF GolTypeOK, TheGame
    <3> QED
      BY <1>1, <2>0, <2>1, <3>2, <3>3 DEF GolReset, GolLoad, GolPlay, GolCollect
  <2>2. CASE /\ ghost' = [ghost EXCEPT !.pc = "verify",
                            !.result = ghost.top \cup (board_final \cap G!BottomHalf)]
             /\ ghost.pc = "rbottom"
    <3>1. ghost.top \cup (board_final \cap G!BottomHalf) = TheGame[ghost.runs]
      <4>1. ghost.top = TheGame[ghost.runs] \cap G!TopHalf
        BY <2>2 DEF GolCollect
      <4>2. TheGame[ghost.runs] \in SUBSET G!Cells
        BY <2>0 DEF GolTypeOK
      <4> QED
        BY <2>0, <4>1, <4>2, Halves
    <3>2. TheGame[ghost.runs] \in SUBSET G!Cells
      BY <2>0 DEF GolTypeOK
    <3>3. /\ ghost' \in Shape /\ ghost'.pc = "verify" /\ ghost'.collecting
          /\ ghost'.runs = ghost.runs /\ ghost'.board = ghost.board
          /\ ghost'.result = TheGame[ghost.runs]
      BY <2>0, <2>2, <3>1, <3>2 DEF GolTypeOK, G!PCs
    <3>4. GolTypeOK' /\ TheGame' = TheGame
      BY <1>2, <2>0, <3>3 DEF GolTypeOK, TheGame
    <3> QED
      BY <1>1, <2>0, <2>2, <3>3, <3>4 DEF GolReset, GolLoad, GolPlay, GolCollect
  <2> QED
    BY <1>12, <2>1, <2>2 DEF G!ReadResult, G!Read, G!Access
<1> QED
  BY <1>5, <1>6, <1>9, <1>10, <1>11, <1>12 DEF G!HostStep

LEMMA GolInvariant == G!Spec => []GolInv
<1>1. G!Init => GolInv
  <2> SUFFICES ASSUME G!Init
               PROVE  GolInv
    OBVIOUS
  <2>1. GolTypeOK
    BY GapAssumption DEF G!Init, GolTypeOK, G!ClearedRegs, G!Ended, G!PCs
  <2>2. ghost.pc = "idle"
    BY DEF G!Init, G!Ended
  <2> QED
    BY <2>1, <2>2 DEF GolInv, GolReset, GolLoad, GolPlay, GolCollect
<1>2. GolInv /\ [G!Next]_(G!vars) => GolInv'
  <2> SUFFICES ASSUME GolInv, [G!Next]_(G!vars)
               PROVE  GolInv'
    OBVIOUS
  <2>1. CASE UNCHANGED G!vars
    BY <2>1 DEF G!vars, GolInv, GolTypeOK, GolReset, GolLoad, GolPlay, GolCollect,
                Quiet, TheGame, G!counting
  <2> QED
    BY <2>1, GolTick, GolHost DEF G!Next
<1> QED
  BY <1>1, <1>2, PTL DEF G!Spec

\* The board read back is the one after exactly the generations asked for, on
\* any square board of at least three by three, for any number of generations
\* and after any interrupted games.
THEOREM ReadBackIsTheGame == Spec => []ResultIsTheGame
<1>1. GolInv => ResultIsTheGame
  BY DEF GolInv, GolCollect, TheGame, ResultIsTheGame, G!ResultIsTheGame
<1> QED
  BY <1>1, ImplementsPersonas, GolInvariant, PTL

-----------------------------------------------------------------------------
(* The DDR4 sweep.                                                         *)

\* The states of the module at the memory, with the reads it is owed: it asks
\* for the word at hand once or twice, and says that a word is good or bad for
\* one clock.
MemInv ==
    /\ reads.stale + reads.live <= MaxReads
    /\ mem.state # "DATA_VERIFICATION" => ~mem.pass /\ ~mem.fail
    /\ mem.state = "DATA_VERIFICATION" =>
          (mem.pass /\ ~mem.fail) \/ (mem.fail /\ ~mem.pass /\ D!Spoilt)
    /\ mem.read => mem.state \in {"READ", "WAIT_READ_ACCEPTED"}
    /\ mem.state = "READ" => mem.read
    /\ mem.state \notin {"WAIT_READ_ACCEPTED", "WAIT_READ_DONE"} => reads.live = 0
    /\ mem.state = "WAIT_READ_ACCEPTED" => IF mem.read THEN reads.live <= 1 ELSE reads.live = 1
    /\ mem.state = "WAIT_READ_DONE" => reads.live >= 1

DdrTypeOK == D!TypeOK /\ verified \in Seq(Nat) /\ MemInv

Final == dregs.addr + dregs.offset

\* The sweep of the registers is set up in the pipeline of addresses.
Piped ==
    /\ Final < MemSize
    /\ ctl.mem_addr = dregs.addr
    /\ \A s \in 1 .. FinalStages : ctl.final[s] = Final

SetUp == dregs.offset >= 1 /\ Piped

\* The first n addresses of the sweep are verified, each by a read of its own,
\* or one of them was not.
IsSweep(v, base, n) == v = [k \in 1 .. n |-> base + k - 1]
Swept(n) ==
    \/ IsSweep(verified, dregs.addr, n) /\ (D!Spoilt => mem.fail)
    \/ D!Spoilt /\ Len(verified) < n

AccIdle == acc.state = "IDLE" /\ ~acc.busy /\ ~acc.start_tg
AccOn == acc.state = "DDR_ACCESS" /\ acc.busy /\ acc.start_tg
GenIdle == gen.state = "IDLE" /\ ~gen.start_wr
MemIdle == mem.state = "IDLE"

\* The memory is at work on one word.
MemAt(addr) == mem.addr = addr /\ mem.state # "IDLE"

\* The stages of a sweep.
Resting == AccIdle /\ GenIdle /\ MemIdle
Begun ==
    /\ SetUp /\ AccOn /\ GenIdle /\ ~gen.completed /\ gen.target = dregs.addr
    /\ MemIdle /\ Swept(0)
Active ==
    /\ SetUp /\ AccOn /\ gen.state = "ACTIVE" /\ gen.start_wr /\ ~gen.completed
    /\ gen.target \in dregs.addr .. Final
    /\ MemIdle /\ Swept(gen.target - dregs.addr)
Waiting ==
    /\ SetUp /\ AccOn /\ gen.state = "WAIT" /\ gen.start_wr /\ ~gen.completed
    /\ gen.target \in dregs.addr .. Final - 1
    /\ MemAt(gen.target) /\ Swept(gen.target - dregs.addr)
LastWord ==
    /\ SetUp /\ GenIdle /\ MemAt(Final) /\ Swept(dregs.offset)
    /\ \/ mem.state = "WRITE" /\ AccOn /\ gen.completed /\ gen.target = Final
       \/ mem.state = "WAIT_WRITE_DONE" /\ AccIdle /\ gen.completed /\ gen.target = dregs.addr
       \/ mem.state # "WRITE" /\ AccIdle /\ ~gen.completed /\ gen.target = dregs.addr
Over == Resting /\ Swept(dregs.offset + 1)

\* A sweep of one word never begins, as its first address is its last; at
\* address 0, which is never taken for a last one, it never ends.
Barred ==
    /\ Piped /\ dregs.offset = 0 /\ dregs.addr # 0 /\ gen.target = dregs.addr
    /\ Resting /\ gen.completed /\ acc.clear /\ Swept(0)
NoEnd == Piped /\ dregs.offset = 0 /\ dregs.addr = 0 /\ ~gen.completed
Endless == NoEnd /\ acc.state = "DDR_ACCESS" /\ acc.busy

\* A sweep may start.
Ready ==
    /\ SetUp /\ Resting /\ ~gen.completed /\ gen.target = dregs.addr
    /\ acc.clear /\ Swept(0)
Armed == Ready \/ Barred \/ (NoEnd /\ Resting /\ acc.clear)

Stage == Resting \/ Begun \/ Active \/ Waiting \/ LastWord \/ Endless

\* The counter of the persona counts the verified addresses.
Counted == Endless \/ perf = Len(verified)

\* The pulses of the control register, by the clocks since it was written: the
\* clear and the start never meet.
Pulses ==
    /\ "clr" \in dregs.ctrl =>
          /\ dregs.ctrl = {"clr"}
          /\ \/ dgap = 0 /\ ~ctl.clr /\ ~ctl.clr_d
             \/ dgap = 1 /\ ctl.clr /\ ctl.clr_d
    /\ ctl.clr => dgap = 1 /\ dregs.ctrl = {"clr"}
    /\ ctl.clr_d => dgap \in {1, 2}
    /\ ctl.start_d => dgap = 0 \/ "start" \in dregs.ctrl
    /\ "start" \in dregs.ctrl =>
          /\ dregs.ctrl = {"start"}
          /\ dgap = 0 <=> ~ctl.start_d
          /\ dgap \in {0, 1, 2} => Armed
    /\ ctl.start_pulse <=> dgap = 1 /\ "start" \in dregs.ctrl
    /\ ctl.start_operation <=> dgap = 2 /\ "start" \in dregs.ctrl

\* Nothing is left of an earlier sweep but answers nobody waits for.
Clean == Resting /\ Swept(0) /\ "start" \notin dregs.ctrl /\ "clr" \notin dregs.ctrl

\* Those come within MaxWait clocks of each other.
Draining == reads.stale > 0 => dgap <= 2 + (MaxReads - reads.stale) * (MaxWait + 1) + age

\* An answer beside the one to the word at hand is to a read asked for twice.
Surplus == reads.stale > 0 \/ reads.live = 2 \/ (mem.read /\ reads.live = 1)
Own == Surplus \/ "misread" \in wrong => "twice" \in wrong

\* The most clocks until the word at hand is verified.
Rank ==
    CASE mem.state = "WAIT_WRITE_DONE"    -> 3 * MaxWait + 5 - held
      [] mem.state = "READ"               -> 2 * MaxWait + 4
      [] mem.state = "WAIT_READ_ACCEPTED" -> 2 * MaxWait + 3 - held
      [] mem.state = "WAIT_READ_DONE"     -> MaxWait + 2 - age
      [] OTHER                            -> 1

\* What the program knows of the persona.
SweepAt ==
    /\ dhost.pc = "rst1" => dregs.ctrl = {}
    /\ dhost.pc = "rst2" =>
          \/ dgap \in {0, 1} /\ dregs.ctrl = {"clr"}
          \/ dgap >= 2 /\ Clean /\ Draining /\ (dgap >= 3 => acc.clear)
    /\ dhost.pc \in {"cal", "seed", "load", "seedback", "addr", "offset", "start"} =>
          Clean /\ reads.stale = 0 /\ acc.clear
    /\ dhost.pc \in {"load", "seedback"} => dregs.seed = 1
    /\ dhost.pc \in {"offset", "start", "stop", "poll", "check"} =>
          dregs.addr = dhost.base /\ dhost.offset \in Offsets /\ dhost.base + dhost.offset < MemSize
    /\ dhost.pc \in {"start", "stop", "poll", "check"} => dregs.offset = dhost.offset
    /\ dhost.pc \in {"offset", "start"} =>
          /\ dgap >= 1 \/ dhost.pc = "start" => ctl.mem_addr = dregs.addr
          /\ dgap >= 2 \/ dhost.pc = "start" => gen.target = dregs.addr
    /\ dhost.pc = "start" =>
          /\ \A s \in 1 .. FinalStages : dgap >= s => ctl.final[s] = Final
          /\ dgap > FinalStages => (gen.completed <=> dregs.offset = 0 /\ dregs.addr # 0)
    /\ dhost.pc \in {"stop", "poll", "check"} => Own
    /\ dhost.pc = "stop" =>
          /\ dregs.ctrl = {"start"}
          /\ dgap <= 2 \/ (dgap = 3 /\ Begun) \/ Active \/ Waiting \/ LastWord \/ Over
             \/ Barred \/ Endless
    /\ dhost.pc = "poll" =>
          dregs.ctrl = {} /\ (Active \/ Waiting \/ LastWord \/ Over \/ Barred \/ Endless)
    /\ dhost.pc = "check" =>
          /\ dregs.ctrl = {}
          /\ (LastWord /\ ~acc.busy /\ dgap + Rank <= 5 + 3 * MaxWait) \/ Over \/ Barred

DdrInv == DdrTypeOK /\ Counted /\ Stage /\ Pulses /\ SweepAt

\* A clock with the memory's answers.
ClockWith(ready, answer, match) ==
    /\ D!MemoryHolds(ready, answer)
    /\ D!Matches(answer, match)
    /\ ctl' = D!Controller
    /\ IF ctl.clr
       THEN /\ dregs' = D!ClearedRegs /\ acc' = D!ClearedAcc /\ gen' = D!ClearedGen
            /\ mem' = D!ClearedMem(mem.addr) /\ perf' = 0
            /\ verified' = <<>> /\ wrong' = {}
       ELSE /\ acc' = D!MemAccess /\ gen' = D!TrafficGenerator
            /\ mem' = D!DdrWrRd(ready, answer, match)
            /\ perf' = IF mem.pass THEN (perf + 1) % CounterSize ELSE perf
            /\ verified' = IF mem.pass /\ Len(verified) <= MemSize
                           THEN Append(verified, mem.addr) ELSE verified
            /\ wrong' = wrong
                 \cup (IF D!AskedTwice(ready) THEN {"twice"} ELSE {})
                 \cup (IF ~D!Compares(answer) THEN {}
                       ELSE IF reads.stale > 0 THEN {"misread"}
                       ELSE IF match THEN {} ELSE {"memory"})
            /\ UNCHANGED dregs
    /\ dgap' = IF dgap < DdrGap THEN dgap + 1 ELSE dgap
    /\ UNCHANGED dhost

LEMMA TickIsAClock ==
    ASSUME D!Tick
    PROVE  \E ready, answer, match \in BOOLEAN : ClockWith(ready, answer, match)
  BY ZenonT(60) DEF D!Tick, ClockWith

LEMMA DdrConstants ==
    /\ MaxWait \in Nat /\ MaxReads \in Nat /\ FinalStages \in Nat \ {0} /\ MemSize \in Nat \ {0}
    /\ DdrGap \in Nat /\ DdrGap >= 5 + 3 * MaxWait /\ DdrGap > FinalStages /\ DdrGap >= 5
    /\ CounterSize \in Nat /\ CounterSize > MemSize /\ CounterSize > 0
    /\ number_of_runs \in Nat /\ 0 \in D!Addresses
  BY GapAssumption, SweepAssumption, WordAssumption DEF D!Addresses

\* The types of the state, in the form the proofs use.
LEMMA DdrTypes ==
    ASSUME DdrTypeOK
    PROVE  /\ dregs.addr \in Nat /\ dregs.offset \in Nat /\ Final \in Nat
           /\ dregs.addr < MemSize
           /\ ctl.mem_addr \in Nat /\ ctl.final \in [1 .. FinalStages -> D!Addresses]
           /\ gen.target \in Nat /\ mem.addr \in Nat /\ mem.state \in D!MemStates
           /\ held \in 0 .. MaxWait /\ held \in Nat
           /\ age \in 0 .. MaxWait /\ age \in Nat /\ dgap \in 0 .. DdrGap /\ dgap \in Nat
           /\ verified \in Seq(Nat) /\ Len(verified) \in Nat /\ perf \in 0 .. CounterSize - 1
<1>1. /\ dregs.addr \in D!Addresses /\ dregs.offset \in D!Addresses
      /\ ctl.mem_addr \in D!Addresses /\ ctl.final \in [1 .. FinalStages -> D!Addresses]
      /\ gen.target \in D!Addresses /\ mem.addr \in D!Addresses /\ mem.state \in D!MemStates
      /\ held \in 0 .. MaxWait /\ age \in 0 .. MaxWait
      /\ dgap \in 0 .. DdrGap /\ verified \in Seq(Nat) /\ perf \in 0 .. CounterSize - 1
  BY DEF DdrTypeOK, D!TypeOK
<1>2. \A a \in D!Addresses : a \in Nat /\ a < MemSize
  BY DdrConstants DEF D!Addresses
<1>3. Len(verified) \in Nat
  BY <1>1
<1> QED
  BY <1>1, <1>2, <1>3, DdrConstants DEF Final

\* The reads the memory owes.
LEMMA ReadTypes ==
    ASSUME DdrTypeOK
    PROVE  /\ reads.stale \in Nat /\ reads.live \in Nat /\ reads.live <= 2
           /\ reads.stale <= MaxReads /\ MaxReads \in Nat
           /\ reads = [stale |-> reads.stale, live |-> reads.live]
<1>1. reads \in [stale : 0 .. MaxReads, live : 0 .. 2]
  BY DEF DdrTypeOK, D!TypeOK
<1> QED
  BY <1>1, DdrConstants
\* The controller after a clock.
LEMMA ControllerClock ==
    ASSUME ctl' = D!Controller
    PROVE  /\ ctl'.clr_d <=> "clr" \in dregs.ctrl
           /\ ctl'.clr <=> ~ctl.clr_d /\ "clr" \in dregs.ctrl
           /\ ctl'.start_d <=> "start" \in dregs.ctrl
           /\ ctl'.start_pulse <=> ~ctl.start_d /\ "start" \in dregs.ctrl
           /\ ctl'.start_operation <=> ctl.start_pulse
                  \/ (ctl.start_operation /\ ~acc.clear /\ ~gen.completed)
           /\ ctl'.mem_addr = dregs.addr
           /\ ctl'.final = [s \in 1 .. FinalStages |->
                               IF s = 1 THEN (dregs.addr + dregs.offset) % MemSize
                               ELSE ctl.final[s - 1]]
<1>1. /\ ctl'.clr_d = ("clr" \in dregs.ctrl)
      /\ ctl'.clr = (~ctl.clr_d /\ "clr" \in dregs.ctrl)
      /\ ctl'.start_d = ("start" \in dregs.ctrl)
      /\ ctl'.start_pulse = (~ctl.start_d /\ "start" \in dregs.ctrl)
      /\ ctl'.start_operation = (ctl.start_pulse
                  \/ (ctl.start_operation /\ ~acc.clear /\ ~gen.completed))
  BY Zenon DEF D!Controller
<1>2. /\ ctl'.mem_addr = dregs.addr
      /\ ctl'.final = [s \in 1 .. FinalStages |->
                               IF s = 1 THEN (dregs.addr + dregs.offset) % MemSize
                               ELSE ctl.final[s - 1]]
  BY DEF D!Controller
<1> QED
  BY <1>1, <1>2, Zenon


\* The other modules after a clock without a clear.
LEMMA ModulesClock ==
    ASSUME NEW ready \in BOOLEAN, NEW answer \in BOOLEAN, NEW match \in BOOLEAN,
           ClockWith(ready, answer, match), ~ctl.clr
    PROVE  /\ acc'.state = IF acc.state = "IDLE"
                           THEN IF ctl.start_operation /\ ~gen.completed THEN "DDR_ACCESS" ELSE "IDLE"
                           ELSE IF gen.completed THEN "IDLE" ELSE "DDR_ACCESS"
           /\ acc'.busy <=> acc'.state = "DDR_ACCESS"
           /\ acc'.clear <=> acc'.state = "IDLE" \/ gen.completed
           /\ acc'.start_tg <=> acc'.state = "DDR_ACCESS" /\ ~gen.completed
           /\ gen'.state = D!NextGenState
           /\ gen'.completed <=> D!NextGenState = "IDLE" /\ D!AtFinal
           /\ gen'.start_wr <=> D!NextGenState # "IDLE"
           /\ gen'.target = IF ~gen.start_wr THEN ctl.mem_addr
                            ELSE IF mem.pass \/ mem.fail THEN (gen.target + 1) % MemSize
                            ELSE gen.target
           /\ mem'.state = D!NextMemState(ready, answer)
           /\ mem'.addr = IF mem'.state = "WRITE" THEN gen.target ELSE mem.addr
           /\ mem'.read <=> mem'.state = "READ" \/ (mem'.state = "WAIT_READ_ACCEPTED" /\ ~ready)
           /\ mem'.pass <=> mem'.state = "DATA_VERIFICATION" /\ answer /\ match
           /\ mem'.fail <=> mem'.state = "DATA_VERIFICATION" /\ answer /\ ~match
           /\ dregs' = dregs
<1>1. acc' = D!MemAccess /\ gen' = D!TrafficGenerator /\ mem' = D!DdrWrRd(ready, answer, match)
      /\ dregs' = dregs
  BY DEF ClockWith
<1> DEFINE next == IF acc.state = "IDLE"
                   THEN IF ctl.start_operation /\ ~gen.completed THEN "DDR_ACCESS" ELSE "IDLE"
                   ELSE IF gen.completed THEN "IDLE" ELSE "DDR_ACCESS"
<1>2. acc' = [state |-> next, busy |-> next = "DDR_ACCESS",
              clear |-> next = "IDLE" \/ gen.completed,
              start_tg |-> next = "DDR_ACCESS" /\ ~gen.completed]
  BY <1>1 DEF D!MemAccess
<1> HIDE DEF next
<1>3. /\ acc'.state = next /\ acc'.busy = (next = "DDR_ACCESS")
      /\ acc'.clear = (next = "IDLE" \/ gen.completed)
      /\ acc'.start_tg = (next = "DDR_ACCESS" /\ ~gen.completed)
  BY <1>2, Zenon
<1>4. /\ gen'.state = D!NextGenState
      /\ gen'.completed = (D!NextGenState = "IDLE" /\ D!AtFinal)
      /\ gen'.start_wr = (D!NextGenState # "IDLE")
      /\ gen'.target = IF ~gen.start_wr THEN ctl.mem_addr
                       ELSE IF mem.pass \/ mem.fail THEN (gen.target + 1) % MemSize
                       ELSE gen.target
  BY <1>1, Zenon DEF D!TrafficGenerator
<1> DEFINE step == D!NextMemState(ready, answer)
<1>5. mem' = [state |-> step, addr |-> IF step = "WRITE" THEN gen.target ELSE mem.addr,
              write |-> step = "WRITE" \/ (step = "WAIT_WRITE_DONE" /\ ~ready),
              read |-> step = "READ" \/ (step = "WAIT_READ_ACCEPTED" /\ ~ready),
              pass |-> (step = "DATA_VERIFICATION" /\ answer) /\ match,
              fail |-> (step = "DATA_VERIFICATION" /\ answer) /\ ~match]
  BY <1>1 DEF D!DdrWrRd
<1> HIDE DEF step
<1>6. /\ mem'.state = step /\ mem'.addr = IF step = "WRITE" THEN gen.target ELSE mem.addr
      /\ mem'.read = (step = "READ" \/ (step = "WAIT_READ_ACCEPTED" /\ ~ready))
      /\ mem'.pass = ((step = "DATA_VERIFICATION" /\ answer) /\ match)
      /\ mem'.fail = ((step = "DATA_VERIFICATION" /\ answer) /\ ~match)
  BY <1>5, Zenon
<1>8. /\ acc'.state = next
      /\ acc'.busy <=> acc'.state = "DDR_ACCESS"
      /\ acc'.clear <=> acc'.state = "IDLE" \/ gen.completed
      /\ acc'.start_tg <=> acc'.state = "DDR_ACCESS" /\ ~gen.completed
  BY <1>3, Zenon
<1>9. /\ gen'.completed <=> D!NextGenState = "IDLE" /\ D!AtFinal
      /\ gen'.start_wr <=> D!NextGenState # "IDLE"
  BY <1>4, Zenon
<1>10. /\ mem'.state = step
       /\ mem'.addr = IF mem'.state = "WRITE" THEN gen.target ELSE mem.addr
       /\ mem'.read <=> mem'.state = "READ" \/ (mem'.state = "WAIT_READ_ACCEPTED" /\ ~ready)
       /\ mem'.pass <=> mem'.state = "DATA_VERIFICATION" /\ answer /\ match
       /\ mem'.fail <=> mem'.state = "DATA_VERIFICATION" /\ answer /\ ~match
  BY <1>6, Zenon
<1> QED
  BY <1>1, <1>4, <1>8, <1>9, <1>10, Zenon DEF next, step

\* The histories after a clock without a clear: only a comparison can spoil a
\* sweep, and a bad word always does.
LEMMA HistoryClock ==
    ASSUME NEW ready \in BOOLEAN, NEW answer \in BOOLEAN, NEW match \in BOOLEAN,
           ClockWith(ready, answer, match), ~ctl.clr
    PROVE  /\ verified' = IF mem.pass /\ Len(verified) <= MemSize
                          THEN Append(verified, mem.addr) ELSE verified
           /\ "twice" \in wrong' <=> "twice" \in wrong \/ D!AskedTwice(ready)
           /\ "misread" \in wrong' <=> "misread" \in wrong \/ (D!Compares(answer) /\ reads.stale > 0)
           /\ D!Spoilt' <=> D!Spoilt \/ (D!Compares(answer) /\ ~match)
                                     \/ (D!Compares(answer) /\ reads.stale > 0)
           /\ D!Compares(answer) /\ match /\ ~D!Spoilt => ~D!Spoilt'
           /\ wrong \subseteq {"memory", "misread", "twice"} => wrong' \subseteq {"memory", "misread", "twice"}
<1> DEFINE twice == IF D!AskedTwice(ready) THEN {"twice"} ELSE {}
           compared == IF ~D!Compares(answer) THEN {}
                       ELSE IF reads.stale > 0 THEN {"misread"}
                       ELSE IF match THEN {} ELSE {"memory"}
<1>1. /\ verified' = IF mem.pass /\ Len(verified) <= MemSize
                     THEN Append(verified, mem.addr) ELSE verified
      /\ wrong' = wrong \cup twice \cup compared
      /\ D!Compares(answer) /\ reads.stale > 0 /\ ~D!Spoilt => ~match
  BY DEF ClockWith, D!Matches
<1>2. /\ "twice" \in twice <=> D!AskedTwice(ready)
      /\ "misread" \notin twice /\ "memory" \notin twice /\ twice \subseteq {"memory", "misread", "twice"}
  OBVIOUS
<1>3. /\ "misread" \in compared <=> D!Compares(answer) /\ reads.stale > 0
      /\ "memory" \in compared <=> D!Compares(answer) /\ ~(reads.stale > 0) /\ ~match
      /\ "twice" \notin compared /\ compared \subseteq {"memory", "misread", "twice"}
  OBVIOUS
<1> HIDE DEF twice, compared
<1>4. /\ "twice" \in wrong' <=> "twice" \in wrong \/ D!AskedTwice(ready)
      /\ "misread" \in wrong' <=> "misread" \in wrong \/ (D!Compares(answer) /\ reads.stale > 0)
      /\ "memory" \in wrong' <=> "memory" \in wrong
                                   \/ (D!Compares(answer) /\ ~(reads.stale > 0) /\ ~match)
      /\ wrong \subseteq {"memory", "misread", "twice"} => wrong' \subseteq {"memory", "misread", "twice"}
  BY <1>1, <1>2, <1>3
<1>5. D!Spoilt' <=> "memory" \in wrong' \/ "misread" \in wrong'
  BY DEF D!Spoilt
<1> QED
  BY <1>1, <1>4, <1>5 DEF D!Spoilt

\* The memory after a clock: it answers in order and in time.
LEMMA MemoryClock ==
    ASSUME DdrTypeOK, NEW ready \in BOOLEAN, NEW answer \in BOOLEAN,
           D!MemoryHolds(ready, answer),
           NEW own, own = reads.live - (IF answer /\ reads.stale = 0 THEN 1 ELSE 0)
                                     + (IF mem.read /\ ready THEN 1 ELSE 0),
           NEW left, left = reads.stale - (IF answer /\ reads.stale > 0 THEN 1 ELSE 0)
    PROVE  /\ left \in Nat /\ own \in Nat /\ left <= reads.stale /\ left + own <= MaxReads
           /\ answer => reads.stale > 0 \/ reads.live > 0
           /\ answer /\ mem.state = "WAIT_READ_ACCEPTED" /\ ~mem.read => reads.stale > 0
           /\ IF ctl.clr \/ D!Compares(answer)
              THEN reads'.stale = left + own /\ reads'.live = 0
              ELSE reads'.stale = left /\ reads'.live = own
           /\ reads' = [stale |-> reads'.stale, live |-> reads'.live]
           /\ held' \in 0 .. MaxWait /\ age' \in 0 .. MaxWait
           /\ ~ready => held' = held + 1
           /\ ready => held' = 0
           /\ answer => age' = 0
           /\ ~answer /\ (reads.stale > 0 \/ reads.live > 0) => age' = age + 1
<1>0. /\ age \in 0 .. MaxWait /\ held \in 0 .. MaxWait /\ MaxWait \in Nat
      /\ reads.stale \in Nat /\ reads.live \in Nat /\ MaxReads \in Nat
      /\ reads.stale + reads.live <= MaxReads
  BY DdrTypes, DdrConstants, ReadTypes DEF DdrTypeOK, MemInv
<1> DEFINE pending == reads.stale + reads.live
           stale == IF answer /\ reads.stale > 0 THEN reads.stale - 1 ELSE reads.stale
           live == IF answer /\ reads.stale = 0 THEN reads.live - 1 ELSE reads.live
           all == IF mem.read /\ ready THEN live + 1 ELSE live
<1>1. /\ answer => pending > 0
      /\ mem.state = "WAIT_READ_ACCEPTED" /\ ~mem.read /\ answer => reads.stale > 0
      /\ pending > 0 /\ age = MaxWait => answer
      /\ held = MaxWait => ready
      /\ mem.read /\ ready => stale + live < MaxReads
      /\ reads' = IF ctl.clr \/ D!Compares(answer) THEN [stale |-> stale + all, live |-> 0]
                  ELSE [stale |-> stale, live |-> all]
      /\ held' = IF ready THEN 0 ELSE held + 1
      /\ age' = IF pending > 0 /\ ~answer THEN age + 1 ELSE 0
  BY DEF D!MemoryHolds
<1>2. stale = left /\ all = own
  BY <1>0
<1>3. /\ left \in Nat /\ own \in Nat /\ left <= reads.stale /\ left + own <= MaxReads
      /\ answer => reads.stale > 0 \/ reads.live > 0
  BY <1>0, <1>1
<1>4. held' \in 0 .. MaxWait /\ age' \in 0 .. MaxWait
  BY <1>0, <1>1
<1>5. ~answer /\ (reads.stale > 0 \/ reads.live > 0) => age' = age + 1
  BY <1>0, <1>1
<1> HIDE DEF stale, all, live, pending
<1>6. /\ IF ctl.clr \/ D!Compares(answer)
         THEN reads'.stale = left + own /\ reads'.live = 0
         ELSE reads'.stale = left /\ reads'.live = own
      /\ reads' = [stale |-> reads'.stale, live |-> reads'.live]
  BY <1>1, <1>2
<1> QED
  BY <1>1, <1>3, <1>4, <1>5, <1>6

\* What has been swept, one word at a time.
LEMMA SweepGrows ==
    ASSUME NEW v \in Seq(Nat), NEW base \in Nat, NEW n \in Nat
    PROVE  /\ Len(v) \in Nat
           /\ IsSweep(v, base, n) => Len(v) = n
           /\ IsSweep(v, base, 0) <=> v = <<>>
           /\ IsSweep(v, base, n) => IsSweep(Append(v, base + n), base, n + 1)
           /\ \A x : Len(Append(v, x)) = Len(v) + 1
<1>1. Len(v) \in Nat /\ \A x : Len(Append(v, x)) = Len(v) + 1
  OBVIOUS
<1>2. IsSweep(v, base, n) => Len(v) = n
  BY DEF IsSweep
<1>3. IsSweep(v, base, 0) <=> v = <<>>
  BY DEF IsSweep
<1>4. ASSUME IsSweep(v, base, n) PROVE IsSweep(Append(v, base + n), base, n + 1)
  <2> DEFINE w == Append(v, base + n)
  <2>1. Len(w) = n + 1 /\ DOMAIN w = 1 .. n + 1 /\ w = [k \in DOMAIN w |-> w[k]]
    BY <1>1, <1>2, <1>4
  <2>2. \A k \in 1 .. n + 1 : w[k] = base + k - 1
    <3>1. w[n + 1] = base + n
      BY <1>2, <1>4
    <3>2. \A k \in 1 .. n : w[k] = v[k] /\ v[k] = base + k - 1
      BY <1>2, <1>4 DEF IsSweep
    <3>3. \A k \in 1 .. n + 1 : k = n + 1 \/ k \in 1 .. n
      OBVIOUS
    <3> HIDE DEF w
    <3> QED
      BY <3>1, <3>2, <3>3
  <2> HIDE DEF w
  <2>3. w = [k \in 1 .. n + 1 |-> base + k - 1]
    BY <2>1, <2>2
  <2> QED
    BY <2>3 DEF w, IsSweep
<1> QED
  BY <1>1, <1>2, <1>3, <1>4

\* What the module at the memory says, and what it is owed.
LEMMA MemInvIs ==
    ASSUME DdrTypeOK
    PROVE  MemInv
  BY DEF DdrTypeOK

\* A clock keeps to the states of the module at the memory.
LEMMA MemInvTick ==
    ASSUME DdrTypeOK, NEW ready \in BOOLEAN, NEW answer \in BOOLEAN, NEW match \in BOOLEAN,
           ClockWith(ready, answer, match)
    PROVE  /\ MemInv'
           /\ reads' \in [stale : 0 .. MaxReads, live : 0 .. 2]
           /\ held' \in 0 .. MaxWait /\ age' \in 0 .. MaxWait
<1> DEFINE own == reads.live - (IF answer /\ reads.stale = 0 THEN 1 ELSE 0)
                             + (IF mem.read /\ ready THEN 1 ELSE 0)
           left == reads.stale - (IF answer /\ reads.stale > 0 THEN 1 ELSE 0)
<1>0. /\ reads.stale \in Nat /\ reads.live \in Nat /\ MaxReads \in Nat
      /\ mem.state \in D!MemStates
  BY DdrTypes, ReadTypes
<1>1. D!MemoryHolds(ready, answer)
  BY DEF ClockWith
<1>2. /\ left \in Nat /\ own \in Nat /\ left <= reads.stale /\ left + own <= MaxReads
      /\ answer => reads.stale > 0 \/ reads.live > 0
      /\ answer /\ mem.state = "WAIT_READ_ACCEPTED" /\ ~mem.read => reads.stale > 0
      /\ IF ctl.clr \/ D!Compares(answer)
         THEN reads'.stale = left + own /\ reads'.live = 0
         ELSE reads'.stale = left /\ reads'.live = own
      /\ reads' = [stale |-> reads'.stale, live |-> reads'.live]
      /\ held' \in 0 .. MaxWait /\ age' \in 0 .. MaxWait
  BY <1>1, MemoryClock
<1>3. CASE ctl.clr
  <2>1. mem'.state = "IDLE" /\ mem'.read = FALSE /\ mem'.pass = FALSE /\ mem'.fail = FALSE
    BY <1>3 DEF ClockWith, D!ClearedMem
  <2>2. reads'.stale = left + own /\ reads'.live = 0
    BY <1>2, <1>3
  <2> HIDE DEF own, left
  <2>3. reads'.stale \in 0 .. MaxReads /\ reads'.live \in 0 .. 2 /\ reads'.stale + reads'.live <= MaxReads
    BY <1>0, <1>2, <2>2
  <2>4. MemInv'
    BY <2>1, <2>2, <2>3 DEF MemInv
  <2> QED
    BY <1>2, <2>3, <2>4
<1>4. CASE ~ctl.clr
  <2>1. /\ mem'.state = D!NextMemState(ready, answer)
        /\ mem'.read <=> mem'.state = "READ" \/ (mem'.state = "WAIT_READ_ACCEPTED" /\ ~ready)
        /\ mem'.pass <=> mem'.state = "DATA_VERIFICATION" /\ answer /\ match
        /\ mem'.fail <=> mem'.state = "DATA_VERIFICATION" /\ answer /\ ~match
    BY <1>4, ModulesClock
  <2>2. /\ mem.state # "DATA_VERIFICATION" => ~mem.pass /\ ~mem.fail
        /\ mem.state = "DATA_VERIFICATION" => mem.pass \/ mem.fail
        /\ mem.read => mem.state \in {"READ", "WAIT_READ_ACCEPTED"}
        /\ mem.state = "READ" => mem.read
        /\ mem.state \notin {"WAIT_READ_ACCEPTED", "WAIT_READ_DONE"} => reads.live = 0
        /\ mem.state = "WAIT_READ_ACCEPTED" => IF mem.read THEN reads.live <= 1 ELSE reads.live = 1
        /\ mem.state = "WAIT_READ_DONE" => reads.live >= 1
    BY MemInvIs DEF MemInv
  <2>3. D!Compares(answer) <=> mem.state = "WAIT_READ_DONE" /\ answer
    BY DEF D!Compares
  <2>4. mem'.state = "DATA_VERIFICATION" => D!Compares(answer)
    BY <1>0, <2>1, <2>2, <2>3 DEF D!NextMemState, D!MemStates
  <2>5. D!Compares(answer) /\ ~match => D!Spoilt'
    BY <1>4, HistoryClock
  <2>6. /\ mem'.state # "DATA_VERIFICATION" => ~mem'.pass /\ ~mem'.fail
        /\ mem'.state = "DATA_VERIFICATION" =>
              (mem'.pass /\ ~mem'.fail) \/ (mem'.fail /\ ~mem'.pass /\ D!Spoilt')
    BY <2>1, <2>3, <2>4, <2>5
  <2>7. /\ mem'.read => mem'.state \in {"READ", "WAIT_READ_ACCEPTED"}
        /\ mem'.state = "READ" => mem'.read
    BY <2>1
  <2>8. /\ reads'.stale + reads'.live <= MaxReads
        /\ reads'.live <= 2 /\ reads'.live \in Nat /\ reads'.stale \in Nat
        /\ mem'.state \notin {"WAIT_READ_ACCEPTED", "WAIT_READ_DONE"} => reads'.live = 0
        /\ mem'.state = "WAIT_READ_ACCEPTED" =>
              IF mem'.read THEN reads'.live <= 1 ELSE reads'.live = 1
        /\ mem'.state = "WAIT_READ_DONE" => reads'.live >= 1
    <3>1. CASE mem.state \in {"IDLE", "WRITE", "WAIT_WRITE_DONE", "DATA_VERIFICATION"}
      <4>1. mem'.state \in {"IDLE", "WRITE", "WAIT_WRITE_DONE", "READ"}
        BY <2>1, <2>2, <3>1 DEF D!NextMemState
      <4>2. ~D!Compares(answer) /\ reads.live = 0 /\ ~mem.read
        BY <2>2, <2>3, <3>1
      <4>3. reads'.live = 0 /\ reads'.stale = left
        BY <1>0, <1>2, <1>4, <4>2
      <4>4. left \in Nat /\ left <= MaxReads
        BY <1>0, <1>2
      <4> HIDE DEF left
      <4> QED
        BY <1>0, <4>1, <4>3, <4>4
    <3>2. CASE mem.state = "READ"
      <4>1. mem'.state = "WAIT_READ_ACCEPTED" /\ (mem'.read <=> ~ready)
        BY <2>1, <3>2 DEF D!NextMemState
      <4>2. ~D!Compares(answer) /\ reads.live = 0 /\ mem.read
        BY <2>2, <2>3, <3>2
      <4>3. reads'.live = (IF ready THEN 1 ELSE 0) /\ reads'.stale = left
        BY <1>0, <1>2, <1>4, <4>2
      <4>4. reads'.stale + reads'.live <= MaxReads
        BY <1>2, <1>4, <4>2
      <4> HIDE DEF own, left
      <4> QED
        BY <1>0, <1>2, <4>1, <4>3, <4>4
    <3>3. CASE mem.state = "WAIT_READ_ACCEPTED"
      <4>1. /\ mem'.state = (IF ready THEN "WAIT_READ_DONE" ELSE "WAIT_READ_ACCEPTED")
            /\ ~ready => mem'.read
        BY <2>1, <3>3 DEF D!NextMemState
      <4>2. ~D!Compares(answer) /\ (IF mem.read THEN reads.live <= 1 ELSE reads.live = 1)
        BY <2>2, <2>3, <3>3
      <4>3. reads'.live = own /\ reads'.stale = left
        BY <1>2, <1>4, <4>2
      <4>6. answer /\ reads.stale = 0 => mem.read /\ reads.live = 1
        BY <1>0, <1>2, <3>3, <4>2
      <4>7. reads.live \in {0, 1} /\ (~mem.read => reads.live = 1)
        BY <1>0, <4>2
      <4>4. ready => own \in 1 .. 2
        BY <4>6, <4>7
      <4>5. ~ready => own \in 0 .. 1
        BY <4>6, <4>7
      <4> HIDE DEF own, left
      <4> QED
        BY <1>0, <1>2, <4>1, <4>3, <4>4, <4>5
    <3>4. CASE mem.state = "WAIT_READ_DONE"
      <4>1. mem'.state = (IF answer THEN "DATA_VERIFICATION" ELSE "WAIT_READ_DONE")
        BY <2>1, <3>4 DEF D!NextMemState
      <4>2. (D!Compares(answer) <=> answer) /\ reads.live >= 1 /\ ~mem.read /\ reads.live <= 2
        BY <2>2, <2>3, <3>4, ReadTypes
      <4>3. answer => reads'.live = 0 /\ reads'.stale = left + own
        BY <1>2, <1>4, <4>2
      <4>4. ~answer => reads'.live = reads.live /\ reads'.stale = left
        BY <1>0, <1>2, <1>4, <4>2
      <4>5. ~answer => own = reads.live
        BY <1>0, <4>2
      <4> HIDE DEF own, left
      <4> QED
        BY <1>0, <1>2, <4>1, <4>2, <4>3, <4>4, <4>5
    <3> QED
      BY <1>0, <3>1, <3>2, <3>3, <3>4 DEF D!MemStates
  <2>9. reads' \in [stale : 0 .. MaxReads, live : 0 .. 2]
    <3>1. reads'.stale \in 0 .. MaxReads /\ reads'.live \in 0 .. 2
      BY <1>0, <2>8
    <3> QED
      BY <1>2, <3>1
  <2> QED
    BY <1>2, <2>6, <2>7, <2>8, <2>9 DEF MemInv
<1> QED
  BY <1>3, <1>4

\* As long as no read is asked for twice every answer is to the word at hand.
LEMMA OwnTick ==
    ASSUME DdrTypeOK, NEW ready \in BOOLEAN, NEW answer \in BOOLEAN, NEW match \in BOOLEAN,
           ClockWith(ready, answer, match), ~ctl.clr, Own
    PROVE  Own'
<1> DEFINE own == reads.live - (IF answer /\ reads.stale = 0 THEN 1 ELSE 0)
                             + (IF mem.read /\ ready THEN 1 ELSE 0)
           left == reads.stale - (IF answer /\ reads.stale > 0 THEN 1 ELSE 0)
<1>1. CASE "twice" \in wrong'
  BY <1>1 DEF Own
<1>2. CASE "twice" \notin wrong'
  <2>1. /\ "twice" \notin wrong /\ ~D!AskedTwice(ready)
        /\ "misread" \in wrong' <=> "misread" \in wrong \/ (D!Compares(answer) /\ reads.stale > 0)
    BY <1>2, HistoryClock
  <2>2. /\ ~(reads.stale > 0) /\ reads.live # 2 /\ ~(mem.read /\ reads.live = 1)
        /\ "misread" \notin wrong
    BY <2>1 DEF Own, Surplus
  <2>3. "misread" \notin wrong'
    BY <2>1, <2>2
  <2>4. D!MemoryHolds(ready, answer)
    BY DEF ClockWith
  <2>5. /\ left \in Nat /\ own \in Nat /\ left <= reads.stale
        /\ IF D!Compares(answer)
           THEN reads'.stale = left + own /\ reads'.live = 0
           ELSE reads'.stale = left /\ reads'.live = own
        /\ reads.stale \in Nat /\ reads.live \in Nat /\ reads.live <= 2
    BY <2>4, MemoryClock, ReadTypes
  <2>6. /\ mem.read => mem.state \in {"READ", "WAIT_READ_ACCEPTED"}
        /\ mem.state = "READ" => mem.read
        /\ mem.state \notin {"WAIT_READ_ACCEPTED", "WAIT_READ_DONE"} => reads.live = 0
        /\ mem.state = "WAIT_READ_ACCEPTED" => IF mem.read THEN reads.live <= 1 ELSE reads.live = 1
    BY MemInvIs DEF MemInv
  <2>7. reads.stale = 0 /\ reads.live \in {0, 1} /\ (mem.read => reads.live = 0)
    BY <2>2, <2>5
  <2>8. left = 0 /\ own \in {0, 1}
    BY <2>5, <2>7
  <2>9. D!Compares(answer) => own = 0
    <3>1. D!Compares(answer) => answer /\ ~mem.read
      BY <2>6 DEF D!Compares
    <3> QED
      BY <2>5, <2>7, <3>1
  <2>10. ~(reads'.stale > 0) /\ reads'.live # 2
    <3> HIDE DEF left, own
    <3> QED
      BY <2>5, <2>8, <2>9
  <2>11. ~(mem'.read /\ reads'.live = 1)
    <3>1. /\ mem'.state = D!NextMemState(ready, answer)
          /\ mem'.read <=> mem'.state = "READ" \/ (mem'.state = "WAIT_READ_ACCEPTED" /\ ~ready)
      BY ModulesClock
    <3>2. mem.state \in D!MemStates
      BY DdrTypes
    <3>3. mem'.read => mem.state = "WAIT_WRITE_DONE"
                         \/ (mem.state \in {"READ", "WAIT_READ_ACCEPTED"} /\ ~ready)
      BY <3>1, <3>2 DEF D!NextMemState, D!MemStates
    <3>4. mem.state = "WAIT_READ_ACCEPTED" /\ ~ready => mem.read
      BY <2>1 DEF D!AskedTwice
    <3>5. mem'.read => reads.live = 0 /\ ~(mem.read /\ ready) /\ ~D!Compares(answer)
      BY <2>6, <2>7, <3>3, <3>4 DEF D!Compares
    <3>6. mem'.read => own = 0
      BY <2>5, <2>7, <3>5
    <3> HIDE DEF own, left
    <3> QED
      BY <2>5, <3>5, <3>6
  <2> QED
    BY <2>3, <2>10, <2>11 DEF Own, Surplus
<1> QED
  BY <1>1, <1>2

\* What has been swept stays so until a word is good.
LEMMA SweptTick ==
    ASSUME DdrTypeOK, NEW ready \in BOOLEAN, NEW answer \in BOOLEAN, NEW match \in BOOLEAN,
           ClockWith(ready, answer, match), ~ctl.clr, mem.state # "DATA_VERIFICATION"
    PROVE  /\ verified' = verified /\ ~mem.pass /\ ~mem.fail
           /\ \A n \in Nat : Swept(n) => (IsSweep(verified, dregs.addr, n) /\ ~D!Spoilt)
                                         \/ (D!Spoilt /\ Len(verified) < n)
           /\ \A n \in Nat : Swept(n) => Swept(n)'
<1>1. ~mem.pass /\ ~mem.fail
  BY MemInvIs DEF MemInv
<1>2. verified' = verified /\ dregs' = dregs
  BY <1>1, HistoryClock, ModulesClock
<1>3. /\ D!Spoilt => D!Spoilt'
      /\ ~D!Spoilt /\ D!Spoilt' => D!Compares(answer) /\ ~match
  BY HistoryClock
<1>4. D!Compares(answer) /\ ~match => mem'.fail
  <2>1. D!Compares(answer) => D!NextMemState(ready, answer) = "DATA_VERIFICATION" /\ answer
    BY DEF D!Compares, D!NextMemState
  <2> QED
    BY <2>1, ModulesClock
<1>5. ASSUME NEW n \in Nat, Swept(n)
      PROVE  /\ (IsSweep(verified, dregs.addr, n) /\ ~D!Spoilt) \/ (D!Spoilt /\ Len(verified) < n)
             /\ Swept(n)'
  <2>1. (IsSweep(verified, dregs.addr, n) /\ ~D!Spoilt) \/ (D!Spoilt /\ Len(verified) < n)
    BY <1>1, <1>5 DEF Swept
  <2>2. CASE D!Spoilt /\ Len(verified) < n
    <3>1. D!Spoilt' /\ Len(verified') < n
      BY <1>2, <1>3, <2>2
    <3> QED
      BY <2>1, <3>1 DEF Swept
  <2>3. CASE IsSweep(verified, dregs.addr, n) /\ ~D!Spoilt
    <3>1. IsSweep(verified', dregs'.addr, n)
      BY <1>2, <2>3
    <3>2. D!Spoilt' => mem'.fail
      BY <1>3, <1>4, <2>3
    <3> QED
      BY <2>1, <3>1, <3>2 DEF Swept
  <2> QED
    BY <2>1, <2>2, <2>3
<1> QED
  BY <1>1, <1>2, <1>5


\* The sweep stays set up while its registers stay.
LEMMA PipedKept ==
    ASSUME DdrTypeOK, Piped, ctl' = D!Controller, dregs' = dregs
    PROVE  Piped' /\ Final' = Final
<1>1. /\ ctl'.mem_addr = dregs.addr
      /\ ctl'.final = [s \in 1 .. FinalStages |->
                          IF s = 1 THEN (dregs.addr + dregs.offset) % MemSize
                          ELSE ctl.final[s - 1]]
  BY ControllerClock
<1>2. Final % MemSize = Final
  <2>1. Final \in Nat /\ MemSize \in Nat \ {0} /\ Final < MemSize
    BY DdrTypes, DdrConstants DEF Piped
  <2> HIDE DEF Final
  <2> QED
    BY <2>1
<1>3. ASSUME NEW s \in 1 .. FinalStages PROVE ctl'.final[s] = Final
  <2>1. CASE s = 1
    BY <1>1, <1>2, <2>1 DEF Final
  <2>2. CASE s # 1
    <3>1. s - 1 \in 1 .. FinalStages
      BY <2>2, DdrConstants
    <3> QED
      BY <1>1, <2>2, <3>1 DEF Piped
  <2> QED
    BY <2>1, <2>2
<1>4. Final' = Final
  BY DEF Final
<1> QED
  BY <1>1, <1>3, <1>4 DEF Piped

LEMMA SetUpKept ==
    ASSUME DdrTypeOK, SetUp, ctl' = D!Controller, dregs' = dregs
    PROVE  SetUp' /\ Final' = Final
  BY PipedKept DEF SetUp

\* Where the traffic generator ends the sweep.
LEMMA SweepEnd ==
    ASSUME DdrTypeOK, SetUp
    PROVE  /\ D!AtFinal <=> gen.target = Final
           /\ D!final_addr = Final /\ Final < MemSize /\ ctl.mem_addr = dregs.addr
           /\ dregs.addr < Final /\ dregs.addr + dregs.offset = Final
<1>1. D!final_addr = Final /\ Final < MemSize /\ ctl.mem_addr = dregs.addr
  BY DdrConstants DEF SetUp, Piped, D!final_addr
<1>2. dregs.addr < Final /\ Final # 0 /\ dregs.addr + dregs.offset = Final
  BY DdrTypes DEF SetUp, Final
<1> QED
  BY <1>1, <1>2 DEF D!AtFinal

\* The module at the memory at rest compares nothing.
LEMMA MemIdleTick ==
    ASSUME DdrTypeOK, NEW ready \in BOOLEAN, NEW answer \in BOOLEAN, NEW match \in BOOLEAN,
           ClockWith(ready, answer, match), ~ctl.clr, MemIdle
    PROVE  /\ mem'.state = IF gen.start_wr THEN "WRITE" ELSE "IDLE"
           /\ mem'.addr = IF gen.start_wr THEN gen.target ELSE mem.addr
           /\ ~mem.pass /\ ~mem.fail /\ ~mem'.fail
           /\ verified' = verified /\ (D!Spoilt' <=> D!Spoilt) /\ dregs' = dregs
           /\ \A n \in Nat : Swept(n) => Swept(n)'
           /\ reads.live = 0 /\ reads'.live = 0
           /\ reads'.stale = reads.stale - (IF answer /\ reads.stale > 0 THEN 1 ELSE 0)
           /\ ~answer /\ reads.stale > 0 => age' = age + 1
           /\ answer => reads.stale > 0 /\ age' = 0
<1>1. mem.state = "IDLE" /\ mem.state # "DATA_VERIFICATION" /\ D!MemoryHolds(ready, answer)
  BY DEF MemIdle, ClockWith
<1>2. mem'.state = IF gen.start_wr THEN "WRITE" ELSE "IDLE"
  BY <1>1, ModulesClock DEF D!NextMemState
<1>3. /\ mem'.addr = IF mem'.state = "WRITE" THEN gen.target ELSE mem.addr
      /\ mem'.fail <=> mem'.state = "DATA_VERIFICATION" /\ answer /\ ~match
      /\ dregs' = dregs
  BY ModulesClock
<1>4. ~D!Compares(answer)
  BY <1>1 DEF D!Compares
<1>5. D!Spoilt' <=> D!Spoilt
  BY <1>4, HistoryClock
<1>6. /\ verified' = verified /\ ~mem.pass /\ ~mem.fail
      /\ \A n \in Nat : Swept(n) => Swept(n)'
  BY <1>1, SweptTick
<1>7. reads.live = 0 /\ ~mem.read /\ reads.stale \in Nat
  BY <1>1, MemInvIs, ReadTypes DEF MemInv
<1>8. /\ reads'.live = 0
      /\ reads'.stale = reads.stale - (IF answer /\ reads.stale > 0 THEN 1 ELSE 0)
      /\ ~answer /\ reads.stale > 0 => age' = age + 1
      /\ answer => reads.stale > 0 /\ age' = 0
  <2> DEFINE own == reads.live - (IF answer /\ reads.stale = 0 THEN 1 ELSE 0)
                               + (IF mem.read /\ ready THEN 1 ELSE 0)
             left == reads.stale - (IF answer /\ reads.stale > 0 THEN 1 ELSE 0)
  <2>1. /\ own \in Nat
        /\ answer => reads.stale > 0 \/ reads.live > 0
        /\ reads'.stale = left /\ reads'.live = own
        /\ answer => age' = 0
        /\ ~answer /\ (reads.stale > 0 \/ reads.live > 0) => age' = age + 1
    BY <1>1, <1>4, MemoryClock
  <2>2. answer => reads.stale > 0
    BY <1>7, <2>1
  <2>3. own = 0
    BY <1>7, <2>2
  <2> QED
    BY <2>1, <2>2, <2>3
<1> QED
  BY <1>2, <1>3, <1>5, <1>6, <1>7, <1>8

\* A persona at rest stays so without a start, or when the generator has
\* nothing to do.
LEMMA RestingTick ==
    ASSUME DdrTypeOK, NEW ready \in BOOLEAN, NEW answer \in BOOLEAN, NEW match \in BOOLEAN,
           ClockWith(ready, answer, match), ~ctl.clr, Resting
    PROVE  /\ MemIdle' /\ GenIdle'
           /\ ~ctl.start_operation \/ gen.completed => Resting' /\ acc'.clear
           /\ verified' = verified /\ dregs' = dregs
           /\ \A n \in Nat : Swept(n) => Swept(n)'
           /\ gen'.target = ctl.mem_addr
           /\ gen'.completed <=> D!AtFinal
<1>1. /\ acc.state = "IDLE" /\ ~acc.busy /\ ~acc.start_tg
      /\ gen.state = "IDLE" /\ ~gen.start_wr /\ MemIdle
  BY DEF Resting, AccIdle, GenIdle
<1>2. /\ mem'.state = "IDLE" /\ verified' = verified /\ dregs' = dregs
      /\ \A n \in Nat : Swept(n) => Swept(n)'
  BY <1>1, MemIdleTick
<1>3. D!NextGenState = "IDLE"
  BY <1>1 DEF D!NextGenState
<1>4. /\ gen'.state = "IDLE" /\ ~gen'.start_wr /\ (gen'.completed <=> D!AtFinal)
      /\ gen'.target = ctl.mem_addr
  BY <1>1, <1>3, ModulesClock
<1>5. ~ctl.start_operation \/ gen.completed =>
          acc'.state = "IDLE" /\ ~acc'.busy /\ ~acc'.start_tg /\ acc'.clear
  BY <1>1, ModulesClock
<1> QED
  BY <1>2, <1>4, <1>5 DEF Resting, AccIdle, GenIdle, MemIdle

\* A start finds the persona ready.
LEMMA ReadyTick ==
    ASSUME DdrTypeOK, NEW ready \in BOOLEAN, NEW answer \in BOOLEAN, NEW match \in BOOLEAN,
           ClockWith(ready, answer, match), ~ctl.clr, Ready
    PROVE  IF ctl.start_operation THEN Begun' ELSE Ready'
<1>1. /\ SetUp /\ Resting /\ ~gen.completed /\ gen.target = dregs.addr
      /\ acc.clear /\ Swept(0)
  BY DEF Ready
<1>2. ctl' = D!Controller
  BY DEF ClockWith
<1>3. dregs' = dregs
  BY <1>1, RestingTick
<1>4. SetUp'
  BY <1>1, <1>2, <1>3, SetUpKept
<1>5. ~D!AtFinal /\ ctl.mem_addr = dregs.addr
  BY <1>1, SweepEnd, DdrTypes
<1>6. /\ MemIdle' /\ GenIdle' /\ ~gen'.completed /\ gen'.target = dregs'.addr
      /\ ~ctl.start_operation => Resting' /\ acc'.clear
  BY <1>1, <1>3, <1>5, RestingTick
<1>7. Swept(0)'
  BY <1>1, RestingTick
<1>8. CASE ctl.start_operation
  <2>1. acc.state = "IDLE"
    BY <1>1 DEF Resting, AccIdle
  <2>2. acc'.state = "DDR_ACCESS" /\ acc'.busy /\ acc'.start_tg
    BY <1>1, <1>8, <2>1, ModulesClock
  <2> QED
    BY <1>4, <1>6, <1>7, <1>8, <2>2 DEF Begun, AccOn
<1>9. CASE ~ctl.start_operation
  BY <1>4, <1>6, <1>7, <1>9 DEF Ready
<1> QED
  BY <1>8, <1>9

\* A sweep of one word does not begin.
LEMMA BarredTick ==
    ASSUME DdrTypeOK, NEW ready \in BOOLEAN, NEW answer \in BOOLEAN, NEW match \in BOOLEAN,
           ClockWith(ready, answer, match), ~ctl.clr, Barred
    PROVE  Barred'
<1>1. /\ Piped /\ dregs.offset = 0 /\ dregs.addr # 0 /\ gen.target = dregs.addr
      /\ Resting /\ gen.completed /\ Swept(0)
  BY DEF Barred
<1>2. ctl' = D!Controller
  BY DEF ClockWith
<1>3. /\ Resting' /\ acc'.clear /\ dregs' = dregs /\ gen'.target = ctl.mem_addr
      /\ gen'.completed <=> D!AtFinal
      /\ Swept(0)'
  BY <1>1, RestingTick
<1>4. Piped'
  BY <1>1, <1>2, <1>3, PipedKept
<1>5. D!AtFinal /\ ctl.mem_addr = dregs.addr
  <2>1. D!final_addr = Final /\ ctl.mem_addr = dregs.addr
    BY <1>1, DdrConstants DEF Piped, D!final_addr
  <2>2. Final = dregs.addr
    BY <1>1, DdrTypes DEF Final
  <2> QED
    BY <1>1, <2>1, <2>2 DEF D!AtFinal
<1> QED
  BY <1>1, <1>3, <1>4, <1>5 DEF Barred

\* Nor does one at address 0 end.
LEMMA NoEndTick ==
    ASSUME DdrTypeOK, NEW ready \in BOOLEAN, NEW answer \in BOOLEAN, NEW match \in BOOLEAN,
           ClockWith(ready, answer, match), ~ctl.clr, NoEnd
    PROVE  /\ NoEnd'
           /\ acc.state = "DDR_ACCESS" => Endless'
           /\ Resting => IF ctl.start_operation THEN Endless' ELSE Resting' /\ acc'.clear
<1>1. Piped /\ dregs.offset = 0 /\ dregs.addr = 0 /\ ~gen.completed
  BY DEF NoEnd
<1>2. ctl' = D!Controller /\ dregs' = dregs
  BY ModulesClock DEF ClockWith
<1>3. Piped'
  BY <1>1, <1>2, PipedKept
<1>4. ~D!AtFinal
  <2>1. D!final_addr = Final
    BY <1>1, DdrConstants DEF Piped, D!final_addr
  <2>2. Final = 0
    BY <1>1 DEF Final
  <2> QED
    BY <2>1, <2>2 DEF D!AtFinal
<1>5. ~gen'.completed
  BY <1>4, ModulesClock
<1>6. NoEnd'
  BY <1>1, <1>2, <1>3, <1>5 DEF NoEnd
<1>7. acc.state = "DDR_ACCESS" => acc'.state = "DDR_ACCESS" /\ acc'.busy
  BY <1>1, ModulesClock
<1>8. ASSUME Resting
      PROVE  IF ctl.start_operation THEN acc'.state = "DDR_ACCESS" /\ acc'.busy
                                    ELSE Resting' /\ acc'.clear
  <2>1. acc.state = "IDLE"
    BY <1>8 DEF Resting, AccIdle
  <2>2. ctl.start_operation => acc'.state = "DDR_ACCESS" /\ acc'.busy
    BY <1>1, <2>1, ModulesClock
  <2> QED
    BY <1>8, <2>2, RestingTick
<1> QED
  BY <1>6, <1>7, <1>8 DEF Endless

LEMMA EndlessTick ==
    ASSUME DdrTypeOK, NEW ready \in BOOLEAN, NEW answer \in BOOLEAN, NEW match \in BOOLEAN,
           ClockWith(ready, answer, match), ~ctl.clr, Endless
    PROVE  Endless'
  BY NoEndTick DEF Endless

\* The start finds the persona in one of these.
LEMMA ArmedTick ==
    ASSUME DdrTypeOK, NEW ready \in BOOLEAN, NEW answer \in BOOLEAN, NEW match \in BOOLEAN,
           ClockWith(ready, answer, match), ~ctl.clr, Armed
    PROVE  IF ctl.start_operation THEN Begun' \/ Barred' \/ Endless' ELSE Armed'
  BY ReadyTick, BarredTick, NoEndTick DEF Armed

\* The sweep that has begun turns to its first word.
LEMMA BegunTick ==
    ASSUME DdrTypeOK, NEW ready \in BOOLEAN, NEW answer \in BOOLEAN, NEW match \in BOOLEAN,
           ClockWith(ready, answer, match), ~ctl.clr, Begun
    PROVE  Active'
<1>1. /\ SetUp /\ acc.state = "DDR_ACCESS" /\ acc.busy /\ acc.start_tg
      /\ gen.state = "IDLE" /\ ~gen.start_wr /\ ~gen.completed /\ gen.target = dregs.addr
      /\ MemIdle /\ Swept(0)
  BY DEF Begun, AccOn, GenIdle
<1>2. ctl' = D!Controller
  BY DEF ClockWith
<1>3. ~D!AtFinal /\ ctl.mem_addr = dregs.addr /\ dregs.addr \in dregs.addr .. Final
  BY <1>1, SweepEnd, DdrTypes
<1>4. D!NextGenState = "ACTIVE"
  BY <1>1, <1>3 DEF D!NextGenState
<1>5. mem'.state = "IDLE" /\ dregs' = dregs /\ Swept(0)'
  BY <1>1, MemIdleTick
<1>6. /\ acc'.state = "DDR_ACCESS" /\ acc'.busy /\ acc'.start_tg
      /\ gen'.state = "ACTIVE" /\ gen'.start_wr /\ ~gen'.completed /\ gen'.target = dregs.addr
  BY <1>1, <1>3, <1>4, ModulesClock
<1>7. SetUp' /\ Final' = Final
  BY <1>1, <1>2, <1>5, SetUpKept
<1>8. Swept(gen.target - dregs.addr)'
  <2>1. gen'.target - dregs'.addr = 0
    BY <1>5, <1>6, DdrTypes
  <2> QED
    BY <1>5, <2>1 DEF Swept
<1> QED
  BY <1>3, <1>5, <1>6, <1>7, <1>8 DEF Active, AccOn, MemIdle

\* A word of the sweep goes to the memory; the generator waits for it unless
\* it is the last one.
LEMMA ActiveTick ==
    ASSUME DdrTypeOK, NEW ready \in BOOLEAN, NEW answer \in BOOLEAN, NEW match \in BOOLEAN,
           ClockWith(ready, answer, match), ~ctl.clr, Active
    PROVE  Waiting' \/ LastWord'
<1>1. /\ SetUp /\ acc.state = "DDR_ACCESS" /\ acc.busy /\ acc.start_tg
      /\ gen.state = "ACTIVE" /\ gen.start_wr /\ ~gen.completed
      /\ gen.target \in dregs.addr .. Final
      /\ MemIdle /\ Swept(gen.target - dregs.addr)
  BY DEF Active, AccOn
<1>2. ctl' = D!Controller
  BY DEF ClockWith
<1>3. gen.target - dregs.addr \in Nat
  BY <1>1, DdrTypes
<1>4. /\ mem'.state = "WRITE" /\ mem'.addr = gen.target /\ ~mem.pass /\ ~mem.fail
      /\ dregs' = dregs /\ verified' = verified /\ (D!Spoilt' <=> D!Spoilt) /\ ~mem'.fail
  BY <1>1, MemIdleTick
<1>5. D!NextGenState = IF gen.target = Final THEN "IDLE" ELSE "WAIT"
  BY <1>1, SweepEnd DEF D!NextGenState
<1>6. /\ acc'.state = "DDR_ACCESS" /\ acc'.busy /\ acc'.start_tg
      /\ gen'.state = IF gen.target = Final THEN "IDLE" ELSE "WAIT"
      /\ gen'.start_wr <=> gen.target # Final
      /\ gen'.completed <=> gen.target = Final
      /\ gen'.target = gen.target
  BY <1>1, <1>4, <1>5, SweepEnd, ModulesClock
<1>7. SetUp' /\ Final' = Final
  BY <1>1, <1>2, <1>4, SetUpKept
<1>8. Swept(gen.target - dregs.addr)'
  BY <1>1, <1>4, <1>6 DEF Swept
<1>9. CASE gen.target = Final
  <2>1. gen'.target - dregs'.addr = dregs'.offset
    BY <1>4, <1>6, <1>9, DdrTypes DEF Final
  <2>2. Swept(dregs.offset)'
    BY <1>8, <2>1 DEF Swept
  <2>3. MemAt(Final)'
    BY <1>4, <1>7, <1>9 DEF MemAt
  <2> QED
    BY <1>4, <1>6, <1>7, <1>9, <2>2, <2>3 DEF LastWord, AccOn, GenIdle
<1>10. CASE gen.target # Final
  <2>1. gen'.target \in dregs'.addr .. Final' - 1
    BY <1>1, <1>4, <1>6, <1>7, <1>10, DdrTypes
  <2>2. MemAt(gen.target)'
    BY <1>4, <1>6 DEF MemAt
  <2> QED
    BY <1>6, <1>7, <1>8, <1>10, <2>1, <2>2 DEF Waiting, AccOn
<1> QED
  BY <1>9, <1>10

\* The memory at work on a word comes closer to its verification.
LEMMA MemAtTick ==
    ASSUME DdrTypeOK, NEW ready \in BOOLEAN, NEW answer \in BOOLEAN, NEW match \in BOOLEAN,
           ClockWith(ready, answer, match), ~ctl.clr,
           NEW a \in Nat, MemAt(a), mem.state # "DATA_VERIFICATION"
    PROVE  /\ MemAt(a)' /\ mem'.state # "WRITE"
           /\ mem.state = "WRITE" => mem'.state = "WAIT_WRITE_DONE"
           /\ mem.state # "WRITE" => Rank' < Rank
<1>0. /\ mem.addr = a /\ D!MemoryHolds(ready, answer)
      /\ mem.state \in {"WRITE", "WAIT_WRITE_DONE", "READ", "WAIT_READ_ACCEPTED", "WAIT_READ_DONE"}
  BY DdrTypes DEF ClockWith, MemAt, D!MemStates
<1>1. /\ held' \in 0 .. MaxWait /\ age' \in 0 .. MaxWait
      /\ ~ready => held' = held + 1
      /\ ~answer /\ reads.live > 0 => age' = age + 1
  BY <1>0, MemoryClock
<1>2. /\ mem'.state = D!NextMemState(ready, answer)
      /\ mem'.addr = IF mem'.state = "WRITE" THEN gen.target ELSE mem.addr
  BY ModulesClock
<1>3. /\ age \in Nat /\ held \in Nat /\ MaxWait \in Nat /\ age <= MaxWait /\ held <= MaxWait
      /\ age' \in Nat /\ held' \in Nat
  BY <1>1, DdrTypes, DdrConstants
<1>4. CASE mem.state = "WRITE"
  <2>1. mem'.state = "WAIT_WRITE_DONE"
    BY <1>2, <1>4 DEF D!NextMemState
  <2> QED
    BY <1>0, <1>2, <1>4, <2>1 DEF MemAt
<1>5. CASE mem.state = "WAIT_WRITE_DONE"
  <2>1. mem'.state = IF ready THEN "READ" ELSE "WAIT_WRITE_DONE"
    BY <1>2, <1>5 DEF D!NextMemState
  <2>2. MemAt(a)' /\ mem'.state # "WRITE"
    BY <1>0, <1>2, <2>1 DEF MemAt
  <2>3. Rank = 3 * MaxWait + 5 - held
    BY <1>5 DEF Rank
  <2>4. Rank' = IF ready THEN 2 * MaxWait + 4 ELSE 3 * MaxWait + 5 - held'
    BY <2>1 DEF Rank
  <2>5. Rank' < Rank
    <3>1. CASE ready
      BY <1>3, <2>3, <2>4, <3>1
    <3>2. CASE ~ready
      BY <1>1, <1>3, <2>3, <2>4, <3>2
    <3> QED
      BY <3>1, <3>2
  <2> QED
    BY <1>5, <2>2, <2>5
<1>6. CASE mem.state = "READ"
  <2>1. mem'.state = "WAIT_READ_ACCEPTED"
    BY <1>2, <1>6 DEF D!NextMemState
  <2>2. MemAt(a)' /\ mem'.state # "WRITE"
    BY <1>0, <1>2, <2>1 DEF MemAt
  <2>3. Rank = 2 * MaxWait + 4 /\ Rank' = 2 * MaxWait + 3 - held'
    BY <1>6, <2>1 DEF Rank
  <2>5. Rank' < Rank
    <3>1. \A m, h \in Nat : 2 * m + 3 - h < 2 * m + 4
      OBVIOUS
    <3> QED
      BY <1>3, <2>3, <3>1
  <2> QED
    BY <1>6, <2>2, <2>5
<1>7. CASE mem.state = "WAIT_READ_ACCEPTED"
  <2>1. mem'.state = IF ready THEN "WAIT_READ_DONE" ELSE "WAIT_READ_ACCEPTED"
    BY <1>2, <1>7 DEF D!NextMemState
  <2>2. MemAt(a)' /\ mem'.state # "WRITE"
    BY <1>0, <1>2, <2>1 DEF MemAt
  <2>3. Rank = 2 * MaxWait + 3 - held
    BY <1>7 DEF Rank
  <2>4. Rank' = IF ready THEN MaxWait + 2 - age' ELSE 2 * MaxWait + 3 - held'
    BY <2>1 DEF Rank
  <2>5. Rank' < Rank
    <3>1. \A m, h, g \in Nat : h <= m => m + 2 - g < 2 * m + 3 - h
      OBVIOUS
    <3>2. CASE ready
      BY <1>3, <2>3, <2>4, <3>1, <3>2
    <3>3. CASE ~ready
      BY <1>1, <1>3, <2>3, <2>4, <3>3
    <3> QED
      BY <3>2, <3>3
  <2> QED
    BY <1>7, <2>2, <2>5
<1>8. CASE mem.state = "WAIT_READ_DONE"
  <2>1. mem'.state = IF answer THEN "DATA_VERIFICATION" ELSE "WAIT_READ_DONE"
    BY <1>2, <1>8 DEF D!NextMemState
  <2>2. MemAt(a)' /\ mem'.state # "WRITE"
    BY <1>0, <1>2, <2>1 DEF MemAt
  <2>3. Rank = MaxWait + 2 - age
    BY <1>8 DEF Rank
  <2>4. Rank' = IF answer THEN 1 ELSE MaxWait + 2 - age'
    BY <2>1 DEF Rank
  <2>5. ~answer => age' = age + 1
    <3>1. reads.live >= 1 /\ reads.live \in Nat
      BY <1>8, MemInvIs, ReadTypes DEF MemInv
    <3> QED
      BY <1>1, <3>1
  <2>6. Rank' < Rank
    <3>1. CASE answer
      BY <1>3, <2>3, <2>4, <3>1
    <3>2. CASE ~answer
      BY <1>3, <2>3, <2>4, <2>5, <3>2
    <3> QED
      BY <3>1, <3>2
  <2> QED
    BY <1>8, <2>2, <2>6
<1> QED
  BY <1>0, <1>4, <1>5, <1>6, <1>7, <1>8

\* The last clock of a word: it is verified, or the sweep is spoilt.
LEMMA VerifiedTick ==
    ASSUME DdrTypeOK, NEW ready \in BOOLEAN, NEW answer \in BOOLEAN, NEW match \in BOOLEAN,
           ClockWith(ready, answer, match), ~ctl.clr,
           NEW n \in Nat, n <= MemSize, MemAt(dregs.addr + n), mem.state = "DATA_VERIFICATION",
           Swept(n)
    PROVE  MemIdle' /\ (mem.pass \/ mem.fail) /\ Swept(n + 1)'
<1>1. /\ mem.addr = dregs.addr + n
      /\ (mem.pass /\ ~mem.fail) \/ (mem.fail /\ ~mem.pass /\ D!Spoilt)
  BY MemInvIs DEF MemAt, MemInv
<1>2. mem'.state = "IDLE"
  BY <1>1, ModulesClock DEF D!NextMemState
<1>3. /\ verified' = IF mem.pass /\ Len(verified) <= MemSize
                     THEN Append(verified, mem.addr) ELSE verified
      /\ D!Spoilt' <=> D!Spoilt
      /\ dregs' = dregs
  BY HistoryClock, ModulesClock DEF D!Compares
<1>4. /\ verified \in Seq(Nat) /\ dregs.addr \in Nat
      /\ Len(verified) \in Nat /\ MemSize \in Nat
      /\ IsSweep(verified, dregs.addr, n) => Len(verified) = n
      /\ IsSweep(verified, dregs.addr, n) => IsSweep(Append(verified, dregs.addr + n), dregs.addr, n + 1)
      /\ Len(Append(verified, dregs.addr + n)) = Len(verified) + 1
  BY DdrTypes, DdrConstants, SweepGrows
<1>5. CASE IsSweep(verified, dregs.addr, n) /\ ~D!Spoilt
  <2>1. mem.pass /\ Len(verified) <= MemSize
    BY <1>1, <1>4, <1>5
  <2>2. verified' = Append(verified, dregs.addr + n)
    BY <1>1, <1>3, <2>1
  <2> QED
    BY <1>1, <1>2, <1>3, <1>4, <1>5, <2>2 DEF MemIdle, Swept
<1>6. CASE D!Spoilt
  <2>1. mem.pass => Len(verified) < n
    BY <1>1, <1>6 DEF Swept
  <2>2. Len(verified) <= n
    BY <1>4 DEF Swept
  <2>3. Len(verified') < n + 1
    BY <1>1, <1>3, <1>4, <2>1, <2>2
  <2> QED
    BY <1>1, <1>2, <1>3, <1>6, <2>3 DEF MemIdle, Swept
<1> QED
  BY <1>5, <1>6 DEF Swept

\* The generator waits for the word at hand, and turns to the next one.
LEMMA WaitingTick ==
    ASSUME DdrTypeOK, NEW ready \in BOOLEAN, NEW answer \in BOOLEAN, NEW match \in BOOLEAN,
           ClockWith(ready, answer, match), ~ctl.clr, Waiting
    PROVE  Waiting' \/ Active'
<1>1. /\ SetUp /\ acc.state = "DDR_ACCESS" /\ acc.busy /\ acc.start_tg
      /\ gen.state = "WAIT" /\ gen.start_wr /\ ~gen.completed
      /\ gen.target \in dregs.addr .. Final - 1
      /\ MemAt(gen.target) /\ Swept(gen.target - dregs.addr)
  BY DEF Waiting, AccOn
<1>2. ctl' = D!Controller /\ dregs' = dregs
  BY ModulesClock DEF ClockWith
<1>3. SetUp' /\ Final' = Final
  BY <1>1, <1>2, SetUpKept
<1>4. /\ acc'.state = "DDR_ACCESS" /\ acc'.busy /\ acc'.start_tg
      /\ gen'.state = D!NextGenState /\ (gen'.start_wr <=> D!NextGenState # "IDLE")
      /\ gen'.completed <=> D!NextGenState = "IDLE" /\ D!AtFinal
      /\ gen'.target = IF mem.pass \/ mem.fail THEN (gen.target + 1) % MemSize ELSE gen.target
  BY <1>1, ModulesClock
<1>5. D!NextGenState = IF mem.pass \/ mem.fail THEN "ACTIVE" ELSE "WAIT"
  BY <1>1 DEF D!NextGenState
<1>6. /\ dregs.addr \in Nat /\ Final \in Nat /\ gen.target \in Nat /\ Final < MemSize
      /\ MemSize \in Nat \ {0}
  BY DdrTypes, DdrConstants, SweepEnd, <1>1
<1>7. PICK n \in Nat : n = gen.target - dregs.addr /\ gen.target = dregs.addr + n /\ n <= MemSize
  BY <1>1, <1>6
<1>8. MemAt(dregs.addr + n) /\ Swept(n) /\ dregs.addr + n \in Nat
  BY <1>1, <1>6, <1>7
<1>9. CASE mem.state = "DATA_VERIFICATION"
  <2>1. MemIdle' /\ (mem.pass \/ mem.fail) /\ Swept(n + 1)'
    BY <1>7, <1>8, <1>9, VerifiedTick
  <2>2. gen.target + 1 \in dregs.addr .. Final /\ (gen.target + 1) % MemSize = gen.target + 1
    <3>1. gen.target + 1 \in dregs.addr .. Final /\ gen.target + 1 < MemSize
      BY <1>1, <1>6
    <3> QED
      BY <1>6, <3>1
  <2>3. gen'.target = gen.target + 1 /\ gen'.state = "ACTIVE" /\ gen'.start_wr /\ ~gen'.completed
    BY <1>4, <1>5, <2>1, <2>2
  <2>4. gen'.target - dregs'.addr = n + 1
    BY <1>2, <1>6, <1>7, <2>3
  <2>5. Swept(gen.target - dregs.addr)'
    BY <2>1, <2>4 DEF Swept
  <2>6. gen'.target \in dregs'.addr .. Final'
    BY <1>2, <1>3, <2>2, <2>3
  <2> QED
    BY <1>3, <1>4, <2>1, <2>3, <2>5, <2>6 DEF Active, AccOn
<1>10. CASE mem.state # "DATA_VERIFICATION"
  <2>1. MemAt(dregs.addr + n)' /\ Swept(n)' /\ ~mem.pass /\ ~mem.fail
    <3>1. \A a \in Nat : MemAt(a) => MemAt(a)'
      BY <1>10, MemAtTick
    <3>2. MemAt(dregs.addr + n) => mem'.addr = dregs.addr + n /\ mem'.state # "IDLE"
      BY <1>8, <3>1 DEF MemAt
    <3>3. mem'.addr = dregs'.addr + n /\ mem'.state # "IDLE"
      BY <1>2, <1>8, <3>2
    <3> QED
      BY <1>8, <1>10, <3>3, SweptTick DEF MemAt
  <2>2. gen'.target = gen.target /\ gen'.state = "WAIT" /\ gen'.start_wr /\ ~gen'.completed
    BY <1>4, <1>5, <2>1
  <2>3. MemAt(gen.target)'
    BY <1>2, <1>7, <2>1, <2>2 DEF MemAt
  <2>4. gen'.target - dregs'.addr = n
    BY <1>2, <1>7, <2>2
  <2>5. Swept(gen.target - dregs.addr)'
    BY <2>1, <2>4 DEF Swept
  <2>6. gen'.target \in dregs'.addr .. Final' - 1
    BY <1>1, <1>2, <1>3, <2>2
  <2> QED
    BY <1>3, <1>4, <2>2, <2>3, <2>5, <2>6 DEF Waiting, AccOn
<1> QED
  BY <1>9, <1>10

\* The last word outlives the busy bit, which its write takes back.
LEMMA LastWordTick ==
    ASSUME DdrTypeOK, NEW ready \in BOOLEAN, NEW answer \in BOOLEAN, NEW match \in BOOLEAN,
           ClockWith(ready, answer, match), ~ctl.clr, LastWord, ~ctl.start_operation
    PROVE  \/ LastWord' /\ (~acc.busy => ~acc'.busy /\ Rank' < Rank)
           \/ Over'
<1>1. /\ SetUp /\ gen.state = "IDLE" /\ ~gen.start_wr /\ MemAt(Final) /\ Swept(dregs.offset)
      /\ \/ mem.state = "WRITE" /\ AccOn /\ gen.completed /\ gen.target = Final
         \/ mem.state = "WAIT_WRITE_DONE" /\ AccIdle /\ gen.completed /\ gen.target = dregs.addr
         \/ mem.state # "WRITE" /\ AccIdle /\ ~gen.completed /\ gen.target = dregs.addr
  BY DEF LastWord, GenIdle
<1>2. ctl' = D!Controller /\ dregs' = dregs
  BY ModulesClock DEF ClockWith
<1>3. SetUp' /\ Final' = Final
  BY <1>1, <1>2, SetUpKept
<1>4. /\ D!AtFinal <=> gen.target = Final
      /\ dregs.addr < Final /\ dregs.addr + dregs.offset = Final /\ Final < MemSize
      /\ dregs.addr \in Nat /\ dregs.offset \in Nat /\ Final \in Nat /\ MemSize \in Nat
      /\ dregs.addr # Final /\ ctl.mem_addr = dregs.addr
  BY <1>1, SweepEnd, DdrTypes, DdrConstants
<1>5. acc'.state = "IDLE" /\ ~acc'.busy /\ ~acc'.start_tg
  BY <1>1, ModulesClock DEF AccOn, AccIdle
<1>6. D!NextGenState = "IDLE"
  BY <1>1, <1>4 DEF D!NextGenState, AccOn, AccIdle
<1>7. /\ gen'.state = "IDLE" /\ ~gen'.start_wr /\ gen'.target = dregs'.addr
      /\ gen'.completed <=> mem.state = "WRITE"
  BY <1>1, <1>2, <1>4, <1>6, ModulesClock
<1>8. CASE mem.state = "DATA_VERIFICATION"
  <2>1. MemAt(dregs.addr + dregs.offset) /\ dregs.offset <= MemSize
    BY <1>1, <1>4
  <2>2. MemIdle' /\ Swept(dregs.offset + 1)'
    <3>1. \A n \in Nat : n <= MemSize /\ MemAt(dregs.addr + n) /\ Swept(n)
                           => MemIdle' /\ Swept(n + 1)'
      BY <1>8, VerifiedTick
    <3> QED
      BY <1>1, <1>2, <1>4, <2>1, <3>1 DEF Swept
  <2> QED
    BY <1>5, <1>7, <2>2 DEF Over, Resting, AccIdle, GenIdle
<1>9. CASE mem.state # "DATA_VERIFICATION"
  <2>1. /\ mem.state = "WRITE" => mem'.state = "WAIT_WRITE_DONE"
        /\ mem.state # "WRITE" => Rank' < Rank
        /\ mem'.state # "WRITE"
    BY <1>1, <1>4, <1>9, MemAtTick
  <2>2. MemAt(Final)'
    <3>1. \A a \in Nat : MemAt(a) => MemAt(a)'
      BY <1>9, MemAtTick
    <3> QED
      BY <1>1, <1>3, <1>4, <3>1 DEF MemAt
  <2>3. Swept(dregs.offset)'
    <3>1. \A n \in Nat : Swept(n) => Swept(n)'
      BY <1>9, SweptTick
    <3> QED
      BY <1>1, <1>2, <1>4, <3>1 DEF Swept
  <2>4. LastWord'
    BY <1>3, <1>5, <1>7, <2>1, <2>2, <2>3 DEF LastWord, GenIdle, AccIdle
  <2>5. ~acc.busy => mem.state # "WRITE"
    BY <1>1 DEF AccOn
  <2> QED
    BY <1>5, <2>1, <2>4, <2>5
<1> QED
  BY <1>8, <1>9

\* The sweep that is over stays so.
LEMMA OverTick ==
    ASSUME DdrTypeOK, NEW ready \in BOOLEAN, NEW answer \in BOOLEAN, NEW match \in BOOLEAN,
           ClockWith(ready, answer, match), ~ctl.clr, Over, ~ctl.start_operation
    PROVE  Over'
<1>1. Resting /\ Swept(dregs.offset + 1) /\ dregs.offset + 1 \in Nat
  BY DdrTypes DEF Over
<1>2. Resting' /\ dregs' = dregs /\ \A n \in Nat : Swept(n) => Swept(n)'
  BY <1>1, RestingTick
<1> QED
  BY <1>1, <1>2 DEF Over, Swept

\* A clear puts an end to whatever was under way, but for the answers.
LEMMA ClearTick ==
    ASSUME DdrTypeOK, NEW ready \in BOOLEAN, NEW answer \in BOOLEAN, NEW match \in BOOLEAN,
           ClockWith(ready, answer, match), ctl.clr
    PROVE  Clean' /\ dregs' = D!ClearedRegs /\ perf' = 0 /\ verified' = <<>> /\ wrong' = {}
<1>1. /\ dregs' = D!ClearedRegs /\ acc' = D!ClearedAcc /\ gen' = D!ClearedGen
      /\ mem' = D!ClearedMem(mem.addr) /\ perf' = 0 /\ verified' = <<>> /\ wrong' = {}
  BY DEF ClockWith
<1>2. dregs'.ctrl = {} /\ dregs'.addr = 0 /\ mem'.state = "IDLE"
  BY <1>1 DEF D!ClearedRegs, D!ClearedMem
<1>3. ~D!Spoilt'
  BY <1>1 DEF D!Spoilt
<1>4. IsSweep(verified', dregs'.addr, 0)
  <2>1. <<>> \in Seq(Nat) /\ 0 \in Nat
    OBVIOUS
  <2> QED
    BY <1>1, <1>2, <2>1, SweepGrows
<1>5. AccIdle' /\ GenIdle'
  BY <1>1 DEF AccIdle, GenIdle, D!ClearedAcc, D!ClearedGen
<1> QED
  BY <1>1, <1>2, <1>3, <1>4, <1>5 DEF Clean, Resting, MemIdle, Swept

\* No sweep that ends counts more words than the memory has.
LEMMA StageCount ==
    ASSUME DdrTypeOK, Stage, mem.pass, ~Endless
    PROVE  Len(verified) + 1 <= MemSize
<1>1. Waiting \/ LastWord
  BY MemInvIs DEF Stage, Resting, Begun, Active, MemIdle, MemInv
<1>2. /\ SetUp /\ Final = dregs.addr + dregs.offset /\ dregs.addr \in Nat
      /\ dregs.offset \in Nat /\ verified \in Seq(Nat) /\ Len(verified) \in Nat
      /\ MemSize \in Nat /\ gen.target \in Nat
  BY <1>1, DdrTypes, DdrConstants DEF Waiting, LastWord, Final
<1>3. Final < MemSize
  BY <1>2, SweepEnd
<1>4. PICK n \in Nat : Swept(n) /\ n <= dregs.offset
  <2>1. CASE Waiting
    <3>1. gen.target \in dregs.addr .. Final - 1 /\ Swept(gen.target - dregs.addr)
      BY <2>1 DEF Waiting
    <3>2. gen.target - dregs.addr \in Nat /\ gen.target - dregs.addr <= dregs.offset
      BY <1>2, <3>1
    <3> QED
      BY <3>1, <3>2
  <2>2. CASE LastWord
    <3>1. Swept(dregs.offset)
      BY <2>2 DEF LastWord
    <3> QED
      BY <1>2, <3>1
  <2> QED
    BY <1>1, <2>1, <2>2
<1>5. Len(verified) <= n
  <2>1. IsSweep(verified, dregs.addr, n) => Len(verified) = n
    BY <1>2, SweepGrows
  <2> QED
    BY <1>2, <1>4, <2>1 DEF Swept
<1> QED
  BY <1>2, <1>3, <1>4, <1>5

\* The counter counts what is verified.
LEMMA CountedTick ==
    ASSUME DdrTypeOK, Stage, Counted,
           NEW ready \in BOOLEAN, NEW answer \in BOOLEAN, NEW match \in BOOLEAN,
           ClockWith(ready, answer, match)
    PROVE  Counted'
<1>1. CASE ctl.clr
  <2>1. perf' = 0 /\ verified' = <<>>
    BY <1>1, ClearTick
  <2> QED
    BY <2>1 DEF Counted
<1>2. CASE ~ctl.clr /\ Endless
  BY <1>2, EndlessTick DEF Counted
<1>3. CASE ~ctl.clr /\ ~Endless
  <2>1. /\ perf' = IF mem.pass THEN (perf + 1) % CounterSize ELSE perf
        /\ verified' = IF mem.pass /\ Len(verified) <= MemSize
                       THEN Append(verified, mem.addr) ELSE verified
    BY <1>3 DEF ClockWith
  <2>2. /\ perf = Len(verified) /\ verified \in Seq(Nat) /\ Len(verified) \in Nat /\ mem.addr \in Nat
        /\ MemSize \in Nat /\ CounterSize \in Nat /\ CounterSize > MemSize
    BY <1>3, DdrTypes, DdrConstants DEF Counted
  <2>3. CASE mem.pass
    <3>1. Len(verified) + 1 <= MemSize
      BY <1>3, <2>3, StageCount
    <3>2. Len(verified) <= MemSize /\ (Len(verified) + 1) % CounterSize = Len(verified) + 1
      <4>1. Len(verified) + 1 \in 0 .. CounterSize - 1
        BY <2>2, <3>1
      <4>2. \A k \in 0 .. CounterSize - 1 : k % CounterSize = k
        BY <2>2
      <4> QED
        BY <2>2, <3>1, <4>1, <4>2
    <3>3. perf' = Len(verified) + 1 /\ verified' = Append(verified, mem.addr)
      BY <2>1, <2>2, <2>3, <3>2
    <3>4. Len(verified') = Len(verified) + 1
      BY <2>2, <3>3
    <3> QED
      BY <3>3, <3>4 DEF Counted
  <2>4. CASE ~mem.pass
    BY <2>1, <2>2, <2>4 DEF Counted
  <2> QED
    BY <2>3, <2>4
<1> QED
  BY <1>1, <1>2, <1>3


\* A clock keeps the types.
LEMMA DdrTypeTick ==
    ASSUME DdrTypeOK,
           NEW ready \in BOOLEAN, NEW answer \in BOOLEAN, NEW match \in BOOLEAN,
           ClockWith(ready, answer, match)
    PROVE  DdrTypeOK'
<1> DEFINE Ctl == [clr_d : BOOLEAN, clr : BOOLEAN, start_d : BOOLEAN, start_pulse : BOOLEAN,
                   start_operation : BOOLEAN, mem_addr : D!Addresses,
                   final : [1 .. FinalStages -> D!Addresses]]
           Acc == [state : {"IDLE", "DDR_ACCESS"}, busy : BOOLEAN, clear : BOOLEAN, start_tg : BOOLEAN]
           Gen == [state : {"IDLE", "ACTIVE", "WAIT"}, completed : BOOLEAN, start_wr : BOOLEAN,
                   target : D!Addresses]
           Mem == [state : D!MemStates, addr : D!Addresses, write : BOOLEAN, read : BOOLEAN,
                   pass : BOOLEAN, fail : BOOLEAN]
           Regs == [ctrl : SUBSET {"clr", "load_seed", "start"}, addr : D!Addresses,
                    seed : {0, 1}, offset : D!Addresses]
           Wrong == {"memory", "misread", "twice"}
<1>0. /\ dregs \in Regs /\ ctl \in Ctl /\ acc \in Acc /\ gen \in Gen /\ mem \in Mem
      /\ dgap \in 0 .. DdrGap /\ perf \in 0 .. CounterSize - 1 /\ verified \in Seq(Nat)
      /\ wrong \subseteq Wrong /\ 0 \in D!Addresses
      /\ dregs.addr \in D!Addresses /\ dregs.offset \in D!Addresses
      /\ gen.target \in D!Addresses /\ mem.addr \in D!Addresses /\ mem.state \in D!MemStates
      /\ ctl.mem_addr \in D!Addresses /\ ctl.final \in [1 .. FinalStages -> D!Addresses]
      /\ gen.state \in {"IDLE", "ACTIVE", "WAIT"}
      /\ dhost \in [pc : D!PCs, i : 0 .. number_of_runs + 1, base : D!Addresses, offset : D!Addresses,
                    exit : {"none", "killed", "passed", "uncalibrated", "bad_seed", "bad_count"}]
  <2>1. /\ dregs \in Regs /\ ctl \in Ctl /\ acc \in Acc /\ gen \in Gen /\ mem \in Mem
        /\ dgap \in 0 .. DdrGap /\ perf \in 0 .. CounterSize - 1 /\ verified \in Seq(Nat)
        /\ wrong \subseteq Wrong
        /\ dhost \in [pc : D!PCs, i : 0 .. number_of_runs + 1, base : D!Addresses, offset : D!Addresses,
                      exit : {"none", "killed", "passed", "uncalibrated", "bad_seed", "bad_count"}]
    BY DEF DdrTypeOK, D!TypeOK
  <2> QED
    BY <2>1, DdrConstants
<1>1. \A k \in Nat : k % MemSize \in D!Addresses
  BY DdrConstants DEF D!Addresses
<1>2. \A k \in D!Addresses : k \in Nat
  BY DdrConstants DEF D!Addresses
<1>3. D!Controller \in Ctl
  <2>1. (dregs.addr + dregs.offset) % MemSize \in D!Addresses
    BY <1>0, <1>1, <1>2
  <2>2. [s \in 1 .. FinalStages |-> IF s = 1 THEN (dregs.addr + dregs.offset) % MemSize
                                    ELSE ctl.final[s - 1]] \in [1 .. FinalStages -> D!Addresses]
    <3>1. \A s \in 1 .. FinalStages : s # 1 => s - 1 \in 1 .. FinalStages
      BY DdrConstants
    <3> QED
      BY <1>0, <2>1, <3>1
  <2>3. /\ ("clr" \in dregs.ctrl) \in BOOLEAN
        /\ (~ctl.clr_d /\ "clr" \in dregs.ctrl) \in BOOLEAN
        /\ ("start" \in dregs.ctrl) \in BOOLEAN
        /\ (~ctl.start_d /\ "start" \in dregs.ctrl) \in BOOLEAN
        /\ (ctl.start_pulse \/ (ctl.start_operation /\ ~acc.clear /\ ~gen.completed)) \in BOOLEAN
    OBVIOUS
  <2> QED
    BY <1>0, <2>2, <2>3, Zenon DEF D!Controller
<1>4. ctl' \in Ctl /\ dgap' \in 0 .. DdrGap /\ dhost' = dhost
  BY <1>0, <1>3, DdrConstants DEF ClockWith
<1>5. /\ MemInv' /\ reads' \in [stale : 0 .. MaxReads, live : 0 .. 2]
      /\ held' \in 0 .. MaxWait /\ age' \in 0 .. MaxWait
  BY MemInvTick
<1>6. CASE ctl.clr
  <2>1. /\ dregs' = D!ClearedRegs /\ acc' = D!ClearedAcc /\ gen' = D!ClearedGen
        /\ mem' = D!ClearedMem(mem.addr) /\ perf' = 0 /\ verified' = <<>> /\ wrong' = {}
    BY <1>6 DEF ClockWith
  <2>2. /\ dregs' \in Regs /\ acc' \in Acc /\ gen' \in Gen /\ mem' \in Mem
    BY <1>0, <2>1 DEF D!ClearedRegs, D!ClearedAcc, D!ClearedGen, D!ClearedMem, D!MemStates
  <2>3. perf' \in 0 .. CounterSize - 1 /\ verified' \in Seq(Nat) /\ wrong' \subseteq Wrong
    <3>1. <<>> \in Seq(Nat)
      OBVIOUS
    <3>2. 0 \in 0 .. CounterSize - 1
      BY DdrConstants
    <3> QED
      BY <2>1, <3>1, <3>2
  <2> QED
    BY <1>0, <1>4, <1>5, <2>2, <2>3 DEF DdrTypeOK, D!TypeOK
<1>7. CASE ~ctl.clr
  <2>1. /\ acc' = D!MemAccess /\ gen' = D!TrafficGenerator /\ mem' = D!DdrWrRd(ready, answer, match)
        /\ perf' = IF mem.pass THEN (perf + 1) % CounterSize ELSE perf
        /\ verified' = IF mem.pass /\ Len(verified) <= MemSize
                       THEN Append(verified, mem.addr) ELSE verified
        /\ dregs' = dregs
    BY <1>7 DEF ClockWith
  <2>2. wrong' \subseteq Wrong
    BY <1>0, <1>7, HistoryClock
  <2>3. acc' \in Acc
    <3> DEFINE next == IF acc.state = "IDLE"
                       THEN IF ctl.start_operation /\ ~gen.completed THEN "DDR_ACCESS" ELSE "IDLE"
                       ELSE IF gen.completed THEN "IDLE" ELSE "DDR_ACCESS"
    <3>1. acc' = [state |-> next, busy |-> next = "DDR_ACCESS",
                  clear |-> next = "IDLE" \/ gen.completed,
                  start_tg |-> next = "DDR_ACCESS" /\ ~gen.completed]
      BY <2>1 DEF D!MemAccess
    <3>2. next \in {"IDLE", "DDR_ACCESS"}
      OBVIOUS
    <3> HIDE DEF next
    <3> QED
      BY <3>1, <3>2, Zenon
  <2>4. gen' \in Gen
    <3>1. D!NextGenState \in {"IDLE", "ACTIVE", "WAIT"}
      BY <1>0 DEF D!NextGenState
    <3> DEFINE next == IF ~gen.start_wr THEN ctl.mem_addr
                       ELSE IF mem.pass \/ mem.fail THEN (gen.target + 1) % MemSize
                       ELSE gen.target
    <3>2. next \in D!Addresses
      <4>1. (gen.target + 1) % MemSize \in D!Addresses
        BY <1>0, <1>1, <1>2
      <4> QED
        BY <1>0, <4>1
    <3>3. gen' = [state |-> D!NextGenState, completed |-> D!NextGenState = "IDLE" /\ D!AtFinal,
                  start_wr |-> D!NextGenState # "IDLE", target |-> next]
      BY <2>1 DEF D!TrafficGenerator
    <3> HIDE DEF next
    <3> QED
      BY <3>1, <3>2, <3>3, Zenon
  <2>5. mem' \in Mem
    <3> DEFINE step == D!NextMemState(ready, answer)
               addr == IF step = "WRITE" THEN gen.target ELSE mem.addr
    <3>1. step \in D!MemStates
      BY <1>0 DEF D!NextMemState, D!MemStates
    <3>2. addr \in D!Addresses
      BY <1>0
    <3>3. mem' = [state |-> step, addr |-> addr,
                  write |-> step = "WRITE" \/ (step = "WAIT_WRITE_DONE" /\ ~ready),
                  read |-> step = "READ" \/ (step = "WAIT_READ_ACCEPTED" /\ ~ready),
                  pass |-> (step = "DATA_VERIFICATION" /\ answer) /\ match,
                  fail |-> (step = "DATA_VERIFICATION" /\ answer) /\ ~match]
      BY <2>1 DEF D!DdrWrRd
    <3> HIDE DEF step, addr
    <3> QED
      BY <3>1, <3>2, <3>3, Zenon
  <2>6. perf' \in 0 .. CounterSize - 1
    <3>1. /\ perf + 1 \in Nat /\ CounterSize \in Nat /\ CounterSize > 0
      BY <1>0, DdrConstants
    <3>2. (perf + 1) % CounterSize \in 0 .. CounterSize - 1
      BY <3>1
    <3> QED
      BY <1>0, <2>1, <3>2
  <2>7. verified' \in Seq(Nat)
    <3>1. mem.addr \in Nat
      BY <1>0, <1>2
    <3> QED
      BY <1>0, <2>1, <3>1
  <2> QED
    BY <1>0, <1>4, <1>5, <2>1, <2>2, <2>3, <2>4, <2>5, <2>6, <2>7 DEF DdrTypeOK, D!TypeOK
<1> QED
  BY <1>6, <1>7

\* A clock leads from one stage of a sweep to another.
LEMMA StageTick ==
    ASSUME DdrTypeOK, Stage, Pulses,
           NEW ready \in BOOLEAN, NEW answer \in BOOLEAN, NEW match \in BOOLEAN,
           ClockWith(ready, answer, match)
    PROVE  Stage'
<1>1. CASE ctl.clr
  BY <1>1, ClearTick DEF Stage, Clean
<1>2. CASE ~ctl.clr /\ ctl.start_operation
  <2>1. Armed
    BY <1>2 DEF Pulses
  <2> QED
    BY <1>2, <2>1, ArmedTick DEF Stage, Barred
<1>3. CASE ~ctl.clr /\ ~ctl.start_operation
  BY <1>3, RestingTick, BegunTick, ActiveTick, WaitingTick, LastWordTick, EndlessTick DEF Stage, Over
<1> QED
  BY <1>1, <1>2, <1>3

\* The clocks since the last access.
LEMMA GapTick ==
    ASSUME DdrTypeOK, NEW ready, NEW answer, NEW match, ClockWith(ready, answer, match)
    PROVE  /\ dgap' = IF dgap < DdrGap THEN dgap + 1 ELSE dgap
           /\ dgap \in Nat /\ dgap' \in Nat /\ dgap' # 0
           /\ (dgap' = 1 <=> dgap = 0) /\ (dgap' = 2 <=> dgap = 1) /\ (dgap' = 3 <=> dgap = 2)
           /\ dgap <= dgap' /\ dgap' <= dgap + 1
<1>1. dgap' = IF dgap < DdrGap THEN dgap + 1 ELSE dgap
  BY DEF ClockWith
<1>2. dgap \in Nat /\ dgap \in 0 .. DdrGap /\ DdrGap \in Nat /\ DdrGap >= 5
  BY DdrTypes, DdrConstants
<1>3. CASE dgap < DdrGap
  <2>1. dgap' = dgap + 1
    BY <1>1, <1>3
  <2> QED
    BY <1>1, <1>2, <2>1
<1>4. CASE ~(dgap < DdrGap)
  <2>1. dgap' = dgap /\ dgap = DdrGap
    BY <1>1, <1>2, <1>4
  <2> QED
    BY <1>1, <1>2, <2>1
<1> QED
  BY <1>3, <1>4

\* The pulses follow the writes of the control register.
LEMMA PulsesTick ==
    ASSUME DdrTypeOK, Stage, Pulses,
           NEW ready \in BOOLEAN, NEW answer \in BOOLEAN, NEW match \in BOOLEAN,
           ClockWith(ready, answer, match)
    PROVE  Pulses'
<1>1. ctl' = D!Controller
  BY DEF ClockWith
<1>2. /\ ctl'.clr_d <=> "clr" \in dregs.ctrl
      /\ ctl'.clr <=> ~ctl.clr_d /\ "clr" \in dregs.ctrl
      /\ ctl'.start_d <=> "start" \in dregs.ctrl
      /\ ctl'.start_pulse <=> ~ctl.start_d /\ "start" \in dregs.ctrl
      /\ ctl'.start_operation <=> ctl.start_pulse
             \/ (ctl.start_operation /\ ~acc.clear /\ ~gen.completed)
  BY <1>1, ControllerClock
<1>3. /\ dgap' # 0
      /\ (dgap' = 1 <=> dgap = 0) /\ (dgap' = 2 <=> dgap = 1) /\ (dgap' = 3 <=> dgap = 2)
  BY GapTick
<1>4. /\ "clr" \in dregs.ctrl =>
          /\ dregs.ctrl = {"clr"}
          /\ \/ dgap = 0 /\ ~ctl.clr /\ ~ctl.clr_d
             \/ dgap = 1 /\ ctl.clr /\ ctl.clr_d
      /\ ctl.clr => dgap = 1 /\ dregs.ctrl = {"clr"}
      /\ "start" \in dregs.ctrl =>
          /\ dregs.ctrl = {"start"}
          /\ dgap = 0 <=> ~ctl.start_d
          /\ dgap \in {0, 1, 2} => Armed
      /\ ctl.start_pulse <=> dgap = 1 /\ "start" \in dregs.ctrl
      /\ ctl.start_operation <=> dgap = 2 /\ "start" \in dregs.ctrl
  BY DEF Pulses
<1>5. "start" \notin {"clr"}
  OBVIOUS
<1>6. CASE ctl.clr
  <2>1. dregs'.ctrl = {}
    BY <1>6, ClearTick DEF D!ClearedRegs
  <2>2. /\ dgap' = 2 /\ ~ctl'.clr /\ ~ctl'.start_d /\ ~ctl'.start_pulse /\ ~ctl'.start_operation
    BY <1>2, <1>3, <1>4, <1>5, <1>6
  <2> QED
    BY <2>1, <2>2 DEF Pulses
<1>7. CASE ~ctl.clr
  <2>1. dregs' = dregs
    BY <1>7, ModulesClock
  <2>2. ctl.start_operation => acc.clear
    BY <1>4 DEF Armed, Ready, Barred
  <2>3. ctl'.start_operation <=> dgap' = 2 /\ "start" \in dregs'.ctrl
    BY <1>2, <1>3, <1>4, <2>1, <2>2
  <2>4. ctl'.start_pulse <=> dgap' = 1 /\ "start" \in dregs'.ctrl
    BY <1>2, <1>3, <1>4, <2>1
  <2>5. "start" \in dregs.ctrl /\ dgap' \in {0, 1, 2} => Armed'
    <3>1. "start" \in dregs.ctrl /\ dgap' \in {0, 1, 2} => Armed /\ ~ctl.start_operation
      BY <1>3, <1>4
    <3> QED
      BY <1>7, <3>1, ArmedTick
  <2>6. "start" \in dregs'.ctrl =>
          /\ dregs'.ctrl = {"start"}
          /\ dgap' = 0 <=> ~ctl'.start_d
          /\ dgap' \in {0, 1, 2} => Armed'
    BY <1>2, <1>3, <1>4, <2>1, <2>5
  <2>7. /\ "clr" \in dregs'.ctrl => dregs'.ctrl = {"clr"} /\ dgap' = 1 /\ ctl'.clr /\ ctl'.clr_d
        /\ ctl'.clr => dgap' = 1 /\ dregs'.ctrl = {"clr"}
        /\ ctl'.clr_d => dgap' = 1
        /\ ctl'.start_d => "start" \in dregs'.ctrl
    BY <1>2, <1>3, <1>4, <1>7, <2>1
  <2> QED
    BY <2>3, <2>4, <2>6, <2>7 DEF Pulses
<1> QED
  BY <1>6, <1>7

\* No clear and no start without their bit.
LEMMA QuietPulses ==
    ASSUME Pulses
    PROVE  /\ "clr" \notin dregs.ctrl => ~ctl.clr
           /\ "start" \notin dregs.ctrl => ~ctl.start_operation /\ ~ctl.start_pulse
           /\ ctl.start_operation => dgap = 2
  BY DEF Pulses

\* A persona with nothing left of an earlier sweep stays so.
LEMMA CleanTick ==
    ASSUME DdrTypeOK, Pulses, Clean,
           NEW ready \in BOOLEAN, NEW answer \in BOOLEAN, NEW match \in BOOLEAN,
           ClockWith(ready, answer, match)
    PROVE  /\ Clean' /\ acc'.clear /\ dregs' = dregs /\ ~ctl.clr
           /\ reads.stale = 0 => reads'.stale = 0
           /\ gen'.target = ctl.mem_addr /\ (gen'.completed <=> D!AtFinal)
<1>1. Resting /\ Swept(0) /\ "start" \notin dregs.ctrl /\ "clr" \notin dregs.ctrl
  BY DEF Clean
<1>2. ~ctl.clr /\ ~ctl.start_operation
  BY <1>1, QuietPulses
<1>3. /\ Resting' /\ acc'.clear /\ dregs' = dregs /\ Swept(0)'
      /\ gen'.target = ctl.mem_addr /\ (gen'.completed <=> D!AtFinal)
  BY <1>1, <1>2, RestingTick
<1>4. reads'.stale = reads.stale - (IF answer /\ reads.stale > 0 THEN 1 ELSE 0)
  BY <1>1, <1>2, MemIdleTick DEF Resting
<1>5. reads.stale = 0 => reads'.stale = 0
  BY <1>4
<1> QED
  BY <1>1, <1>2, <1>3, <1>5 DEF Clean

\* The answers to earlier reads run out, at the pace of the slowest memory.
LEMMA Drains ==
    ASSUME NEW r \in Nat, NEW w \in Nat, NEW s \in Nat, s > 0, s <= r
    PROVE  /\ (r - s) * (w + 1) \in Nat
           /\ (r - s + 1) * (w + 1) = (r - s) * (w + 1) + w + 1
           /\ (r - s) * (w + 1) + w + 1 <= r * (w + 1)
<1>1. PICK k \in Nat : k = r - s
  OBVIOUS
<1>2. PICK d \in Nat : d = s - 1
  OBVIOUS
<1>3. /\ k * (w + 1) \in Nat /\ d * (w + 1) \in Nat
      /\ (k + 1) * (w + 1) = k * (w + 1) + w + 1
  OBVIOUS
<1>4. r = k + 1 + d
  BY <1>1, <1>2
<1>5. r * (w + 1) = (k + 1) * (w + 1) + d * (w + 1)
  BY <1>4
<1> QED
  BY <1>1, <1>3, <1>5

LEMMA DrainingTick ==
    ASSUME DdrTypeOK, Pulses, Clean, Draining, dgap >= 2,
           NEW ready \in BOOLEAN, NEW answer \in BOOLEAN, NEW match \in BOOLEAN,
           ClockWith(ready, answer, match)
    PROVE  Draining'
<1> SUFFICES ASSUME reads'.stale > 0
             PROVE  dgap' <= 2 + (MaxReads - reads'.stale) * (MaxWait + 1) + age'
  BY DEF Draining
<1>1. ~ctl.clr /\ MemIdle
  BY CleanTick DEF Clean, Resting
<1>2. /\ reads'.stale = reads.stale - (IF answer /\ reads.stale > 0 THEN 1 ELSE 0)
      /\ ~answer /\ reads.stale > 0 => age' = age + 1
      /\ answer => reads.stale > 0 /\ age' = 0
  BY <1>1, MemIdleTick
<1>3. /\ reads.stale \in Nat /\ reads.stale <= MaxReads /\ MaxReads \in Nat
      /\ MaxWait \in Nat /\ age \in Nat /\ age <= MaxWait /\ dgap \in Nat
      /\ dgap' \in Nat /\ dgap' <= dgap + 1
  BY ReadTypes, DdrTypes, DdrConstants, GapTick
<1>4. reads.stale > 0
  BY <1>2, <1>3
<1> DEFINE left == (MaxReads - reads.stale) * (MaxWait + 1)
<1>5. left \in Nat /\ (MaxReads - reads.stale + 1) * (MaxWait + 1) = left + MaxWait + 1
  BY <1>3, <1>4, Drains
<1>6. dgap <= 2 + left + age
  BY <1>4 DEF Draining
<1>7. CASE answer
  <2>1. reads'.stale = reads.stale - 1 /\ age' = 0
    BY <1>2, <1>4, <1>7
  <2>2. MaxReads - reads'.stale = MaxReads - reads.stale + 1
    BY <1>3, <2>1
  <2>3. (MaxReads - reads'.stale) * (MaxWait + 1) = left + MaxWait + 1
    BY <1>5, <2>2
  <2> HIDE DEF left
  <2> QED
    BY <1>3, <1>5, <1>6, <2>1, <2>3
<1>8. CASE ~answer
  <2>1. reads'.stale = reads.stale /\ age' = age + 1
    BY <1>2, <1>3, <1>4, <1>8
  <2>2. (MaxReads - reads'.stale) * (MaxWait + 1) = left
    BY <2>1
  <2> HIDE DEF left
  <2> QED
    BY <1>3, <1>5, <1>6, <2>1, <2>2
<1> QED
  BY <1>7, <1>8

\* What the program knows holds after a clock.
LEMMA SweepTick ==
    ASSUME DdrInv, NEW ready \in BOOLEAN, NEW answer \in BOOLEAN, NEW match \in BOOLEAN,
           ClockWith(ready, answer, match)
    PROVE  SweepAt'
<1>1. DdrTypeOK /\ Stage /\ Pulses /\ SweepAt
  BY DEF DdrInv
<1>2. dhost' = dhost /\ ctl' = D!Controller
  BY DEF ClockWith
<1>3. /\ dgap' = IF dgap < DdrGap THEN dgap + 1 ELSE dgap
      /\ dgap \in Nat /\ dgap' \in Nat /\ dgap' # 0
      /\ (dgap' = 1 <=> dgap = 0) /\ (dgap' = 2 <=> dgap = 1) /\ (dgap' = 3 <=> dgap = 2)
      /\ dgap <= dgap' /\ dgap' <= dgap + 1
  BY <1>1, GapTick
<1>4. age \in Nat /\ DdrGap \in Nat /\ FinalStages \in Nat \ {0} /\ MaxWait \in Nat
      /\ DdrGap >= 5 /\ DdrGap > FinalStages /\ dgap <= DdrGap
  BY <1>1, DdrTypes, DdrConstants
<1>5. ~ctl.clr => dregs' = dregs
  BY ModulesClock
<1>6. ASSUME dhost.pc = "rst1" PROVE dregs'.ctrl = {}
  <2>1. dregs.ctrl = {}
    BY <1>1, <1>6 DEF SweepAt
  <2> QED
    BY <1>1, <1>5, <2>1, QuietPulses
<1>7. ASSUME dhost.pc = "rst2"
      PROVE  \/ dgap' \in {0, 1} /\ dregs'.ctrl = {"clr"}
             \/ dgap' >= 2 /\ Clean' /\ Draining' /\ (dgap' >= 3 => acc'.clear)
  <2>1. CASE dgap \in {0, 1} /\ dregs.ctrl = {"clr"}
    <3>1. dgap = 0 <=> ~ctl.clr
      BY <1>1, <2>1 DEF Pulses
    <3>2. CASE dgap = 0
      BY <1>3, <1>5, <2>1, <3>1, <3>2
    <3>3. CASE dgap = 1
      <4>1. ctl.clr /\ dgap' = 2
        BY <1>3, <3>1, <3>3
      <4>2. Clean'
        BY <1>1, <4>1, ClearTick
      <4>3. Draining'
        <5>1. reads' \in [stale : 0 .. MaxReads, live : 0 .. 2] /\ age' \in 0 .. MaxWait
          BY <1>1, MemInvTick
        <5>2. reads'.stale \in Nat /\ reads'.stale <= MaxReads /\ age' \in Nat /\ MaxReads \in Nat
          BY <1>4, <5>1, DdrConstants
        <5>3. reads'.stale > 0 => (MaxReads - reads'.stale) * (MaxWait + 1) \in Nat
          BY <1>4, <5>2, Drains
        <5>4. \A x, y \in Nat : 2 <= 2 + x + y
          OBVIOUS
        <5>5. reads'.stale > 0 => 2 <= 2 + (MaxReads - reads'.stale) * (MaxWait + 1) + age'
          BY <5>2, <5>3, <5>4
        <5> QED
          BY <4>1, <5>5 DEF Draining
      <4> QED
        BY <4>1, <4>2, <4>3
    <3> QED
      BY <2>1, <3>2, <3>3
  <2>2. CASE dgap >= 2 /\ Clean /\ Draining
    <3>1. Clean' /\ acc'.clear
      BY <1>1, <2>2, CleanTick
    <3>2. Draining'
      BY <1>1, <2>2, DrainingTick
    <3>3. dgap' >= 2
      BY <1>3, <2>2
    <3> QED
      BY <3>1, <3>2, <3>3
  <2> QED
    BY <1>1, <1>7, <2>1, <2>2 DEF SweepAt
<1>8. ASSUME dhost.pc \in {"cal", "seed", "load", "seedback", "addr", "offset", "start"}
      PROVE  /\ Clean' /\ reads'.stale = 0 /\ acc'.clear /\ dregs' = dregs /\ ~ctl.clr
             /\ gen'.target = ctl.mem_addr /\ (gen'.completed <=> D!AtFinal)
  <2>1. Clean /\ reads.stale = 0
    BY <1>1, <1>8 DEF SweepAt
  <2> QED
    BY <1>1, <2>1, CleanTick
<1>9. ASSUME dhost.pc \in {"load", "seedback"} PROVE dregs'.seed = 1
  BY <1>1, <1>8, <1>9 DEF SweepAt
<1>10. ASSUME dhost.pc \in {"stop", "poll", "check"}
       PROVE  dregs' = dregs /\ ~ctl.clr
  <2>1. "clr" \notin dregs.ctrl
    BY <1>1, <1>10 DEF SweepAt
  <2> QED
    BY <1>1, <1>5, <2>1, QuietPulses
<1>11. ASSUME dhost.pc \in {"offset", "start", "stop", "poll", "check"}
       PROVE  dregs'.addr = dhost.base /\ dhost.offset \in Offsets /\ dhost.base + dhost.offset < MemSize
  <2>1. dregs.addr = dhost.base /\ dhost.offset \in Offsets /\ dhost.base + dhost.offset < MemSize
    BY <1>1, <1>11 DEF SweepAt
  <2>2. dregs' = dregs
    BY <1>8, <1>10, <1>11
  <2> QED
    BY <2>1, <2>2
<1>12. ASSUME dhost.pc \in {"start", "stop", "poll", "check"} PROVE dregs'.offset = dhost.offset
  <2>1. dregs.offset = dhost.offset
    BY <1>1, <1>12 DEF SweepAt
  <2>2. dregs' = dregs
    BY <1>8, <1>10, <1>12
  <2> QED
    BY <2>1, <2>2
<1>13. ASSUME dhost.pc \in {"offset", "start"}
       PROVE  /\ ctl'.mem_addr = dregs'.addr
              /\ dgap' >= 2 \/ dhost.pc = "start" => gen'.target = dregs'.addr
  <2>1. dregs' = dregs /\ gen'.target = ctl.mem_addr
    BY <1>8, <1>13
  <2>2. ctl'.mem_addr = dregs.addr
    BY <1>2, ControllerClock
  <2>3. dgap >= 1 \/ dhost.pc = "start" => ctl.mem_addr = dregs.addr
    BY <1>1, <1>13 DEF SweepAt
  <2>4. dgap' >= 2 => dgap >= 1
    BY <1>3
  <2> QED
    BY <2>1, <2>2, <2>3, <2>4
<1>14. ASSUME dhost.pc = "start"
       PROVE  /\ \A s \in 1 .. FinalStages : dgap' >= s => ctl'.final[s] = Final'
              /\ dgap' > FinalStages => (gen'.completed <=> dregs'.offset = 0 /\ dregs'.addr # 0)
  <2>1. /\ dregs.addr = dhost.base /\ dregs.offset = dhost.offset /\ dhost.offset \in Offsets
        /\ dhost.base + dhost.offset < MemSize /\ gen.target = dregs.addr
        /\ \A s \in 1 .. FinalStages : dgap >= s => ctl.final[s] = Final
    BY <1>1, <1>14 DEF SweepAt
  <2>2. dregs' = dregs /\ (gen'.completed <=> D!AtFinal)
    BY <1>8, <1>14
  <2>3. Final' = Final /\ Final < MemSize /\ Final \in Nat /\ Final = dregs.addr + dregs.offset
    BY <1>1, <2>1, <2>2, DdrTypes DEF Final
  <2>4. Final % MemSize = Final
    <3> HIDE DEF Final
    <3> QED
      BY <2>3, DdrConstants
  <2>5. ctl'.final = [s \in 1 .. FinalStages |->
                        IF s = 1 THEN (dregs.addr + dregs.offset) % MemSize ELSE ctl.final[s - 1]]
    BY <1>2, ControllerClock
  <2>6. ASSUME NEW s \in 1 .. FinalStages, dgap' >= s PROVE ctl'.final[s] = Final
    <3>1. CASE s = 1
      BY <2>3, <2>4, <2>5, <3>1
    <3>2. CASE s # 1
      <4>1. s - 1 \in 1 .. FinalStages /\ dgap >= s - 1
        BY <1>3, <1>4, <2>6, <3>2
      <4> QED
        BY <2>1, <2>5, <3>2, <4>1
    <3> QED
      BY <3>1, <3>2
  <2>7. ASSUME dgap' > FinalStages PROVE gen'.completed <=> dregs'.offset = 0 /\ dregs'.addr # 0
    <3>1. FinalStages \in 1 .. FinalStages /\ dgap >= FinalStages
      BY <1>3, <1>4, <2>7
    <3>2. D!final_addr = Final
      BY <2>1, <3>1 DEF D!final_addr
    <3>3. dregs.addr = Final <=> dregs.offset = 0
      BY <1>1, <2>3, DdrTypes
    <3> QED
      BY <2>1, <2>2, <3>2, <3>3 DEF D!AtFinal
  <2> QED
    BY <2>3, <2>6, <2>7
<1>15. ASSUME dhost.pc \in {"stop", "poll", "check"}
       PROVE  Own'
  <2>1. Own
    BY <1>1, <1>15 DEF SweepAt
  <2> QED
    BY <1>1, <1>10, <1>15, <2>1, OwnTick
<1>16. ASSUME dhost.pc = "stop"
       PROVE  /\ dregs'.ctrl = {"start"}
              /\ dgap' <= 2 \/ (dgap' = 3 /\ Begun') \/ Active' \/ Waiting' \/ LastWord' \/ Over'
                 \/ Barred' \/ Endless'
  <2>1. /\ dregs.ctrl = {"start"} /\ dregs' = dregs /\ ~ctl.clr
        /\ dgap <= 2 \/ (dgap = 3 /\ Begun) \/ Active \/ Waiting \/ LastWord \/ Over
           \/ Barred \/ Endless
    BY <1>1, <1>10, <1>16 DEF SweepAt
  <2>2. CASE dgap <= 2
    <3>1. dgap \in {0, 1, 2} /\ dgap' = dgap + 1
      BY <1>3, <1>4, <2>2
    <3>2. Armed /\ (ctl.start_operation <=> dgap = 2)
      BY <1>1, <2>1, <3>1 DEF Pulses
    <3>3. dgap = 2 => (Begun' \/ Barred' \/ Endless') /\ dgap' = 3
      BY <1>1, <1>3, <2>1, <3>2, ArmedTick
    <3>4. dgap # 2 => dgap' <= 2
      BY <3>1
    <3> QED
      BY <2>1, <3>3, <3>4
  <2>3. CASE ~(dgap <= 2)
    <3>1. ~ctl.start_operation
      BY <1>1, <2>3, QuietPulses
    <3> QED
      BY <1>1, <2>1, <2>3, <3>1, BegunTick, ActiveTick, WaitingTick, LastWordTick, OverTick,
         BarredTick, EndlessTick
  <2> QED
    BY <2>2, <2>3
<1>17. ASSUME dhost.pc = "poll"
       PROVE  dregs'.ctrl = {} /\ (Active' \/ Waiting' \/ LastWord' \/ Over' \/ Barred' \/ Endless')
  <2>1. /\ dregs.ctrl = {} /\ dregs' = dregs /\ ~ctl.clr
        /\ Active \/ Waiting \/ LastWord \/ Over \/ Barred \/ Endless
    BY <1>1, <1>10, <1>17 DEF SweepAt
  <2>2. ~ctl.start_operation
    BY <1>1, <2>1, QuietPulses
  <2> QED
    BY <1>1, <2>1, <2>2, ActiveTick, WaitingTick, LastWordTick, OverTick, BarredTick, EndlessTick
<1>18. ASSUME dhost.pc = "check"
       PROVE  /\ dregs'.ctrl = {}
              /\ (LastWord' /\ ~acc'.busy /\ dgap' + Rank' <= 5 + 3 * MaxWait) \/ Over' \/ Barred'
  <2>1. /\ dregs.ctrl = {} /\ dregs' = dregs /\ ~ctl.clr
        /\ (LastWord /\ ~acc.busy /\ dgap + Rank <= 5 + 3 * MaxWait) \/ Over \/ Barred
    BY <1>1, <1>10, <1>18 DEF SweepAt
  <2>2. ~ctl.start_operation
    BY <1>1, <2>1, QuietPulses
  <2>3. CASE Over \/ Barred
    BY <1>1, <2>1, <2>2, <2>3, OverTick, BarredTick
  <2>4. CASE LastWord /\ ~acc.busy /\ dgap + Rank <= 5 + 3 * MaxWait
    <3>1. (LastWord' /\ ~acc'.busy /\ Rank' < Rank) \/ Over'
      BY <1>1, <2>1, <2>2, <2>4, LastWordTick
    <3>2. Rank \in Int /\ Rank' \in Int
      <4>1. age' \in 0 .. MaxWait /\ held' \in 0 .. MaxWait
        BY <1>1, MemInvTick
      <4>2. held \in Nat /\ held' \in Nat /\ age' \in Nat
        BY <1>1, <1>4, <4>1, DdrTypes
      <4> QED
        BY <1>4, <4>2 DEF Rank
    <3>3. Rank' < Rank => dgap' + Rank' <= 5 + 3 * MaxWait
      <4>1. dgap \in Nat /\ dgap' \in Nat /\ dgap' <= dgap + 1
        BY <1>3
      <4>2. MaxWait \in Nat
        BY <1>4
      <4>3. dgap + Rank <= 5 + 3 * MaxWait
        BY <2>4
      <4>4. \A g, h \in Nat, r, q \in Int : h <= g + 1 /\ g + r <= 5 + 3 * MaxWait /\ q < r
                                            => h + q <= 5 + 3 * MaxWait
        BY <4>2
      <4> QED
        BY <3>2, <4>1, <4>3, <4>4
    <3> QED
      BY <2>1, <3>1, <3>3
  <2> QED
    BY <2>1, <2>3, <2>4
<1> QED
  BY <1>2, <1>6, <1>7, <1>8, <1>9, <1>11, <1>12, <1>13, <1>14, <1>15, <1>16, <1>17, <1>18 DEF SweepAt

\* A step of the program leaves the modules of the persona alone, and a sweep
\* where it is when it leaves its registers alone too.
Held == UNCHANGED <<ctl, acc, gen, mem, perf, reads, held, age, verified, wrong>>

LEMMA StageHeld ==
    ASSUME Held
    PROVE  /\ (Resting' <=> Resting) /\ (Own' <=> Own) /\ Rank' = Rank
           /\ dregs'.addr = dregs.addr /\ dregs'.offset = dregs.offset =>
                 /\ Final' = Final
                 /\ (Begun' <=> Begun) /\ (Active' <=> Active) /\ (Waiting' <=> Waiting)
                 /\ (LastWord' <=> LastWord) /\ (Over' <=> Over) /\ (Stage' <=> Stage)
                 /\ (Barred' <=> Barred) /\ (Endless' <=> Endless) /\ (Armed' <=> Armed)
                 /\ (Counted' <=> Counted) /\ (Swept(0)' <=> Swept(0))
<1>1. /\ ctl' = ctl /\ acc' = acc /\ gen' = gen /\ mem' = mem /\ perf' = perf
      /\ reads' = reads /\ held' = held /\ age' = age
      /\ verified' = verified /\ wrong' = wrong
  BY DEF Held
<1>2. (Resting' <=> Resting) /\ (D!Spoilt' <=> D!Spoilt)
  BY <1>1 DEF Resting, AccIdle, GenIdle, MemIdle, D!Spoilt
<1>3. (Own' <=> Own) /\ Rank' = Rank
  BY <1>1 DEF Own, Surplus, Rank
<1>4. ASSUME dregs'.addr = dregs.addr, dregs'.offset = dregs.offset
      PROVE  /\ Final' = Final
             /\ (Begun' <=> Begun) /\ (Active' <=> Active) /\ (Waiting' <=> Waiting)
             /\ (LastWord' <=> LastWord) /\ (Over' <=> Over) /\ (Stage' <=> Stage)
             /\ (Barred' <=> Barred) /\ (Endless' <=> Endless) /\ (Armed' <=> Armed)
             /\ (Counted' <=> Counted) /\ (Swept(0)' <=> Swept(0))
  <2>1. Final' = Final
    BY <1>4 DEF Final
  <2>2. (Piped' <=> Piped) /\ (SetUp' <=> SetUp)
    BY <1>1, <1>4, <2>1 DEF Piped, SetUp
  <2>3. Begun' <=> Begun
    BY <1>1, <1>2, <1>4, <2>2 DEF Begun, AccOn, GenIdle, MemIdle, Swept
  <2>4. Active' <=> Active
    BY <1>1, <1>2, <1>4, <2>1, <2>2 DEF Active, AccOn, MemIdle, Swept
  <2>5. Waiting' <=> Waiting
    BY <1>1, <1>2, <1>4, <2>1, <2>2 DEF Waiting, AccOn, MemAt, Swept
  <2>6. LastWord' <=> LastWord
    BY <1>1, <1>2, <1>4, <2>1, <2>2 DEF LastWord, AccOn, AccIdle, GenIdle, MemAt, Swept
  <2>7. (Over' <=> Over) /\ (Swept(0)' <=> Swept(0))
    BY <1>1, <1>2, <1>4 DEF Over, Swept
  <2>8. (Barred' <=> Barred) /\ (NoEnd' <=> NoEnd) /\ (Endless' <=> Endless)
    BY <1>1, <1>2, <1>4, <2>2, <2>7 DEF Barred, NoEnd, Endless
  <2>9. Armed' <=> Armed
    BY <1>1, <1>2, <1>4, <2>2, <2>7, <2>8 DEF Armed, Ready
  <2>10. (Counted' <=> Counted) /\ (Stage' <=> Stage)
    BY <1>1, <1>2, <2>3, <2>4, <2>5, <2>6, <2>8 DEF Counted, Stage
  <2> QED
    BY <2>1, <2>3, <2>4, <2>5, <2>6, <2>7, <2>8, <2>9, <2>10
<1> QED
  BY <1>2, <1>3, <1>4

\* Nothing is swept yet, whatever the registers say.
LEMMA NothingSwept ==
    ASSUME DdrTypeOK, Held, dregs'.addr \in Nat
    PROVE  Swept(0)' <=> Swept(0)
<1>1. verified \in Seq(Nat) /\ dregs.addr \in Nat /\ Len(verified) \in Nat
  BY DdrTypes
<1>2. verified' = verified /\ wrong' = wrong /\ mem' = mem
  BY DEF Held
<1>3. /\ IsSweep(verified, dregs.addr, 0) <=> verified = <<>>
      /\ IsSweep(verified, dregs'.addr, 0) <=> verified = <<>>
  BY <1>1, SweepGrows
<1>4. ~(Len(verified) < 0)
  BY <1>1
<1> QED
  BY <1>2, <1>3, <1>4 DEF Swept, D!Spoilt

\* By the time of an access all pulses are over.
LEMMA NoPulse ==
    ASSUME DdrTypeOK, Pulses, dgap = DdrGap
    PROVE  /\ ~ctl.clr /\ ~ctl.clr_d /\ "clr" \notin dregs.ctrl
           /\ ~ctl.start_pulse /\ ~ctl.start_operation
           /\ ctl.start_d => "start" \in dregs.ctrl
<1>1. dgap \notin {0, 1, 2}
  BY DdrConstants
<1> QED
  BY <1>1 DEF Pulses

\* An access that starts nothing.
LEMMA PulsesAccess ==
    ASSUME DdrTypeOK, Pulses, dgap = DdrGap, Held, dgap' = 0,
           "start" \notin dregs'.ctrl, "clr" \notin dregs'.ctrl \/ dregs'.ctrl = {"clr"}
    PROVE  Pulses'
<1>1. ctl' = ctl
  BY DEF Held
<1> QED
  BY <1>1, NoPulse DEF Pulses

\* The types after an access.
LEMMA DdrTypeAccess ==
    ASSUME DdrTypeOK, Held, dgap' \in {0, dgap},
           dregs' \in [ctrl : SUBSET {"clr", "load_seed", "start"}, addr : D!Addresses,
                       seed : {0, 1}, offset : D!Addresses],
           dhost' \in [pc : D!PCs, i : 0 .. number_of_runs + 1, base : D!Addresses,
                       offset : D!Addresses,
                       exit : {"none", "killed", "passed", "uncalibrated", "bad_seed", "bad_count"}]
    PROVE  DdrTypeOK'
<1>1. dgap' \in 0 .. DdrGap
  <2>1. dgap \in 0 .. DdrGap /\ DdrGap \in Nat
    BY DdrTypes, DdrConstants
  <2> QED
    BY <2>1
<1>2. /\ ctl' = ctl /\ acc' = acc /\ gen' = gen /\ mem' = mem /\ perf' = perf /\ reads' = reads
      /\ held' = held /\ age' = age /\ verified' = verified /\ wrong' = wrong
  BY DEF Held
<1>3. MemInv'
  BY <1>2, MemInvIs DEF MemInv, D!Spoilt
<1> QED
  BY <1>1, <1>2, <1>3 DEF DdrTypeOK, D!TypeOK

\* The shapes of the register file and of the program.
RegFile == [ctrl : SUBSET {"clr", "load_seed", "start"}, addr : D!Addresses,
            seed : {0, 1}, offset : D!Addresses]
DdrProgram == [pc : D!PCs, i : 0 .. number_of_runs + 1, base : D!Addresses, offset : D!Addresses,
               exit : {"none", "killed", "passed", "uncalibrated", "bad_seed", "bad_count"}]

\* The program ends, starts or begins another test: no sweep of its own is
\* under way as far as it knows.
LEMMA DdrLeave ==
    ASSUME DdrInv, Held, dregs' = dregs, dhost' \in DdrProgram, dhost'.pc \in {"idle", "rst0"},
           dgap' = dgap \/ (dgap' = 0 /\ dgap = DdrGap /\ "start" \notin dregs.ctrl)
    PROVE  DdrInv'
<1>1. DdrTypeOK /\ Counted /\ Stage /\ Pulses
  BY DEF DdrInv
<1>2. dregs' \in RegFile
  BY <1>1 DEF DdrTypeOK, D!TypeOK, RegFile
<1>3. DdrTypeOK'
  BY <1>1, <1>2, DdrTypeAccess DEF RegFile, DdrProgram
<1>4. Stage' /\ Counted' /\ (Armed' <=> Armed)
  BY <1>1, StageHeld
<1>5. Pulses'
  <2>1. ctl' = ctl
    BY DEF Held
  <2>2. CASE dgap' = dgap
    BY <1>1, <1>4, <2>1, <2>2 DEF Pulses
  <2>3. CASE dgap' = 0 /\ dgap = DdrGap /\ "start" \notin dregs.ctrl
    <3>1. "clr" \notin dregs.ctrl
      BY <1>1, <2>3, NoPulse
    <3> QED
      BY <1>1, <2>3, <3>1, PulsesAccess
  <2> QED
    BY <2>2, <2>3
<1>6. SweepAt'
  BY DEF SweepAt
<1> QED
  BY <1>3, <1>4, <1>5, <1>6 DEF DdrInv

\* An access other than the start of a sweep, that leaves its addresses alone.
LEMMA DdrAccess ==
    ASSUME DdrInv, Held, dgap = DdrGap, dgap' = 0,
           dregs' \in RegFile, dregs'.addr = dregs.addr, dregs'.offset = dregs.offset,
           dhost' \in DdrProgram,
           "start" \notin dregs'.ctrl, "clr" \notin dregs'.ctrl \/ dregs'.ctrl = {"clr"}
    PROVE  DdrTypeOK' /\ Counted' /\ Stage' /\ Pulses'
<1>1. DdrTypeOK /\ Counted /\ Stage /\ Pulses
  BY DEF DdrInv
<1>2. DdrTypeOK'
  BY <1>1, DdrTypeAccess DEF RegFile, DdrProgram
<1>3. Stage' /\ Counted'
  BY <1>1, StageHeld
<1>4. Pulses'
  BY <1>1, PulsesAccess
<1> QED
  BY <1>2, <1>3, <1>4

\* A persona with nothing left of an earlier sweep, and an access that does not
\* start one.
LEMMA CleanAccess ==
    ASSUME DdrTypeOK, Counted, Held, Clean, dregs'.addr \in Nat,
           "start" \notin dregs'.ctrl, "clr" \notin dregs'.ctrl
    PROVE  Clean' /\ Resting' /\ Stage' /\ Counted'
<1>1. Resting' /\ Swept(0)'
  BY StageHeld, NothingSwept DEF Clean
<1>2. perf = Len(verified)
  BY DEF Counted, Endless, Clean, Resting, AccIdle
<1>3. perf' = Len(verified')
  BY <1>2 DEF Held
<1> QED
  BY <1>1, <1>3 DEF Clean, Stage, Counted

LEMMA DdrShapes ==
    ASSUME DdrTypeOK
    PROVE  /\ dregs \in RegFile /\ dhost \in DdrProgram
           /\ \A status \in {"none", "killed", "passed", "uncalibrated", "bad_seed", "bad_count"} :
                 D!Ended(status) \in DdrProgram /\ D!Ended(status).pc = "idle"
           /\ \A pc \in D!PCs : [dhost EXCEPT !.pc = pc] \in DdrProgram
                                /\ [dhost EXCEPT !.pc = pc].pc = pc
                                /\ [dhost EXCEPT !.pc = pc].base = dhost.base
                                /\ [dhost EXCEPT !.pc = pc].offset = dhost.offset
           /\ \A c \in SUBSET {"clr", "load_seed", "start"} :
                 /\ [dregs EXCEPT !.ctrl = c] \in RegFile
                 /\ [dregs EXCEPT !.ctrl = c].ctrl = c
                 /\ [dregs EXCEPT !.ctrl = c].addr = dregs.addr
                 /\ [dregs EXCEPT !.ctrl = c].seed = dregs.seed
                 /\ [dregs EXCEPT !.ctrl = c].offset = dregs.offset
           /\ \A a \in D!Addresses : a \in Nat
<1>1. dregs \in RegFile /\ dhost \in DdrProgram
  BY DEF DdrTypeOK, D!TypeOK, RegFile, DdrProgram
<1>2. \A status \in {"none", "killed", "passed", "uncalibrated", "bad_seed", "bad_count"} :
         D!Ended(status) \in DdrProgram /\ D!Ended(status).pc = "idle"
  BY DdrConstants DEF D!Ended, DdrProgram, D!PCs
<1>3. \A pc \in D!PCs : [dhost EXCEPT !.pc = pc] \in DdrProgram
                        /\ [dhost EXCEPT !.pc = pc].pc = pc
                        /\ [dhost EXCEPT !.pc = pc].base = dhost.base
                        /\ [dhost EXCEPT !.pc = pc].offset = dhost.offset
  BY <1>1 DEF DdrProgram
<1>4. \A c \in SUBSET {"clr", "load_seed", "start"} :
         /\ [dregs EXCEPT !.ctrl = c] \in RegFile
         /\ [dregs EXCEPT !.ctrl = c].ctrl = c
         /\ [dregs EXCEPT !.ctrl = c].addr = dregs.addr
         /\ [dregs EXCEPT !.ctrl = c].seed = dregs.seed
         /\ [dregs EXCEPT !.ctrl = c].offset = dregs.offset
  BY <1>1 DEF RegFile
<1>5. \A a \in D!Addresses : a \in Nat
  BY DdrConstants DEF D!Addresses
<1> QED
  BY <1>1, <1>2, <1>3, <1>4, <1>5

\* By the time of an access all the answers have come.
LEMMA Drained ==
    ASSUME DdrTypeOK, Draining, dgap = DdrGap
    PROVE  ~(reads.stale > 0)
<1> SUFFICES ASSUME reads.stale > 0 PROVE FALSE
  OBVIOUS
<1>1. /\ reads.stale \in Nat /\ reads.stale <= MaxReads /\ MaxReads \in Nat
      /\ MaxWait \in Nat /\ age \in Nat /\ age <= MaxWait /\ DdrGap \in Nat
  BY ReadTypes, DdrTypes, DdrConstants
<1>2. DdrGap >= 2 + MaxReads * (MaxWait + 1)
  BY GapAssumption
<1> DEFINE left == (MaxReads - reads.stale) * (MaxWait + 1)
           all == MaxReads * (MaxWait + 1)
<1>3. left \in Nat /\ left + MaxWait + 1 <= all
  BY <1>1, Drains
<1>4. all \in Nat
  BY <1>1
<1>5. DdrGap <= 2 + left + age
  BY DEF Draining
<1>6. DdrGap >= 2 + all
  BY <1>2
<1> HIDE DEF left, all
<1> QED
  BY <1>1, <1>3, <1>4, <1>5, <1>6

\* A sweep starts with no answer owed for another.
LEMMA CleanIsOwn ==
    ASSUME DdrTypeOK, Clean, reads.stale = 0
    PROVE  Own
<1>1. Resting /\ Swept(0)
  BY DEF Clean
<1>2. mem.state = "IDLE" /\ ~mem.fail /\ ~mem.read /\ reads.live = 0
  BY <1>1, MemInvIs DEF Resting, MemIdle, MemInv
<1>3. ~(Len(verified) < 0)
  BY DdrTypes
<1>4. ~D!Spoilt
  BY <1>1, <1>2, <1>3 DEF Swept
<1> QED
  BY <1>2, <1>4 DEF Own, Surplus, D!Spoilt

\* The steps of the program.
LEMMA DdrHost ==
    ASSUME DdrInv, D!Start \/ D!HostStep \/ D!Kill
    PROVE  DdrInv'
<1>1. DdrTypeOK /\ Counted /\ Stage /\ Pulses /\ SweepAt
  BY DEF DdrInv
<1>2. Held
  BY DEF Held, D!hwVars, D!Start, D!Kill, D!HostStep, D!ResetPrLogic, D!ReadCalibration, D!LoadSeed,
         D!WriteAddress, D!StartSweep, D!PollBusy, D!CheckCounter, D!Write, D!Access, D!Ends, D!NextTest
<1>3. /\ dregs \in RegFile /\ dhost \in DdrProgram
      /\ dregs.addr \in Nat /\ dregs.addr \in D!Addresses /\ dregs.offset \in D!Addresses
      /\ DdrGap \in Nat /\ DdrGap >= 5 /\ DdrGap >= 5 + 3 * MaxWait /\ DdrGap > FinalStages
      /\ FinalStages \in Nat /\ MaxWait \in Nat /\ age \in 0 .. MaxWait /\ held \in 0 .. MaxWait /\ number_of_runs \in Nat
  BY <1>1, DdrShapes, DdrTypes, DdrConstants DEF DdrTypeOK, D!TypeOK
<1>4. CASE D!Start
  <2>1. /\ dhost' = [D!Ended("none") EXCEPT !.pc = "rst0"] /\ dregs' = dregs /\ dgap' = dgap
    BY <1>4 DEF D!Start
  <2>2. dhost' \in DdrProgram /\ dhost'.pc = "rst0"
    BY <2>1, DdrConstants DEF D!Ended, DdrProgram, D!PCs
  <2> QED
    BY <1>2, <2>1, <2>2, DdrLeave
<1>5. CASE D!Kill
  <2>1. dhost' = D!Ended("killed") /\ dregs' = dregs /\ dgap' = dgap
    BY <1>5 DEF D!Kill
  <2>2. dhost' \in DdrProgram /\ dhost'.pc = "idle"
    BY <1>1, <2>1, DdrShapes
  <2> QED
    BY <1>2, <2>1, <2>2, DdrLeave
<1>6. ASSUME NEW from \in {"cal", "check"}, D!NextTest(from) PROVE DdrInv'
  <2>1. /\ dhost.pc = from /\ dgap = DdrGap /\ dgap' = 0 /\ dregs' = dregs
        /\ dhost' = IF dhost.i < number_of_runs
                    THEN [dhost EXCEPT !.pc = "rst0", !.i = dhost.i + 1]
                    ELSE D!Ended("passed")
    BY <1>6 DEF D!NextTest
  <2>2. "start" \notin dregs.ctrl
    BY <1>1, <1>6, <2>1 DEF SweepAt, Clean
  <2>3. dhost' \in DdrProgram /\ dhost'.pc \in {"idle", "rst0"}
    <3>1. CASE dhost.i < number_of_runs
      <4>1. dhost.i + 1 \in 0 .. number_of_runs + 1
        BY <1>3, <3>1 DEF DdrProgram
      <4> QED
        BY <1>3, <2>1, <3>1, <4>1 DEF DdrProgram, D!PCs
    <3>2. CASE ~(dhost.i < number_of_runs)
      BY <1>1, <2>1, <3>2, DdrShapes
    <3> QED
      BY <3>1, <3>2
  <2> QED
    BY <1>2, <2>1, <2>2, <2>3, DdrLeave
<1>7. ASSUME NEW from \in {"cal", "seedback", "check"},
             NEW status \in {"uncalibrated", "bad_seed", "bad_count"}, D!Ends(from, status)
      PROVE  DdrInv'
  <2>1. dhost.pc = from /\ dgap = DdrGap /\ dgap' = 0 /\ dregs' = dregs /\ dhost' = D!Ended(status)
    BY <1>7 DEF D!Ends
  <2>2. "start" \notin dregs.ctrl
    BY <1>1, <1>7, <2>1 DEF SweepAt, Clean
  <2>3. dhost' \in DdrProgram /\ dhost'.pc = "idle"
    BY <1>1, <2>1, DdrShapes
  <2> QED
    BY <1>2, <2>1, <2>2, <2>3, DdrLeave
<1>8. ASSUME NEW c \in {{}, {"clr"}, {"load_seed"}}, NEW from, NEW to \in D!PCs,
             D!Write(from, to, [dregs EXCEPT !.ctrl = c])
      PROVE  /\ DdrTypeOK' /\ Counted' /\ Stage' /\ Pulses'
             /\ dgap = DdrGap /\ dgap' = 0 /\ dhost.pc = from /\ dhost'.pc = to
             /\ dhost'.base = dhost.base /\ dhost'.offset = dhost.offset
             /\ dregs'.ctrl = c /\ dregs'.addr = dregs.addr /\ dregs'.seed = dregs.seed
             /\ dregs'.offset = dregs.offset
  <2>1. /\ dhost.pc = from /\ dgap = DdrGap /\ dgap' = 0
        /\ dhost' = [dhost EXCEPT !.pc = to] /\ dregs' = [dregs EXCEPT !.ctrl = c]
    BY <1>8 DEF D!Write, D!Access
  <2>2. c \in SUBSET {"clr", "load_seed", "start"} /\ "start" \notin c /\ ("clr" \notin c \/ c = {"clr"})
    OBVIOUS
  <2>3. /\ dregs' \in RegFile /\ dregs'.ctrl = c /\ dregs'.addr = dregs.addr
        /\ dregs'.seed = dregs.seed /\ dregs'.offset = dregs.offset
    BY <1>1, <2>1, <2>2, DdrShapes
  <2>4. /\ dhost' \in DdrProgram /\ dhost'.pc = to
        /\ dhost'.base = dhost.base /\ dhost'.offset = dhost.offset
    BY <1>1, <2>1, DdrShapes
  <2>5. "start" \notin dregs'.ctrl /\ ("clr" \notin dregs'.ctrl \/ dregs'.ctrl = {"clr"})
    BY <2>2, <2>3
  <2>6. DdrTypeOK' /\ Counted' /\ Stage' /\ Pulses'
    BY <1>2, <2>1, <2>3, <2>4, <2>5, DdrAccess
  <2> QED
    BY <2>1, <2>3, <2>4, <2>6
<1>9. ASSUME NEW from \in {"seedback", "poll"}, NEW to \in D!PCs, D!Access(from, to), dregs' = dregs
      PROVE  /\ DdrTypeOK' /\ Counted' /\ Stage' /\ Pulses'
             /\ dgap = DdrGap /\ dgap' = 0 /\ dhost.pc = from /\ dhost'.pc = to
             /\ dhost'.base = dhost.base /\ dhost'.offset = dhost.offset
  <2>1. dhost.pc = from /\ dgap = DdrGap /\ dgap' = 0 /\ dhost' = [dhost EXCEPT !.pc = to]
    BY <1>9 DEF D!Access
  <2>2. /\ dhost' \in DdrProgram /\ dhost'.pc = to
        /\ dhost'.base = dhost.base /\ dhost'.offset = dhost.offset
    BY <1>1, <2>1, DdrShapes
  <2>3. "start" \notin dregs'.ctrl /\ "clr" \notin dregs'.ctrl
    BY <1>1, <1>9, <2>1 DEF SweepAt, Clean
  <2>4. DdrTypeOK' /\ Counted' /\ Stage' /\ Pulses'
    BY <1>2, <1>3, <1>9, <2>1, <2>2, <2>3, DdrAccess
  <2> QED
    BY <2>1, <2>2, <2>4
<1>10. CASE D!ResetPrLogic
  <2>1. CASE D!Write("rst0", "rst1", [dregs EXCEPT !.ctrl = {}])
    <3>1. DdrTypeOK' /\ Counted' /\ Stage' /\ Pulses' /\ dhost'.pc = "rst1" /\ dregs'.ctrl = {}
      BY <1>8, <2>1 DEF D!PCs
    <3> QED
      BY <3>1 DEF DdrInv, SweepAt
  <2>2. CASE D!Write("rst1", "rst2", [dregs EXCEPT !.ctrl = {"clr"}])
    <3>1. DdrTypeOK' /\ Counted' /\ Stage' /\ Pulses' /\ dhost'.pc = "rst2" /\ dregs'.ctrl = {"clr"} /\ dgap' = 0
      BY <1>8, <2>2 DEF D!PCs
    <3> QED
      BY <3>1 DEF DdrInv, SweepAt
  <2>3. ASSUME NEW to \in {"cal", "seed"}, D!Write("rst2", to, [dregs EXCEPT !.ctrl = {}])
        PROVE  DdrInv'
    <3>1. /\ DdrTypeOK' /\ Counted' /\ Stage' /\ Pulses' /\ dhost'.pc = to /\ dregs'.ctrl = {}
          /\ dhost.pc = "rst2" /\ dgap = DdrGap /\ dregs'.addr = dregs.addr
      BY <1>8, <2>3 DEF D!PCs
    <3>2. dgap \notin {0, 1} /\ dgap >= 3
      BY <1>3, <3>1
    <3>3. Clean /\ reads.stale = 0 /\ acc.clear
      <4>1. Clean /\ Draining /\ acc.clear
        BY <1>1, <3>1, <3>2 DEF SweepAt
      <4>2. ~(reads.stale > 0)
        BY <1>1, <3>1, <4>1, Drained
      <4>3. reads.stale \in Nat
        BY <1>1, ReadTypes
      <4> QED
        BY <4>1, <4>2, <4>3
    <3>4. Clean' /\ reads'.stale = 0 /\ acc'.clear
      BY <1>1, <1>2, <1>3, <3>1, <3>3, CleanAccess DEF Held
    <3> QED
      BY <3>1, <3>4 DEF DdrInv, SweepAt
  <2> QED
    BY <1>10, <2>1, <2>2, <2>3 DEF D!ResetPrLogic
<1>11. CASE D!ReadCalibration
  BY <1>6, <1>7, <1>11 DEF D!ReadCalibration
<1>12. CASE D!LoadSeed
  <2>1. CASE D!Write("seed", "load", [dregs EXCEPT !.seed = 1])
    <3>1. /\ dhost.pc = "seed" /\ dgap = DdrGap /\ dgap' = 0
          /\ dhost' = [dhost EXCEPT !.pc = "load"] /\ dregs' = [dregs EXCEPT !.seed = 1]
      BY <2>1 DEF D!Write, D!Access
    <3>2. /\ dregs' \in RegFile /\ dregs'.ctrl = dregs.ctrl /\ dregs'.addr = dregs.addr
          /\ dregs'.seed = 1 /\ dregs'.offset = dregs.offset
      BY <1>3, <3>1 DEF RegFile
    <3>3. dhost' \in DdrProgram /\ dhost'.pc = "load"
      BY <1>1, <3>1, DdrShapes DEF D!PCs
    <3>4. Clean /\ reads.stale = 0 /\ acc.clear
      BY <1>1, <3>1 DEF SweepAt
    <3>5. "start" \notin dregs'.ctrl /\ "clr" \notin dregs'.ctrl
      BY <3>2, <3>4 DEF Clean
    <3>6. DdrTypeOK' /\ Counted' /\ Stage' /\ Pulses'
      BY <1>2, <3>1, <3>2, <3>3, <3>5, DdrAccess
    <3>7. Clean' /\ reads'.stale = 0 /\ acc'.clear
      BY <1>1, <1>2, <1>3, <3>2, <3>4, <3>5, CleanAccess DEF Held
    <3> QED
      BY <3>2, <3>3, <3>6, <3>7 DEF DdrInv, SweepAt
  <2>2. CASE D!Write("load", "seedback", [dregs EXCEPT !.ctrl = {"load_seed"}])
    <3>1. /\ DdrTypeOK' /\ Counted' /\ Stage' /\ Pulses' /\ dhost'.pc = "seedback" /\ dhost.pc = "load"
          /\ dregs'.ctrl = {"load_seed"} /\ dregs'.addr = dregs.addr /\ dregs'.seed = dregs.seed
      BY <1>8, <2>2 DEF D!PCs
    <3>2. Clean /\ reads.stale = 0 /\ acc.clear /\ dregs.seed = 1
      BY <1>1, <3>1 DEF SweepAt
    <3>3. "start" \notin dregs'.ctrl /\ "clr" \notin dregs'.ctrl
      BY <3>1
    <3>4. Clean' /\ reads'.stale = 0 /\ acc'.clear
      BY <1>1, <1>2, <1>3, <3>1, <3>2, <3>3, CleanAccess DEF Held
    <3> QED
      BY <3>1, <3>2, <3>4 DEF DdrInv, SweepAt
  <2>3. CASE D!Access("seedback", "addr") /\ dregs' = dregs
    <3>1. DdrTypeOK' /\ Counted' /\ Stage' /\ Pulses' /\ dhost'.pc = "addr" /\ dhost.pc = "seedback"
      BY <1>9, <2>3 DEF D!PCs
    <3>2. Clean /\ reads.stale = 0 /\ acc.clear
      BY <1>1, <3>1 DEF SweepAt
    <3>3. Clean' /\ reads'.stale = 0 /\ acc'.clear
      BY <1>1, <1>2, <1>3, <2>3, <3>2, CleanAccess DEF Held, Clean
    <3> QED
      BY <3>1, <3>3 DEF DdrInv, SweepAt
  <2>4. CASE D!Ends("seedback", "bad_seed")
    BY <1>7, <2>4
  <2> QED
    BY <1>12, <2>1, <2>2, <2>3, <2>4 DEF D!LoadSeed
<1>13. CASE D!WriteAddress
  <2>1. PICK base \in D!Addresses, offset \in Offsets :
            /\ base + offset \in D!Addresses
            /\ dhost.pc = "addr" /\ dgap = DdrGap
            /\ dhost' = [dhost EXCEPT !.pc = "offset", !.base = base, !.offset = offset]
            /\ dregs' = [dregs EXCEPT !.addr = base]
            /\ dgap' = 0
    BY <1>13 DEF D!WriteAddress
  <2>2. /\ base \in Nat /\ offset \in Nat /\ base + offset < MemSize /\ offset \in D!Addresses
    BY <2>1, SweepAssumption DEF D!Addresses
  <2>3. dregs' \in RegFile /\ dregs'.ctrl = dregs.ctrl /\ dregs'.addr = base
    BY <1>3, <2>1 DEF RegFile
  <2>4. dhost' \in DdrProgram /\ dhost'.pc = "offset" /\ dhost'.base = base /\ dhost'.offset = offset
    BY <1>3, <2>1, <2>2 DEF DdrProgram, D!PCs
  <2>5. Clean /\ reads.stale = 0 /\ acc.clear
    BY <1>1, <2>1 DEF SweepAt
  <2>6. "start" \notin dregs'.ctrl /\ "clr" \notin dregs'.ctrl
    BY <2>3, <2>5 DEF Clean
  <2>7. Clean' /\ Stage' /\ Counted' /\ reads'.stale = 0 /\ acc'.clear
    BY <1>1, <1>2, <2>2, <2>3, <2>5, <2>6, CleanAccess DEF Held
  <2>8. Pulses'
    BY <1>1, <1>2, <2>1, <2>6, PulsesAccess
  <2>9. DdrTypeOK'
    BY <1>1, <1>2, <2>1, <2>3, <2>4, DdrTypeAccess DEF RegFile, DdrProgram
  <2>10. ~(dgap' >= 1) /\ ~(dgap' >= 2)
    BY <2>1
  <2> QED
    BY <2>2, <2>3, <2>4, <2>7, <2>8, <2>9, <2>10 DEF DdrInv, SweepAt
<1>14. CASE D!StartSweep
  <2>1. CASE D!Write("offset", "start", [dregs EXCEPT !.offset = dhost.offset])
    <3>1. /\ dhost.pc = "offset" /\ dgap = DdrGap /\ dgap' = 0
          /\ dhost' = [dhost EXCEPT !.pc = "start"]
          /\ dregs' = [dregs EXCEPT !.offset = dhost.offset]
      BY <2>1 DEF D!Write, D!Access
    <3>2. /\ dregs' \in RegFile /\ dregs'.ctrl = dregs.ctrl /\ dregs'.addr = dregs.addr
          /\ dregs'.offset = dhost.offset
      BY <1>3, <3>1 DEF RegFile, DdrProgram
    <3>3. /\ dhost' \in DdrProgram /\ dhost'.pc = "start"
          /\ dhost'.base = dhost.base /\ dhost'.offset = dhost.offset
      BY <1>1, <3>1, DdrShapes DEF D!PCs
    <3>4. dgap >= 1 /\ dgap >= 2
      BY <1>3, <3>1
    <3>5. /\ Clean /\ reads.stale = 0 /\ acc.clear
          /\ dregs.addr = dhost.base /\ dhost.offset \in Offsets /\ dhost.base + dhost.offset < MemSize
          /\ ctl.mem_addr = dregs.addr /\ gen.target = dregs.addr
      BY <1>1, <3>1, <3>4 DEF SweepAt
    <3>6. "start" \notin dregs'.ctrl /\ "clr" \notin dregs'.ctrl
      BY <3>2, <3>5 DEF Clean
    <3>7. Clean' /\ Stage' /\ Counted' /\ reads'.stale = 0 /\ acc'.clear
      BY <1>1, <1>2, <1>3, <3>2, <3>5, <3>6, CleanAccess DEF Held
    <3>8. Pulses'
      BY <1>1, <1>2, <3>1, <3>6, PulsesAccess
    <3>9. DdrTypeOK'
      BY <1>1, <1>2, <3>1, <3>2, <3>3, DdrTypeAccess DEF RegFile, DdrProgram
    <3>10. ~(dgap' > FinalStages) /\ \A s \in 1 .. FinalStages : ~(dgap' >= s)
      BY <1>3, <3>1
    <3>11. ctl'.mem_addr = dregs'.addr /\ gen'.target = dregs'.addr
      BY <1>2, <3>2, <3>5 DEF Held
    <3> QED
      BY <3>2, <3>3, <3>5, <3>7, <3>8, <3>9, <3>10, <3>11 DEF DdrInv, SweepAt
  <2>2. CASE D!Write("start", "stop", [dregs EXCEPT !.ctrl = {"start"}])
    <3>1. /\ dhost.pc = "start" /\ dgap = DdrGap /\ dgap' = 0
          /\ dhost' = [dhost EXCEPT !.pc = "stop"]
          /\ dregs' = [dregs EXCEPT !.ctrl = {"start"}]
      BY <2>2 DEF D!Write, D!Access
    <3>2. /\ dregs' \in RegFile /\ dregs'.ctrl = {"start"} /\ dregs'.addr = dregs.addr
          /\ dregs'.offset = dregs.offset
      BY <1>1, <3>1, DdrShapes
    <3>3. /\ dhost' \in DdrProgram /\ dhost'.pc = "stop"
          /\ dhost'.base = dhost.base /\ dhost'.offset = dhost.offset
      BY <1>1, <3>1, DdrShapes DEF D!PCs
    <3>4. dgap > FinalStages /\ \A s \in 1 .. FinalStages : dgap >= s
      BY <1>3, <3>1
    <3>5. /\ Clean /\ reads.stale = 0 /\ acc.clear
          /\ dregs.addr = dhost.base /\ dhost.offset \in Offsets /\ dhost.base + dhost.offset < MemSize
          /\ dregs.offset = dhost.offset
          /\ ctl.mem_addr = dregs.addr /\ gen.target = dregs.addr
          /\ gen.completed <=> dregs.offset = 0 /\ dregs.addr # 0
          /\ \A s \in 1 .. FinalStages : ctl.final[s] = Final
      BY <1>1, <3>1, <3>4 DEF SweepAt
    <3>6. Piped
      <4>1. Final < MemSize
        BY <3>5 DEF Final
      <4> QED
        BY <3>5, <4>1 DEF Piped
    <3>7. Armed /\ Own
      <4>1. dregs.offset \in Nat
        BY <1>1, DdrTypes
      <4>2. Resting /\ Swept(0)
        BY <3>5 DEF Clean
      <4>3. dregs.offset >= 1 => Ready
        BY <3>5, <3>6, <4>2 DEF Ready, SetUp
      <4>4. dregs.offset = 0 /\ dregs.addr # 0 => Barred
        BY <3>5, <3>6, <4>2 DEF Barred
      <4>5. dregs.offset = 0 /\ dregs.addr = 0 => NoEnd
        BY <3>5, <3>6 DEF NoEnd
      <4>6. Own
        BY <1>1, <3>5, CleanIsOwn
      <4> QED
        BY <3>5, <4>1, <4>2, <4>3, <4>4, <4>5, <4>6 DEF Armed
    <3>8. Armed' /\ Own' /\ Stage' /\ Counted'
      BY <1>1, <1>2, <3>2, <3>7, StageHeld
    <3>9. Pulses'
      <4>1. /\ ~ctl.clr /\ ~ctl.clr_d /\ ~ctl.start_pulse /\ ~ctl.start_operation
            /\ ~ctl.start_d
        BY <1>1, <3>1, <3>5, NoPulse DEF Clean
      <4>2. ctl' = ctl
        BY <1>2 DEF Held
      <4>3. "clr" \notin dregs'.ctrl /\ "start" \in dregs'.ctrl
        BY <3>2
      <4> QED
        BY <3>1, <3>2, <3>8, <4>1, <4>2, <4>3 DEF Pulses
    <3>10. DdrTypeOK'
      BY <1>1, <1>2, <3>1, <3>2, <3>3, DdrTypeAccess DEF RegFile, DdrProgram
    <3>11. dgap' <= 2
      BY <3>1
    <3> QED
      BY <3>2, <3>3, <3>5, <3>8, <3>9, <3>10, <3>11 DEF DdrInv, SweepAt
  <2>3. CASE D!Write("stop", "poll", [dregs EXCEPT !.ctrl = {}])
    <3>1. /\ DdrTypeOK' /\ Counted' /\ Stage' /\ Pulses' /\ dhost'.pc = "poll" /\ dhost.pc = "stop"
          /\ dhost'.base = dhost.base /\ dhost'.offset = dhost.offset
          /\ dregs'.ctrl = {} /\ dregs'.addr = dregs.addr /\ dregs'.offset = dregs.offset
          /\ dgap = DdrGap
      BY <1>8, <2>3 DEF D!PCs
    <3>2. ~(dgap <= 2) /\ dgap # 3
      BY <1>3, <3>1
    <3>3. /\ Active \/ Waiting \/ LastWord \/ Over \/ Barred \/ Endless
          /\ Own /\ dregs.addr = dhost.base /\ dhost.offset \in Offsets /\ dhost.base + dhost.offset < MemSize
          /\ dregs.offset = dhost.offset
      BY <1>1, <3>1, <3>2 DEF SweepAt
    <3>4. Own' /\ (Active' \/ Waiting' \/ LastWord' \/ Over' \/ Barred' \/ Endless')
      BY <1>2, <3>1, <3>3, StageHeld
    <3> QED
      BY <3>1, <3>3, <3>4 DEF DdrInv, SweepAt
  <2> QED
    BY <1>14, <2>1, <2>2, <2>3 DEF D!StartSweep
<1>15. CASE D!PollBusy
  <2>1. PICK to \in {"poll", "check"} : D!Access("poll", to) /\ dregs' = dregs /\ (to = "check" <=> ~acc.busy)
    BY <1>15 DEF D!PollBusy
  <2>2. /\ DdrTypeOK' /\ Counted' /\ Stage' /\ Pulses' /\ dhost'.pc = to /\ dhost.pc = "poll" /\ dgap' = 0
        /\ dhost'.base = dhost.base /\ dhost'.offset = dhost.offset
    BY <1>9, <2>1 DEF D!PCs
  <2>3. /\ Active \/ Waiting \/ LastWord \/ Over \/ Barred \/ Endless
        /\ Own /\ dregs.addr = dhost.base /\ dhost.offset \in Offsets /\ dhost.base + dhost.offset < MemSize
        /\ dregs.offset = dhost.offset /\ dregs.ctrl = {}
    BY <1>1, <2>2 DEF SweepAt
  <2>4. /\ (Active' <=> Active) /\ (Waiting' <=> Waiting) /\ (LastWord' <=> LastWord)
        /\ (Over' <=> Over) /\ (Barred' <=> Barred) /\ (Endless' <=> Endless)
        /\ (Own' <=> Own) /\ Rank' = Rank
    BY <1>2, <2>1, StageHeld
  <2>5. CASE to = "poll"
    BY <2>1, <2>2, <2>3, <2>4, <2>5 DEF DdrInv, SweepAt
  <2>6. CASE to = "check"
    <3>1. ~acc.busy /\ ~acc'.busy
      BY <1>2, <2>1, <2>6 DEF Held
    <3>2. LastWord \/ Over \/ Barred
      BY <2>3, <3>1 DEF Active, Waiting, Endless, AccOn
    <3>3. LastWord => dgap' + Rank' <= 5 + 3 * MaxWait
      <4>1. LastWord => mem.state \in {"WAIT_WRITE_DONE", "READ", "WAIT_READ_ACCEPTED",
                                       "WAIT_READ_DONE", "DATA_VERIFICATION"}
        <5>1. mem.state \in D!MemStates
          BY <1>1, DdrTypes
        <5> QED
          BY <3>1, <5>1 DEF LastWord, MemAt, AccOn, D!MemStates
      <4>2. mem.state \in {"WAIT_WRITE_DONE", "READ", "WAIT_READ_ACCEPTED",
                           "WAIT_READ_DONE", "DATA_VERIFICATION"} => Rank <= 5 + 3 * MaxWait
        <5>1. Rank \in {3 * MaxWait + 5 - held, 2 * MaxWait + 4, 2 * MaxWait + 3 - held,
                        MaxWait + 2 - age, 1}
          BY DEF Rank
        <5>2. \A m, h \in Nat : /\ 3 * m + 5 - h <= 5 + 3 * m /\ 2 * m + 4 <= 5 + 3 * m
                                /\ 2 * m + 3 - h <= 5 + 3 * m /\ m + 2 - h <= 5 + 3 * m
                                /\ 1 <= 5 + 3 * m
          OBVIOUS
        <5>3. held \in Nat /\ age \in Nat /\ MaxWait \in Nat
          BY <1>3
        <5> QED
          BY <5>1, <5>2, <5>3
      <4>3. Rank \in Int
        BY <1>3 DEF Rank
      <4> QED
        BY <1>3, <2>2, <2>4, <4>1, <4>2, <4>3
    <3> QED
      BY <2>1, <2>2, <2>3, <2>4, <2>6, <3>1, <3>2, <3>3 DEF DdrInv, SweepAt
  <2> QED
    BY <2>1, <2>5, <2>6
<1>16. CASE D!CheckCounter
  BY <1>6, <1>7, <1>16 DEF D!CheckCounter
<1> QED
  BY <1>4, <1>5, <1>10, <1>11, <1>12, <1>13, <1>14, <1>15, <1>16 DEF D!HostStep

\* The inductive invariant of the sweep.
LEMMA DdrInvariant == D!Spec => []DdrInv
<1>1. D!Init => DdrInv
  <2> SUFFICES ASSUME D!Init PROVE DdrInv
    OBVIOUS
  <2>1. /\ dregs = D!ClearedRegs /\ acc = D!ClearedAcc /\ gen = D!ClearedGen /\ mem = D!ClearedMem(0)
        /\ perf = 0 /\ reads = [stale |-> 0, live |-> 0] /\ held = 0 /\ age = 0
        /\ dhost = D!Ended("none") /\ dgap = DdrGap
        /\ verified = <<>> /\ wrong = {}
        /\ ctl = [clr_d |-> FALSE, clr |-> FALSE, start_d |-> FALSE, start_pulse |-> FALSE,
                  start_operation |-> FALSE, mem_addr |-> 0, final |-> [s \in 1 .. FinalStages |-> 0]]
    BY DEF D!Init
  <2>2. DdrTypeOK
    <3>1. /\ dregs \in [ctrl : SUBSET {"clr", "load_seed", "start"}, addr : D!Addresses,
                        seed : {0, 1}, offset : D!Addresses]
          /\ perf \in 0 .. CounterSize - 1 /\ held \in 0 .. MaxWait /\ age \in 0 .. MaxWait /\ dgap \in 0 .. DdrGap
          /\ dhost \in [pc : D!PCs, i : 0 .. number_of_runs + 1, base : D!Addresses,
                        offset : D!Addresses,
                        exit : {"none", "killed", "passed", "uncalibrated", "bad_seed", "bad_count"}]
      BY <2>1, DdrConstants DEF D!ClearedRegs, D!Ended, D!PCs
    <3>2. /\ acc \in [state : {"IDLE", "DDR_ACCESS"}, busy : BOOLEAN, clear : BOOLEAN, start_tg : BOOLEAN]
          /\ gen \in [state : {"IDLE", "ACTIVE", "WAIT"}, completed : BOOLEAN, start_wr : BOOLEAN,
                      target : D!Addresses]
          /\ mem \in [state : D!MemStates, addr : D!Addresses, write : BOOLEAN, read : BOOLEAN,
                      pass : BOOLEAN, fail : BOOLEAN]
          /\ reads \in [stale : 0 .. MaxReads, live : 0 .. 2]
          /\ wrong \subseteq {"memory", "misread", "twice"}
      BY <2>1, DdrConstants DEF D!ClearedAcc, D!ClearedGen, D!ClearedMem, D!MemStates
    <3>3. [s \in 1 .. FinalStages |-> 0] \in [1 .. FinalStages -> D!Addresses]
      BY DdrConstants
    <3>4. ctl \in [clr_d : BOOLEAN, clr : BOOLEAN, start_d : BOOLEAN, start_pulse : BOOLEAN,
                   start_operation : BOOLEAN, mem_addr : D!Addresses,
                   final : [1 .. FinalStages -> D!Addresses]]
      BY <2>1, <3>3, DdrConstants
    <3>5. verified \in Seq(Nat)
      BY <2>1
    <3>6. MemInv
      BY <2>1, DdrConstants DEF MemInv, D!ClearedMem
    <3> QED
      BY <2>1, <3>1, <3>2, <3>4, <3>5, <3>6 DEF DdrTypeOK, D!TypeOK
  <2>3. Stage /\ Counted
    BY <2>1 DEF Counted, Stage, Resting, AccIdle, GenIdle, MemIdle, D!ClearedAcc, D!ClearedGen, D!ClearedMem
  <2>4. Pulses
    BY <2>1 DEF Pulses, D!ClearedRegs
  <2>5. dhost.pc = "idle"
    BY <2>1 DEF D!Ended
  <2>6. SweepAt
    BY <2>5 DEF SweepAt
  <2> QED
    BY <2>2, <2>3, <2>4, <2>6 DEF DdrInv
<1>2. DdrInv /\ [D!Next]_(D!vars) => DdrInv'
  <2> SUFFICES ASSUME DdrInv, [D!Next]_(D!vars) PROVE DdrInv'
    OBVIOUS
  <2>1. CASE D!Tick
    <3>1. PICK ready \in BOOLEAN, answer \in BOOLEAN, match \in BOOLEAN : ClockWith(ready, answer, match)
      BY <2>1, TickIsAClock
    <3>2. DdrTypeOK /\ Counted /\ Stage /\ Pulses
      BY DEF DdrInv
    <3>3. DdrTypeOK' /\ Counted' /\ Stage' /\ Pulses' /\ SweepAt'
      BY <3>1, <3>2, DdrTypeTick, CountedTick, StageTick, PulsesTick, SweepTick
    <3> QED
      BY <3>3 DEF DdrInv
  <2>2. CASE D!Start \/ D!HostStep \/ D!Kill
    BY <2>2, DdrHost
  <2>3. CASE UNCHANGED D!vars
    <3>1. Held /\ dregs' = dregs /\ dhost' = dhost /\ dgap' = dgap
      BY <2>3 DEF D!vars, Held
    <3>2. DdrTypeOK'
      BY <3>1, DdrShapes, DdrTypeAccess DEF DdrInv, RegFile, DdrProgram
    <3>3. /\ (Stage' <=> Stage) /\ (Begun' <=> Begun) /\ (Active' <=> Active)
          /\ (Waiting' <=> Waiting) /\ (LastWord' <=> LastWord) /\ (Over' <=> Over)
          /\ (Barred' <=> Barred) /\ (Endless' <=> Endless) /\ (Armed' <=> Armed)
          /\ (Counted' <=> Counted) /\ (Own' <=> Own)
          /\ (Resting' <=> Resting) /\ (Swept(0)' <=> Swept(0))
          /\ Rank' = Rank /\ Final' = Final
      BY <3>1, StageHeld
    <3>4. (Clean' <=> Clean) /\ (Draining' <=> Draining)
      BY <3>1, <3>3 DEF Clean, Draining, Held
    <3>5. Pulses'
      BY <3>1, <3>3 DEF Pulses, DdrInv, Held
    <3>6. SweepAt'
      BY <3>1, <3>3, <3>4 DEF SweepAt, DdrInv, Held
    <3> QED
      BY <3>2, <3>3, <3>5, <3>6 DEF DdrInv
  <2> QED
    BY <2>1, <2>2, <2>3 DEF D!Next
<1> QED
  BY <1>1, <1>2, PTL DEF D!Spec

\* When the program reads the counter the last word is verified too, though
\* the busy bit fell before.
LEMMA SweepResult ==
    ASSUME DdrInv, dhost.pc = "check", dgap = DdrGap
    PROVE  IF perf = dhost.offset + 1
           THEN IsSweep(verified, dhost.base, dhost.offset + 1) /\ ~D!Spoilt
           ELSE "memory" \in wrong \/ "twice" \in wrong \/ dhost.offset = 0
<1>1. DdrTypeOK /\ Counted /\ SweepAt
  BY DEF DdrInv
<1>2. /\ dregs.addr = dhost.base /\ dregs.offset = dhost.offset /\ Own
      /\ (LastWord /\ dgap + Rank <= 5 + 3 * MaxWait) \/ Over \/ Barred
  BY <1>1 DEF SweepAt
<1>3. /\ MaxWait \in Nat /\ age \in 0 .. MaxWait /\ held \in 0 .. MaxWait
      /\ DdrGap \in Nat /\ DdrGap >= 5 + 3 * MaxWait
      /\ verified \in Seq(Nat) /\ dregs.addr \in Nat /\ dregs.offset \in Nat
      /\ Len(verified) \in Nat
  BY <1>1, DdrTypes, DdrConstants
<1>4. Rank \in Int /\ Rank >= 1
  <2>1. Rank \in {3 * MaxWait + 5 - held, 2 * MaxWait + 4, 2 * MaxWait + 3 - held,
                  MaxWait + 2 - age, 1}
    BY DEF Rank
  <2>2. \A r \in {3 * MaxWait + 5 - held, 2 * MaxWait + 4, 2 * MaxWait + 3 - held,
                  MaxWait + 2 - age, 1} : r \in Int /\ r >= 1
    BY <1>3
  <2> QED
    BY <2>1, <2>2
<1>5. ~(dgap + Rank <= 5 + 3 * MaxWait)
  <2>1. \A r \in Int : r >= 1 => ~(DdrGap + r <= 5 + 3 * MaxWait)
    BY <1>3
  <2> QED
    BY <1>4, <2>1
<1>6. Over \/ Barred
  BY <1>2, <1>5
<1>7. Resting /\ perf = Len(verified) /\ ~mem.fail
  <2>1. Resting
    BY <1>6 DEF Over, Barred
  <2>2. ~Endless
    BY <2>1 DEF Endless, Resting, AccIdle
  <2>3. ~mem.fail
    BY <1>1, <2>1, MemInvIs DEF Resting, MemIdle, MemInv
  <2> QED
    BY <1>1, <2>1, <2>2, <2>3 DEF Counted
<1>8. CASE Barred
  <2>1. dregs.offset = 0 /\ Swept(0)
    BY <1>8 DEF Barred
  <2>2. verified = <<>>
    BY <1>3, <1>7, <2>1, SweepGrows DEF Swept
  <2>3. perf = 0
    BY <1>7, <2>2
  <2> QED
    BY <1>2, <2>1, <2>3
<1>9. CASE Over
  <2>1. Swept(dregs.offset + 1)
    BY <1>9 DEF Over
  <2>2. \/ IsSweep(verified, dregs.addr, dregs.offset + 1) /\ ~D!Spoilt
        \/ D!Spoilt /\ Len(verified) < dregs.offset + 1
    BY <1>7, <2>1 DEF Swept
  <2>3. IsSweep(verified, dregs.addr, dregs.offset + 1) => Len(verified) = dregs.offset + 1
    <3>1. dregs.offset + 1 \in Nat
      BY <1>3
    <3> QED
      BY <1>3, <3>1, SweepGrows
  <2>4. D!Spoilt => "memory" \in wrong \/ "twice" \in wrong
    BY <1>2 DEF D!Spoilt, Own
  <2>5. CASE IsSweep(verified, dregs.addr, dregs.offset + 1) /\ ~D!Spoilt
    BY <1>2, <1>7, <2>3, <2>5
  <2>6. CASE D!Spoilt /\ Len(verified) < dregs.offset + 1
    <3>1. Len(verified) # dregs.offset + 1
      BY <1>3, <2>6
    <3> QED
      BY <1>2, <1>7, <2>4, <2>6, <3>1
  <2> QED
    BY <2>2, <2>5, <2>6
<1> QED
  BY <1>6, <1>8, <1>9

\* A test under way has no exit status yet.
NotEnded == dhost.pc # "idle" => dhost.exit = "none"

LEMMA NotEndedStep ==
    ASSUME DdrInv, NotEnded, [D!Next]_(D!vars)
    PROVE  NotEnded'
<1>1. dhost \in DdrProgram
  BY DdrShapes DEF DdrInv
<1>2. \A pc : [dhost EXCEPT !.pc = pc].exit = dhost.exit
  BY <1>1 DEF DdrProgram
<1>3. \A status : D!Ended(status).pc = "idle" /\ [D!Ended("none") EXCEPT !.pc = "rst0"].exit = "none"
  BY DEF D!Ended
<1>4. CASE D!Tick \/ UNCHANGED D!vars
  BY <1>4 DEF D!Tick, D!vars, NotEnded
<1>5. CASE D!Start
  BY <1>3, <1>5 DEF D!Start, NotEnded
<1>6. CASE D!Kill
  BY <1>3, <1>6 DEF D!Kill, NotEnded
<1>7. ASSUME NEW from \in D!PCs \ {"idle"}, NEW to, D!Access(from, to)
      PROVE  NotEnded'
  BY <1>2, <1>7 DEF D!Access, NotEnded
<1>8. ASSUME NEW from, NEW status, D!Ends(from, status)
      PROVE  NotEnded'
  BY <1>3, <1>8 DEF D!Ends, NotEnded
<1>9. ASSUME NEW from \in {"cal", "check"}, D!NextTest(from)
      PROVE  NotEnded'
  <2>1. /\ dhost.pc = from
        /\ dhost' = IF dhost.i < number_of_runs
                    THEN [dhost EXCEPT !.pc = "rst0", !.i = dhost.i + 1] ELSE D!Ended("passed")
    BY <1>9 DEF D!NextTest
  <2>2. [dhost EXCEPT !.pc = "rst0", !.i = dhost.i + 1].exit = dhost.exit
    BY <1>1 DEF DdrProgram
  <2> QED
    BY <1>3, <2>1, <2>2 DEF NotEnded
<1>10. CASE D!ResetPrLogic
  BY <1>7, <1>10 DEF D!ResetPrLogic, D!Write, D!PCs
<1>11. CASE D!ReadCalibration
  BY <1>8, <1>9, <1>11 DEF D!ReadCalibration
<1>12. CASE D!LoadSeed
  BY <1>7, <1>8, <1>12 DEF D!LoadSeed, D!Write, D!PCs
<1>13. CASE D!WriteAddress
  <2>1. PICK base \in D!Addresses, offset \in Offsets :
           /\ dhost.pc = "addr"
           /\ dhost' = [dhost EXCEPT !.pc = "offset", !.base = base, !.offset = offset]
    BY <1>13 DEF D!WriteAddress
  <2> QED
    BY <1>1, <2>1 DEF DdrProgram, NotEnded
<1>14. CASE D!StartSweep
  BY <1>7, <1>14 DEF D!StartSweep, D!Write, D!PCs
<1>15. CASE D!PollBusy
  BY <1>7, <1>15 DEF D!PollBusy, D!PCs
<1>16. CASE D!CheckCounter
  BY <1>8, <1>9, <1>16 DEF D!CheckCounter
<1> QED
  BY <1>4, <1>5, <1>6, <1>10, <1>11, <1>12, <1>13, <1>14, <1>15, <1>16 DEF D!Next, D!HostStep

LEMMA DdrInvariants == D!Spec => [](DdrInv /\ NotEnded)
<1>1. D!Init => NotEnded
  BY DEF D!Init, D!Ended, NotEnded
<1>2. DdrInv /\ NotEnded /\ [D!Next]_(D!vars) => NotEnded'
  BY NotEndedStep
<1> QED
  BY <1>1, <1>2, DdrInvariant, PTL DEF D!Spec

\* A test that passes has swept its addresses.
LEMMA PassStep ==
    ASSUME DdrInv, NotEnded, [D!Next]_(D!vars), dhost.pc = "check",
           dhost'.i > dhost.i \/ dhost'.exit = "passed"
    PROVE  verified = [k \in 1 .. dhost.offset + 1 |-> dhost.base + k - 1] /\ ~D!Spoilt
<1>1. dhost \in DdrProgram /\ dhost.exit = "none"
  BY DdrShapes DEF DdrInv, NotEnded
<1>2. dhost.i \in Nat
  BY <1>1, DdrConstants DEF DdrProgram
<1>3. dhost' # dhost
  BY <1>1, <1>2
<1>4. ASSUME NEW status \in {"killed", "bad_count"} PROVE dhost' # D!Ended(status)
  <2>1. D!Ended(status).i = 0 /\ D!Ended(status).exit = status /\ ~(0 > dhost.i)
    BY <1>2 DEF D!Ended
  <2> QED
    BY <2>1
<1>5. D!CheckCounter
  BY <1>3, <1>4 DEF D!Next, D!vars, D!Tick, D!Start, D!Kill, D!HostStep, D!ResetPrLogic,
     D!ReadCalibration, D!LoadSeed, D!WriteAddress, D!StartSweep, D!PollBusy, D!Write, D!Access,
     D!Ends, D!NextTest
<1>6. perf = dhost.offset + 1 /\ dgap = DdrGap
  BY <1>4, <1>5 DEF D!CheckCounter, D!Ends, D!NextTest
<1> QED
  BY <1>6, SweepResult DEF IsSweep

\* A DDR4 test is only passed when every address of its sweep was written, read
\* back and found equal, in order and once each, by the answer to a read of its
\* own: for every size of the memory, every sweep, every wait and backlog of
\* the memory within the bounds and whatever tests were interrupted before
\* (ddr_wr_rd.sv, traffic_generator.sv, perf_cntr.sv; example_host_uio.c 405).
THEOREM PassesAreSwept == Spec => PassedMeansSwept
<1>1. DdrInv /\ NotEnded /\ [D!Next]_(D!vars)
        => [(dhost.pc = "check" /\ (dhost'.i > dhost.i \/ dhost'.exit = "passed"))
               => /\ verified = [k \in 1 .. dhost.offset + 1 |-> dhost.base + k - 1]
                  /\ ~D!Spoilt]_(D!vars)
  BY PassStep
<1>2. D!Spec => D!PassedMeansSwept
  BY <1>1, DdrInvariants, PTL DEF D!Spec, D!PassedMeansSwept
<1> QED
  BY <1>2, ImplementsPersonas, PTL DEF PassedMeansSwept

-----------------------------------------------------------------------------
(* The program over all its personas.                                      *)

PersonaInv == CalcInv /\ GolInv /\ DdrInv

LEMMA PersonaInvariant == Spec => []PersonaInv
  BY CalcInvariant, GolInvariant, DdrInvariant, ImplementsPersonas, PTL DEF PersonaInv

\* The registers, pipelines and counters of all the personas and the program
\* keep to their widths, for every width and every size.
THEOREM TypeCorrect == Spec => []TypeOK
<1>1. CalcInv => /\ card \in Cards /\ gap \in 0 .. CalcGap /\ prog \in Program
                 /\ \A r \in Regions : calc[r] \in Calculator
  BY DEF CalcInv, CalcTypeOK
<1>2. ASSUME NEW c \in Calculator
      PROVE  /\ c.regs \in [ctrl : {0, 1}, a : Word, b : Word]
             /\ c.clr_q \in BOOLEAN /\ c.clr \in BOOLEAN
             /\ c.in \in Word \X Word /\ c.mid \in (0 .. DspSize - 1) \X (0 .. DspSize - 1)
             /\ c.out \in 0 .. DspSize * DspSize - 1
  BY DEF Calculator, Narrow
<1>3. DdrInv => D!TypeOK
  BY DEF DdrInv, DdrTypeOK
<1>4. GolInv => G!TypeOK
  BY DEF GolInv, GolTypeOK, G!TypeOK
<1>5. PersonaInv => TypeOK
  BY <1>1, <1>2, <1>3, <1>4 DEF PersonaInv, TypeOK, Program, Returns
<1> QED
  BY <1>5, PersonaInvariant, PTL

\* The result of a calculator is right when it is read.
LEMMA CalculatorIsRight ==
    ASSUME CalcInv, CheckResult
    PROVE  prog' = NextTest
<1> DEFINE c == calc[prog.region]
           low == c.out % WordSize
<1>1. /\ prog.pc = "low" /\ gap = CalcGap
      /\ prog' = IF (IF IsDsp THEN prog.a * prog.b = prog.high * WordSize + low
                              ELSE (prog.a + prog.b) % WordSize = low)
                 THEN NextTest ELSE Fails
  BY DEF CheckResult, uio_read_u32, Access
<1>2. gap >= 2 /\ gap >= 3
  BY <1>1, GapAssumption
<1>3. CASE IsDsp
  <2>1. c.out = prog.a * prog.b /\ prog.high = c.out \div WordSize
    BY <1>1, <1>3 DEF CalcInv, Pipeline
  <2>2. c.out \in 0 .. DspSize * DspSize - 1
    BY DEF CalcInv, CalcTypeOK, Calculator, Program
  <2>3. c.out = (c.out \div WordSize) * WordSize + low
    BY <2>2, WordsOfResult
  <2> HIDE DEF c, low
  <2> QED
    BY <1>1, <1>3, <2>1, <2>3
<1>4. CASE ~IsDsp
  <2>1. c.out = (prog.a + prog.b) % WordSize
    BY <1>1, <1>2, <1>4 DEF CalcInv, Pipeline
  <2>2. /\ WordSize \in Nat \ {0} /\ prog.a + prog.b \in Int
    BY WordAssumption DEF CalcInv, CalcTypeOK, Program, Word
  <2>3. (prog.a + prog.b) % WordSize \in 0 .. WordSize - 1
    BY <2>2, DivMod
  <2>4. \A x \in 0 .. WordSize - 1 : x % WordSize = x
    BY <2>2
  <2>5. low = (prog.a + prog.b) % WordSize
    BY <2>1, <2>3, <2>4
  <2> QED
    BY <1>1, <1>4, <2>5
<1> QED
  BY <1>3, <1>4

\* The game read back is the one the host plays.
LEMMA GameIsRight ==
    ASSUME GolInv, G!HostStep, ghost'.pc = "idle"
    PROVE  ghost'.exit = "passed"
<1>1. /\ ghost \in [pc : G!PCs, collecting : BOOLEAN, runs : Runs \cup {0},
                    board : SUBSET G!Cells, top : SUBSET G!Cells, result : SUBSET G!Cells,
                    exit : {"none", "killed", "passed", "mismatch"}]
  BY DEF GolInv, GolTypeOK
<1>2. G!CheckResult
  <2>1. ~G!ResetPrLogic
    BY <1>1 DEF G!ResetPrLogic, G!Write, G!Access
  <2>2. ~G!RunAccelerated
    BY <1>1 DEF G!RunAccelerated, G!Write, G!Access
  <2>3. ~G!PollBusy
    BY <1>1 DEF G!PollBusy, G!Read, G!Access
  <2>4. ~G!ReadResult
    BY <1>1 DEF G!ReadResult, G!Read, G!Access
  <2> QED
    BY <2>1, <2>2, <2>3, <2>4 DEF G!HostStep
<1>3. ghost.pc = "verify"
  BY <1>2 DEF G!CheckResult
<1>4. ghost.result = G!Generations(ghost.board)[ghost.runs]
  BY <1>3 DEF GolInv, GolCollect, TheGame
<1>5. ghost.runs \in Nat /\ ghost.board \in SUBSET G!Cells
  BY <1>1, RunsAreNat
<1>6. G!run_gol_verify(ghost.board, ghost.runs) = ghost.result
  BY <1>4, <1>5, HostPlaysTheGame
<1>7. ghost' = G!Ended("passed")
  BY <1>2, <1>6 DEF G!CheckResult
<1> QED
  BY <1>7 DEF G!Ended

\* A DDR4 test fails for its memory, for a read asked for twice or for a sweep of
\* one word.
LEMMA SweepIsRight ==
    ASSUME DdrInv, D!HostStep, dhost'.pc = "idle", dhost'.exit # "passed"
    PROVE  \/ "memory" \in wrong \/ "twice" \in wrong
           \/ dhost'.exit = "uncalibrated"
           \/ dhost.pc = "check" /\ dhost.offset = 0
<1>1. dhost \in DdrProgram /\ SweepAt
  BY DdrShapes DEF DdrInv
<1>2. ASSUME NEW from, NEW to \in D!PCs \ {"idle"} PROVE ~D!Access(from, to)
  BY <1>1, <1>2 DEF D!Access, DdrProgram
<1>3. ASSUME NEW from PROVE ~D!NextTest(from)
  <2>1. D!Ended("passed").exit = "passed"
    BY DEF D!Ended
  <2>2. [dhost EXCEPT !.pc = "rst0", !.i = dhost.i + 1].pc = "rst0"
    BY <1>1 DEF DdrProgram
  <2> QED
    BY <2>1, <2>2 DEF D!NextTest
<1>4. ~D!ResetPrLogic
  BY <1>2 DEF D!ResetPrLogic, D!Write, D!PCs
<1>5. ~D!WriteAddress
  BY <1>1 DEF D!WriteAddress, DdrProgram
<1>6. ~D!StartSweep
  BY <1>2 DEF D!StartSweep, D!Write, D!PCs
<1>7. ~D!PollBusy
  BY <1>2 DEF D!PollBusy, D!PCs
<1>8. ~D!LoadSeed
  <2>1. dhost.pc = "seedback" => dregs.seed = 1
    BY <1>1 DEF SweepAt
  <2>2. ~D!Access("seedback", "addr")
    BY <1>2 DEF D!PCs
  <2>3. ~D!Write("seed", "load", [dregs EXCEPT !.seed = 1])
    BY <1>2 DEF D!Write, D!PCs
  <2>4. ~D!Write("load", "seedback", [dregs EXCEPT !.ctrl = {"load_seed"}])
    BY <1>2 DEF D!Write, D!PCs
  <2> QED
    BY <2>1, <2>2, <2>3, <2>4 DEF D!LoadSeed, D!Ends
<1>9. CASE D!ReadCalibration
  BY <1>3, <1>9 DEF D!ReadCalibration, D!Ends, D!Ended
<1>10. CASE D!CheckCounter
  <2>1. perf # dhost.offset + 1 /\ dhost.pc = "check" /\ dgap = DdrGap
    BY <1>3, <1>10 DEF D!CheckCounter, D!Ends
  <2> QED
    BY <2>1, SweepResult
<1> QED
  BY <1>4, <1>5, <1>6, <1>7, <1>8, <1>9, <1>10 DEF D!HostStep

\* What the program returns does not make it fail.
LEMMA StatusKept ==
    ASSUME prog \in Program
    PROVE  /\ \A r \in Regions, ret \in {"zero", "einval"} : Returned(r, ret).status = prog.status
           /\ NextTest.status = prog.status
<1>1. ASSUME NEW r \in Regions, NEW ret \in {"zero", "einval"}
      PROVE  Returned(r, ret).status = prog.status
  BY RegionsAre DEF Returned, Program
<1>2. prog.region \in Regions
  BY DEF Program
<1> QED
  BY <1>1, <1>2 DEF NextTest, Program

LEMMA FailureStep ==
    ASSUME PersonaInv, [Next]_vars, prog.status # "failure", prog'.status = "failure"
    PROVE  /\ prog.pc = "ddr4"
           /\ \/ "memory" \in wrong \/ "twice" \in wrong
              \/ dhost'.exit = "uncalibrated"
              \/ dhost.pc = "check" /\ dhost.offset = 0
<1>1. prog \in Program /\ CalcInv /\ GolInv /\ DdrInv
  BY DEF PersonaInv, CalcInv, CalcTypeOK
<1>2. /\ \A r \in Regions, ret \in {"zero", "einval"} : Returned(r, ret).status = prog.status
      /\ NextTest.status = prog.status /\ prog.region \in Regions /\ "top" \in Regions
  BY <1>1, StatusKept, RegionsAre DEF Program
<1>3. \A s : [Fresh EXCEPT !.status = s].status = s /\ [Fresh EXCEPT !.pc = s].status = "none"
  BY DEF Fresh
<1>4. ~Tick /\ ~(UNCHANGED vars)
  BY DEF Tick, vars
<1>5. ~Start
  BY <1>3 DEF Start, Local
<1>6. ~uio_open /\ ~ReadIds
  BY <1>1, <1>3 DEF uio_open, ReadIds, Local, Program
<1>7. ~Close
  <2>1. prog.ret["top"] # "failure"
    BY <1>1, <1>2 DEF Program, Returns
  <2> QED
    BY <2>1 DEF Close, Local, Fresh
<1>8. ~Dispatch
  BY <1>1, <1>2 DEF Dispatch, Local, Program
<1>9. ~reset_pr_logic /\ ~Operands /\ ~Increment /\ ~ReadHigh
  BY <1>1, <1>2 DEF reset_pr_logic, Operands, Increment, ReadHigh, uio_write_u32, uio_read_u32,
                    Access, Program
<1>10. ~CheckResult
  BY <1>1, <1>2, CalculatorIsRight
<1>11. ~GolTest
  BY <1>1, <1>2, GameIsRight DEF GolTest
<1>12. ~Kill
  BY <1>3 DEF Kill
<1>13. Ddr4Test
  BY <1>4, <1>5, <1>6, <1>7, <1>8, <1>9, <1>10, <1>11, <1>12 DEF Next, ProgramStep
<1>14. D!HostStep /\ dhost'.pc = "idle" /\ dhost'.exit # "passed" /\ prog.pc = "ddr4"
  BY <1>2, <1>13 DEF Ddr4Test
<1> QED
  BY <1>1, <1>14, SweepIsRight

\* A test fails for a fault of the memory, for a read that ddr_wr_rd.sv asked for
\* twice (221), or for a sweep of the one word that traffic_generator.sv never
\* counts, and for nothing else: no calculator is read too early or torn, no
\* game is read with a generation too few or too many, and no sweep is checked
\* before its last word, whatever was interrupted before and at every width,
\* size and bound of the constants.
THEOREM FailuresAreFaults == Spec => SoundPersonaPasses
<1>1. PersonaInv /\ [Next]_vars
        => [prog.status # "failure" /\ prog'.status = "failure"
              => /\ prog.pc = "ddr4"
                 /\ \/ "memory" \in wrong \/ "twice" \in wrong
                    \/ dhost'.exit = "uncalibrated"
                    \/ dhost.pc = "check" /\ dhost.offset = 0]_vars
  BY FailureStep
<1> QED
  BY <1>1, PersonaInvariant, PTL DEF Spec, SoundPersonaPasses

=============================================================================
