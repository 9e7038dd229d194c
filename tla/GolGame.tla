------------------------------ MODULE GolGame -------------------------------
(***************************************************************************)
(* The game of life persona and the host program that plays against it:    *)
(* do_gol_persona() of a10_pcie_devkit_cvp/software/util/example_host_     *)
(* uio.c and the RTL under source/gol_persona.                             *)
(*                                                                         *)
(* A board is the set of its live cells; cell c is bit c of the 64-bit     *)
(* board, and the halves are the two registers it travels in.  Tick is one *)
(* edge of the region clock, a host step one access to the register file,  *)
(* with at least MinGap clocks between two accesses.                       *)
(***************************************************************************)
EXTENDS Integers, FiniteSets

CONSTANTS
    Rows, Cols,  \* GOL_ROWS and GOL_COLS (8 and 8)
    Runs,        \* values of the option -n: generations to play
    Boards,      \* boards that rand() may give
    MinGap       \* least clocks between two accesses of the host

Cells == 0 .. Rows * Cols - 1
TopHalf == {c \in Cells : c >= (Rows * Cols) \div 2}
BottomHalf == Cells \ TopHalf

\* The eight directions.
Around == ({-1, 0, 1} \X {-1, 0, 1}) \ {<<0, 0>>}

VARIABLES
    regs,       \* the register file: control, counter limit, two halves of the board
    mod,        \* moderator
    cells,      \* the live cells of the block
    board_final,\* board_final_reg of gol_block_wrapper
    host,       \* the host program: next access, parameters, results, exit status
    gap         \* clocks since the host's last access, up to MinGap

hwVars == <<mod, cells, board_final>>
vars == <<regs, mod, cells, board_final, host, gap>>

PCs == {"idle", "rst0", "rst1", "rst2", "top", "bottom", "limit", "low", "start",
        "stop", "poll", "rtop", "rbottom", "verify"}

ClearedRegs == [ctrl |-> {}, limit |-> 0, top |-> {}, bottom |-> {}]

TypeOK ==
    /\ regs \in [ctrl : SUBSET {"clr", "start"}, limit : Runs \cup {0},
                 top : SUBSET TopHalf, bottom : SUBSET BottomHalf]
    /\ mod.limit \in Runs \cup {0}
    /\ \E n \in Runs \cup {0} : mod.counter \in 0 .. n
    /\ mod.board \subseteq Cells /\ cells \subseteq Cells /\ board_final \subseteq Cells
    /\ host.pc \in PCs
    /\ host.exit \in {"none", "killed", "passed", "mismatch"}
    /\ gap \in 0 .. MinGap

\* The program before its start and after its end.
Ended(status) == [pc |-> "idle", collecting |-> FALSE, runs |-> 0, board |-> {},
                  top |-> {}, result |-> {}, exit |-> status]

Init ==
    /\ regs = ClearedRegs
    /\ mod = [clr_q |-> FALSE, clr |-> FALSE, start_d |-> FALSE, start_pulse |-> FALSE,
              start_game |-> FALSE, limit |-> 0, board |-> {}, counter |-> 0]
    /\ cells = {} /\ board_final = {}
    /\ host = Ended("none")
    /\ gap = MinGap

-----------------------------------------------------------------------------
(* The persona.                                                            *)

\* The neighbour wires of block.sv.
NeighborWire ==
    [c \in Cells |-> [d \in Around |->
        LET i == c % Rows
            j == c \div Rows
        IN ((i + d[1] + Rows) % Rows) + ((j + d[2] + Cols) % Cols) * Rows]]

\* gol_cell: the next state of every cell.
NextCells ==
    LET ones == [c \in Cells |-> Cardinality({d \in Around : NeighborWire[c][d] \in cells})]
    IN {c \in Cells : IF c \in cells THEN ones[c] \in {2, 3} ELSE ones[c] = 3}

\* Fault: one generation too many.
counting_late == mod.counter <= mod.limit /\ mod.start_game

\* The wire `count', which is also the busy bit the host polls.
counting == mod.counter < mod.limit /\ mod.start_game

\* Fault: the counter is cleared by the level of the start, not its pulse.
CounterHeld == IF mod.clr \/ mod.start_game THEN 0 ELSE mod.counter

Counter ==
    IF mod.clr THEN 0
    ELSE IF counting THEN mod.counter + 1
    ELSE IF mod.start_pulse THEN 0
    ELSE mod.counter

\* A rising control bit makes a pulse of one clock; the clear wins over a
\* start, and the end of a game over the start of the next.
Moderator ==
    [clr_q       |-> "clr" \in regs.ctrl,
     clr         |-> ~mod.clr_q /\ "clr" \in regs.ctrl,
     start_d     |-> ~mod.clr /\ "start" \in regs.ctrl,
     start_pulse |-> ~mod.clr /\ ~mod.start_d /\ "start" \in regs.ctrl,
     start_game  |-> ~mod.clr /\ (IF mod.start_game THEN counting ELSE mod.start_pulse),
     limit       |-> IF mod.clr THEN 0 ELSE regs.limit,
     board       |-> IF mod.clr THEN {} ELSE regs.top \cup regs.bottom,
     counter     |-> Counter]

Tick ==
    /\ mod' = Moderator
    /\ cells' = IF mod.start_pulse THEN mod.board ELSE IF counting THEN NextCells ELSE cells
    /\ board_final' = IF mod.start_pulse THEN {} ELSE cells
    /\ regs' = IF mod.clr THEN ClearedRegs ELSE regs
    /\ gap' = IF gap < MinGap THEN gap + 1 ELSE gap
    /\ UNCHANGED host

-----------------------------------------------------------------------------
(* The host program.                                                       *)

Access(from, newHost) ==
    /\ host.pc = from
    /\ gap = MinGap
    /\ gap' = 0
    /\ host' = newHost
    /\ UNCHANGED hwVars

Write(from, to, newRegs) == Access(from, [host EXCEPT !.pc = to]) /\ regs' = newRegs

Read(from, newHost) == Access(from, newHost) /\ UNCHANGED regs

\* The options and the random board; do_gol_persona() begins.
Start ==
    \E n \in Runs, b \in Boards :
        /\ host.pc = "idle"
        /\ host' = [Ended("none") EXCEPT !.pc = "rst0", !.runs = n, !.board = b]
        /\ UNCHANGED <<regs, hwVars, gap>>

ResetPrLogic ==
    \/ Write("rst0", "rst1", [regs EXCEPT !.ctrl = {}])
    \/ Write("rst1", "rst2", [regs EXCEPT !.ctrl = {"clr"}])
    \/ Write("rst2", IF host.collecting THEN "rtop" ELSE "top", [regs EXCEPT !.ctrl = {}])

\* run_gol_accelerated() up to the poll.
RunAccelerated ==
    \/ Write("top", "bottom", [regs EXCEPT !.top = host.board \cap TopHalf])
    \/ Write("bottom", "limit", [regs EXCEPT !.bottom = host.board \cap BottomHalf])
    \/ Write("limit", "low", [regs EXCEPT !.limit = host.runs])
    \/ Write("low", "start", [regs EXCEPT !.ctrl = {}])
    \/ Write("start", "stop", [regs EXCEPT !.ctrl = {"start"}])
    \/ Write("stop", "poll", [regs EXCEPT !.ctrl = {}])

\* The busy poll; when it ends the logic is reset before the result is read.
PollBusy ==
    Read("poll", IF counting THEN host ELSE [host EXCEPT !.pc = "rst0", !.collecting = TRUE])

ReadResult ==
    \/ Read("rtop", [host EXCEPT !.pc = "rbottom", !.top = board_final \cap TopHalf])
    \/ Read("rbottom", [host EXCEPT !.pc = "verify", !.result = host.top \cup (board_final \cap BottomHalf)])

\* calculate_neighbors(): the target of a count is indexed by column and row,
\* the cells around it with rows and columns exchanged.
calculate_neighbors(board) ==
    [c \in Cells |->
        LET i == c \div Cols
            j == c % Cols
        IN Cardinality({d \in Around :
               ((j + d[2] + Rows) % Rows) + ((i + d[1] + Cols) % Cols) * Cols \in board})]

apply_gol_rules(board, counts) ==
    {c \in Cells : IF c \in board THEN counts[c] \in {2, 3} ELSE counts[c] = 3}

\* run_gol_verify(); apply_gol_rules() leaves the counts zero, as it must find
\* them, so its exit for counts that are not is never taken.
run_gol_verify(board, runs) ==
    LET generation[b \in SUBSET Cells] == apply_gol_rules(b, calculate_neighbors(b))
        current[n \in 0 .. runs] == IF n = 0 THEN board ELSE generation[current[n - 1]]
    IN current[runs]

\* The game on the host, check_result_64() and the end of the program.
CheckResult ==
    /\ host.pc = "verify"
    /\ host' = Ended(IF run_gol_verify(host.board, host.runs) = host.result
                     THEN "passed" ELSE "mismatch")
    /\ UNCHANGED <<regs, hwVars, gap>>

\* The program is interrupted; the persona goes on.
Kill ==
    /\ host.pc # "idle"
    /\ host' = Ended("killed")
    /\ UNCHANGED <<regs, hwVars, gap>>

HostStep ==
    \/ ResetPrLogic \/ RunAccelerated \/ PollBusy \/ ReadResult \/ CheckResult

Next == Tick \/ Start \/ HostStep \/ Kill

Spec == Init /\ [][Next]_vars

-----------------------------------------------------------------------------
(* The game, by its rules: a torus of Rows times Cols cells.               *)

Row(c) == c \div Cols
Column(c) == c % Cols

\* Two cells of the torus touch when they differ by at most one row and one
\* column, counted around the edge.
Touch(c, d) ==
    /\ c # d
    /\ (Row(c) - Row(d)) % Rows \in {0, 1, Rows - 1}
    /\ (Column(c) - Column(d)) % Cols \in {0, 1, Cols - 1}

Touching == [c \in Cells |-> {d \in Cells : Touch(c, d)}]

\* A cell lives on with two or three live neighbours, and is born with three.
Life(board) ==
    {c \in Cells : LET n == Cardinality(Touching[c] \cap board)
                   IN n = 3 \/ (n = 2 /\ c \in board)}

Generations(board) ==
    LET gen[n \in Nat] == IF n = 0 THEN board ELSE Life(gen[n - 1])
    IN gen

\* What the persona returns is the board after exactly the generations asked
\* for: the first and the last clock of the game, the reset before the result
\* is read and games interrupted earlier make no difference (moderator.sv
\* 61-142; host program 415-443, 532-540).
ResultIsTheGame ==
    host.pc = "verify" => host.result = Generations(host.board)[host.runs]

=============================================================================
