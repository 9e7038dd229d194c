--------------------------- MODULE MCHostProgram ----------------------------
(***************************************************************************)
(* HostProgram with registers of three bits and a multiplier of two, so    *)
(* that sums overflow and products take two words; sweeps in a memory of   *)
(* four words; games on a torus of four by four, the smallest on which a   *)
(* cell has cells that are not its neighbours, with boards that cross its  *)
(* edges and its halves and differ from their mirror image.                *)
(***************************************************************************)
EXTENDS HostProgram

Card(top, child0, child1, size) ==
    [top |-> top, child0 |-> child0, child1 |-> child1, size |-> size]

SomeCards ==
    {Card(id, "unknown", "unknown", 3) : id \in IDs}
      \cup {Card("HPR_PARENT_ALPHA", c, d, 3) : c \in Calculators, d \in {"BASIC_DSP", "unknown"}}
      \cup {Card("HPR_PARENT_ALPHA", "BASIC_DSP", "BASIC_DSP", size) : size \in 0 .. 2}

SomeDirectories == {<<<<1, 2>>, <<1, 3>>>>, <<<<1, 2>>, <<>>, <<1, 3>>>>, <<<<>>>>}

SomeNames == {<<1, 3>>, <<1>>}

SomeBoards == {{0, 1, 15}, {5, 9, 13}, {1, 6, 8, 9, 10}}
=============================================================================
