----------------------------- MODULE DeviceTree -----------------------------
(***************************************************************************)
(* The part of libfdt the debugfs driver walks a flattened device tree     *)
(* with (fdt.c, fdt_ro.c), and what the driver takes from each node        *)
(* (fpga_pcie_probe_all_subdrivers() in drivers/fpga/fpga-pcie.c).         *)
(*                                                                         *)
(* A blob is a header and the tags of the structure block.  An offset      *)
(* counts tags from 0; the name, the length and the value of a property    *)
(* come with its tag.  The block may end anywhere: behind any tag, or      *)
(* inside its last one, which is then cut.  Errors are negative offsets.   *)
(* The byte arithmetic of a property's length (fdt.c 118-126, 136), its    *)
(* padding and wraps included, is left out.                                *)
(***************************************************************************)
EXTENDS Integers, Sequences, FiniteSets

FDT_ERR_NOTFOUND == 1
FDT_ERR_BADOFFSET == 4
FDT_ERR_TRUNCATED == 8
FDT_ERR_BADSTRUCTURE == 11

\* Tags: the name of a property, its value if it is a string (the first one of
\* the list), and its 32-bit words if it is numbers.
Tags ==
    [tag : {"FDT_BEGIN_NODE", "FDT_END_NODE", "FDT_PROP", "FDT_NOP", "FDT_END", "cut", "unknown"},
     name : STRING, string : STRING, words : Seq(Nat)]
Tag(tag) == [tag |-> tag, name |-> "", string |-> "", words |-> <<>>]
Prop(name, string, words) ==
    [tag |-> "FDT_PROP", name |-> name, string |-> string, words |-> words]

Blob(magic, version, last_comp, tags) ==
    [magic |-> magic, version |-> version, last_comp |-> last_comp, tags |-> tags]

fdt_check_header(t) ==
    \/ t.magic = "FDT_MAGIC" /\ t.version >= 16 /\ t.last_comp <= 17
    \/ t.magic = "FDT_SW_MAGIC" /\ t.tags # <<>>

\* fdt_next_tag(): the tag at offset and where the next one is.  A cut tag and
\* one that libfdt does not know are the end of the blob, as the real end is.
\* The size of the block is in the header of version 17 (81-84); older blobs
\* have to come with their end.
fdt_next_tag(t, offset) ==
    CASE offset >= Len(t.tags) ->
           [tag |-> "FDT_END", next |-> -FDT_ERR_TRUNCATED]
      [] offset < Len(t.tags) /\ t.tags[offset + 1].tag \in {"cut", "unknown"} ->
           [tag |-> "FDT_END", next |-> -FDT_ERR_BADSTRUCTURE]
      [] OTHER -> [tag |-> t.tags[offset + 1].tag, next |-> offset + 1]

\* _fdt_check_node_offset() and _fdt_check_prop_offset().
check_offset(t, offset, tag) ==
    IF offset >= 0 /\ fdt_next_tag(t, offset).tag = tag
    THEN fdt_next_tag(t, offset).next
    ELSE -FDT_ERR_BADOFFSET

\* Fault: the search begins at the node itself.
fdt_next_node_here(t, offset) == offset

\* fdt_next_node() with no depth: the next node of the blob at any level.
fdt_next_node(t, offset) ==
    LET search[o \in 0 .. Len(t.tags)] ==
          LET n == fdt_next_tag(t, o)
          IN  CASE n.tag = "FDT_BEGIN_NODE" -> o
                [] n.tag = "FDT_END" ->
                     IF n.next >= 0 \/ n.next = -FDT_ERR_TRUNCATED
                     THEN -FDT_ERR_NOTFOUND
                     ELSE n.next
                [] OTHER -> search[n.next]
        first == check_offset(t, offset, "FDT_BEGIN_NODE")
    IN  IF first < 0 THEN first ELSE search[first]

\* Fault: properties are also looked for behind the beginning of a subnode.
nextprop_deep(t, offset) ==
    LET search[o \in 0 .. Len(t.tags)] ==
          LET n == fdt_next_tag(t, o)
          IN  CASE n.tag = "FDT_END" ->
                     IF n.next >= 0 THEN -FDT_ERR_BADSTRUCTURE ELSE n.next
                [] n.tag = "FDT_PROP" -> o
                [] n.tag \in {"FDT_NOP", "FDT_BEGIN_NODE"} -> search[n.next]
                [] OTHER -> -FDT_ERR_NOTFOUND
    IN  search[offset]

\* _nextprop(): the property at offset or behind the NOPs there.
nextprop(t, offset) ==
    LET search[o \in 0 .. Len(t.tags)] ==
          LET n == fdt_next_tag(t, o)
          IN  CASE n.tag = "FDT_END" ->
                     IF n.next >= 0 THEN -FDT_ERR_BADSTRUCTURE ELSE n.next
                [] n.tag = "FDT_PROP" -> o
                [] n.tag = "FDT_NOP" -> search[n.next]
                [] OTHER -> -FDT_ERR_NOTFOUND
    IN  search[offset]

fdt_first_property_offset(t, offset) ==
    LET first == check_offset(t, offset, "FDT_BEGIN_NODE")
    IN  IF first < 0 THEN first ELSE nextprop(t, first)

fdt_next_property_offset(t, offset) ==
    LET first == check_offset(t, offset, "FDT_PROP")
    IN  IF first < 0 THEN first ELSE nextprop(t, first)

\* fdt_getprop(): the property of the node with that name, as its offset.
fdt_getprop(t, offset, name) ==
    LET search[o \in -FDT_ERR_BADSTRUCTURE .. Len(t.tags)] ==
          IF o < 0 \/ t.tags[o + 1].name = name
          THEN o
          ELSE search[fdt_next_property_offset(t, o)]
    IN  search[fdt_first_property_offset(t, offset)]

-----------------------------------------------------------------------------
(* The driver's use of a node.                                             *)

NUM_REGS == 3
NUM_BARS == 6

fpga_drv_lookup(id) == id = "altr,pr-ip-core"

\* Where probe_all_subdrivers() deploys a subdriver for the node at offset: at
\* one BAR and offset or, on any of its early continues, nowhere.
Registers(t, offset, bars) ==
    LET compat == fdt_getprop(t, offset, "compatible")
        reg == fdt_getprop(t, offset, "reg")
        regs == t.tags[reg + 1].words
    IN  IF /\ compat >= 0 /\ fpga_drv_lookup(t.tags[compat + 1].string)
           /\ reg >= 0 /\ Len(regs) = NUM_REGS
           /\ regs[1] < NUM_BARS /\ regs[1] \in bars
        THEN {<<regs[1], regs[2]>>}
        ELSE {}

-----------------------------------------------------------------------------
(* What a device tree means, for comparison: a property belongs to the     *)
(* innermost node that is open where it stands.                            *)

\* Tags up to the first one that is cut, unknown or the end.
Readable(t) ==
    {i \in 1 .. Len(t.tags) :
        \A k \in 1 .. i : t.tags[k].tag \notin {"cut", "unknown", "FDT_END"}}

Level(t, i) ==
    Cardinality({k \in 1 .. i : t.tags[k].tag = "FDT_BEGIN_NODE"})
        - Cardinality({k \in 1 .. i : t.tags[k].tag = "FDT_END_NODE"})

Owns(t, i, j) ==
    /\ t.tags[i].tag = "FDT_BEGIN_NODE" /\ t.tags[j].tag = "FDT_PROP"
    /\ i < j /\ Level(t, i) = Level(t, j)
    /\ \A k \in i .. j : Level(t, k) >= Level(t, i)

\* Tag j is the property of that name of the node at i, the first one if there
\* are more.
PropertyOf(t, i, j, name) ==
    /\ Owns(t, i, j) /\ t.tags[j].name = name
    /\ \A k \in i .. j - 1 : ~(Owns(t, i, k) /\ t.tags[k].name = name)

\* The PR IP core that the node at i is, if it is one and can be reached.
Core(t, i, bars) ==
    LET compatible == {c \in Readable(t) : /\ PropertyOf(t, i, c, "compatible")
                                           /\ t.tags[c].string = "altr,pr-ip-core"}
        reg == {r \in Readable(t) : /\ PropertyOf(t, i, r, "reg")
                                    /\ Len(t.tags[r].words) = NUM_REGS
                                    /\ t.tags[r].words[1] \in bars}
    IN  {<<t.tags[r].words[1], t.tags[r].words[2]>> : r \in {r \in reg : compatible # {}}}

\* The PR IP cores the tree describes, the root node left aside.
Cores(t, bars) == UNION {Core(t, i, bars) : i \in Readable(t) \ {1}}
=============================================================================
