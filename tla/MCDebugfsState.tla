--------------------------- MODULE MCDebugfsState ---------------------------
(***************************************************************************)
(* Instances of DebugfsState for TLC: a boot mask with one of the driver's *)
(* own bits set, BARs 2 and 4 mapped, and device trees.                    *)
(***************************************************************************)
EXTENDS DebugfsState

BootMask == {"UNSUP"}

\* base_dtb is left alone while upstream AER is disabled.
CarefulStates == States \ {"AER disabled"}

Bars == {2, 4}

Node(tags) == <<Tag("FDT_BEGIN_NODE")>> \o tags \o <<Tag("FDT_END_NODE")>>
PrCore == Prop("compatible", "altr,pr-ip-core", <<>>)
Other == Prop("compatible", "altr,freeze-bridge-controller", <<>>)
Reg(bar, off) == Prop("reg", "", <<bar, off, 16>>)

Complete(tags) == Blob("FDT_MAGIC", 17, 16, tags)
End == <<Tag("FDT_END")>>

\* a10_pcie_devkit_cvp_base.dts: a region, its freeze bridge, the PR IP core.
BaseTags == Node(Node(<<Prop("compatible", "fpga-region", <<>>), Reg(4, 0)>>)
                 \o Node(<<Other, Reg(4, 1)>>) \o Node(<<PrCore, Reg(2, 1)>>)) \o End

\* Two cores: one below a bridge, one whose first property was deleted and that
\* has its registers twice.
NestedTags == Node(<<PrCore, Reg(2, 3)>>
                   \o Node(<<Other>> \o Node(<<Reg(4, 2), PrCore>>))
                   \o <<Tag("FDT_NOP")>>
                   \o Node(<<Tag("FDT_NOP"), PrCore, Tag("FDT_NOP"), Reg(2, 2), Reg(2, 4)>>)) \o End

\* Cores that cannot be used: the registers are the child's, too few, in no BAR
\* of the card, in a BAR that is not mapped, or missing.
UselessTags == Node(Node(<<PrCore>> \o Node(<<Reg(2, 1)>>))
                    \o Node(<<PrCore, Prop("reg", "", <<2, 1>>)>>)
                    \o Node(<<PrCore, Reg(6, 1)>>) \o Node(<<PrCore, Reg(0, 1)>>)
                    \o Node(<<PrCore>>) \o Node(<<>>)) \o End

\* A tree that ends behind its first n tags, and one that is damaged there.
Truncated(tags, n) == Complete(SubSeq(tags, 1, n))
Damaged(tags, n, tag) == Complete(SubSeq(tags, 1, n) \o <<Tag(tag)>> \o
                                  IF tag = "cut" THEN <<>> ELSE SubSeq(tags, n + 1, Len(tags)))

BaseRoms == {Complete(BaseTags), Blob("none", 17, 16, BaseTags)}

SomeTrees ==
    {Complete(NestedTags), Complete(UselessTags), Blob("FDT_SW_MAGIC", 17, 16, NestedTags),
     Blob("FDT_MAGIC", 15, 15, BaseTags), Blob("FDT_MAGIC", 18, 18, BaseTags),
     Truncated(BaseTags, Len(BaseTags) - 2), Truncated(NestedTags, 9),
     Damaged(NestedTags, 15, "cut"), Damaged(BaseTags, 11, "unknown")}
=============================================================================
