-------------------------- MODULE RegionIsolation --------------------------
(***************************************************************************)
(* What the region controller promises the rest of the system: the logic   *)
(* of a PR region is taken away and given back in stages.  A live region   *)
(* is first frozen (its bridges isolate it) and only then held in reset;   *)
(* reset is released before the bridges open again.  Reset is never seen   *)
(* by a region whose bridges are open, and a region is never opened while  *)
(* its logic is still in reset.  Partial reconfiguration belongs in the    *)
(* stage "held" and nowhere else.                                          *)
(***************************************************************************)
CONSTANT Regions          \* the PR regions of the design

VARIABLE stage            \* stage[r]: how far region r has been taken away

Stages == {"live", "frozen", "held"}

Init == stage = [r \in Regions |-> "live"]

\* The only moves between stages: one step out, or one step back.
Adjacent == {<<"live", "frozen">>, <<"frozen", "held">>,
             <<"held", "frozen">>, <<"frozen", "live">>}

Move(r) ==
    \E s \in Stages :
        /\ <<stage[r], s>> \in Adjacent
        /\ stage' = [stage EXCEPT ![r] = s]

Next == \E r \in Regions : Move(r)

Spec == Init /\ [][Next]_stage
=============================================================================
