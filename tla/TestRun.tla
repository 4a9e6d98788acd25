------------------------------- MODULE TestRun -------------------------------
(***************************************************************************)
(* What the test client promises to the one who issues a run: each diag of *)
(* the run is off, to be run, asked of the agent or done, in this order    *)
(* and at most once; the next run starts from idle.                        *)
(***************************************************************************)
CONSTANT Diags

VARIABLES phase, stage

Stages == {"off", "todo", "asked", "done"}

RunInit == phase = "idle" /\ stage = [d \in Diags |-> "off"]

Start ==
    /\ phase = "idle" /\ phase' = "running"
    /\ stage' \in [Diags -> {"off", "todo"}]

\* The capabilities tell what else there is to test.  That they are heard before the
\* run ends is not promised here: see OfferedUnlessLate of HwstClient.
Offer(some) ==
    /\ phase = "running"
    /\ \A d \in some : stage[d] = "off"
    /\ stage' = [d \in Diags |-> IF d \in some THEN "todo" ELSE stage[d]]
    /\ UNCHANGED phase

Ask(d) ==
    /\ phase = "running" /\ stage[d] = "todo"
    /\ stage' = [stage EXCEPT ![d] = "asked"]
    /\ UNCHANGED phase

\* One result, or many at once when the connection is lost.
Settle(some) ==
    /\ phase # "idle"
    /\ \A d \in some : stage[d] = "asked"
    /\ stage' = [d \in Diags |-> IF d \in some THEN "done" ELSE stage[d]]
    /\ UNCHANGED phase

End == phase = "running" /\ phase' = "finished" /\ UNCHANGED stage

Recycle == phase = "finished" /\ phase' = "idle" /\ UNCHANGED stage

RunNext ==
    \/ Start \/ End \/ Recycle
    \/ \E some \in SUBSET Diags : Offer(some) \/ Settle(some)
    \/ \E d \in Diags : Ask(d)

RunSpec == RunInit /\ [][RunNext]_<<phase, stage>>
=============================================================================
