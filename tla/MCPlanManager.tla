---------------------------- MODULE MCPlanManager ----------------------------
(* Instances of PlanManager for TLC. *)
EXTENDS PlanManager

Waypoint(n) == [cmd |-> "wp", arg |-> n]
Jump(n) == [cmd |-> "jump", arg |-> n]

Home == Waypoint(0)

\* Plans of two items, one item, and none besides home.
PlainPlans == {<<Home, Waypoint(1), Waypoint(2)>>, <<Home>>}

\* A plan that jumps back to its first waypoint.
JumpPlans == {<<Home, Waypoint(1), Jump(1)>>}

\* What a vehicle may hold: nothing, or two items none of which is in PlainPlans.
PlainOnboard == {<<>>, <<Waypoint(3), Waypoint(4)>>}

Setting(sendHome, stale, maxOps) ==
    [sendHome |-> sendHome, stale |-> stale, maxOps |-> maxOps]

\* Both firmwares, over a link whose messages end with the transaction and over one
\* whose messages do not.
AllSettings == {Setting(h, FALSE, 3) : h \in BOOLEAN} \cup {Setting(h, TRUE, 2) : h \in BOOLEAN}

LatePx4 == {Setting(FALSE, TRUE, 3)}
FreshPx4 == {Setting(FALSE, FALSE, 1)}
FreshArduPilot == {Setting(TRUE, FALSE, 1)}
==============================================================================
