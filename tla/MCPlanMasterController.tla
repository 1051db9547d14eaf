----------------------- MODULE MCPlanMasterController -----------------------
(* Instances of PlanMasterController for TLC. *)
EXTENDS PlanMasterController

Plan(m, f, r) == [mission |-> m, fence |-> f, rally |-> r]

\* One vehicle supports everything, the others lack the fence, the rally points or both.
SomeVehicles ==
    LET all == Elements IN
    {[plan |-> Plan(all, all, all), supported |-> {"fence", "rally"}],
     [plan |-> Plan({}, {}, all), supported |-> {"rally"}],
     [plan |-> Plan(all, all, {}), supported |-> {"fence"}],
     [plan |-> Plan(all, {}, {}), supported |-> {}]}

SomeFiles == {Plan(Elements, {}, Elements), Plan(Elements, Elements, {})}
=============================================================================
