----------------------- MODULE MCMultiVehicleManager -----------------------
(* Instances of MultiVehicleManager for TLC. *)
EXTENDS MultiVehicleManager

Kinds == [l \in {"radio", "satellite", "iridium", "cable"} |->
             CASE l \in {"satellite", "iridium"} -> "highLatency" [] l = "cable" -> "usb"
               [] OTHER -> "normal"]

\* Two systems share the radio; one alone has two satellite links, or a cable, too.
SharedAndWired == {
    [carries |-> {<<1, "radio">>, <<1, "satellite">>, <<2, "radio">>}, vehicles |-> 2, maxOps |-> 1],
    [carries |-> {<<1, "radio">>, <<1, "satellite">>, <<1, "iridium">>}, vehicles |-> 1, maxOps |-> 2],
    [carries |-> {<<1, "radio">>, <<1, "cable">>}, vehicles |-> 2, maxOps |-> 2],
    [carries |-> {<<1, "radio">>, <<2, "radio">>}, vehicles |-> 3, maxOps |-> 2]}
=============================================================================
