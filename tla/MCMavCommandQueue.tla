-------------------------- MODULE MCMavCommandQueue --------------------------
(* Instances of MavCommandQueue for TLC. *)
EXTENDS MavCommandQueue

CallOf(comp, cmd, fallback) == [comp |-> comp, cmd |-> cmd, fallback |-> fallback]

\* Two retried commands, one of which answers IN_PROGRESS first, a command that
\* is never retried, and a call to every component.
RetryCalls ==
    {CallOf("autopilot", cmd, FALSE) : cmd \in {"requestMessage", "arm", "calibrate"}}
        \cup {CallOf("all", "arm", FALSE)}

\* A retried command that may answer IN_PROGRESS first, calls with a fallback (one
\* of a command the vehicle does not support), a command that may be repeated, PX4's
\* autotune, and a call to every component.
MixedCalls ==
    {CallOf("autopilot", cmd, FALSE) : cmd \in {"calibrate", "motorTest", "autotune"}}
        \cup {CallOf("autopilot", cmd, TRUE) : cmd \in {"setHome", "roi"}}
        \cup {CallOf("all", "motorTest", FALSE)}
=============================================================================
