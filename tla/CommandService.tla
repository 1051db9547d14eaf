---------------------------- MODULE CommandService ----------------------------
(***************************************************************************)
(* What a caller of Vehicle::sendMavCommand* may rely on: every call is    *)
(* taken up or ends at once, every call taken up ends at most once, and    *)
(* the caller hears of the end exactly once unless the end is a silent     *)
(* one.  MavCommandQueue implements it.                                    *)
(***************************************************************************)
EXTENDS Integers, TLAPS

CONSTANTS MaxReq,        \* bound: number of calls in a behaviour
          ReportedEnds,  \* ends the caller hears of
          SilentEnds     \* ends it does not hear of

Reqs == 1..MaxReq

VARIABLES made,    \* number of calls made
          open,    \* the calls taken up that have not ended
          outcome, \* how each call ended, "none" before
          reports  \* how often its caller was told

vars == <<made, open, outcome, reports>>

Init ==
    /\ made = 0 /\ open = {}
    /\ outcome = [r \in Reqs |-> "none"]
    /\ reports = [r \in Reqs |-> 0]

End(r, code) ==
    /\ code \in ReportedEnds \cup SilentEnds
    /\ outcome' = [outcome EXCEPT ![r] = code]
    /\ reports' = [reports EXCEPT ![r] = IF code \in ReportedEnds THEN @ + 1 ELSE @]

TakeUp ==
    /\ made < MaxReq /\ made' = made + 1
    /\ open' = open \cup {made + 1}
    /\ UNCHANGED <<outcome, reports>>

EndAtOnce(code) ==
    /\ made < MaxReq /\ made' = made + 1
    /\ End(made + 1, code)
    /\ UNCHANGED open

Complete(r, code) ==
    /\ r \in open
    /\ open' = open \ {r}
    /\ End(r, code)
    /\ UNCHANGED made

Abandon ==
    /\ open' = {}
    /\ \E code \in SilentEnds :
         outcome' = [r \in Reqs |-> IF r \in open THEN code ELSE outcome[r]]
    /\ UNCHANGED <<made, reports>>

Next ==
    \/ TakeUp
    \/ \E code \in ReportedEnds \cup SilentEnds :
         EndAtOnce(code) \/ \E r \in Reqs : Complete(r, code)
    \/ Abandon

Spec == Init /\ [][Next]_vars

\* Every call made is open or has ended, and the caller was told once of every
\* end that is not silent; a call not made yet has done neither.
Accounts ==
    /\ made \in 0..MaxReq
    /\ outcome \in [Reqs -> ReportedEnds \cup SilentEnds \cup {"none"}]
    /\ reports \in [Reqs -> {0, 1}]
    /\ \A r \in Reqs : /\ r \in open <=> r <= made /\ outcome[r] = "none"
                       /\ r > made => outcome[r] = "none"
                       /\ reports[r] = 1 <=> outcome[r] \in ReportedEnds

-----------------------------------------------------------------------------
LEMMA AccountsInit ==
  ASSUME MaxReq \in Nat, "none" \notin ReportedEnds
  PROVE  Init => Accounts
  BY DEF Init, Accounts, Reqs

LEMMA AccountsStep ==
  ASSUME MaxReq \in Nat, "none" \notin ReportedEnds \cup SilentEnds,
         ReportedEnds \cap SilentEnds = {}, Accounts, [Next]_vars
  PROVE  Accounts'
<1>1. CASE TakeUp
  BY <1>1 DEF TakeUp, Accounts, Reqs
<1>2. ASSUME NEW code \in ReportedEnds \cup SilentEnds, EndAtOnce(code)
      PROVE  Accounts'
  <2>1. made' = made + 1 /\ made + 1 \in Reqs /\ open' = open
    BY <1>2 DEF EndAtOnce, Accounts, Reqs
  <2>2. reports[made + 1] = 0 /\ outcome[made + 1] = "none"
    BY <2>1 DEF Accounts, Reqs
  <2>3. /\ outcome' \in [Reqs -> ReportedEnds \cup SilentEnds \cup {"none"}]
        /\ outcome'[made + 1] = code
        /\ \A q \in Reqs : q # made + 1 => outcome'[q] = outcome[q]
    BY <1>2, <2>1 DEF EndAtOnce, End, Accounts
  <2>4. /\ reports' \in [Reqs -> {0, 1}]
        /\ reports'[made + 1] = 1 <=> code \in ReportedEnds
        /\ \A q \in Reqs : q # made + 1 => reports'[q] = reports[q]
    BY <1>2, <2>1, <2>2 DEF EndAtOnce, End, Accounts
  <2> QED BY <2>1, <2>2, <2>3, <2>4 DEF Accounts, Reqs
<1>3. ASSUME NEW code \in ReportedEnds \cup SilentEnds, NEW r \in Reqs, Complete(r, code)
      PROVE  Accounts'
  <2>1. made' = made /\ open' = open \ {r} /\ reports[r] = 0 /\ r <= made
    BY <1>3 DEF Complete, Accounts
  <2>2. /\ outcome' \in [Reqs -> ReportedEnds \cup SilentEnds \cup {"none"}]
        /\ outcome'[r] = code
        /\ \A q \in Reqs : q # r => outcome'[q] = outcome[q]
    BY <1>3 DEF Complete, End, Accounts
  <2>3. /\ reports' \in [Reqs -> {0, 1}]
        /\ reports'[r] = 1 <=> code \in ReportedEnds
        /\ \A q \in Reqs : q # r => reports'[q] = reports[q]
    BY <1>3, <2>1 DEF Complete, End, Accounts
  <2> QED BY <2>1, <2>2, <2>3 DEF Accounts, Reqs
<1>4. CASE Abandon
  <2>1. PICK code \in SilentEnds :
          outcome' = [r \in Reqs |-> IF r \in open THEN code ELSE outcome[r]]
    BY <1>4 DEF Abandon
  <2>2. open' = {} /\ made' = made /\ reports' = reports
    BY <1>4 DEF Abandon
  <2>3. outcome' \in [Reqs -> ReportedEnds \cup SilentEnds \cup {"none"}]
    BY <2>1 DEF Accounts
  <2> QED BY <2>1, <2>2, <2>3 DEF Accounts, Reqs
<1>5. CASE UNCHANGED vars
  BY <1>5 DEF vars, Accounts
<1> QED BY <1>1, <1>2, <1>3, <1>4, <1>5 DEF Next
=============================================================================
