-------------------------- MODULE PlanTransaction --------------------------
(***************************************************************************)
(* What PlanManager promises the controllers that share its list of items: *)
(* one transaction at a time; a download empties the list, then fills it   *)
(* item by item, and leaves it empty if it fails; an upload leaves the     *)
(* list alone until it succeeds and then makes it the uploaded plan; a     *)
(* removal empties it at once; a guided item never touches it.             *)
(***************************************************************************)
EXTENDS Integers, Sequences

VARIABLES transaction,  \* in progress: none, read, write, guided or removeAll
          items,        \* the list
          plan,         \* what a write uploads
          ok            \* the last transaction succeeded

vars == <<transaction, items, plan, ok>>

Init == transaction = "none" /\ items = <<>> /\ plan = <<>> /\ ok = FALSE

OneMore(list, longer) ==
    Len(longer) = Len(list) + 1 /\ SubSeq(longer, 1, Len(list)) = list

Start(t) ==
    /\ transaction = "none" /\ transaction' = t
    /\ ok' = FALSE
    /\ items' = IF t \in {"read", "removeAll"} THEN <<>> ELSE items
    /\ t # "write" => plan' = plan

Receive ==
    /\ transaction = "read"
    /\ items' = <<>> \/ OneMore(items, items')
    /\ UNCHANGED <<transaction, plan, ok>>

EndRead ==
    /\ transaction = "read"
    /\ IF ok' THEN items' = items \/ OneMore(items, items') ELSE items' = <<>>

EndWrite ==
    /\ transaction = "write"
    /\ items' = IF ok' THEN plan ELSE items

EndOther ==
    /\ transaction \in {"guided", "removeAll"}
    /\ items' = items

End ==
    /\ EndRead \/ EndWrite \/ EndOther
    /\ transaction' = "none" /\ ok' \in BOOLEAN /\ plan' = <<>>

Next ==
    \/ \E t \in {"read", "write", "guided", "removeAll"} : Start(t)
    \/ Receive
    \/ End

Spec == Init /\ [][Next]_vars
=============================================================================
