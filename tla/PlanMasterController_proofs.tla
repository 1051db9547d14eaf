--------------------- MODULE PlanMasterController_proofs ---------------------
(* Theorems about PlanMasterController, for every choice of the constants. *)
EXTENDS PlanMasterController, FiniteSetTheorems, SequenceTheorems, TLAPS

\* What this controller transfers, a manager is busy with.
MineBusy(g) == \A p \in g.mine : g.busy[p] # "none"

\* The flag that remembers what follows the transfer of part p in a chain.
NextFlag(kind, p) ==
    CASE p = "mission" -> IF kind = "load" THEN {"loadFence"} ELSE {"sendFence"}
      [] p = "fence"   -> IF kind = "load" THEN {"loadRally"} ELSE {"sendRally"}
      [] p = "rally"   -> {}

Working(kind, p) ==
    [q \in Parts |-> IF q # p THEN "none" ELSE IF kind = "load" THEN "read" ELSE "write"]

FenceLeg == IF "fence" \in supported THEN <<"fence">> ELSE <<>>

RallyNext == IF "rally" \in supported THEN "rally" ELSE "none"

NextPart(p) ==
    CASE p = "mission" -> IF "fence" \in supported THEN "fence" ELSE RallyNext
      [] p = "fence"   -> RallyNext
      [] p = "rally"   -> "none"

\* The parts transferred before part p, in order and as a set.
Before(p) ==
    CASE p = "mission" -> <<>>
      [] p = "fence"   -> <<"mission">>
      [] p = "rally"   -> <<"mission">> \o FenceLeg

Done(p) ==
    CASE p = "mission" -> {}
      [] p = "fence"   -> {"mission"}
      [] p = "rally"   -> {"mission"} \cup (supported \cap {"fence"})

\* A chain nobody disturbs transfers one part at a time, and nobody else uses a manager.
AtLeg(p) ==
    /\ Supports(p)
    /\ gcs.mine = {p} /\ gcs.busy = Working(run, p) /\ gcs.chain = NextFlag(run, p)
    /\ legs = Before(p)

\* The manager never forgets a return point the vehicle does not send.
Equal(q) == (q = "fence" /\ onboard[q] = {}) \/ gcs.view[q] = onboard[q]

\* Without a failure or a change of either plan, what was transferred is equal and clean.
SmoothSoFar(p) ==
    /\ \A q \in Done(p) : Equal(q)
    /\ run = "load" => p \in gcs.requested /\ Done(p) \cap gcs.dirty = {}
    /\ run = "send" => gcs.sending[p] = gcs.view[p]

ChainInv ==
    IF Followed THEN \E p \in Parts : AtLeg(p) /\ (smooth => SmoothSoFar(p))
    ELSE legs = <<>>

TypeEnv ==
    /\ onboard \in Plans /\ supported \subseteq {"fence", "rally"}
    /\ offline \in BOOLEAN /\ initial \in BOOLEAN /\ prompt \in BOOLEAN
    /\ ops \in 0..MaxOps
    /\ run \in {"none", "load", "send", "disturbed"} /\ smooth \in BOOLEAN

TypeInv == gcs \in GcsType /\ TypeEnv /\ MineBusy(gcs)

IInv == TypeInv /\ ChainInv

-----------------------------------------------------------------------------
(* What the handlers do *)

\* h transfers what g does.
SameWork(g, h) ==
    /\ h.chain = g.chain /\ h.busy = g.busy /\ h.mine = g.mine
    /\ h.held = g.held /\ h.sending = g.sending

SameFlags(g, h) == h.forSave = g.forSave /\ h.forUpload = g.forUpload

LEMMA NothingIsContent == \A p \in Parts : {} \in Contents(p)
<1>1. Cardinality({}) = 0
  BY FS_EmptySet
<1> QED BY <1>1 DEF Contents

LEMMA NothingIsPlan == Nothing \in Plans
<1>1. Nothing \in [Parts -> SUBSET Elements]
  BY DEF Nothing
<1>2. \A p \in Parts : Nothing[p] \in Contents(p)
  BY NothingIsContent DEF Nothing
<1> QED BY <1>1, <1>2 DEF Plans

LEMMA PlanUpdated ==
  ASSUME NEW plan \in Plans, NEW p \in Parts, NEW c \in Contents(p)
  PROVE  [plan EXCEPT ![p] = c] \in Plans
<1> DEFINE new == [plan EXCEPT ![p] = c]
<1>1. plan \in [Parts -> SUBSET Elements] /\ \A q \in Parts : plan[q] \in Contents(q)
  BY DEF Plans
<1>2. c \in SUBSET Elements
  BY DEF Contents
<1>3. new \in [Parts -> SUBSET Elements]
  BY <1>1, <1>2
<1>4. \A q \in Parts : new[q] \in Contents(q)
  BY <1>1
<1> QED BY <1>3, <1>4 DEF Plans

LEMMA PlanPart == \A plan \in Plans, p \in Parts : plan[p] \in Contents(p)
  BY DEF Plans

LEMMA UpdateOverallDirtyDoes ==
  ASSUME NEW g \in GcsType
  PROVE  LET h == UpdateOverallDirty(g) IN
         /\ h \in GcsType /\ SameWork(g, h)
         /\ h.view = g.view /\ h.dirty = g.dirty /\ h.requested = g.requested
         /\ g.dirty = {} \/ Sync(g) => SameFlags(g, h)
  BY DEF UpdateOverallDirty, GcsType, SameWork, SameFlags

LEMMA SetDirtyDoes ==
  ASSUME NEW g \in GcsType, NEW p \in Parts
  PROVE  LET h == SetDirty(g, p) IN
         /\ h \in GcsType /\ SameWork(g, h)
         /\ h.view = g.view /\ h.dirty = g.dirty \cup {p} /\ h.requested = g.requested
<1> DEFINE d == [g EXCEPT !.dirty = g.dirty \cup {p}]
<1>1. /\ d \in GcsType /\ SameWork(g, d)
      /\ d.view = g.view /\ d.dirty = g.dirty \cup {p} /\ d.requested = g.requested
  BY DEF GcsType, SameWork
<1>2. SetDirty(g, p) = IF p \in g.dirty THEN g ELSE UpdateOverallDirty(d)
  BY DEF SetDirty
<1> HIDE DEF d
<1>3. LET h == UpdateOverallDirty(d) IN
      /\ h \in GcsType /\ SameWork(d, h)
      /\ h.view = d.view /\ h.dirty = d.dirty /\ h.requested = d.requested
  BY <1>1, UpdateOverallDirtyDoes
<1> QED BY <1>1, <1>2, <1>3 DEF SameWork

LEMMA SetCleanDoes ==
  ASSUME NEW g \in GcsType, NEW p \in Parts
  PROVE  LET h == SetClean(g, p) IN
         /\ h \in GcsType /\ SameWork(g, h)
         /\ h.view = g.view /\ h.dirty = g.dirty \ {p} /\ h.requested = g.requested
         /\ g.dirty \subseteq {p} => SameFlags(g, h)
<1> DEFINE d == [g EXCEPT !.dirty = g.dirty \ {p}]
<1>1. /\ d \in GcsType /\ SameWork(g, d) /\ SameFlags(g, d)
      /\ d.view = g.view /\ d.dirty = g.dirty \ {p} /\ d.requested = g.requested
  BY DEF GcsType, SameWork, SameFlags
<1>2. SetClean(g, p) = IF p \notin g.dirty THEN g ELSE UpdateOverallDirty(d)
  BY DEF SetClean
<1> HIDE DEF d
<1>3. LET h == UpdateOverallDirty(d) IN
      /\ h \in GcsType /\ SameWork(d, h)
      /\ h.view = d.view /\ h.dirty = d.dirty /\ h.requested = d.requested
      /\ d.dirty = {} => SameFlags(d, h)
  BY <1>1, UpdateOverallDirtyDoes
<1> QED BY <1>1, <1>2, <1>3 DEF SameWork, SameFlags

LEMMA AllCleanDoes ==
  ASSUME NEW g \in GcsType
  PROVE  LET h == AllClean(g) IN
         /\ h \in GcsType /\ SameWork(g, h)
         /\ h.view = g.view /\ h.requested = g.requested
  BY DEF AllClean, GcsType, SameWork

LEMMA LoadPartDoes ==
  ASSUME NEW g \in GcsType, NEW p \in Parts
  PROVE  LET h == LoadPart(g, p) IN
         /\ h \in GcsType
         /\ h.view = g.view /\ h.dirty = g.dirty /\ SameFlags(g, h)
         /\ h.held = g.held /\ h.sending = g.sending /\ h.chain = g.chain
         /\ MineBusy(g) => MineBusy(h)
         /\ h.requested \in {g.requested, g.requested \cup {p}}
         /\ g.busy[p] = "none" =>
              /\ h.mine = g.mine \cup {p} /\ h.busy = [g.busy EXCEPT ![p] = "read"]
              /\ h.requested = g.requested \cup {p}
<1> DEFINE h == LoadPart(g, p)
<1>1. CASE g.busy[p] # "none"
  BY <1>1 DEF LoadPart, SameFlags
<1>2. CASE g.busy[p] = "none"
  <2>1. h = [g EXCEPT !.requested = g.requested \cup {p},
                      !.busy = [g.busy EXCEPT ![p] = "read"], !.mine = g.mine \cup {p}]
    BY <1>2 DEF LoadPart, GcsType
  <2>2. h \in GcsType
    <3>1. [g.busy EXCEPT ![p] = "read"] \in [Parts -> {"none", "read", "write", "removeAll"}]
      BY DEF GcsType
    <3>2. g.requested \cup {p} \subseteq Parts /\ g.mine \cup {p} \subseteq Parts
      BY DEF GcsType
    <3> HIDE DEF h
    <3> QED BY <2>1, <3>1, <3>2 DEF GcsType
  <2>3. /\ h.view = g.view /\ h.dirty = g.dirty /\ SameFlags(g, h)
        /\ h.held = g.held /\ h.sending = g.sending /\ h.chain = g.chain
        /\ h.mine = g.mine \cup {p} /\ h.busy = [g.busy EXCEPT ![p] = "read"]
        /\ h.requested = g.requested \cup {p}
    BY <2>1 DEF GcsType, SameFlags
  <2>4. MineBusy(g) => MineBusy(h)
    BY <2>3 DEF GcsType, MineBusy
  <2> QED BY <2>2, <2>3, <2>4
<1> QED BY <1>1, <1>2

\* The start of a transfer: manager p becomes busy with it.
LEMMA BusyUpdated ==
  ASSUME NEW g \in GcsType, NEW p \in Parts, NEW b \in {"none", "read", "write", "removeAll"}
  PROVE  [g.busy EXCEPT ![p] = b] \in [Parts -> {"none", "read", "write", "removeAll"}]
  BY DEF GcsType

LEMMA BeginWriteDoes ==
  ASSUME NEW g \in GcsType, NEW p \in Parts, NEW c \in Contents(p)
  PROVE  LET h == BeginWrite(g, p, c) IN
         /\ h \in GcsType
         /\ h.view = g.view /\ h.dirty = g.dirty /\ h.requested = g.requested
         /\ h.chain = g.chain /\ h.mine = g.mine
         /\ h.busy = [g.busy EXCEPT ![p] = "write"]
         /\ h.sending = [g.sending EXCEPT ![p] = c]
<1> DEFINE h == BeginWrite(g, p, c)
<1>1. h = [g EXCEPT !.busy = [g.busy EXCEPT ![p] = "write"],
                    !.sending = [g.sending EXCEPT ![p] = c],
                    !.held = [g.held EXCEPT ![p] = IF p = "fence" THEN c ELSE g.held[p]]]
  BY DEF BeginWrite, GcsType
<1>2. [g.busy EXCEPT ![p] = "write"] \in [Parts -> {"none", "read", "write", "removeAll"}]
  BY BusyUpdated
<1>3. g.sending \in Plans /\ g.held \in Plans
  BY DEF GcsType
<1>4. [g.sending EXCEPT ![p] = c] \in Plans
  BY <1>3, PlanUpdated
<1>5. [g.held EXCEPT ![p] = IF p = "fence" THEN c ELSE g.held[p]] \in Plans
  BY <1>3, PlanPart, PlanUpdated
<1> HIDE DEF h
<1>6. h \in GcsType
  BY <1>1, <1>2, <1>4, <1>5 DEF GcsType
<1>7. /\ h.view = g.view /\ h.dirty = g.dirty /\ h.requested = g.requested
      /\ h.chain = g.chain /\ h.mine = g.mine
      /\ h.busy = [g.busy EXCEPT ![p] = "write"]
      /\ h.sending = [g.sending EXCEPT ![p] = c]
  BY <1>1 DEF GcsType
<1> QED BY <1>6, <1>7 DEF h

LEMMA SendPartDoes ==
  ASSUME NEW g \in GcsType, NEW p \in Parts
  PROVE  LET h == SendPart(g, p) IN
         /\ h \in GcsType
         /\ h.view = g.view /\ h.requested = g.requested /\ h.chain = g.chain
         /\ MineBusy(g) => MineBusy(h)
         /\ g.busy[p] = "none" =>
              /\ h.mine = g.mine \cup {p} /\ h.busy = [g.busy EXCEPT ![p] = "write"]
              /\ h.sending[p] = g.view[p]
<1> DEFINE h == SendPart(g, p)
           Begin(k) == [BeginWrite(k, p, k.view[p]) EXCEPT !.mine = @ \cup {p}]
<1>1. CASE g.busy[p] # "none"
  BY <1>1 DEF SendPart
<1>2. CASE g.busy[p] = "none"
  <2>1. ASSUME NEW k \in GcsType
        PROVE  /\ Begin(k) \in GcsType
               /\ Begin(k).view = k.view /\ Begin(k).requested = k.requested
               /\ Begin(k).chain = k.chain /\ Begin(k).mine = k.mine \cup {p}
               /\ Begin(k).busy = [k.busy EXCEPT ![p] = "write"]
               /\ Begin(k).sending[p] = k.view[p]
    <3> DEFINE b == BeginWrite(k, p, k.view[p])
    <3>1. k.view[p] \in Contents(p)
      BY PlanPart DEF GcsType
    <3>2. /\ b \in GcsType
          /\ b.view = k.view /\ b.requested = k.requested
          /\ b.chain = k.chain /\ b.mine = k.mine
          /\ b.busy = [k.busy EXCEPT ![p] = "write"]
          /\ b.sending = [k.sending EXCEPT ![p] = k.view[p]]
      BY <3>1, BeginWriteDoes
    <3>3. Begin(k) = [b EXCEPT !.mine = b.mine \cup {p}]
      OBVIOUS
    <3>4. b.sending[p] = k.view[p]
      BY <3>2 DEF GcsType, Plans
    <3> HIDE DEF b, Begin
    <3>5. Begin(k) \in GcsType
      BY <3>2, <3>3 DEF GcsType
    <3>6. /\ Begin(k).view = b.view /\ Begin(k).requested = b.requested
          /\ Begin(k).chain = b.chain /\ Begin(k).mine = b.mine \cup {p}
          /\ Begin(k).busy = b.busy /\ Begin(k).sending = b.sending
      BY <3>2, <3>3 DEF GcsType
    <3> QED BY <3>2, <3>4, <3>5, <3>6
  <2>2. h = IF p = "rally" THEN Begin(SetClean(g, p)) ELSE SetClean(Begin(g), p)
    BY <1>2 DEF SendPart
  <2> HIDE DEF Begin, h
  <2>3. /\ h \in GcsType
        /\ h.view = g.view /\ h.requested = g.requested /\ h.chain = g.chain
        /\ h.mine = g.mine \cup {p} /\ h.busy = [g.busy EXCEPT ![p] = "write"]
        /\ h.sending[p] = g.view[p]
    <3>1. CASE p = "rally"
      <4> DEFINE k == SetClean(g, p)
      <4>1. /\ k \in GcsType /\ SameWork(g, k)
            /\ k.view = g.view /\ k.requested = g.requested
        BY SetCleanDoes
      <4> HIDE DEF k
      <4>2. h = Begin(k)
        BY <2>2, <3>1 DEF k
      <4> QED BY <2>1, <4>1, <4>2 DEF SameWork
    <3>2. CASE p # "rally"
      <4> DEFINE k == Begin(g)
      <4>1. /\ k \in GcsType
            /\ k.view = g.view /\ k.requested = g.requested
            /\ k.chain = g.chain /\ k.mine = g.mine \cup {p}
            /\ k.busy = [g.busy EXCEPT ![p] = "write"]
            /\ k.sending[p] = g.view[p]
        BY <2>1
      <4>2. h = SetClean(k, p)
        BY <2>2, <3>2
      <4> HIDE DEF k
      <4>3. /\ h \in GcsType /\ SameWork(k, h)
            /\ h.view = k.view /\ h.requested = k.requested
        BY <4>1, <4>2, SetCleanDoes
      <4> QED BY <4>1, <4>3 DEF SameWork
    <3> QED BY <3>1, <3>2
  <2>4. MineBusy(g) => MineBusy(h)
    BY <2>3 DEF GcsType, MineBusy
  <2> QED BY <2>3, <2>4 DEF h
<1> QED BY <1>1, <1>2

LEMMA ClearPartDoes ==
  ASSUME NEW g \in GcsType, NEW p \in Parts
  PROVE  LET h == ClearPart(g, p) IN
         /\ h \in GcsType /\ SameWork(g, h) /\ h.requested = g.requested
         /\ \A q \in Parts : q # p => h.view[q] = g.view[q]
         /\ h.dirty \subseteq g.dirty \cup {p}
<1> DEFINE h == ClearPart(g, p)
           d == [g EXCEPT !.view = [g.view EXCEPT ![p] = {}]]
<1>1. [g.view EXCEPT ![p] = {}] \in Plans /\ g.view \in [Parts -> SUBSET Elements]
  BY NothingIsContent, PlanUpdated DEF GcsType, Plans
<1>2. /\ d \in GcsType /\ SameWork(g, d) /\ d.requested = g.requested
      /\ d.dirty = g.dirty /\ \A q \in Parts : q # p => d.view[q] = g.view[q]
  BY <1>1 DEF GcsType, SameWork
<1>3. h = IF p = "fence" /\ g.view[p] = {} THEN g ELSE SetDirty(d, p)
  BY DEF ClearPart
<1> HIDE DEF d, h
<1>4. LET k == SetDirty(d, p) IN
      /\ k \in GcsType /\ SameWork(d, k)
      /\ k.view = d.view /\ k.dirty = d.dirty \cup {p} /\ k.requested = d.requested
  BY <1>2, SetDirtyDoes
<1>5. CASE h = g
  BY <1>5 DEF SameWork, h
<1>6. CASE h = SetDirty(d, p)
  BY <1>2, <1>4, <1>6 DEF SameWork, h
<1> QED BY <1>3, <1>5, <1>6

LEMMA ReplaceDoes ==
  ASSUME NEW g \in GcsType, NEW p \in Parts
  PROVE  LET h == Replace(g, p) IN
         /\ h \in GcsType /\ SameWork(g, h) /\ h.requested = g.requested
         /\ h.view = [g.view EXCEPT ![p] = g.held[p]]
         /\ h.dirty = g.dirty \ {p}
         /\ p = "rally" /\ g.dirty \subseteq {p} => SameFlags(g, h)
<1> DEFINE h == Replace(g, p)
           s == [g EXCEPT !.view = [g.view EXCEPT ![p] = g.held[p]]]
           c == [s EXCEPT !.dirty = s.dirty \ {p}]
<1>1. [g.view EXCEPT ![p] = g.held[p]] \in Plans
  BY PlanPart, PlanUpdated DEF GcsType
<1>2. /\ s \in GcsType /\ SameWork(g, s) /\ SameFlags(g, s) /\ s.requested = g.requested
      /\ s.dirty = g.dirty /\ s.view = [g.view EXCEPT ![p] = g.held[p]]
  BY <1>1 DEF GcsType, SameWork, SameFlags
<1>3. /\ p = "mission" => h = UpdateOverallDirty(c)
      /\ p = "fence" => h = SetClean(SetDirty(s, p), p)
      /\ p = "rally" => h = SetClean(s, p)
  BY DEF Replace
<1> HIDE DEF s, h
<1>4. CASE p = "mission"
  <2>1. /\ c \in GcsType /\ SameWork(s, c) /\ c.requested = s.requested
        /\ c.dirty = s.dirty \ {p} /\ c.view = s.view
    BY <1>2 DEF GcsType, SameWork
  <2> HIDE DEF c
  <2>2. /\ h \in GcsType /\ SameWork(c, h)
        /\ h.view = c.view /\ h.dirty = c.dirty /\ h.requested = c.requested
    BY <1>3, <1>4, <2>1, UpdateOverallDirtyDoes
  <2> QED BY <1>2, <1>4, <2>1, <2>2 DEF SameWork, h
<1>5. CASE p = "fence"
  <2> DEFINE d == SetDirty(s, p)
  <2>1. /\ d \in GcsType /\ SameWork(s, d)
        /\ d.view = s.view /\ d.dirty = s.dirty \cup {p} /\ d.requested = s.requested
    BY <1>2, SetDirtyDoes
  <2>2. h = SetClean(d, p)
    BY <1>3, <1>5
  <2> HIDE DEF d
  <2>3. /\ h \in GcsType /\ SameWork(d, h)
        /\ h.view = d.view /\ h.dirty = d.dirty \ {p} /\ h.requested = d.requested
    BY <2>1, <2>2, SetCleanDoes
  <2> QED BY <1>2, <1>5, <2>1, <2>3 DEF SameWork, h
<1>6. CASE p = "rally"
  <2>1. /\ h \in GcsType /\ SameWork(s, h)
        /\ h.view = s.view /\ h.dirty = s.dirty \ {p} /\ h.requested = s.requested
        /\ s.dirty \subseteq {p} => SameFlags(s, h)
    BY <1>2, <1>3, <1>6, SetCleanDoes
  <2> QED BY <1>2, <2>1 DEF SameWork, SameFlags, h
<1> QED BY <1>4, <1>5, <1>6 DEF Parts

LEMMA LoadedDoes ==
  ASSUME NEW g \in GcsType, NEW p \in Parts
  PROVE  LET h == Loaded(g, p) IN
         /\ h \in GcsType /\ SameWork(g, h) /\ h.requested = g.requested \ {p}
         /\ p \in g.requested =>
              /\ h.view = [g.view EXCEPT ![p] = g.held[p]]
              /\ h.dirty = g.dirty \ {p}
              /\ p = "rally" /\ g.dirty \subseteq {p} => SameFlags(g, h)
<1> DEFINE k == IF p \in g.requested \/ g.view[p] = {} THEN Replace(g, p) ELSE g
           h == Loaded(g, p)
<1>1. /\ k \in GcsType /\ SameWork(g, k) /\ k.requested = g.requested
      /\ p \in g.requested =>
           /\ k.view = [g.view EXCEPT ![p] = g.held[p]]
           /\ k.dirty = g.dirty \ {p}
           /\ p = "rally" /\ g.dirty \subseteq {p} => SameFlags(g, k)
  BY ReplaceDoes DEF SameWork
<1>2. h = [k EXCEPT !.requested = k.requested \ {p}]
  BY DEF Loaded
<1> HIDE DEF k, h
<1>3. h \in GcsType /\ SameWork(k, h) /\ SameFlags(k, h)
      /\ h.requested = k.requested \ {p} /\ h.view = k.view /\ h.dirty = k.dirty
  BY <1>1, <1>2 DEF GcsType, SameWork, SameFlags
<1> QED BY <1>1, <1>3 DEF SameWork, SameFlags, h

-----------------------------------------------------------------------------
(* The chain of transfers *)

\* The next leg adds the part just transferred; after the last one all are done.
LEMMA LegsInOrder ==
  ASSUME NEW p \in Parts, Supports(p), supported \subseteq {"fence", "rally"}
  PROVE  /\ NextPart(p) = "none" =>
              /\ PartsInOrder = Append(Before(p), p)
              /\ \A q \in Parts : Supports(q) => q \in Done(p) \cup {p}
         /\ NextPart(p) # "none" =>
              /\ NextPart(p) \in Parts \ {p} /\ Supports(NextPart(p))
              /\ Before(NextPart(p)) = Before(p) \o <<p>>
              /\ Done(NextPart(p)) = Done(p) \cup {p}
<1> DEFINE one == <<"mission">>
<1>0. /\ one \in Seq(Parts) /\ FenceLeg \in Seq(Parts) /\ one \o FenceLeg \in Seq(Parts)
      /\ <<>> \in Seq(Parts)
  <2>1. one \in Seq(Parts) /\ <<>> \in Seq(Parts) /\ <<"fence">> \in Seq(Parts)
    BY DEF Parts
  <2>2. FenceLeg \in Seq(Parts)
    BY <2>1 DEF FenceLeg
  <2> HIDE DEF one
  <2> QED BY <2>1, <2>2, ConcatProperties
<1>1. /\ one \o <<>> = one /\ <<>> \o one = one
      /\ (one \o FenceLeg) \o <<>> = one \o FenceLeg
  <2> HIDE DEF one
  <2> QED BY <1>0, ConcatEmptySeq
<1>2. \A s \in Seq(Parts), q \in Parts : Append(s, q) = s \o <<q>>
  BY AppendIsConcat
<1>3. PartsInOrder = (one \o FenceLeg) \o (IF "rally" \in supported THEN <<"rally">> ELSE <<>>)
  BY DEF PartsInOrder, FenceLeg
<1>4. CASE p = "mission"
  <2>1. Before(p) = <<>> /\ Done(p) = {} /\ Append(Before(p), p) = one
    BY <1>0, <1>1, <1>2, <1>4 DEF Before, Done
  <2>2. CASE "fence" \in supported
    BY <1>1, <1>4, <2>1, <2>2 DEF NextPart, Before, Done, Supports, Parts
  <2>3. CASE "fence" \notin supported
    <3>1. FenceLeg = <<>>
      BY <2>3 DEF FenceLeg
    <3>2. Done(p) \cup {p} = {"mission"} /\ Before(p) \o <<p>> = one
      BY <1>1, <1>4, <2>1
    <3> HIDE DEF one
    <3>3. CASE "rally" \in supported
      <4>1. NextPart(p) = "rally" /\ Supports("rally") /\ "rally" \in Parts \ {p}
        BY <1>4, <2>3, <3>3 DEF NextPart, RallyNext, Supports, Parts
      <4>2. Before("rally") = one \o FenceLeg /\ Done("rally") = {"mission"}
        BY <2>3 DEF Before, Done, one
      <4> QED BY <1>1, <3>1, <3>2, <4>1, <4>2
    <3>4. CASE "rally" \notin supported
      <4>1. NextPart(p) = "none"
        BY <1>4, <2>3, <3>4 DEF NextPart, RallyNext
      <4>2. PartsInOrder = one
        BY <1>1, <1>3, <3>1, <3>4
      <4>3. \A q \in Parts : Supports(q) => q = "mission"
        BY <2>3, <3>4 DEF Supports, Parts
      <4> QED BY <1>4, <2>1, <3>2, <4>1, <4>2, <4>3
    <3> QED BY <3>3, <3>4
  <2> QED BY <2>2, <2>3
<1>5. CASE p = "fence"
  <2>1. /\ Before(p) = one /\ Done(p) = {"mission"} /\ "fence" \in supported
        /\ FenceLeg = <<"fence">>
    BY <1>5 DEF Before, Done, Supports, FenceLeg
  <2>2. Append(Before(p), p) = one \o FenceLeg
    BY <1>0, <1>2, <1>5, <2>1
  <2> HIDE DEF one
  <2>3. CASE "rally" \in supported
    <3>1. NextPart(p) = "rally" /\ Supports("rally") /\ "rally" \in Parts \ {p}
      BY <1>5, <2>3 DEF NextPart, RallyNext, Supports, Parts
    <3>2. Before("rally") = one \o FenceLeg /\ Done("rally") = {"mission", "fence"}
      BY <2>1 DEF Before, Done, one
    <3> QED BY <1>5, <2>1, <3>1, <3>2
  <2>4. CASE "rally" \notin supported
    <3>1. NextPart(p) = "none"
      BY <1>5, <2>4 DEF NextPart, RallyNext
    <3>2. PartsInOrder = one \o FenceLeg
      BY <1>1, <1>3, <2>4
    <3>3. \A q \in Parts : Supports(q) => q \in Done(p) \cup {p}
      BY <1>5, <2>1, <2>4 DEF Supports, Parts
    <3> QED BY <2>2, <3>1, <3>2, <3>3
  <2> QED BY <2>3, <2>4
<1>6. CASE p = "rally"
  <2>1. /\ Before(p) = one \o FenceLeg /\ NextPart(p) = "none" /\ "rally" \in supported
        /\ Done(p) = {"mission"} \cup (supported \cap {"fence"})
    BY <1>6 DEF Before, Done, NextPart, Supports
  <2> HIDE DEF one
  <2>2. PartsInOrder = Append(Before(p), p)
    BY <1>0, <1>2, <1>3, <1>6, <2>1
  <2>3. \A q \in Parts : Supports(q) => q \in Done(p) \cup {p}
    BY <1>6, <2>1 DEF Supports, Parts
  <2> QED BY <2>1, <2>2, <2>3
<1> QED BY <1>4, <1>5, <1>6 DEF Parts

\* What the slots at the end of a load keep: the parts the vehicle supports, and what
\* the managers hold.
Spares(g, h) ==
    /\ h \in GcsType /\ h.held = g.held /\ h.sending = g.sending
    /\ MineBusy(g) => MineBusy(h)
    /\ g.requested \subseteq h.requested
    /\ \A q \in Parts : Supports(q) => h.view[q] = g.view[q] /\ (q \in h.dirty => q \in g.dirty)

LEMMA SparesTwice ==
  ASSUME NEW g \in GcsType, NEW h \in GcsType, NEW k \in GcsType, Spares(g, h), Spares(h, k)
  PROVE  Spares(g, k)
  BY DEF Spares

\* h begins the transfer of the part that follows p, if there is one.
GoesOn(kind, p, g, h) ==
    IF NextPart(p) = "none"
    THEN h.mine = g.mine /\ h.busy = g.busy /\ h.chain = {}
    ELSE /\ h.mine = g.mine \cup {NextPart(p)}
         /\ h.busy = [g.busy EXCEPT ![NextPart(p)] = IF kind = "load" THEN "read" ELSE "write"]
         /\ h.chain = NextFlag(kind, NextPart(p))
         /\ IF kind = "load" THEN NextPart(p) \in h.requested
            ELSE h.sending[NextPart(p)] = g.view[NextPart(p)]

FreeOfOthers(p, g) == \A q \in Parts \ {p} : g.busy[q] = "none"

LEMMA LoadRallyCompleteDoes ==
  ASSUME NEW g \in GcsType
  PROVE  LET h == LoadRallyComplete(g) IN
         /\ Spares(g, h) /\ SameWork(g, h) /\ h.view = g.view /\ h.dirty = g.dirty
         /\ h.requested = g.requested /\ ~h.forSave /\ ~h.forUpload
         /\ g.chain = {} => GoesOn("load", "rally", g, h)
<1> DEFINE h == LoadRallyComplete(g)
<1>1. /\ h \in GcsType /\ SameWork(g, h) /\ h.view = g.view /\ h.dirty = g.dirty
      /\ h.requested = g.requested /\ ~h.forSave /\ ~h.forUpload
  BY DEF LoadRallyComplete, GcsType, SameWork
<1> HIDE DEF h
<1>2. Spares(g, h) /\ (g.chain = {} => GoesOn("load", "rally", g, h))
  BY <1>1 DEF Spares, SameWork, MineBusy, GoesOn, NextPart
<1> QED BY <1>1, <1>2 DEF h

LEMMA LoadPartSpares ==
  ASSUME NEW g \in GcsType, NEW p \in Parts
  PROVE  Spares(g, LoadPart(g, p))
<1> DEFINE h == LoadPart(g, p)
<1>1. /\ h \in GcsType /\ h.view = g.view /\ h.dirty = g.dirty
      /\ h.held = g.held /\ h.sending = g.sending
      /\ MineBusy(g) => MineBusy(h)
      /\ h.requested \in {g.requested, g.requested \cup {p}}
  BY LoadPartDoes
<1> HIDE DEF h
<1>2. Spares(g, h)
  BY <1>1 DEF Spares
<1> QED BY <1>2 DEF h

LEMMA ClearPartSpares ==
  ASSUME NEW g \in GcsType, NEW p \in Parts, ~Supports(p)
  PROVE  Spares(g, ClearPart(g, p))
<1> DEFINE h == ClearPart(g, p)
<1>1. /\ h \in GcsType /\ SameWork(g, h) /\ h.requested = g.requested
      /\ \A q \in Parts : q # p => h.view[q] = g.view[q]
      /\ h.dirty \subseteq g.dirty \cup {p}
  BY ClearPartDoes
<1> HIDE DEF h
<1>2. \A q \in Parts : Supports(q) => q # p
  OBVIOUS
<1>3. Spares(g, h)
  BY <1>1, <1>2 DEF Spares, SameWork, MineBusy
<1> QED BY <1>3 DEF h

LEMMA ChainSpares ==
  ASSUME NEW g \in GcsType, NEW c \in SUBSET {"loadFence", "loadRally", "sendFence", "sendRally"}
  PROVE  LET h == [g EXCEPT !.chain = c] IN
         /\ Spares(g, h) /\ h.chain = c /\ h.busy = g.busy /\ h.mine = g.mine
         /\ h.view = g.view /\ h.dirty = g.dirty /\ h.requested = g.requested
         /\ SameFlags(g, h)
<1> DEFINE h == [g EXCEPT !.chain = c]
<1>1. /\ h \in GcsType /\ h.held = g.held /\ h.sending = g.sending
      /\ h.chain = c /\ h.busy = g.busy /\ h.mine = g.mine
      /\ h.view = g.view /\ h.dirty = g.dirty /\ h.requested = g.requested
      /\ SameFlags(g, h)
  BY DEF GcsType, SameFlags
<1> HIDE DEF h
<1>2. Spares(g, h)
  BY <1>1 DEF Spares, MineBusy
<1> QED BY <1>1, <1>2 DEF h

LEMMA LoadFenceCompleteDoes ==
  ASSUME NEW g \in GcsType
  PROVE  LET h == LoadFenceComplete(g) IN
         /\ Spares(g, h)
         /\ g.chain = {"loadRally"} /\ g.busy["rally"] = "none" =>
              GoesOn("load", "fence", g, h)
<1> DEFINE h == LoadFenceComplete(g)
           k == [g EXCEPT !.chain = g.chain \ {"loadRally"}]
<1>0. "rally" \in Parts /\ "rally" # "mission"
  BY DEF Parts
<1>1. /\ k \in GcsType /\ Spares(g, k) /\ k.chain = g.chain \ {"loadRally"}
      /\ k.busy = g.busy /\ k.mine = g.mine
  <2>1. g.chain \ {"loadRally"} \in SUBSET {"loadFence", "loadRally", "sendFence", "sendRally"}
    BY DEF GcsType
  <2> QED BY <2>1, ChainSpares DEF Spares
<1>2. h = IF "loadRally" \notin g.chain THEN g
          ELSE IF "rally" \in supported THEN LoadPart(k, "rally")
          ELSE LoadRallyComplete(ClearPart(k, "rally"))
  BY DEF LoadFenceComplete
<1> HIDE DEF h, k
<1>3. CASE "loadRally" \notin g.chain
  <2>1. Spares(g, g)
    BY DEF Spares
  <2> QED BY <1>2, <1>3, <2>1 DEF h
<1>4. CASE "loadRally" \in g.chain /\ "rally" \in supported
  <2>1. h = LoadPart(k, "rally")
    BY <1>2, <1>4
  <2>2. Spares(k, h)
    BY <1>0, <1>1, <2>1, LoadPartSpares
  <2>3. Spares(g, h)
    BY <1>1, <2>2, SparesTwice DEF Spares
  <2>4. ASSUME g.chain = {"loadRally"}, g.busy["rally"] = "none"
        PROVE  GoesOn("load", "fence", g, h)
    <3>1. /\ h.mine = k.mine \cup {"rally"} /\ h.busy = [k.busy EXCEPT !["rally"] = "read"]
          /\ h.requested = k.requested \cup {"rally"} /\ h.chain = k.chain
      BY <1>0, <1>1, <2>1, <2>4, LoadPartDoes
    <3>2. NextPart("fence") = "rally" /\ NextFlag("load", "rally") = {}
      BY <1>4 DEF NextPart, RallyNext, NextFlag
    <3> QED BY <1>1, <2>4, <3>1, <3>2 DEF GoesOn
  <2> QED BY <2>3, <2>4 DEF h
<1>5. CASE "loadRally" \in g.chain /\ "rally" \notin supported
  <2> DEFINE c == ClearPart(k, "rally")
  <2>1. ~Supports("rally")
    BY <1>0, <1>5 DEF Supports
  <2>2. c \in GcsType /\ SameWork(k, c) /\ Spares(k, c)
    BY <1>0, <1>1, <2>1, ClearPartDoes, ClearPartSpares
  <2>3. h = LoadRallyComplete(c)
    BY <1>2, <1>5
  <2> HIDE DEF c
  <2>4. Spares(c, h) /\ SameWork(c, h)
    BY <2>2, <2>3, LoadRallyCompleteDoes
  <2>5. h \in GcsType
    BY <2>4 DEF Spares
  <2>6. Spares(g, h)
    BY <1>1, <2>2, <2>4, <2>5, SparesTwice
  <2>7. g.chain = {"loadRally"} => GoesOn("load", "fence", g, h)
    <3>1. NextPart("fence") = "none"
      BY <1>5 DEF NextPart, RallyNext
    <3> QED BY <1>1, <2>2, <2>4, <3>1 DEF GoesOn, SameWork
  <2> QED BY <2>6, <2>7 DEF h
<1> QED BY <1>3, <1>4, <1>5

LEMMA LoadMissionCompleteDoes ==
  ASSUME NEW g \in GcsType
  PROVE  LET h == LoadMissionComplete(g) IN
         /\ Spares(g, h)
         /\ g.chain = {"loadFence"} /\ FreeOfOthers("mission", g) =>
              GoesOn("load", "mission", g, h)
<1> DEFINE h == LoadMissionComplete(g)
           k == [g EXCEPT !.chain = (g.chain \ {"loadFence"}) \cup {"loadRally"}]
<1>0. "fence" \in Parts \ {"mission"} /\ "rally" \in Parts \ {"mission"}
  BY DEF Parts
<1>1. /\ k \in GcsType /\ Spares(g, k)
      /\ k.chain = (g.chain \ {"loadFence"}) \cup {"loadRally"}
      /\ k.busy = g.busy /\ k.mine = g.mine
  <2>1. (g.chain \ {"loadFence"}) \cup {"loadRally"}
          \in SUBSET {"loadFence", "loadRally", "sendFence", "sendRally"}
    BY DEF GcsType
  <2> QED BY <2>1, ChainSpares DEF Spares
<1>2. h = IF "loadFence" \notin g.chain THEN g
          ELSE IF "fence" \in supported THEN LoadPart(k, "fence")
          ELSE LoadFenceComplete(ClearPart(k, "fence"))
  BY DEF LoadMissionComplete
<1> HIDE DEF h, k
<1>3. CASE "loadFence" \notin g.chain
  <2>1. Spares(g, g)
    BY DEF Spares
  <2> QED BY <1>2, <1>3, <2>1 DEF h
<1>4. CASE "loadFence" \in g.chain /\ "fence" \in supported
  <2>1. h = LoadPart(k, "fence")
    BY <1>2, <1>4
  <2>2. Spares(k, h)
    BY <1>0, <1>1, <2>1, LoadPartSpares
  <2>3. Spares(g, h)
    BY <1>1, <2>2, SparesTwice DEF Spares
  <2>4. ASSUME g.chain = {"loadFence"}, FreeOfOthers("mission", g)
        PROVE  GoesOn("load", "mission", g, h)
    <3>1. k.busy["fence"] = "none"
      BY <1>0, <1>1, <2>4 DEF FreeOfOthers
    <3>2. /\ h.mine = k.mine \cup {"fence"} /\ h.busy = [k.busy EXCEPT !["fence"] = "read"]
          /\ h.requested = k.requested \cup {"fence"} /\ h.chain = k.chain
      BY <1>0, <1>1, <2>1, <3>1, LoadPartDoes
    <3>3. NextPart("mission") = "fence" /\ NextFlag("load", "fence") = {"loadRally"}
      BY <1>4 DEF NextPart, NextFlag
    <3>4. k.chain = {"loadRally"}
      BY <1>1, <2>4
    <3> QED BY <1>1, <3>2, <3>3, <3>4 DEF GoesOn
  <2> QED BY <2>3, <2>4 DEF h
<1>5. CASE "loadFence" \in g.chain /\ "fence" \notin supported
  <2> DEFINE c == ClearPart(k, "fence")
  <2>1. ~Supports("fence")
    BY <1>0, <1>5 DEF Supports
  <2>2. c \in GcsType /\ SameWork(k, c) /\ Spares(k, c)
    BY <1>0, <1>1, <2>1, ClearPartDoes, ClearPartSpares
  <2>3. h = LoadFenceComplete(c)
    BY <1>2, <1>5
  <2> HIDE DEF c
  <2>4. /\ Spares(c, h)
        /\ c.chain = {"loadRally"} /\ c.busy["rally"] = "none" =>
             GoesOn("load", "fence", c, h)
    BY <2>2, <2>3, LoadFenceCompleteDoes
  <2>5. h \in GcsType
    BY <2>4 DEF Spares
  <2>6. Spares(g, h)
    BY <1>1, <2>2, <2>4, <2>5, SparesTwice
  <2>7. ASSUME g.chain = {"loadFence"}, FreeOfOthers("mission", g)
        PROVE  GoesOn("load", "mission", g, h)
    <3>1. GoesOn("load", "fence", c, h)
      BY <1>0, <1>1, <2>2, <2>4, <2>7 DEF SameWork, FreeOfOthers
    <3>2. NextPart("mission") = NextPart("fence")
      BY <1>5 DEF NextPart
    <3> QED BY <1>1, <2>2, <3>1, <3>2 DEF GoesOn, SameWork
  <2> QED BY <2>6, <2>7 DEF h
<1> QED BY <1>3, <1>4, <1>5

LEMMA LoadCompleteDoes ==
  ASSUME NEW g \in GcsType, NEW p \in Parts
  PROVE  LET h == LoadComplete(g, p) IN
         /\ Spares(g, h)
         /\ g.chain = NextFlag("load", p) /\ FreeOfOthers(p, g) => GoesOn("load", p, g, h)
         /\ p = "rally" => /\ h.view = g.view /\ h.dirty = g.dirty
                           /\ ~h.forSave /\ ~h.forUpload
<1>1. CASE p = "mission"
  BY <1>1, LoadMissionCompleteDoes DEF LoadComplete, NextFlag
<1>2. CASE p = "fence"
  <2>1. FreeOfOthers(p, g) => g.busy["rally"] = "none"
    BY <1>2 DEF FreeOfOthers, Parts
  <2>2. NextFlag("load", p) = {"loadRally"} /\ LoadComplete(g, p) = LoadFenceComplete(g)
    BY <1>2 DEF NextFlag, LoadComplete
  <2> QED BY <1>2, <2>1, <2>2, LoadFenceCompleteDoes
<1>3. CASE p = "rally"
  BY <1>3, LoadRallyCompleteDoes DEF LoadComplete, NextFlag
<1> QED BY <1>1, <1>2, <1>3 DEF Parts

\* What the slots at the end of an upload keep.
SparesView(g, h) ==
    h \in GcsType /\ h.view = g.view /\ (MineBusy(g) => MineBusy(h))

LEMMA SendRallyCompleteDoes ==
  ASSUME NEW g \in GcsType
  PROVE  LET h == SendRallyComplete(g) IN
         /\ SparesView(g, h) /\ SameWork(g, h)
         /\ g.chain = {} => GoesOn("send", "rally", g, h)
<1> DEFINE h == SendRallyComplete(g)
<1>1. h \in GcsType /\ SameWork(g, h) /\ h.view = g.view
  BY DEF SendRallyComplete, GcsType, SameWork
<1> HIDE DEF h
<1>2. SparesView(g, h) /\ (g.chain = {} => GoesOn("send", "rally", g, h))
  BY <1>1 DEF SparesView, SameWork, MineBusy, GoesOn, NextPart
<1> QED BY <1>1, <1>2 DEF h

LEMMA SendFenceCompleteDoes ==
  ASSUME NEW g \in GcsType
  PROVE  LET h == SendFenceComplete(g) IN
         /\ SparesView(g, h)
         /\ g.chain = {"sendRally"} /\ g.busy["rally"] = "none" =>
              GoesOn("send", "fence", g, h)
<1> DEFINE h == SendFenceComplete(g)
           k == [g EXCEPT !.chain = g.chain \ {"sendRally"}]
<1>0. "rally" \in Parts
  BY DEF Parts
<1>1. /\ k \in GcsType /\ k.chain = g.chain \ {"sendRally"}
      /\ k.busy = g.busy /\ k.mine = g.mine /\ k.view = g.view
  <2>1. g.chain \ {"sendRally"} \in SUBSET {"loadFence", "loadRally", "sendFence", "sendRally"}
    BY DEF GcsType
  <2> QED BY <2>1, ChainSpares DEF Spares
<1>2. h = IF "sendRally" \notin g.chain THEN g
          ELSE IF "rally" \in supported THEN SendPart(k, "rally")
          ELSE SendRallyComplete(k)
  BY DEF SendFenceComplete
<1> HIDE DEF h, k
<1>3. CASE "sendRally" \notin g.chain
  <2>1. SparesView(g, g)
    BY DEF SparesView
  <2> QED BY <1>2, <1>3, <2>1 DEF h
<1>4. CASE "sendRally" \in g.chain /\ "rally" \in supported
  <2>1. /\ h \in GcsType /\ h.view = k.view /\ h.chain = k.chain
        /\ MineBusy(k) => MineBusy(h)
        /\ k.busy["rally"] = "none" =>
             /\ h.mine = k.mine \cup {"rally"} /\ h.busy = [k.busy EXCEPT !["rally"] = "write"]
             /\ h.sending["rally"] = k.view["rally"]
    BY <1>0, <1>1, <1>2, <1>4, SendPartDoes
  <2>2. SparesView(g, h)
    BY <1>1, <2>1 DEF SparesView, MineBusy
  <2>3. NextPart("fence") = "rally" /\ NextFlag("send", "rally") = {}
    BY <1>4 DEF NextPart, RallyNext, NextFlag
  <2>4. g.chain = {"sendRally"} /\ g.busy["rally"] = "none" => GoesOn("send", "fence", g, h)
    BY <1>1, <2>1, <2>3 DEF GoesOn
  <2> QED BY <2>2, <2>4 DEF h
<1>5. CASE "sendRally" \in g.chain /\ "rally" \notin supported
  <2>1. SparesView(k, h) /\ SameWork(k, h)
    BY <1>1, <1>2, <1>5, SendRallyCompleteDoes
  <2>2. SparesView(g, h)
    BY <1>1, <2>1 DEF SparesView, MineBusy
  <2>3. NextPart("fence") = "none"
    BY <1>5 DEF NextPart, RallyNext
  <2>4. g.chain = {"sendRally"} => GoesOn("send", "fence", g, h)
    BY <1>1, <2>1, <2>3 DEF GoesOn, SameWork
  <2> QED BY <2>2, <2>4 DEF h
<1> QED BY <1>3, <1>4, <1>5

LEMMA SendMissionCompleteDoes ==
  ASSUME NEW g \in GcsType
  PROVE  LET h == SendMissionComplete(g) IN
         /\ SparesView(g, h)
         /\ g.chain = {"sendFence"} /\ FreeOfOthers("mission", g) =>
              GoesOn("send", "mission", g, h)
<1> DEFINE h == SendMissionComplete(g)
           k == [g EXCEPT !.chain = (g.chain \ {"sendFence"}) \cup {"sendRally"}]
<1>0. "fence" \in Parts \ {"mission"} /\ "rally" \in Parts \ {"mission"}
  BY DEF Parts
<1>1. /\ k \in GcsType /\ k.chain = (g.chain \ {"sendFence"}) \cup {"sendRally"}
      /\ k.busy = g.busy /\ k.mine = g.mine /\ k.view = g.view
  <2>1. (g.chain \ {"sendFence"}) \cup {"sendRally"}
          \in SUBSET {"loadFence", "loadRally", "sendFence", "sendRally"}
    BY DEF GcsType
  <2> QED BY <2>1, ChainSpares DEF Spares
<1>2. h = IF "sendFence" \notin g.chain THEN g
          ELSE IF "fence" \in supported THEN SendPart(k, "fence")
          ELSE SendFenceComplete(k)
  BY DEF SendMissionComplete
<1> HIDE DEF h, k
<1>3. CASE "sendFence" \notin g.chain
  <2>1. SparesView(g, g)
    BY DEF SparesView
  <2> QED BY <1>2, <1>3, <2>1 DEF h
<1>4. CASE "sendFence" \in g.chain /\ "fence" \in supported
  <2>1. /\ h \in GcsType /\ h.view = k.view /\ h.chain = k.chain
        /\ MineBusy(k) => MineBusy(h)
        /\ k.busy["fence"] = "none" =>
             /\ h.mine = k.mine \cup {"fence"} /\ h.busy = [k.busy EXCEPT !["fence"] = "write"]
             /\ h.sending["fence"] = k.view["fence"]
    BY <1>0, <1>1, <1>2, <1>4, SendPartDoes
  <2>2. SparesView(g, h)
    BY <1>1, <2>1 DEF SparesView, MineBusy
  <2>3. NextPart("mission") = "fence" /\ NextFlag("send", "fence") = {"sendRally"}
    BY <1>4 DEF NextPart, NextFlag
  <2>4. g.chain = {"sendFence"} => k.chain = {"sendRally"}
    BY <1>1
  <2>5. FreeOfOthers("mission", g) => k.busy["fence"] = "none"
    BY <1>0, <1>1 DEF FreeOfOthers
  <2>6. g.chain = {"sendFence"} /\ FreeOfOthers("mission", g) =>
          GoesOn("send", "mission", g, h)
    BY <1>1, <2>1, <2>3, <2>4, <2>5 DEF GoesOn
  <2> QED BY <2>2, <2>6 DEF h
<1>5. CASE "sendFence" \in g.chain /\ "fence" \notin supported
  <2>1. /\ SparesView(k, h)
        /\ k.chain = {"sendRally"} /\ k.busy["rally"] = "none" =>
             GoesOn("send", "fence", k, h)
    BY <1>1, <1>2, <1>5, SendFenceCompleteDoes
  <2>2. SparesView(g, h)
    BY <1>1, <2>1 DEF SparesView, MineBusy
  <2>3. ASSUME g.chain = {"sendFence"}, FreeOfOthers("mission", g)
        PROVE  GoesOn("send", "mission", g, h)
    <3>1. GoesOn("send", "fence", k, h)
      BY <1>0, <1>1, <2>1, <2>3 DEF FreeOfOthers
    <3>2. NextPart("mission") = NextPart("fence")
      BY <1>5 DEF NextPart
    <3> QED BY <1>1, <3>1, <3>2 DEF GoesOn
  <2> QED BY <2>2, <2>3 DEF h
<1> QED BY <1>3, <1>4, <1>5

LEMMA SendCompleteDoes ==
  ASSUME NEW g \in GcsType, NEW p \in Parts
  PROVE  LET h == SendComplete(g, p) IN
         /\ SparesView(g, h)
         /\ g.chain = NextFlag("send", p) /\ FreeOfOthers(p, g) => GoesOn("send", p, g, h)
<1>0. "send" # "load"
  OBVIOUS
<1>1. CASE p = "mission"
  BY <1>0, <1>1, SendMissionCompleteDoes DEF SendComplete, NextFlag
<1>2. CASE p = "fence"
  <2>1. FreeOfOthers(p, g) => g.busy["rally"] = "none"
    BY <1>2 DEF FreeOfOthers, Parts
  <2>2. NextFlag("send", p) = {"sendRally"} /\ SendComplete(g, p) = SendFenceComplete(g)
    BY <1>0, <1>2 DEF NextFlag, SendComplete
  <2> QED BY <1>2, <2>1, <2>2, SendFenceCompleteDoes
<1>3. CASE p = "rally"
  BY <1>3, SendRallyCompleteDoes DEF SendComplete, NextFlag
<1> QED BY <1>1, <1>2, <1>3 DEF Parts

-----------------------------------------------------------------------------
(* The other handlers: what is transferred stays, or more of it begins *)

LEMMA WorkKeepsMineBusy ==
  ASSUME NEW g \in GcsType, NEW h \in GcsType, SameWork(g, h), MineBusy(g)
  PROVE  MineBusy(h)
  BY DEF SameWork, MineBusy

LEMMA RequestedDoes ==
  ASSUME NEW g \in GcsType, NEW p \in Parts
  PROVE  LET h == [g EXCEPT !.requested = g.requested \cup {p}] IN
         h \in GcsType /\ SameWork(g, h)
  BY DEF GcsType, SameWork

LEMMA ShowPartDoes ==
  ASSUME NEW g \in GcsType, NEW p \in Parts
  PROVE  LET h == ShowPart(g, p) IN h \in GcsType /\ SameWork(g, h)
<1> DEFINE k == [g EXCEPT !.requested = g.requested \cup {p}]
           h == ShowPart(g, p)
<1>1. k \in GcsType /\ SameWork(g, k)
  BY RequestedDoes
<1>2. h = IF g.busy[p] = "none" THEN Loaded(k, p) ELSE IF p = "fence" THEN k ELSE g
  BY DEF ShowPart
<1> HIDE DEF k, h
<1>3. Loaded(k, p) \in GcsType /\ SameWork(k, Loaded(k, p))
  BY <1>1, LoadedDoes
<1>4. SameWork(g, g)
  BY DEF SameWork
<1> QED BY <1>1, <1>2, <1>3, <1>4 DEF SameWork, h

LEMMA RemovedDoes ==
  ASSUME NEW g \in GcsType, NEW p \in Parts
  PROVE  LET h == Removed(g, p) IN h \in GcsType /\ SameWork(g, h)
<1>1. SameWork(g, g)
  BY DEF SameWork
<1> QED BY <1>1, RequestedDoes, ShowPartDoes DEF Removed

LEMMA ClearEditorDoes ==
  ASSUME NEW g \in GcsType
  PROVE  LET h == ClearEditor(g) IN h \in GcsType /\ SameWork(g, h)
<1> DEFINE k == [g EXCEPT !.view = Nothing]
<1>1. k \in GcsType /\ SameWork(g, k)
  BY NothingIsPlan DEF GcsType, SameWork
<1>2. ClearEditor(g) = AllClean(k)
  BY DEF ClearEditor
<1> HIDE DEF k
<1> QED BY <1>1, <1>2, AllCleanDoes DEF SameWork

LEMMA ShowPlanDoes ==
  ASSUME NEW g \in GcsType
  PROVE  LET h == ShowPlan(g) IN h \in GcsType /\ SameWork(g, h)
<1> DEFINE m == ShowPart(g, "mission")
           f == IF g.busy["mission"] # "none" THEN m ELSE ShowPart(m, "fence")
           r == IF g.busy["mission"] # "none" \/ g.busy["fence"] # "none" THEN f
                ELSE ShowPart(f, "rally")
<1>0. "mission" \in Parts /\ "fence" \in Parts /\ "rally" \in Parts
  BY DEF Parts
<1>1. m \in GcsType /\ SameWork(g, m)
  BY <1>0, ShowPartDoes
<1> HIDE DEF m
<1>2. f \in GcsType /\ SameWork(m, f)
  <2>1. SameWork(m, m)
    BY DEF SameWork
  <2> QED BY <1>0, <1>1, <2>1, ShowPartDoes
<1> HIDE DEF f
<1>3. r \in GcsType /\ SameWork(f, r)
  <2>1. SameWork(f, f)
    BY DEF SameWork
  <2> QED BY <1>0, <1>2, <2>1, ShowPartDoes
<1>4. ShowPlan(g) = AllClean(r)
  BY DEF ShowPlan, m, f, r
<1> HIDE DEF r
<1>5. AllClean(r) \in GcsType /\ SameWork(r, AllClean(r))
  BY <1>3, AllCleanDoes
<1> QED BY <1>1, <1>2, <1>3, <1>4, <1>5 DEF SameWork

LEMMA ShowVehicleDoes ==
  ASSUME NEW g \in GcsType, NEW ready \in BOOLEAN
  PROVE  LET h == ShowVehicle(g, ready) IN h \in GcsType /\ SameWork(g, h)
<1>1. SameWork(g, g)
  BY DEF SameWork
<1> QED BY <1>1, ShowPlanDoes DEF ShowVehicle

LEMMA BeginRemoveDoes ==
  ASSUME NEW g \in GcsType, NEW p \in Parts
  PROVE  LET h == BeginRemove(g, p) IN
         /\ h \in GcsType /\ h.mine = g.mine /\ h.requested = g.requested
         /\ h.busy = [g.busy EXCEPT ![p] = "removeAll"]
<1> DEFINE h == BeginRemove(g, p)
<1>1. h = [g EXCEPT !.busy = [g.busy EXCEPT ![p] = "removeAll"],
                    !.held = [g.held EXCEPT ![p] = {}]]
  BY DEF BeginRemove, GcsType
<1>2. [g.busy EXCEPT ![p] = "removeAll"] \in [Parts -> {"none", "read", "write", "removeAll"}]
  BY BusyUpdated
<1>3. [g.held EXCEPT ![p] = {}] \in Plans
  BY NothingIsContent, PlanUpdated DEF GcsType
<1> HIDE DEF h
<1>4. h \in GcsType
  BY <1>1, <1>2, <1>3 DEF GcsType
<1>5. /\ h.mine = g.mine /\ h.requested = g.requested
      /\ h.busy = [g.busy EXCEPT ![p] = "removeAll"]
  BY <1>1 DEF GcsType
<1> QED BY <1>4, <1>5 DEF h

LEMMA RemovePartDoes ==
  ASSUME NEW g \in GcsType, NEW p \in Parts
  PROVE  LET h == RemovePart(g, p) IN h \in GcsType /\ (MineBusy(g) => MineBusy(h))
<1> DEFINE b == BeginRemove(g, p)
           h == RemovePart(g, p)
<1>1. /\ b \in GcsType /\ b.mine = g.mine /\ b.requested = g.requested
      /\ b.busy = [g.busy EXCEPT ![p] = "removeAll"]
  BY BeginRemoveDoes
<1>2. h = IF g.busy[p] # "none" THEN g
          ELSE [b EXCEPT !.mine = b.mine \cup {p},
                         !.requested = IF p = "mission" THEN b.requested \cup {p}
                                       ELSE b.requested]
  BY DEF RemovePart
<1> HIDE DEF b, h
<1>3. CASE g.busy[p] # "none"
  BY <1>2, <1>3 DEF h
<1>4. CASE g.busy[p] = "none"
  <2> DEFINE asked == IF p = "mission" THEN b.requested \cup {p} ELSE b.requested
  <2>0. h = [b EXCEPT !.mine = b.mine \cup {p}, !.requested = asked]
    BY <1>2, <1>4
  <2>1. h \in GcsType
    <3>1. asked \in SUBSET Parts /\ b.mine \cup {p} \in SUBSET Parts
      BY <1>1 DEF GcsType
    <3> HIDE DEF asked
    <3> QED BY <1>1, <2>0, <3>1 DEF GcsType
  <2>2. h.mine = g.mine \cup {p} /\ h.busy = [g.busy EXCEPT ![p] = "removeAll"]
    BY <1>1, <2>0 DEF GcsType
  <2>3. MineBusy(g) => MineBusy(h)
    BY <2>2 DEF GcsType, MineBusy
  <2> QED BY <2>1, <2>3 DEF h
<1> QED BY <1>3, <1>4

\* Another user's transfer begins.
LEMMA BusyKeepsMineBusy ==
  ASSUME NEW g \in GcsType, NEW h \in GcsType, NEW p \in Parts,
         NEW b \in {"read", "write", "removeAll"},
         h.mine = g.mine, h.busy = [g.busy EXCEPT ![p] = b], MineBusy(g)
  PROVE  MineBusy(h)
  BY DEF GcsType, MineBusy

LEMMA EndedDoes ==
  ASSUME gcs \in GcsType, NEW p \in Parts
  PROVE  LET g == Ended(p) IN
         /\ g \in GcsType /\ SameFlags(gcs, g) /\ (MineBusy(gcs) => MineBusy(g))
         /\ g.view = gcs.view /\ g.dirty = gcs.dirty /\ g.requested = gcs.requested
         /\ g.chain = gcs.chain /\ g.held = gcs.held
         /\ g.mine = gcs.mine \ {p} /\ g.busy = [gcs.busy EXCEPT ![p] = "none"]
<1> DEFINE g == Ended(p)
<1>1. g = [gcs EXCEPT !.busy = [gcs.busy EXCEPT ![p] = "none"], !.mine = gcs.mine \ {p},
                      !.sending = [gcs.sending EXCEPT ![p] = {}]]
  BY DEF Ended, GcsType
<1>2. [gcs.busy EXCEPT ![p] = "none"] \in [Parts -> {"none", "read", "write", "removeAll"}]
  BY BusyUpdated
<1>3. [gcs.sending EXCEPT ![p] = {}] \in Plans
  BY NothingIsContent, PlanUpdated DEF GcsType
<1> HIDE DEF g
<1>4. g \in GcsType
  BY <1>1, <1>2, <1>3 DEF GcsType
<1>5. /\ g.view = gcs.view /\ g.dirty = gcs.dirty /\ g.requested = gcs.requested
      /\ g.chain = gcs.chain /\ g.held = gcs.held /\ SameFlags(gcs, g)
      /\ g.mine = gcs.mine \ {p} /\ g.busy = [gcs.busy EXCEPT ![p] = "none"]
  BY <1>1 DEF GcsType, SameFlags
<1>6. MineBusy(gcs) => MineBusy(g)
  BY <1>5 DEF GcsType, MineBusy
<1> QED BY <1>4, <1>5, <1>6 DEF g

LEMMA HeldDoes ==
  ASSUME NEW g \in GcsType, NEW p \in Parts, NEW c \in Contents(p)
  PROVE  LET h == [g EXCEPT !.held[p] = c] IN
         /\ h \in GcsType /\ SameFlags(g, h) /\ (MineBusy(g) => MineBusy(h))
         /\ h.view = g.view /\ h.dirty = g.dirty /\ h.requested = g.requested
         /\ h.chain = g.chain /\ h.mine = g.mine /\ h.busy = g.busy
         /\ h.held = [g.held EXCEPT ![p] = c]
<1> DEFINE h == [g EXCEPT !.held = [g.held EXCEPT ![p] = c]]
<1>1. [g.held EXCEPT ![p] = c] \in Plans
  BY PlanUpdated DEF GcsType
<1>2. h \in GcsType
  BY <1>1 DEF GcsType
<1>3. /\ h.view = g.view /\ h.dirty = g.dirty /\ h.requested = g.requested
      /\ h.chain = g.chain /\ h.mine = g.mine /\ h.busy = g.busy
      /\ h.held = [g.held EXCEPT ![p] = c] /\ SameFlags(g, h)
  BY DEF GcsType, SameFlags
<1> HIDE DEF h
<1>4. MineBusy(g) => MineBusy(h)
  BY <1>3 DEF MineBusy
<1>5. h = [g EXCEPT !.held[p] = c]
  BY DEF h, GcsType
<1> QED BY <1>2, <1>3, <1>4, <1>5

-----------------------------------------------------------------------------
(* The end of a transaction *)

\* The part of the chain after p, once it has begun.
LegBegun(kind, p) ==
    /\ gcs'.mine = {p} /\ gcs'.busy = Working(kind, p) /\ gcs'.chain = NextFlag(kind, p)

LEMMA GoesOnToLeg ==
  ASSUME NEW p \in Parts, NEW g \in GcsType, NEW kind \in {"load", "send"},
         Supports(p), supported \subseteq {"fence", "rally"},
         g.mine = {}, g.busy = Idle, GoesOn(kind, p, g, gcs')
  PROVE  /\ NextPart(p) = "none" => gcs'.mine = {} /\ gcs'.chain = {}
         /\ NextPart(p) # "none" => LegBegun(kind, NextPart(p))
<1> DEFINE n == NextPart(p)
<1>1. CASE n = "none"
  BY <1>1 DEF GoesOn
<1>2. CASE n # "none"
  <2>1. n \in Parts
    BY <1>2, LegsInOrder
  <2>2. gcs'.busy = [Idle EXCEPT ![n] = IF kind = "load" THEN "read" ELSE "write"]
    BY <1>2 DEF GoesOn
  <2> HIDE DEF n
  <2>3. gcs'.busy = Working(kind, n)
    BY <2>1, <2>2 DEF Idle, Working
  <2>4. gcs'.mine = {n} /\ gcs'.chain = NextFlag(kind, n)
    BY <1>2 DEF GoesOn, n
  <2> QED BY <1>2, <2>3, <2>4 DEF LegBegun, n
<1> QED BY <1>1, <1>2

LEMMA EndReadDoes ==
  ASSUME TypeInv, NEW p \in Parts, NEW ok \in BOOLEAN, EndRead(p, ok)
  PROVE  /\ gcs' \in GcsType /\ MineBusy(gcs') /\ onboard' \in Plans
         /\ AtLeg(p) /\ run = "load" =>
              /\ NextPart(p) = "none" => gcs'.mine = {} /\ gcs'.chain = {}
              /\ NextPart(p) # "none" =>
                   LegBegun("load", NextPart(p)) /\ NextPart(p) \in gcs'.requested
         /\ p \in gcs.requested =>
              /\ \A q \in Parts \ {p} : Supports(q) =>
                   gcs'.view[q] = gcs.view[q] /\ (q \in gcs'.dirty => q \in gcs.dirty)
              /\ p \notin gcs'.dirty
              /\ ok /\ ~(p = "fence" /\ onboard[p] = {}) => gcs'.view[p] = onboard[p]
              /\ p = "rally" /\ gcs.dirty \subseteq {p} =>
                   gcs'.dirty = {} /\ ~gcs'.forSave /\ ~gcs'.forUpload
<1> DEFINE items == IF ok THEN onboard[p] ELSE {}
           kept == p = "fence" /\ items = {}
           c == IF kept THEN gcs.held[p] ELSE items
           e == [Ended(p) EXCEPT !.held[p] = c]
           k == LoadComplete(e, p)
<1>0. gcs \in GcsType /\ TypeEnv /\ MineBusy(gcs)
  BY DEF TypeInv
<1>1. c \in Contents(p)
  <2>1. gcs.held[p] \in Contents(p) /\ onboard[p] \in Contents(p) /\ {} \in Contents(p)
    BY <1>0, PlanPart, NothingIsContent DEF GcsType, TypeEnv
  <2> QED BY <2>1
<1>2. /\ Ended(p) \in GcsType /\ SameFlags(gcs, Ended(p)) /\ MineBusy(Ended(p))
      /\ Ended(p).view = gcs.view /\ Ended(p).dirty = gcs.dirty
      /\ Ended(p).requested = gcs.requested
      /\ Ended(p).chain = gcs.chain /\ Ended(p).held = gcs.held
      /\ Ended(p).mine = gcs.mine \ {p} /\ Ended(p).busy = [gcs.busy EXCEPT ![p] = "none"]
  BY <1>0, EndedDoes
<1>3. /\ e \in GcsType /\ MineBusy(e)
      /\ e.view = gcs.view /\ e.dirty = gcs.dirty /\ e.requested = gcs.requested
      /\ e.chain = gcs.chain /\ e.mine = gcs.mine \ {p}
      /\ e.busy = [gcs.busy EXCEPT ![p] = "none"] /\ e.held = [gcs.held EXCEPT ![p] = c]
  <2> HIDE DEF c
  <2> QED BY <1>1, <1>2, HeldDoes
<1>4. e.held[p] = c
  BY <1>0, <1>3 DEF GcsType, Plans
<1>5. gcs' = Loaded(k, p) /\ onboard' = onboard
  <2>1. [Ended(p) EXCEPT !.held[p] = IF kept THEN @ ELSE items] = e
    BY <1>2
  <2> QED BY <2>1 DEF EndRead
<1> HIDE DEF c, e
<1>6. /\ k \in GcsType /\ k.held = e.held /\ MineBusy(k)
      /\ e.requested \subseteq k.requested
      /\ \A q \in Parts : Supports(q) => k.view[q] = e.view[q] /\ (q \in k.dirty => q \in e.dirty)
      /\ e.chain = NextFlag("load", p) /\ FreeOfOthers(p, e) => GoesOn("load", p, e, k)
      /\ p = "rally" => /\ k.view = e.view /\ k.dirty = e.dirty
                        /\ ~k.forSave /\ ~k.forUpload
  BY <1>3, LoadCompleteDoes DEF Spares
<1> HIDE DEF k
<1>7. /\ gcs' \in GcsType /\ SameWork(k, gcs') /\ gcs'.requested = k.requested \ {p}
      /\ p \in k.requested =>
           /\ gcs'.view = [k.view EXCEPT ![p] = k.held[p]]
           /\ gcs'.dirty = k.dirty \ {p}
           /\ p = "rally" /\ k.dirty \subseteq {p} => SameFlags(k, gcs')
  BY <1>5, <1>6, LoadedDoes
<1>8. MineBusy(gcs')
  BY <1>6, <1>7, WorkKeepsMineBusy
<1>9. ASSUME AtLeg(p), run = "load"
      PROVE  /\ NextPart(p) = "none" => gcs'.mine = {} /\ gcs'.chain = {}
             /\ NextPart(p) # "none" =>
                  LegBegun("load", NextPart(p)) /\ NextPart(p) \in gcs'.requested
  <2>1. Supports(p) /\ supported \subseteq {"fence", "rally"}
    BY <1>0, <1>9 DEF AtLeg, TypeEnv
  <2>2. e.mine = {}
    BY <1>3, <1>9 DEF AtLeg
  <2>3. e.busy = Idle
    BY <1>3, <1>9 DEF AtLeg, Working, Idle
  <2>4. e.chain = NextFlag("load", p) /\ FreeOfOthers(p, e)
    BY <1>3, <1>9, <2>3 DEF AtLeg, FreeOfOthers, Idle
  <2>5. GoesOn("load", p, e, k)
    BY <1>6, <2>4
  <2>6. NextPart(p) # "none" => NextPart(p) # p
    BY <2>1, LegsInOrder
  <2>7. GoesOn("load", p, e, gcs') /\ (NextPart(p) # "none" => NextPart(p) \in gcs'.requested)
    BY <1>7, <2>5, <2>6 DEF GoesOn, SameWork
  <2> QED BY <1>3, <2>1, <2>2, <2>3, <2>7, GoesOnToLeg
<1>10. \A q \in Parts \ {p} : Supports(q) /\ p \in gcs.requested =>
         gcs'.view[q] = gcs.view[q] /\ (q \in gcs'.dirty => q \in gcs.dirty)
  <2>1. p \in gcs.requested => p \in k.requested
    BY <1>3, <1>6
  <2>2. k.view \in [Parts -> SUBSET Elements]
    BY <1>6 DEF GcsType, Plans
  <2> QED BY <1>3, <1>6, <1>7, <2>1, <2>2
<1>11. ASSUME p \in gcs.requested
       PROVE  /\ p \notin gcs'.dirty
              /\ ok /\ ~(p = "fence" /\ onboard[p] = {}) => gcs'.view[p] = onboard[p]
  <2>1. p \in k.requested
    BY <1>3, <1>6, <1>11
  <2>2. k.view \in [Parts -> SUBSET Elements]
    BY <1>6 DEF GcsType, Plans
  <2>3. gcs'.view[p] = c
    BY <1>4, <1>6, <1>7, <2>1, <2>2
  <2> QED BY <1>7, <2>1, <2>3 DEF c
<1>12. ASSUME p = "rally", p \in gcs.requested, gcs.dirty \subseteq {p}
       PROVE  gcs'.dirty = {} /\ ~gcs'.forSave /\ ~gcs'.forUpload
  <2>1. p \in k.requested /\ k.dirty \subseteq {p} /\ ~k.forSave /\ ~k.forUpload
    BY <1>3, <1>6, <1>12
  <2> QED BY <1>7, <1>12, <2>1 DEF SameFlags
<1>13. onboard' \in Plans
  BY <1>0, <1>5 DEF TypeEnv
<1> QED BY <1>7, <1>8, <1>9, <1>10, <1>11, <1>12, <1>13

LEMMA EndWriteDoes ==
  ASSUME TypeInv, NEW p \in Parts, NEW ok \in BOOLEAN, EndWrite(p, ok)
  PROVE  /\ gcs' \in GcsType /\ MineBusy(gcs') /\ onboard' \in Plans
         /\ gcs'.view = gcs.view
         /\ \A q \in Parts \ {p} : onboard'[q] = onboard[q]
         /\ ok => onboard'[p] = gcs.sending[p]
         /\ AtLeg(p) /\ run = "send" =>
              /\ NextPart(p) = "none" => gcs'.mine = {} /\ gcs'.chain = {}
              /\ NextPart(p) # "none" =>
                   /\ LegBegun("send", NextPart(p))
                   /\ gcs'.sending[NextPart(p)] = gcs'.view[NextPart(p)]
<1> DEFINE c == IF ok THEN gcs.sending[p] ELSE IF p = "mission" THEN gcs.held[p] ELSE {}
           e == [Ended(p) EXCEPT !.held[p] = c]
<1>0. gcs \in GcsType /\ TypeEnv /\ MineBusy(gcs)
  BY DEF TypeInv
<1>1. /\ gcs.held[p] \in Contents(p) /\ onboard[p] \in Contents(p) /\ {} \in Contents(p)
      /\ gcs.sending[p] \in Contents(p)
  BY <1>0, PlanPart, NothingIsContent DEF GcsType, TypeEnv
<1>2. /\ Ended(p) \in GcsType /\ SameFlags(gcs, Ended(p)) /\ MineBusy(Ended(p))
      /\ Ended(p).view = gcs.view
      /\ Ended(p).chain = gcs.chain /\ Ended(p).held = gcs.held
      /\ Ended(p).mine = gcs.mine \ {p} /\ Ended(p).busy = [gcs.busy EXCEPT ![p] = "none"]
  BY <1>0, EndedDoes
<1>3. /\ e \in GcsType /\ MineBusy(e) /\ e.view = gcs.view
      /\ e.chain = gcs.chain /\ e.mine = gcs.mine \ {p}
      /\ e.busy = [gcs.busy EXCEPT ![p] = "none"]
  <2>1. c \in Contents(p)
    BY <1>1
  <2> HIDE DEF c
  <2> QED BY <1>2, <2>1, HeldDoes
<1>4. gcs' = SendComplete(e, p)
  <2>1. [Ended(p) EXCEPT !.held[p] = IF ok THEN gcs.sending[p]
                                     ELSE IF p = "mission" THEN @ ELSE {}] = e
    BY <1>2
  <2> QED BY <2>1 DEF EndWrite
<1> HIDE DEF e
<1>5. /\ gcs' \in GcsType /\ gcs'.view = e.view /\ MineBusy(gcs')
      /\ e.chain = NextFlag("send", p) /\ FreeOfOthers(p, e) => GoesOn("send", p, e, gcs')
  BY <1>3, <1>4, SendCompleteDoes DEF SparesView
<1>6. /\ onboard' \in Plans
      /\ ok => onboard'[p] = gcs.sending[p]
      /\ \A q \in Parts \ {p} : onboard'[q] = onboard[q]
  <2>1. PICK stored \in {onboard[p], gcs.sending[p]} :
          /\ ok => stored = gcs.sending[p]
          /\ onboard' = [onboard EXCEPT ![p] = stored]
    BY DEF EndWrite
  <2>2. stored \in Contents(p)
    BY <1>1, <2>1
  <2>3. onboard \in Plans /\ onboard \in [Parts -> SUBSET Elements]
    BY <1>0 DEF TypeEnv, Plans
  <2>4. onboard' \in Plans
    BY <2>1, <2>2, <2>3, PlanUpdated
  <2> QED BY <2>1, <2>3, <2>4
<1>7. ASSUME AtLeg(p), run = "send"
      PROVE  /\ NextPart(p) = "none" => gcs'.mine = {} /\ gcs'.chain = {}
             /\ NextPart(p) # "none" =>
                  /\ LegBegun("send", NextPart(p))
                  /\ gcs'.sending[NextPart(p)] = gcs'.view[NextPart(p)]
  <2>1. Supports(p) /\ supported \subseteq {"fence", "rally"}
    BY <1>0, <1>7 DEF AtLeg, TypeEnv
  <2>2. e.mine = {}
    BY <1>3, <1>7 DEF AtLeg
  <2>3. e.busy = Idle
    BY <1>3, <1>7 DEF AtLeg, Working, Idle
  <2>4. e.chain = NextFlag("send", p) /\ FreeOfOthers(p, e)
    BY <1>3, <1>7, <2>3 DEF AtLeg, FreeOfOthers, Idle
  <2>5. GoesOn("send", p, e, gcs')
    BY <1>5, <2>4
  <2>6. NextPart(p) # "none" => gcs'.sending[NextPart(p)] = gcs'.view[NextPart(p)]
    BY <1>5, <2>5 DEF GoesOn
  <2> QED BY <1>3, <2>1, <2>2, <2>3, <2>5, <2>6, GoesOnToLeg
<1> QED BY <1>3, <1>5, <1>6, <1>7

LEMMA EndRemoveDoes ==
  ASSUME TypeInv, NEW p \in Parts, NEW ok \in BOOLEAN, EndRemove(p, ok)
  PROVE  gcs' \in GcsType /\ MineBusy(gcs') /\ onboard' \in Plans
<1>0. gcs \in GcsType /\ TypeEnv /\ MineBusy(gcs)
  BY DEF TypeInv
<1>1. Ended(p) \in GcsType /\ MineBusy(Ended(p))
  BY <1>0, EndedDoes
<1>2. Removed(Ended(p), p) \in GcsType /\ SameWork(Ended(p), Removed(Ended(p), p))
  BY <1>1, RemovedDoes
<1>3. MineBusy(Removed(Ended(p), p))
  BY <1>1, <1>2, WorkKeepsMineBusy
<1>4. onboard' \in Plans
  <2>1. PICK stored \in {onboard[p], {}} :
          onboard' = [onboard EXCEPT ![p] = stored]
    BY DEF EndRemove
  <2>2. stored \in Contents(p) /\ onboard \in Plans
    BY <1>0, PlanPart, NothingIsContent DEF TypeEnv
  <2> QED BY <2>1, <2>2, PlanUpdated
<1> QED BY <1>1, <1>2, <1>3, <1>4 DEF EndRemove

-----------------------------------------------------------------------------
(* The user and the vehicle *)

LEMMA ViewDoes ==
  ASSUME NEW g \in GcsType, NEW p \in Parts, NEW c \in Contents(p)
  PROVE  LET h == [g EXCEPT !.view[p] = c] IN h \in GcsType /\ SameWork(g, h)
<1>1. [g.view EXCEPT ![p] = c] \in Plans
  BY PlanUpdated DEF GcsType
<1> QED BY <1>1 DEF GcsType, SameWork

LEMMA EditDoes ==
  ASSUME TypeInv, NEW p \in Parts, Edit(p)
  PROVE  gcs' \in GcsType /\ SameWork(gcs, gcs')
<1>0. gcs \in GcsType
  BY DEF TypeInv
<1>1. PICK c \in Contents(p) :
        \/ p = "mission" /\ EditMission(c)
        \/ p = "fence" /\ EditFence(c)
        \/ p = "rally" /\ (AddRallyPoint(c) \/ RemoveRallyPoint(c))
  BY DEF Edit
<1> DEFINE new == [gcs EXCEPT !.view[p] = c]
<1>2. new \in GcsType /\ SameWork(gcs, new)
  BY <1>0, ViewDoes
<1>3. \/ p = "mission" /\ gcs' = SetDirty(SetClean(new, p), p)
      \/ gcs' = SetDirty(new, p)
      \/ gcs' = new
  BY <1>1 DEF EditMission, EditFence, AddRallyPoint, RemoveRallyPoint
<1> HIDE DEF new
<1>4. SetClean(new, p) \in GcsType /\ SameWork(gcs, SetClean(new, p))
  BY <1>2, SetCleanDoes DEF SameWork
<1>5. ASSUME NEW g \in GcsType, SameWork(gcs, g)
      PROVE  SetDirty(g, p) \in GcsType /\ SameWork(gcs, SetDirty(g, p))
  BY <1>5, SetDirtyDoes DEF SameWork
<1> QED BY <1>2, <1>3, <1>4, <1>5

LEMMA BusyVehicleDoes ==
  ASSUME TypeInv, NEW p \in Parts, InitialLoad(p) \/ OtherWrites(p)
  PROVE  gcs' \in GcsType /\ MineBusy(gcs')
<1>0. gcs \in GcsType /\ MineBusy(gcs)
  BY DEF TypeInv
<1>1. CASE InitialLoad(p)
  <2>1. gcs' = [gcs EXCEPT !.busy = [gcs.busy EXCEPT ![p] = "read"]]
    BY <1>0, <1>1 DEF InitialLoad, GcsType
  <2>2. [gcs.busy EXCEPT ![p] = "read"] \in [Parts -> {"none", "read", "write", "removeAll"}]
    BY <1>0, BusyUpdated
  <2>3. gcs' \in GcsType
    BY <1>0, <2>1, <2>2 DEF GcsType
  <2>4. gcs'.mine = gcs.mine /\ gcs'.busy = [gcs.busy EXCEPT ![p] = "read"]
    BY <1>0, <2>1 DEF GcsType
  <2> QED BY <1>0, <2>3, <2>4, BusyKeepsMineBusy
<1>2. ASSUME NEW c \in Contents(p), gcs' = BeginWrite(gcs, p, c)
      PROVE  gcs' \in GcsType /\ MineBusy(gcs')
  <2>1. gcs' \in GcsType /\ gcs'.mine = gcs.mine /\ gcs'.busy = [gcs.busy EXCEPT ![p] = "write"]
    BY <1>0, <1>2, BeginWriteDoes
  <2> QED BY <1>0, <2>1, BusyKeepsMineBusy
<1>3. ASSUME gcs' = BeginRemove(gcs, p)
      PROVE  gcs' \in GcsType /\ MineBusy(gcs')
  <2>1. gcs' \in GcsType /\ gcs'.mine = gcs.mine
        /\ gcs'.busy = [gcs.busy EXCEPT ![p] = "removeAll"]
    BY <1>0, <1>3, BeginRemoveDoes
  <2> QED BY <1>0, <2>1, BusyKeepsMineBusy
<1> QED BY <1>1, <1>2, <1>3 DEF OtherWrites

\* A chain begins with the mission, unless something is left of an older one.
LEMMA BeginsDoes ==
  ASSUME TypeInv, loadFromVehicle \/ sendToVehicle
  PROVE  /\ gcs' \in GcsType /\ MineBusy(gcs')
         /\ run' \in {"none", "load", "send", "disturbed"} /\ smooth' = TRUE /\ legs' = <<>>
         /\ run' \in {"load", "send"} =>
              /\ LegBegun(run', "mission")
              /\ run' = "load" => "mission" \in gcs'.requested
              /\ run' = "send" => gcs'.sending["mission"] = gcs'.view["mission"]
<1>0. gcs \in GcsType /\ MineBusy(gcs) /\ "mission" \in Parts
  BY DEF TypeInv, Parts
<1>1. ~Sync(gcs)
  BY DEF loadFromVehicle, sendToVehicle
<1>2. gcs.busy = Idle /\ gcs.mine = {}
  BY <1>0, <1>1 DEF Sync, Idle, GcsType, MineBusy
<1>3. CASE loadFromVehicle
  <2> DEFINE k == [gcs EXCEPT !.chain = gcs.chain \cup {"loadFence"}]
  <2>1. /\ k \in GcsType /\ k.chain = gcs.chain \cup {"loadFence"}
        /\ k.busy = gcs.busy /\ k.mine = gcs.mine
    <3>1. gcs.chain \cup {"loadFence"}
            \in SUBSET {"loadFence", "loadRally", "sendFence", "sendRally"}
      BY <1>0 DEF GcsType
    <3> QED BY <1>0, <3>1, ChainSpares DEF Spares
  <2>2. gcs' = LoadPart(k, "mission")
    BY <1>3 DEF loadFromVehicle
  <2> HIDE DEF k
  <2>3. k.busy["mission"] = "none" /\ MineBusy(k)
    BY <1>0, <1>2, <2>1 DEF Idle, MineBusy
  <2>4. /\ gcs' \in GcsType /\ MineBusy(gcs') /\ gcs'.chain = k.chain
        /\ gcs'.mine = {"mission"} /\ gcs'.busy = [Idle EXCEPT !["mission"] = "read"]
        /\ "mission" \in gcs'.requested
    BY <1>0, <1>2, <2>1, <2>2, <2>3, LoadPartDoes
  <2>5. gcs'.busy = Working("load", "mission")
    BY <1>0, <2>4 DEF Idle, Working
  <2>6. /\ run' = (IF gcs.chain = {} THEN "load" ELSE "disturbed")
        /\ legs' = <<>> /\ smooth' = TRUE
    BY <1>3 DEF loadFromVehicle, ChainBegins
  <2>7. gcs.chain = {} => gcs'.chain = NextFlag("load", "mission")
    BY <2>1, <2>4 DEF NextFlag
  <2> QED BY <2>4, <2>5, <2>6, <2>7 DEF LegBegun
<1>4. CASE sendToVehicle
  <2> DEFINE k == [gcs EXCEPT !.chain = gcs.chain \cup {"sendFence"}]
  <2>1. /\ k \in GcsType /\ k.chain = gcs.chain \cup {"sendFence"}
        /\ k.busy = gcs.busy /\ k.mine = gcs.mine
    <3>1. gcs.chain \cup {"sendFence"}
            \in SUBSET {"loadFence", "loadRally", "sendFence", "sendRally"}
      BY <1>0 DEF GcsType
    <3> QED BY <1>0, <3>1, ChainSpares DEF Spares
  <2>2. gcs' = SendPart(k, "mission")
    BY <1>4 DEF sendToVehicle
  <2> HIDE DEF k
  <2>3. k.busy["mission"] = "none" /\ MineBusy(k)
    BY <1>0, <1>2, <2>1 DEF Idle, MineBusy
  <2>4. /\ gcs' \in GcsType /\ MineBusy(gcs') /\ gcs'.chain = k.chain
        /\ gcs'.mine = {"mission"} /\ gcs'.busy = [Idle EXCEPT !["mission"] = "write"]
        /\ gcs'.sending["mission"] = gcs'.view["mission"]
    BY <1>0, <1>2, <2>1, <2>2, <2>3, SendPartDoes
  <2>5. gcs'.busy = Working("send", "mission")
    BY <1>0, <2>4 DEF Idle, Working
  <2>6. /\ run' = (IF gcs.chain = {} THEN "send" ELSE "disturbed")
        /\ legs' = <<>> /\ smooth' = TRUE
    BY <1>4 DEF sendToVehicle, ChainBegins
  <2>7. gcs.chain = {} => gcs'.chain = NextFlag("send", "mission")
    BY <2>1, <2>4 DEF NextFlag
  <2> QED BY <2>4, <2>5, <2>6, <2>7 DEF LegBegun
<1> QED BY <1>3, <1>4

LEMMA RemoveAllDoes ==
  ASSUME TypeInv, removeAllFromVehicle
  PROVE  gcs' \in GcsType /\ MineBusy(gcs')
<1> DEFINE cleared == [gcs EXCEPT !.forUpload = FALSE]
           m == RemovePart(cleared, "mission")
           f == IF "fence" \in supported THEN RemovePart(m, "fence") ELSE m
<1>0. gcs \in GcsType /\ MineBusy(gcs)
  BY DEF TypeInv
<1>1. cleared \in GcsType /\ MineBusy(cleared)
  BY <1>0 DEF GcsType, MineBusy
<1>2. gcs' = IF "rally" \in supported THEN RemovePart(f, "rally") ELSE f
  BY DEF removeAllFromVehicle
<1>3. "mission" \in Parts /\ "fence" \in Parts /\ "rally" \in Parts
  BY DEF Parts
<1> HIDE DEF cleared
<1>4. m \in GcsType /\ MineBusy(m)
  BY <1>1, <1>3, RemovePartDoes
<1> HIDE DEF m
<1>5. f \in GcsType /\ MineBusy(f)
  BY <1>3, <1>4, RemovePartDoes
<1> HIDE DEF f
<1> QED BY <1>2, <1>3, <1>5, RemovePartDoes

LEMMA VehicleChangedDoes ==
  ASSUME TypeInv, activeVehicleChanged
  PROVE  /\ gcs' \in GcsType /\ MineBusy(gcs')
         /\ onboard' \in Plans /\ supported' \subseteq {"fence", "rally"}
         /\ offline' \in BOOLEAN /\ initial' \in BOOLEAN /\ prompt' \in BOOLEAN
<1>0. gcs \in GcsType /\ TypeEnv
  BY DEF TypeInv
<1>1. PICK v \in Vehicles \cup {NoVehicle}, ready \in BOOLEAN :
        /\ offline' = (v = NoVehicle) /\ initial' = ready
        /\ onboard' = v.plan /\ supported' = v.supported
        /\ VehicleChanged(v = NoVehicle, ready)
  BY DEF activeVehicleChanged
<1>2. onboard' \in Plans /\ supported' \subseteq {"fence", "rally"}
  <2>1. CASE v = NoVehicle
    BY <1>1, <2>1, NothingIsPlan DEF NoVehicle
  <2>2. CASE v \in Vehicles
    BY <1>1, <2>2, InstanceAssumption
  <2> QED BY <2>1, <2>2
<1> DEFINE fresh == [gcs EXCEPT !.busy = Idle, !.mine = {}, !.sending = Nothing,
                                !.held = IF ready THEN onboard' ELSE Nothing]
           stale == [fresh EXCEPT !.forUpload = TRUE]
           empty == [fresh EXCEPT !.forSave = FALSE, !.forUpload = FALSE]
           asks == ContainsItems(gcs) /\ gcs.forSave
<1>3. fresh \in GcsType /\ MineBusy(fresh)
  <2> DEFINE kept == IF ready THEN onboard' ELSE Nothing
  <2>1. Idle \in [Parts -> {"none", "read", "write", "removeAll"}]
    BY DEF Idle
  <2>2. kept \in Plans
    BY <1>2, NothingIsPlan
  <2>3. fresh = [gcs EXCEPT !.busy = Idle, !.mine = {}, !.sending = Nothing, !.held = kept]
    OBVIOUS
  <2> HIDE DEF fresh, kept
  <2>4. fresh \in GcsType
    BY <1>0, <2>1, <2>2, <2>3, NothingIsPlan DEF GcsType
  <2>5. fresh.mine = {}
    BY <1>0, <2>3 DEF GcsType
  <2> QED BY <2>4, <2>5 DEF MineBusy
<1> HIDE DEF fresh
<1>4. stale \in GcsType /\ MineBusy(stale) /\ empty \in GcsType /\ MineBusy(empty)
  BY <1>3 DEF GcsType, MineBusy
<1>5. /\ gcs' = IF asks THEN stale
                ELSE IF v = NoVehicle
                     THEN (IF ContainsItems(gcs) THEN ClearEditor(stale) ELSE empty)
                ELSE ShowVehicle(IF ContainsItems(gcs) THEN stale ELSE empty, ready)
      /\ prompt' = (prompt \/ asks)
  BY <1>1 DEF VehicleChanged, fresh
<1> HIDE DEF stale, empty
<1>6. ClearEditor(stale) \in GcsType /\ MineBusy(ClearEditor(stale))
  BY <1>4, ClearEditorDoes, WorkKeepsMineBusy
<1>7. ASSUME NEW g \in GcsType, MineBusy(g)
      PROVE  ShowVehicle(g, ready) \in GcsType /\ MineBusy(ShowVehicle(g, ready))
  BY <1>7, ShowVehicleDoes, WorkKeepsMineBusy
<1>8. gcs' \in GcsType /\ MineBusy(gcs')
  BY <1>4, <1>5, <1>6, <1>7
<1>9. offline' \in BOOLEAN /\ initial' \in BOOLEAN /\ prompt' \in BOOLEAN
  BY <1>0, <1>1, <1>5 DEF TypeEnv
<1> QED BY <1>2, <1>8, <1>9

\* Edits, answers and files change no transfer.
LEMMA QuietDoes ==
  ASSUME TypeInv, removeAll \/ saveToFile \/ loadFromFile \/ AnswerPrompt
  PROVE  gcs' \in GcsType /\ SameWork(gcs, gcs')
<1>0. gcs \in GcsType /\ initial \in BOOLEAN
  BY DEF TypeInv, TypeEnv
<1>1. CASE removeAll
  BY <1>0, <1>1, ClearEditorDoes DEF removeAll
<1>2. CASE saveToFile
  BY <1>0, <1>2 DEF saveToFile, GcsType, SameWork
<1>3. CASE loadFromFile
  <2>1. PICK plan \in Files :
          gcs' = [gcs EXCEPT !.view = plan, !.dirty = {}, !.forSave = FALSE, !.forUpload = TRUE]
    BY <1>3 DEF loadFromFile
  <2>2. plan \in Plans
    BY InstanceAssumption
  <2> QED BY <1>0, <2>1, <2>2 DEF GcsType, SameWork
<1>4. CASE AnswerPrompt
  <2>1. SameWork(gcs, gcs)
    BY DEF SameWork
  <2> QED BY <1>0, <1>4, <2>1, ClearEditorDoes, ShowVehicleDoes DEF AnswerPrompt
<1> QED BY <1>1, <1>2, <1>3, <1>4

LEMMA CountsDoes ==
  ASSUME TypeEnv, ops' = ops \/ Counts
  PROVE  ops' \in 0..MaxOps
<1>1. MaxOps \in Nat /\ ops \in 0..MaxOps
  BY InstanceAssumption DEF TypeEnv
<1> QED BY <1>1 DEF Counts

LEMMA TypeStep ==
  ASSUME TypeInv, [Next]_vars
  PROVE  TypeInv'
<1>0. gcs \in GcsType /\ TypeEnv /\ MineBusy(gcs)
  BY DEF TypeInv
<1>1. ASSUME NEW p \in Parts, EndTransaction(p)
      PROVE  TypeInv'
  <2>1. PICK ok \in BOOLEAN :
          /\ EndRead(p, ok) \/ EndWrite(p, ok) \/ EndRemove(p, ok)
          /\ ChainGoesOn(IF p \in gcs.mine THEN <<p>> ELSE <<>>, ok)
    BY <1>1 DEF EndTransaction
  <2>2. gcs' \in GcsType /\ MineBusy(gcs') /\ onboard' \in Plans
    BY <2>1, EndReadDoes, EndWriteDoes, EndRemoveDoes
  <2>3. UNCHANGED <<supported, offline, initial, prompt, ops>>
    BY <1>1 DEF EndTransaction
  <2>4. run' \in {"none", "load", "send", "disturbed"}
    BY <1>0, <2>1 DEF ChainGoesOn, TypeEnv
  <2>5. smooth' \in BOOLEAN
    BY <1>0, <2>1 DEF ChainGoesOn, TypeEnv
  <2> QED BY <1>0, <2>2, <2>3, <2>4, <2>5 DEF TypeInv, TypeEnv
<1>2. ASSUME NEW p \in Parts, Edit(p)
      PROVE  TypeInv'
  <2>1. gcs' \in GcsType /\ MineBusy(gcs')
    BY <1>0, <1>2, EditDoes, WorkKeepsMineBusy
  <2>2. ops' \in 0..MaxOps
    BY <1>0, <1>2, CountsDoes DEF Edit
  <2> QED BY <1>0, <1>2, <2>1, <2>2 DEF Edit, Roughens, envVars, TypeInv, TypeEnv
<1>3. ASSUME NEW p \in Parts, InitialLoad(p) \/ OtherWrites(p)
      PROVE  TypeInv'
  <2>1. gcs' \in GcsType /\ MineBusy(gcs')
    BY <1>3, BusyVehicleDoes
  <2>2. ops' \in 0..MaxOps
    BY <1>0, <1>3, CountsDoes DEF InitialLoad, OtherWrites
  <2>3. UNCHANGED envVars /\ Disturbs
    BY <1>3 DEF InitialLoad, OtherWrites
  <2> QED BY <1>0, <2>1, <2>2, <2>3 DEF Disturbs, histVars, envVars, TypeInv, TypeEnv
<1>4. ASSUME NEW p \in Parts, ChangedElsewhere(p)
      PROVE  TypeInv'
  <2>1. ops' \in 0..MaxOps
    BY <1>0, <1>4, CountsDoes DEF ChangedElsewhere
  <2>2. onboard' \in Plans
    <3>1. PICK c \in Contents(p) : onboard' = [onboard EXCEPT ![p] = c]
      BY <1>4 DEF ChangedElsewhere
    <3>2. onboard \in Plans
      BY <1>0 DEF TypeEnv
    <3> QED BY <3>1, <3>2, PlanUpdated
  <2> QED BY <1>0, <1>4, <2>1, <2>2 DEF ChangedElsewhere, Roughens, TypeInv, TypeEnv
<1>5. CASE loadFromVehicle \/ sendToVehicle
  <2>1. /\ gcs' \in GcsType /\ MineBusy(gcs')
        /\ run' \in {"none", "load", "send", "disturbed"} /\ smooth' = TRUE
    BY <1>5, BeginsDoes
  <2>2. ops' \in 0..MaxOps
    BY <1>0, <1>5, CountsDoes DEF loadFromVehicle, sendToVehicle
  <2>3. UNCHANGED envVars
    BY <1>5 DEF loadFromVehicle, sendToVehicle
  <2> QED BY <1>0, <2>1, <2>2, <2>3 DEF envVars, TypeInv, TypeEnv
<1>6. CASE removeAllFromVehicle
  <2>1. gcs' \in GcsType /\ MineBusy(gcs')
    BY <1>6, RemoveAllDoes
  <2>2. ops' \in 0..MaxOps
    BY <1>0, <1>6, CountsDoes DEF removeAllFromVehicle
  <2> QED BY <1>0, <1>6, <2>1, <2>2
       DEF removeAllFromVehicle, Disturbs, histVars, envVars, TypeInv, TypeEnv
<1>7. CASE removeAll \/ saveToFile \/ loadFromFile \/ AnswerPrompt
  <2>1. gcs' \in GcsType /\ MineBusy(gcs')
    BY <1>0, <1>7, QuietDoes, WorkKeepsMineBusy
  <2>2. ops' \in 0..MaxOps
    BY <1>0, <1>7, CountsDoes DEF removeAll, saveToFile, loadFromFile, AnswerPrompt
  <2>3. /\ UNCHANGED <<onboard, supported, offline, initial>> /\ prompt' \in BOOLEAN
        /\ Roughens \/ UNCHANGED histVars
    BY <1>0, <1>7 DEF removeAll, saveToFile, loadFromFile, AnswerPrompt, envVars, TypeEnv
  <2> QED BY <1>0, <2>1, <2>2, <2>3 DEF Roughens, histVars, TypeInv, TypeEnv
<1>8. CASE InitialLoadDone
  BY <1>0, <1>8 DEF InitialLoadDone, histVars, TypeInv, TypeEnv
<1>9. CASE activeVehicleChanged
  <2>1. /\ gcs' \in GcsType /\ MineBusy(gcs')
        /\ onboard' \in Plans /\ supported' \subseteq {"fence", "rally"}
        /\ offline' \in BOOLEAN /\ initial' \in BOOLEAN /\ prompt' \in BOOLEAN
    BY <1>9, VehicleChangedDoes
  <2>2. ops' \in 0..MaxOps
    BY <1>0, <1>9, CountsDoes DEF activeVehicleChanged
  <2>3. Disturbs
    BY <1>9 DEF activeVehicleChanged
  <2> QED BY <1>0, <2>1, <2>2, <2>3 DEF Disturbs, histVars, TypeInv, TypeEnv
<1>10. CASE UNCHANGED vars
  BY <1>0, <1>10 DEF vars, envVars, histVars, TypeInv, TypeEnv
<1> QED BY <1>1, <1>2, <1>3, <1>4, <1>5, <1>6, <1>7, <1>8, <1>9, <1>10 DEF Next

-----------------------------------------------------------------------------
(* The chain nobody disturbs *)

LEMMA ChainKept ==
  ASSUME IInv, SameWork(gcs, gcs'), supported' = supported, Roughens
  PROVE  ChainInv'
<1>1. CASE Followed
  <2>1. PICK p \in Parts : AtLeg(p)
    BY <1>1 DEF IInv, ChainInv
  <2>2. run' = run /\ legs' = legs /\ smooth' = FALSE
    BY <1>1 DEF Roughens
  <2>3. AtLeg(p)'
    BY <2>1, <2>2 DEF AtLeg, SameWork, Supports, Working, NextFlag, Before, FenceLeg
  <2> QED BY <1>1, <2>2, <2>3 DEF ChainInv, Followed
<1>2. CASE ~Followed
  BY <1>2 DEF IInv, ChainInv, Roughens, Followed
<1> QED BY <1>1, <1>2

LEMMA ChainDisturbed ==
  ASSUME IInv, Disturbs
  PROVE  ChainInv'
<1>1. CASE gcs.chain = {} /\ gcs.mine = {}
  <2>1. ~Followed
    BY <1>1 DEF IInv, ChainInv, AtLeg
  <2> QED BY <1>1, <2>1 DEF Disturbs, histVars, IInv, ChainInv, Followed
<1>2. CASE ~(gcs.chain = {} /\ gcs.mine = {})
  BY <1>2 DEF Disturbs, ChainInv, Followed
<1> QED BY <1>1, <1>2

\* In a chain nobody disturbs, only the part of the present leg can end.
LEMMA LegOfTransaction ==
  ASSUME IInv, Followed, NEW p \in Parts, EndTransaction(p)
  PROVE  AtLeg(p) /\ (smooth => SmoothSoFar(p))
<1>1. PICK q \in Parts : AtLeg(q) /\ (smooth => SmoothSoFar(q))
  BY DEF IInv, ChainInv
<1>2. gcs.busy[p] # "none"
  BY DEF EndTransaction, EndRead, EndWrite, EndRemove
<1>3. q = p
  BY <1>1, <1>2 DEF AtLeg, Working
<1> QED BY <1>1, <1>3

LEMMA LegEnds ==
  ASSUME IInv, Followed, NEW p \in Parts, EndTransaction(p)
  PROVE  /\ NextPart(p) = "none" => run' = "none" /\ legs' = <<>>
         /\ NextPart(p) # "none" => AtLeg(NextPart(p))' /\ run' = run
         /\ smooth' =>
              /\ \A q \in Done(p) \cup {p} : Equal(q)'
              /\ run = "load" =>
                   /\ (Done(p) \cup {p}) \cap gcs'.dirty = {}
                   /\ NextPart(p) # "none" => NextPart(p) \in gcs'.requested
                   /\ p = "rally" /\ supported = {"fence", "rally"} =>
                        gcs'.dirty = {} /\ ~gcs'.forSave /\ ~gcs'.forUpload
              /\ run = "send" /\ NextPart(p) # "none" =>
                   gcs'.sending[NextPart(p)] = gcs'.view[NextPart(p)]
<1>0. TypeInv /\ gcs \in GcsType /\ supported \subseteq {"fence", "rally"}
  BY DEF IInv, TypeInv, TypeEnv
<1>1. AtLeg(p) /\ (smooth => SmoothSoFar(p))
  BY LegOfTransaction
<1>2. PICK ok \in BOOLEAN :
        /\ EndRead(p, ok) \/ EndWrite(p, ok) \/ EndRemove(p, ok)
        /\ ChainGoesOn(IF p \in gcs.mine THEN <<p>> ELSE <<>>, ok)
  BY DEF EndTransaction
<1>3. supported' = supported
  BY DEF EndTransaction
<1>4. p \in gcs.mine /\ gcs.busy[p] = (IF run = "load" THEN "read" ELSE "write") /\ legs = Before(p)
  BY <1>1 DEF AtLeg, Working
<1>5. run \in {"load", "send"}
  BY DEF Followed
<1>6. \/ run = "load" /\ EndRead(p, ok)
      \/ run = "send" /\ EndWrite(p, ok)
  BY <1>2, <1>4, <1>5 DEF EndRead, EndWrite, EndRemove
<1>7. /\ NextPart(p) = "none" => gcs'.mine = {} /\ gcs'.chain = {}
      /\ NextPart(p) # "none" => LegBegun(run, NextPart(p))
  BY <1>0, <1>1, <1>6, EndReadDoes, EndWriteDoes
<1>8. smooth' => smooth /\ ok
  BY <1>2 DEF ChainGoesOn
<1>9. NextPart(p) = "none" => run' = "none" /\ legs' = <<>>
  BY <1>2, <1>7 DEF ChainGoesOn
<1>10. ASSUME NextPart(p) # "none"
       PROVE  AtLeg(NextPart(p))' /\ run' = run
  <2>0. PICK n \in Parts : n = NextPart(p)
    BY <1>0, <1>1, <1>10, LegsInOrder DEF AtLeg
  <2>1. Supports(n) /\ Before(n) = Before(p) \o <<p>>
    BY <1>0, <1>1, <1>10, <2>0, LegsInOrder DEF AtLeg
  <2>2. gcs'.mine = {n} /\ gcs'.busy = Working(run, n) /\ gcs'.chain = NextFlag(run, n)
    BY <1>7, <1>10, <2>0 DEF LegBegun
  <2>3. run' = run /\ legs' = legs \o <<p>>
    BY <1>2, <1>4, <2>2 DEF ChainGoesOn
  <2>4. NextPart(p)' = n
    BY <1>3, <2>0 DEF NextPart, RallyNext
  <2>5. AtLeg(n)'
    BY <1>3, <1>4, <2>1, <2>2, <2>3
       DEF AtLeg, Supports, Working, NextFlag, Before, FenceLeg
  <2> QED BY <2>3, <2>4, <2>5
<1>11. ASSUME smooth', run = "load"
       PROVE  /\ \A q \in Done(p) \cup {p} : Equal(q)'
              /\ (Done(p) \cup {p}) \cap gcs'.dirty = {}
              /\ NextPart(p) # "none" => NextPart(p) \in gcs'.requested
              /\ p = "rally" /\ supported = {"fence", "rally"} =>
                   gcs'.dirty = {} /\ ~gcs'.forSave /\ ~gcs'.forUpload
  <2>1. EndRead(p, ok) /\ ok /\ SmoothSoFar(p) /\ onboard' = onboard
    BY <1>1, <1>6, <1>8, <1>11 DEF EndRead
  <2>2. p \in gcs.requested /\ Done(p) \cap gcs.dirty = {} /\ \A q \in Done(p) : Equal(q)
    BY <1>11, <2>1 DEF SmoothSoFar
  <2>3. /\ \A q \in Parts \ {p} : Supports(q) =>
             gcs'.view[q] = gcs.view[q] /\ (q \in gcs'.dirty => q \in gcs.dirty)
        /\ p \notin gcs'.dirty
        /\ ~(p = "fence" /\ onboard[p] = {}) => gcs'.view[p] = onboard[p]
        /\ p = "rally" /\ gcs.dirty \subseteq {p} =>
             gcs'.dirty = {} /\ ~gcs'.forSave /\ ~gcs'.forUpload
    BY <1>0, <2>1, <2>2, EndReadDoes
  <2>4. \A q \in Done(p) : q \in Parts \ {p} /\ Supports(q)
    BY <1>0, <1>1 DEF Done, Parts, Supports, AtLeg
  <2>5. \A q \in Done(p) \cup {p} : Equal(q)'
    BY <2>1, <2>2, <2>3, <2>4 DEF Equal
  <2>6. (Done(p) \cup {p}) \cap gcs'.dirty = {}
    BY <2>2, <2>3, <2>4
  <2>7. NextPart(p) # "none" => NextPart(p) \in gcs'.requested
    BY <1>0, <1>1, <1>11, <2>1, EndReadDoes
  <2>8. ASSUME p = "rally", supported = {"fence", "rally"}
        PROVE  gcs'.dirty = {} /\ ~gcs'.forSave /\ ~gcs'.forUpload
    <3>1. Done(p) = {"mission", "fence"}
      BY <2>8 DEF Done
    <3>2. gcs.dirty \subseteq {p}
      BY <1>0, <2>2, <2>8, <3>1 DEF GcsType, Parts
    <3> QED BY <2>3, <2>8, <3>2
  <2> QED BY <2>5, <2>6, <2>7, <2>8
<1>12. ASSUME smooth', run = "send"
       PROVE  /\ \A q \in Done(p) \cup {p} : Equal(q)'
              /\ NextPart(p) # "none" =>
                   gcs'.sending[NextPart(p)] = gcs'.view[NextPart(p)]
  <2>1. EndWrite(p, ok) /\ ok /\ SmoothSoFar(p)
    BY <1>1, <1>6, <1>8, <1>12
  <2>2. gcs.sending[p] = gcs.view[p] /\ \A q \in Done(p) : Equal(q)
    BY <1>12, <2>1 DEF SmoothSoFar
  <2>3. /\ gcs'.view = gcs.view /\ onboard'[p] = gcs.sending[p]
        /\ \A q \in Parts \ {p} : onboard'[q] = onboard[q]
        /\ NextPart(p) # "none" => gcs'.sending[NextPart(p)] = gcs'.view[NextPart(p)]
    BY <1>0, <1>1, <1>12, <2>1, EndWriteDoes
  <2>4. \A q \in Done(p) : q \in Parts \ {p}
    BY <1>0, <1>1 DEF Done, Parts, Supports, AtLeg
  <2>5. \A q \in Done(p) \cup {p} : Equal(q)'
    BY <2>2, <2>3, <2>4 DEF Equal
  <2> QED BY <2>3, <2>5
<1> QED BY <1>5, <1>9, <1>10, <1>11, <1>12

LEMMA ChainStep ==
  ASSUME IInv, [Next]_vars
  PROVE  ChainInv'
<1>0. TypeInv /\ gcs \in GcsType /\ MineBusy(gcs)
  BY DEF IInv, TypeInv
<1>1. ASSUME NEW p \in Parts, EndTransaction(p), Followed
      PROVE  ChainInv'
  <2>1. CASE NextPart(p) = "none"
    BY <1>1, <2>1, LegEnds DEF ChainInv, Followed
  <2>2. CASE NextPart(p) # "none"
    <3>1. AtLeg(p) /\ supported \subseteq {"fence", "rally"} /\ supported' = supported
      BY <1>0, <1>1, LegOfTransaction DEF TypeInv, TypeEnv, EndTransaction
    <3>n. PICK n \in Parts : n = NextPart(p)
      BY <2>2, <3>1, LegsInOrder DEF AtLeg
    <3>2. Done(n) = Done(p) \cup {p}
      BY <2>2, <3>1, <3>n, LegsInOrder DEF AtLeg
    <3>3. NextPart(p)' = n /\ Done(n)' = Done(n)
      BY <3>1, <3>n DEF NextPart, RallyNext, Done
    <3>4. AtLeg(n)' /\ run' = run
      BY <1>1, <2>2, <3>3, LegEnds
    <3>5. ASSUME smooth' PROVE SmoothSoFar(n)'
      <4>1. \A q \in Done(n) : Equal(q)'
        BY <1>1, <3>2, <3>5, LegEnds
      <4>2. run = "load" => n \in gcs'.requested /\ Done(n) \cap gcs'.dirty = {}
        BY <1>1, <2>2, <3>n, <3>2, <3>5, LegEnds
      <4>3. run = "send" => gcs'.sending[n] = gcs'.view[n]
        BY <1>1, <2>2, <3>n, <3>5, LegEnds
      <4> QED BY <3>3, <3>4, <4>1, <4>2, <4>3 DEF SmoothSoFar
    <3>6. \E q \in Parts : AtLeg(q)' /\ (smooth' => SmoothSoFar(q)')
      BY <3>2, <3>4, <3>5
    <3>7. Followed'
      BY <1>1, <3>4 DEF Followed
    <3> QED BY <3>6, <3>7 DEF ChainInv
  <2> QED BY <2>1, <2>2
<1>2. ASSUME NEW p \in Parts, EndTransaction(p), ~Followed
      PROVE  ChainInv'
  <2>1. PICK ok \in BOOLEAN : ChainGoesOn(IF p \in gcs.mine THEN <<p>> ELSE <<>>, ok)
    BY <1>2 DEF EndTransaction
  <2> QED BY <1>2, <2>1 DEF ChainGoesOn, ChainInv, Followed
<1>3. ASSUME NEW p \in Parts, Edit(p)
      PROVE  ChainInv'
  BY <1>0, <1>3, EditDoes, ChainKept DEF Edit, envVars
<1>4. ASSUME NEW p \in Parts, InitialLoad(p) \/ OtherWrites(p)
      PROVE  ChainInv'
  BY <1>4, ChainDisturbed DEF InitialLoad, OtherWrites
<1>5. ASSUME NEW p \in Parts, ChangedElsewhere(p)
      PROVE  ChainInv'
  <2>1. SameWork(gcs, gcs')
    BY <1>5 DEF ChangedElsewhere, SameWork
  <2> QED BY <1>5, <2>1, ChainKept DEF ChangedElsewhere
<1>6. CASE loadFromVehicle \/ sendToVehicle
  <2>1. /\ smooth' = TRUE /\ legs' = <<>>
        /\ run' \in {"load", "send"} =>
             /\ LegBegun(run', "mission")
             /\ run' = "load" => "mission" \in gcs'.requested
             /\ run' = "send" => gcs'.sending["mission"] = gcs'.view["mission"]
    BY <1>0, <1>6, BeginsDoes
  <2>2. ASSUME Followed' PROVE AtLeg("mission")' /\ SmoothSoFar("mission")'
    <3>1. run' \in {"load", "send"}
      BY <2>2 DEF Followed
    <3>2. AtLeg("mission")'
      BY <2>1, <3>1 DEF AtLeg, LegBegun, Supports, Before, Working, NextFlag
    <3>3. SmoothSoFar("mission")'
      BY <2>1, <3>1 DEF SmoothSoFar, Done
    <3> QED BY <3>2, <3>3
  <2>3. "mission" \in Parts
    BY DEF Parts
  <2> QED BY <2>1, <2>2, <2>3 DEF ChainInv
<1>7. CASE removeAllFromVehicle
  BY <1>7, ChainDisturbed DEF removeAllFromVehicle
<1>8. CASE removeAll \/ loadFromFile \/ AnswerPrompt
  <2>1. SameWork(gcs, gcs')
    BY <1>0, <1>8, QuietDoes
  <2>2. Roughens /\ supported' = supported
    BY <1>8 DEF removeAll, loadFromFile, AnswerPrompt, envVars
  <2> QED BY <2>1, <2>2, ChainKept
<1>9. CASE saveToFile
  <2>1. ~Followed
    <3>1. SUFFICES ASSUME NEW p \in Parts, AtLeg(p) PROVE FALSE
      BY DEF IInv, ChainInv
    <3>2. gcs.busy[p] # "none"
      BY <1>0, <3>1 DEF AtLeg, MineBusy
    <3> QED BY <1>9, <3>2 DEF saveToFile, Sync
  <2> QED BY <1>9, <2>1 DEF saveToFile, histVars, IInv, ChainInv, Followed
<1>10. CASE InitialLoadDone \/ UNCHANGED vars
  <2>1. UNCHANGED <<gcs, onboard, supported, run, legs, smooth>>
    BY <1>10 DEF InitialLoadDone, vars, envVars, histVars
  <2>2. Followed' = Followed
    BY <2>1 DEF Followed
  <2>3. ASSUME NEW p \in Parts, AtLeg(p)
        PROVE  AtLeg(p)'
    BY <2>1, <2>3 DEF AtLeg, Supports, Working, NextFlag, Before, FenceLeg
  <2>4. ASSUME NEW p \in Parts, SmoothSoFar(p)
        PROVE  SmoothSoFar(p)'
    BY <2>1, <2>4 DEF SmoothSoFar, Done, Equal
  <2> QED BY <2>1, <2>2, <2>3, <2>4 DEF IInv, ChainInv
<1>11. CASE activeVehicleChanged
  BY <1>11, ChainDisturbed DEF activeVehicleChanged
<1> QED BY <1>1, <1>2, <1>3, <1>4, <1>5, <1>6, <1>7, <1>8, <1>9, <1>10, <1>11 DEF Next

-----------------------------------------------------------------------------
(* The theorems *)

LEMMA InitHolds ==
  ASSUME Init
  PROVE  IInv
<1>1. PICK v \in Vehicles \cup {NoVehicle} :
        onboard = v.plan /\ supported = v.supported /\ offline = (v = NoVehicle)
  BY DEF Init
<1>2. onboard \in Plans /\ supported \subseteq {"fence", "rally"}
  <2>1. CASE v = NoVehicle
    BY <1>1, <2>1, NothingIsPlan DEF NoVehicle
  <2>2. CASE v \in Vehicles
    BY <1>1, <2>2, InstanceAssumption
  <2> QED BY <2>1, <2>2
<1>3. ops \in 0..MaxOps
  BY InstanceAssumption DEF Init
<1>4. TypeEnv
  BY <1>1, <1>2, <1>3 DEF Init, TypeEnv
<1>5. gcs \in GcsType /\ gcs.mine = {}
  <2> DEFINE shown == IF initial THEN onboard ELSE Nothing
  <2>1. gcs = [view |-> shown, dirty |-> {}, requested |-> {}, forSave |-> FALSE,
               forUpload |-> FALSE, chain |-> {}, busy |-> Idle, mine |-> {},
               held |-> shown, sending |-> Nothing]
    BY DEF Init
  <2>2. shown \in Plans
    BY <1>2, NothingIsPlan
  <2>3. Idle \in [Parts -> {"none", "read", "write", "removeAll"}]
    BY DEF Idle
  <2> HIDE DEF shown
  <2> QED BY <2>1, <2>2, <2>3, NothingIsPlan DEF GcsType
<1>6. ChainInv
  BY DEF Init, ChainInv, Followed
<1> QED BY <1>4, <1>5, <1>6 DEF IInv, TypeInv, MineBusy

LEMMA Inductive == IInv /\ [Next]_vars => IInv'
  BY TypeStep, ChainStep DEF IInv

LEMMA InvariantHolds == Spec => []IInv
<1>1. Init => IInv
  BY InitHolds
<1> QED BY <1>1, Inductive, PTL DEF Spec

LEMMA ThreeParts == Cardinality(Parts) = 3
<1>1. IsFiniteSet({}) /\ Cardinality({}) = 0
  BY FS_EmptySet
<1>2. IsFiniteSet({"mission"}) /\ Cardinality({"mission"}) = 1
  BY <1>1, FS_Singleton
<1>3. IsFiniteSet({"mission", "fence"}) /\ Cardinality({"mission", "fence"}) = 2
  <2>1. {"mission", "fence"} = {"mission"} \cup {"fence"} /\ "fence" \notin {"mission"}
    OBVIOUS
  <2> QED BY <1>2, <2>1, FS_AddElement
<1>4. Parts = {"mission", "fence"} \cup {"rally"} /\ "rally" \notin {"mission", "fence"}
  BY DEF Parts
<1> QED BY <1>3, <1>4, FS_AddElement

\* The flags, lists, sequences and counters stay what they are, and a chain has at most
\* two parts behind it while it runs.
THEOREM ControllerTypeCorrect == Spec => []TypeOK
<1>1. IInv => TypeOK
  <2> SUFFICES ASSUME IInv PROVE TypeOK
    OBVIOUS
  <2> DEFINE one == <<"mission">>
  <2>1. one \in Seq(Parts) /\ <<"fence">> \in Seq(Parts) /\ <<>> \in Seq(Parts)
    BY DEF Parts
  <2>2. Len(one) = 1 /\ Len(<<"fence">>) = 1 /\ Len(<<>>) = 0
    OBVIOUS
  <2> HIDE DEF one
  <2>3. FenceLeg \in Seq(Parts) /\ Len(FenceLeg) \in {0, 1}
    BY <2>1, <2>2 DEF FenceLeg
  <2>4. one \o FenceLeg \in Seq(Parts) /\ Len(one \o FenceLeg) = Len(one) + Len(FenceLeg)
    BY <2>1, <2>3, ConcatProperties
  <2>5. Len(one \o FenceLeg) < 3
    BY <2>2, <2>3, <2>4
  <2>6. \A p \in Parts : Before(p) \in {<<>>, one, one \o FenceLeg}
    BY DEF Before, Parts, one
  <2>7. legs \in {<<>>, one, one \o FenceLeg}
    BY <2>6 DEF IInv, ChainInv, AtLeg
  <2>8. legs \in Seq(Parts) /\ Len(legs) < 3
    <3>1. CASE legs = <<>>
      BY <2>1, <3>1
    <3>2. CASE legs = one
      BY <2>1, <2>2, <3>2
    <3>3. CASE legs = one \o FenceLeg
      BY <2>4, <2>5, <3>3
    <3> QED BY <2>7, <3>1, <3>2, <3>3
  <2> QED BY <2>8, ThreeParts DEF IInv, TypeInv, TypeEnv, TypeOK
<1> QED BY <1>1, InvariantHolds, PTL

\* A chain ends with the last of its parts.
LEMMA ChainEndsWithLastPart ==
  ASSUME IInv, [Next]_vars, ChainEnding
  PROVE  \E p \in Parts : EndTransaction(p) /\ AtLeg(p) /\ NextPart(p) = "none"
<1>1. Followed /\ run' = "none" /\ run \in {"load", "send"}
  BY DEF ChainEnding, Followed
<1>2. \E p \in Parts : EndTransaction(p)
  <2>1. run' # run /\ run' # "disturbed"
    BY <1>1
  <2>2. gcs.mine # {}
    BY <1>1 DEF IInv, ChainInv, AtLeg
  <2>3. ~UNCHANGED vars /\ ~Roughens /\ ~UNCHANGED histVars
    BY <2>1 DEF vars, Roughens, histVars
  <2>4. ~Disturbs
    BY <2>1, <2>2 DEF Disturbs
  <2>5. ~ChainBegins("load") /\ ~ChainBegins("send")
    BY <1>1 DEF ChainBegins
  <2>6. Next
    BY <2>3
  <2> QED BY <2>3, <2>4, <2>5, <2>6
       DEF Next, Edit, InitialLoad, OtherWrites, ChangedElsewhere, loadFromVehicle,
           sendToVehicle, removeAllFromVehicle, removeAll, saveToFile, loadFromFile,
           AnswerPrompt, InitialLoadDone, activeVehicleChanged
<1>3. PICK p \in Parts : EndTransaction(p)
  BY <1>2
<1>4. AtLeg(p)
  BY <1>1, <1>3, LegOfTransaction
<1>5. NextPart(p) = "none"
  BY <1>1, <1>3, LegEnds
<1> QED BY <1>3, <1>4, <1>5

\* A chain of transfers that nobody disturbs transfers what the vehicle supports of
\* mission, fence and rally points, each part once and in this order.
THEOREM ChainsCoverThePlan == Spec => ChainCoversPlan
<1>1. IInv /\ [Next]_vars => [ChainEnding => \E p \in gcs.mine : PartsInOrder = Append(legs, p)]_vars
  <2> SUFFICES ASSUME IInv, [Next]_vars, ChainEnding
               PROVE  \E p \in gcs.mine : PartsInOrder = Append(legs, p)
    OBVIOUS
  <2>1. PICK p \in Parts : AtLeg(p) /\ NextPart(p) = "none"
    BY ChainEndsWithLastPart
  <2>2. p \in gcs.mine /\ legs = Before(p)
    BY <2>1 DEF AtLeg
  <2>3. Supports(p) /\ supported \subseteq {"fence", "rally"}
    BY <2>1 DEF AtLeg, IInv, TypeInv, TypeEnv
  <2>4. PartsInOrder = Append(Before(p), p)
    BY <2>1, <2>3, LegsInOrder
  <2> QED BY <2>2, <2>4
<1> QED BY <1>1, InvariantHolds, PTL DEF Spec, ChainCoversPlan

\* After a chain without failures, and without changes of either plan meanwhile, editor
\* and vehicle agree on every part the vehicle supports; a fence that the vehicle does not
\* send is the exception.
THEOREM ChainsMakePlansEqual == Spec => ChainMakesEqual
<1> DEFINE Agree == /\ gcs'.view["mission"] = onboard'["mission"]
                    /\ "rally" \in supported => gcs'.view["rally"] = onboard'["rally"]
                    /\ "fence" \in supported /\ onboard'["fence"] # {}
                          => gcs'.view["fence"] = onboard'["fence"]
<1>1. IInv /\ [Next]_vars => [ChainEnding /\ smooth' => Agree]_vars
  <2> SUFFICES ASSUME IInv, [Next]_vars, ChainEnding, smooth'
               PROVE  Agree
    OBVIOUS
  <2>1. PICK p \in Parts : EndTransaction(p) /\ AtLeg(p) /\ NextPart(p) = "none"
    BY ChainEndsWithLastPart
  <2>2. Supports(p) /\ supported \subseteq {"fence", "rally"}
    BY <2>1 DEF AtLeg, IInv, TypeInv, TypeEnv
  <2>3. \A q \in Parts : Supports(q) => q \in Done(p) \cup {p}
    BY <2>1, <2>2, LegsInOrder
  <2>4. \A q \in Done(p) \cup {p} : Equal(q)'
    BY <2>1, LegEnds DEF ChainEnding
  <2>5. \A q \in Parts : Supports(q) =>
          (q = "fence" /\ onboard'[q] = {}) \/ gcs'.view[q] = onboard'[q]
    BY <2>3, <2>4 DEF Equal
  <2> QED BY <2>5 DEF Supports, Parts
<1> QED BY <1>1, InvariantHolds, PTL DEF Spec, ChainMakesEqual

\* A download from a vehicle that supports every part, without an edit meanwhile, leaves
\* no unsaved and no unsent changes behind.
THEOREM DownloadsLeaveNothingDirty == Spec => DownloadIsClean
<1> DEFINE Clean == gcs'.dirty = {} /\ ~gcs'.forSave /\ ~gcs'.forUpload
<1>1. IInv /\ [Next]_vars =>
        [ChainEnding /\ run = "load" /\ smooth' /\ supported = {"fence", "rally"} => Clean]_vars
  <2> SUFFICES ASSUME IInv, [Next]_vars,
                      ChainEnding, run = "load", smooth', supported = {"fence", "rally"}
               PROVE  Clean
    OBVIOUS
  <2>1. PICK p \in Parts : EndTransaction(p) /\ NextPart(p) = "none"
    BY ChainEndsWithLastPart
  <2>2. p = "rally"
    BY <2>1 DEF NextPart, RallyNext, Parts
  <2> QED BY <2>1, <2>2, LegEnds DEF ChainEnding
<1> QED BY <1>1, InvariantHolds, PTL DEF Spec, DownloadIsClean
=============================================================================
