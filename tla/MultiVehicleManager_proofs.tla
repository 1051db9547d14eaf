--------------------- MODULE MultiVehicleManager_proofs ---------------------
(* Theorems about MultiVehicleManager, for every choice of the constants. *)
EXTENDS MultiVehicleManager, SequenceTheorems, FiniteSetTheorems, WellFoundedInduction, TLAPS

\* No link is twice in the list of a manager.
NoRepeats(s) == \A i, j \in 1..Len(s) : s[i] = s[j] => i = j

\* The first high latency link of a list: since none is ever found lost, it is the only one
\* that is chosen, until it goes.
FirstHigh(s, l) == \E i \in 1..Len(s) : /\ s[i] = l /\ HighLatency(l)
                                         /\ \A j \in 1..Len(s) : j < i => ~HighLatency(s[j])

\* The high latency links of a manager are told what they should be, but for the refused.
Controlled(m) ==
    /\ \A l \in HeldBy(m) \ m.refused : l \in m.told <=> l = m.primary /\ HighLatency(l)
    /\ \A l \in m.told \cup {m.primary} : HighLatency(l) => FirstHigh(m.links, l)

\* What holds of a manager even while its primary link is to be chosen anew: a high
\* latency link is never found lost.
Sane(m) ==
    /\ m \in ManagerType /\ NoRepeats(m.links)
    /\ m.primary \in HeldBy(m) \cup {NoLink}
    /\ \A l \in m.lost : ~HighLatency(l)
    /\ m.told \subseteq {l \in HeldBy(m) : HighLatency(l)}
    /\ ~m.picked => Controlled(m)

\* The primary link is as good as any.
Chosen(m) ==
    LET wanted == {l \in Live(m) : Good(l)}
    IN  m.handed \/ m.primary \in (IF wanted # {} THEN wanted
                                   ELSE IF Live(m) # {} THEN Live(m)
                                   ELSE HeldBy(m) \cup {NoLink})

Sound(m) == Sane(m) /\ Chosen(m)

-----------------------------------------------------------------------------
(* Lists of links *)

LEMMA Least ==
  ASSUME NEW W, W \subseteq Nat, W # {}
  PROVE  Min(W) \in W /\ \A j \in W : Min(W) =< j
<1> DEFINE R == OpToRel(<, Nat)
<1>1. IsWellFoundedOn(R, Nat)
  BY NatLessThanWellFounded
<1>2. \A a, b \in Nat : <<a, b>> \in R <=> a < b
  BY DEF OpToRel
<1> HIDE DEF R
<1>3. PICK i \in W : \A j \in W : ~ (<<j, i>> \in R)
  BY <1>1, WFMin
<1>4. ASSUME NEW j \in W PROVE i =< j
  <2>1. i \in Nat /\ j \in Nat /\ ~ (j < i)
    BY <1>2, <1>3
  <2> QED BY <2>1
<1> QED BY <1>4 DEF Min

LEMMA Held ==
  ASSUME NEW m, m.links \in Seq(Links)
  PROVE  /\ \A l : l \in HeldBy(m) <=> \E i \in 1..Len(m.links) : m.links[i] = l
         /\ HeldBy(m) \subseteq Links /\ NoLink \notin HeldBy(m)
         /\ HeldBy(m) = {} <=> m.links = <<>>
<1>1. /\ Len(m.links) \in Nat /\ DOMAIN m.links = 1..Len(m.links)
      /\ \A i \in 1..Len(m.links) : m.links[i] \in Links
  BY LenProperties, ElementOfSeq
<1>2. \A l : l \in HeldBy(m) <=> \E i \in 1..Len(m.links) : m.links[i] = l
  BY <1>1 DEF HeldBy, Range
<1>3. HeldBy(m) \subseteq Links /\ NoLink \notin HeldBy(m)
  BY <1>1, <1>2, LinksAssumption DEF NoLink
<1>4. HeldBy(m) = {} <=> m.links = <<>>
  <2>1. Len(m.links) # 0 => m.links[1] \in HeldBy(m)
    BY <1>1, <1>2
  <2>2. m.links = <<>> <=> Len(m.links) = 0
    BY EmptySeq
  <2> QED BY <1>1, <1>2, <2>1, <2>2
<1> QED BY <1>2, <1>3, <1>4

LEMMA FirstLiveIs ==
  ASSUME NEW m, m.links \in Seq(Links), NEW kinds
  PROVE  LET x == FirstLive(m, kinds)
         IN  \/ x = NoLink /\ \A l \in Live(m) : Kind[l] \notin kinds
             \/ /\ x # NoLink /\ x \in Live(m) /\ Kind[x] \in kinds
                /\ \E i \in 1..Len(m.links) :
                      /\ m.links[i] = x
                      /\ \A j \in 1..Len(m.links) :
                            m.links[j] \notin m.lost /\ Kind[m.links[j]] \in kinds => i =< j
<1> DEFINE fit == {i \in DOMAIN m.links : m.links[i] \notin m.lost /\ Kind[m.links[i]] \in kinds}
<1>1. fit \subseteq Nat /\ DOMAIN m.links = 1..Len(m.links)
  BY LenProperties
<1>2. FirstLive(m, kinds) = IF fit = {} THEN NoLink ELSE m.links[Min(fit)]
  BY DEF FirstLive
<1>3. CASE fit = {}
  <2>1. \A l \in Live(m) : \E i \in DOMAIN m.links : m.links[i] = l
    BY <1>1, Held DEF Live
  <2> QED BY <1>2, <1>3, <2>1 DEF Live
<1>4. CASE fit # {}
  <2>1. Min(fit) \in fit /\ \A j \in fit : Min(fit) =< j
    BY <1>1, <1>4, Least
  <2>2. \A j \in 1..Len(m.links) : m.links[j] \notin m.lost /\ Kind[m.links[j]] \in kinds => j \in fit
    BY <1>1
  <2>3. PICK i \in fit : i = Min(fit)
    BY <2>1
  <2>4. i \in 1..Len(m.links) /\ m.links[i] \notin m.lost /\ Kind[m.links[i]] \in kinds
    BY <1>1
  <2>5. FirstLive(m, kinds) = m.links[i]
    BY <1>2, <1>4, <2>3
  <2> HIDE DEF fit
  <2>6. m.links[i] \in HeldBy(m) /\ m.links[i] # NoLink
    BY <2>4, Held
  <2>7. \A j \in 1..Len(m.links) :
            m.links[j] \notin m.lost /\ Kind[m.links[j]] \in kinds => i =< j
    BY <2>1, <2>2, <2>3
  <2> QED BY <2>4, <2>5, <2>6, <2>7 DEF Live
<1> QED BY <1>3, <1>4

LEMMA AppendHeld ==
  ASSUME NEW s \in Seq(Links), NoRepeats(s), NEW l \in Links, l \notin Range(s)
  PROVE  /\ Append(s, l) \in Seq(Links) /\ NoRepeats(Append(s, l))
         /\ Range(Append(s, l)) = Range(s) \cup {l}
         /\ \A k \in Range(s) : FirstHigh(s, k) => FirstHigh(Append(s, l), k)
<1>1. /\ Append(s, l) \in Seq(Links) /\ Len(Append(s, l)) = Len(s) + 1
      /\ \A i \in 1..Len(s) : Append(s, l)[i] = s[i]
      /\ Append(s, l)[Len(s) + 1] = l
  BY AppendProperties
<1>2. Len(s) \in Nat /\ DOMAIN s = 1..Len(s) /\ DOMAIN Append(s, l) = 1..Len(s) + 1
  BY <1>1, LenProperties
<1>3. \A i \in 1..Len(s) : s[i] # l
  BY <1>2 DEF Range
<1>4. 1..(Len(s) + 1) = 1..Len(s) \cup {Len(s) + 1}
  BY <1>2
<1>5. Range(Append(s, l)) = Range(s) \cup {l}
  BY <1>1, <1>2, <1>4 DEF Range
<1>6. NoRepeats(Append(s, l))
  <2> SUFFICES ASSUME NEW i \in 1..(Len(s) + 1), NEW j \in 1..(Len(s) + 1),
                      Append(s, l)[i] = Append(s, l)[j]
               PROVE  i = j
    BY <1>1 DEF NoRepeats
  <2> QED BY <1>1, <1>3, <1>4 DEF NoRepeats
<1>7. ASSUME NEW k, FirstHigh(s, k) PROVE FirstHigh(Append(s, l), k)
  <2>1. PICK i \in 1..Len(s) : /\ s[i] = k /\ HighLatency(k)
                               /\ \A j \in 1..Len(s) : j < i => ~HighLatency(s[j])
    BY <1>7 DEF FirstHigh
  <2>2. ASSUME NEW j \in 1..(Len(s) + 1), j < i PROVE ~HighLatency(Append(s, l)[j])
    <3>1. j \in 1..Len(s)
      BY <1>2, <2>2
    <3> QED BY <1>1, <2>1, <2>2, <3>1
  <2>3. i \in 1..(Len(s) + 1) /\ Append(s, l)[i] = k
    BY <1>1, <1>4, <2>1
  <2> QED BY <1>1, <2>1, <2>2, <2>3 DEF FirstHigh
<1> QED BY <1>1, <1>5, <1>6, <1>7

LEMMA RemoveHeld ==
  ASSUME NEW s \in Seq(Links), NoRepeats(s), NEW k \in 1..Len(s)
  PROVE  /\ RemoveAt(s, k) \in Seq(Links) /\ NoRepeats(RemoveAt(s, k))
         /\ Range(RemoveAt(s, k)) = Range(s) \ {s[k]}
         /\ \A l \in Range(s) \ {s[k]} : FirstHigh(s, l) => FirstHigh(RemoveAt(s, k), l)
<1> DEFINE n == Len(s)
           a == SubSeq(s, 1, k - 1)
           b == SubSeq(s, k + 1, n)
           r == RemoveAt(s, k)
<1>1. n \in Nat /\ DOMAIN s = 1..n /\ k \in Nat /\ 1 <= k /\ k <= n
  BY LenProperties
<1>2. a \in Seq(Links) /\ Len(a) = k - 1 /\ \A i \in 1..(k - 1) : a[i] = s[i]
  <2>1. \A i \in 1..(k - 1) : s[i] \in Links
    BY <1>1, ElementOfSeq
  <2> QED BY <1>1, <2>1, SubSeqProperties
<1>3. b \in Seq(Links) /\ Len(b) = n - k /\ \A i \in 1..(n - k) : b[i] = s[k + i]
  <2>1. \A i \in (k + 1)..n : s[i] \in Links
    BY <1>1, ElementOfSeq
  <2>2. k + 1 \in Int /\ n \in Int /\ n - (k + 1) + 1 = n - k
    BY <1>1
  <2>3. b \in Seq(Links) /\ Len(b) = IF k + 1 <= n THEN n - (k + 1) + 1 ELSE 0
    BY <2>1, <2>2, SubSeqProperties
  <2>4. \A i \in 1..(n - k) : b[i] = s[k + 1 + i - 1]
    BY <2>1, <2>2, SubSeqProperties
  <2>5. \A i \in 1..(n - k) : k + 1 + i - 1 = k + i
    BY <1>1
  <2>6. (IF k + 1 <= n THEN n - (k + 1) + 1 ELSE 0) = n - k
    <3>1. \A x, y \in Nat : x <= y /\ ~ (x + 1 <= y) => y - x = 0
      OBVIOUS
    <3> HIDE DEF n
    <3> QED BY <1>1, <2>2, <3>1
  <2> HIDE DEF b
  <2> QED BY <2>3, <2>4, <2>5, <2>6
<1>4. r = a \o b
  BY DEF RemoveAt
<1> HIDE DEF a, b, r
<1>5. /\ r \in Seq(Links) /\ Len(r) = n - 1
      /\ \A i \in 1..(n - 1) : r[i] = IF i < k THEN s[i] ELSE s[i + 1]
  <2>1. r \in Seq(Links) /\ Len(r) = Len(a) + Len(b)
    BY <1>2, <1>3, <1>4, ConcatProperties
  <2>2. \A i \in 1..(n - 1) : r[i] = IF i <= Len(a) THEN a[i] ELSE b[i - Len(a)]
    BY <1>1, <1>2, <1>3, <1>4, ConcatProperties
  <2>3. ASSUME NEW i \in 1..(n - 1) PROVE r[i] = IF i < k THEN s[i] ELSE s[i + 1]
    <3>1. CASE i < k
      BY <1>1, <1>2, <2>2, <3>1
    <3>2. CASE ~ (i < k)
      <4>1. i - (k - 1) \in 1..(n - k) /\ k + (i - (k - 1)) = i + 1 /\ ~ (i <= k - 1)
        BY <1>1, <3>2
      <4> QED BY <1>2, <1>3, <2>2, <3>2, <4>1
    <3> QED BY <3>1, <3>2
  <2> QED BY <1>1, <1>2, <1>3, <2>1, <2>3
<1>6. DOMAIN r = 1..(n - 1)
  BY <1>5, LenProperties
<1>7. NoRepeats(r)
  <2> SUFFICES ASSUME NEW i \in 1..(n - 1), NEW j \in 1..(n - 1), r[i] = r[j]
               PROVE  i = j
    BY <1>5 DEF NoRepeats
  <2>1. /\ i \in 1..n /\ j \in 1..n /\ i + 1 \in 1..n /\ j + 1 \in 1..n
    BY <1>1
  <2>2. \A x, y \in 1..n : s[x] = s[y] => x = y
    BY DEF NoRepeats
  <2>3. /\ r[i] = IF i < k THEN s[i] ELSE s[i + 1]
        /\ r[j] = IF j < k THEN s[j] ELSE s[j + 1]
    BY <1>5
  <2>4. CASE i < k
    <3>1. CASE j < k
      BY <2>1, <2>2, <2>3, <2>4, <3>1
    <3>2. CASE ~(j < k)
      <4>1. i = j + 1
        BY <2>1, <2>2, <2>3, <2>4, <3>2
      <4> QED BY <1>1, <2>4, <3>2, <4>1
    <3> QED BY <3>1, <3>2
  <2>5. CASE ~(i < k)
    <3>1. CASE j < k
      <4>1. i + 1 = j
        BY <2>1, <2>2, <2>3, <2>5, <3>1
      <4> QED BY <1>1, <2>5, <3>1, <4>1
    <3>2. CASE ~(j < k)
      <4>1. i + 1 = j + 1
        BY <2>1, <2>2, <2>3, <2>5, <3>2
      <4> QED BY <4>1
    <3> QED BY <3>1, <3>2
  <2> QED BY <2>4, <2>5
<1>8. Range(r) = Range(s) \ {s[k]}
  <2>1. ASSUME NEW i \in 1..(n - 1) PROVE r[i] \in Range(s) \ {s[k]}
    <3>1. i \in 1..n /\ i + 1 \in 1..n
      BY <1>1
    <3>2. \A x, y \in 1..n : s[x] = s[y] => x = y
      BY DEF NoRepeats
    <3>3. r[i] = IF i < k THEN s[i] ELSE s[i + 1]
      BY <1>5
    <3>4. i # k => s[i] # s[k]
      BY <1>1, <3>1, <3>2
    <3>5. i + 1 # k => s[i + 1] # s[k]
      BY <1>1, <3>1, <3>2
    <3>6. s[i] \in Range(s) /\ s[i + 1] \in Range(s)
      BY <1>1, <3>1 DEF Range
    <3> QED BY <1>1, <3>3, <3>4, <3>5, <3>6
  <2>2. ASSUME NEW i \in 1..n, s[i] # s[k] PROVE \E j \in 1..(n - 1) : r[j] = s[i]
    <3>1. CASE i < k
      <4>1. i \in 1..(n - 1)
        BY <1>1, <3>1
      <4> QED BY <1>5, <3>1, <4>1
    <3>2. CASE i > k
      <4>1. i - 1 \in 1..(n - 1) /\ ~ (i - 1 < k) /\ i - 1 + 1 = i
        BY <1>1, <3>2
      <4> QED BY <1>5, <4>1
    <3>3. i < k \/ i > k
      BY <1>1, <2>2
    <3> QED BY <3>1, <3>2, <3>3
  <2>3. \A x : x \in Range(s) <=> \E i \in 1..n : s[i] = x
    BY <1>1 DEF Range
  <2>4. \A x : x \in Range(r) <=> \E i \in 1..(n - 1) : r[i] = x
    BY <1>6 DEF Range
  <2> QED BY <2>1, <2>2, <2>3, <2>4
<1>9. ASSUME NEW l, l # s[k], FirstHigh(s, l) PROVE FirstHigh(r, l)
  <2>1. PICK i \in 1..n : /\ s[i] = l /\ HighLatency(l)
                          /\ \A j \in 1..n : j < i => ~HighLatency(s[j])
    BY <1>9 DEF FirstHigh
  <2>2. i # k /\ i \in Nat
    BY <1>1, <1>9, <2>1
  <2>3. \A j \in 1..(n - 1) : r[j] = IF j < k THEN s[j] ELSE s[j + 1]
    BY <1>5
  <2> DEFINE p == IF i < k THEN i ELSE i - 1
  <2>4. p \in 1..(n - 1) /\ (IF p < k THEN p ELSE p + 1) = i
    BY <1>1, <2>1, <2>2
  <2>5. r[p] = l
    BY <2>1, <2>3, <2>4
  <2>6. ASSUME NEW j \in 1..(n - 1), j < p PROVE ~HighLatency(r[j])
    <3>1. CASE j < k
      <4>1. j \in 1..n /\ j < i
        BY <1>1, <2>2, <2>6, <3>1
      <4> QED BY <2>1, <2>3, <3>1, <4>1
    <3>2. CASE ~(j < k)
      <4>1. j + 1 \in 1..n /\ j + 1 < i
        BY <1>1, <2>2, <2>6, <3>2
      <4> QED BY <2>1, <2>3, <3>2, <4>1
    <3> QED BY <3>1, <3>2
  <2> HIDE DEF p
  <2> QED BY <1>5, <2>1, <2>4, <2>5, <2>6 DEF FirstHigh
<1> QED BY <1>5, <1>7, <1>8, <1>9 DEF r

-----------------------------------------------------------------------------
(* One manager *)

\* n has the links that m has.
SameLinks(m, n) ==
    n.links = m.links /\ n.lost = m.lost /\ n.closed = m.closed /\ n.autoDisconnect = m.autoDisconnect

LEMMA ManagerFields ==
  ASSUME NEW m \in ManagerType
  PROVE  /\ m.links \in Seq(Links) /\ m.lost \subseteq Links /\ m.overdue \subseteq Links
         /\ m.primary \in Links \cup {NoLink} /\ m.commLost \in BOOLEAN /\ m.enabled \in BOOLEAN
         /\ m.autoDisconnect \in BOOLEAN /\ m.closed \in BOOLEAN /\ m.told \subseteq Links
         /\ m.picked \in BOOLEAN /\ m.handed \in BOOLEAN
         /\ m.queue \in {"free", "waits", "stopped"} /\ m.refused \subseteq Links
BY DEF ManagerType

LEMMA NewIsSound ==
  /\ Sound(NewManager) /\ HeldBy(NewManager) = {} /\ NewManager.links = <<>>
  /\ ~NewManager.closed
<1>1. NewManager \in ManagerType
  <2>1. <<>> \in Seq(Links)
    OBVIOUS
  <2> QED BY <2>1 DEF NewManager, ManagerType
<1>2. NewManager.links = <<>> /\ ~NewManager.closed /\ NewManager.primary = NoLink
      /\ NewManager.lost = {} /\ NewManager.told = {}
  BY DEF NewManager
<1>3. HeldBy(NewManager) = {}
  BY <1>2, Held, <1>1, ManagerFields
<1>4. NoRepeats(NewManager.links)
  BY <1>2 DEF NoRepeats
<1>5. Sane(NewManager)
  BY <1>1, <1>2, <1>3, <1>4 DEF Sane, Controlled, HighLatency
<1>6. Chosen(NewManager)
  BY <1>2, <1>3 DEF Chosen, Live
<1> QED BY <1>2, <1>3, <1>5, <1>6 DEF Sound

\* The best link is live and of the best kind there is; a high latency link stays.
LEMMA BestIs ==
  ASSUME NEW m, Sane(m)
  PROVE  LET best == bestActivePrimaryLink(m)
             wanted == {l \in Live(m) : Good(l)}
         IN  /\ best = NoLink => Live(m) = {} /\ ~HighLatency(m.primary)
             /\ best # NoLink => best \in Live(m) /\ (wanted # {} => Good(best))
             /\ HighLatency(best) => best = m.primary \/ FirstHigh(m.links, best)
<1> DEFINE u == FirstLive(m, {"usb"})
           n == FirstLive(m, {"normal"})
           h == FirstLive(m, {"highLatency"})
<1>1. m.links \in Seq(Links)
  BY ManagerFields DEF Sane
<1>2. \/ u = NoLink /\ \A l \in Live(m) : Kind[l] # "usb"
      \/ u # NoLink /\ u \in Live(m) /\ Kind[u] = "usb"
  BY <1>1, FirstLiveIs
<1>3. \/ n = NoLink /\ \A l \in Live(m) : Kind[l] # "normal"
      \/ n # NoLink /\ n \in Live(m) /\ Kind[n] = "normal"
  BY <1>1, FirstLiveIs
<1>4. \/ h = NoLink /\ \A l \in Live(m) : Kind[l] # "highLatency"
      \/ h # NoLink /\ h \in Live(m) /\ Kind[h] = "highLatency"
  BY <1>1, FirstLiveIs
<1>5. \A l \in Live(m) : Kind[l] \in {"usb", "normal", "highLatency"}
  BY <1>1, Held, LinksAssumption DEF Live
<1>6. HighLatency(m.primary) => m.primary \in Live(m) /\ m.primary # NoLink
  BY DEF Sane, HighLatency, Live
<1>7. bestActivePrimaryLink(m) =
        IF u # NoLink THEN u ELSE IF n # NoLink THEN n
        ELSE IF HighLatency(m.primary) THEN m.primary ELSE h
  BY DEF bestActivePrimaryLink
<1>8. h # NoLink => FirstHigh(m.links, h)
  <2> SUFFICES ASSUME h # NoLink PROVE FirstHigh(m.links, h)
    OBVIOUS
  <2>1. PICK i \in 1..Len(m.links) :
            /\ m.links[i] = h
            /\ \A j \in 1..Len(m.links) :
                  m.links[j] \notin m.lost /\ Kind[m.links[j]] \in {"highLatency"} => i =< j
    BY <1>1, FirstLiveIs
  <2>2. HighLatency(h)
    BY <1>4 DEF HighLatency
  <2> HIDE DEF h
  <2>3. ASSUME NEW j \in 1..Len(m.links), j < i PROVE ~HighLatency(m.links[j])
    <3>1. ~(i =< j)
      BY <1>1, <2>3, LenProperties
    <3> QED BY <2>1, <3>1 DEF Sane, HighLatency
  <2> QED BY <2>1, <2>2, <2>3 DEF FirstHigh
<1>9. (u # NoLink => Kind[u] # "highLatency") /\ (n # NoLink => Kind[n] # "highLatency")
  BY <1>2, <1>3
<1> HIDE DEF u, n, h
<1>10. HighLatency(bestActivePrimaryLink(m)) =>
          \/ bestActivePrimaryLink(m) = m.primary
          \/ FirstHigh(m.links, bestActivePrimaryLink(m))
  BY <1>7, <1>8, <1>9 DEF HighLatency
<1> QED BY <1>2, <1>3, <1>4, <1>5, <1>6, <1>7, <1>10 DEF Good

\* The commands of a switch leave every link but the refused ones as told.
LEMMA SwitchControlled ==
  ASSUME NEW m, Sane(m), ~m.picked, NEW best \in Links \cup {NoLink}, best # m.primary,
         HighLatency(best) => FirstHigh(m.links, best),
         NEW links, links = {l \in {m.primary, best} : HighLatency(l)}, NEW n,
         n = SwitchTo(m, best, links)
  PROVE  Controlled(n)
<1> DEFINE sent == IF m.queue # "free" THEN {}
                   ELSE IF m.primary \in links THEN {m.primary} ELSE links
<1>1. m \in ManagerType /\ Controlled(m)
  BY DEF Sane
<1>2. /\ n.links = m.links /\ n.primary = best
      /\ n.told = (m.told \ sent) \cup (sent \cap {best})
      /\ n.refused = (m.refused \ sent) \cup (links \ sent)
  BY <1>1 DEF SwitchTo, ManagerType
<1>3. sent \subseteq links /\ (best \in sent => m.primary \notin links)
  OBVIOUS
<1> HIDE DEF sent
<1>4. ASSUME NEW l \in HeldBy(m) \ n.refused PROVE l \in n.told <=> l = best /\ HighLatency(l)
  <2>1. CASE l \in sent
    BY <1>2, <1>3, <2>1
  <2>2. CASE l \notin sent
    <3>1. l \notin links /\ l \notin m.refused
      BY <1>2, <1>4, <2>2
    <3> QED BY <1>1, <1>2, <2>2, <3>1 DEF Controlled
  <2> QED BY <2>1, <2>2
<1>5. ASSUME NEW l \in n.told \cup {best}, HighLatency(l) PROVE FirstHigh(m.links, l)
  BY <1>1, <1>2, <1>5 DEF Controlled
<1> QED BY <1>2, <1>4, <1>5 DEF Controlled, HeldBy

LEMMA UpdateSound ==
  ASSUME NEW m, Sane(m)
  PROVE  Sound(updatePrimaryLink(m)) /\ SameLinks(m, updatePrimaryLink(m))
<1> DEFINE best == bestActivePrimaryLink(m)
           links == {l \in {m.primary, best} : HighLatency(l)}
           kept == [m EXCEPT !.handed = FALSE]
           new == SwitchTo(m, best, links)
<1>1. m \in ManagerType
  BY DEF Sane
<1>2. updatePrimaryLink(m) = IF Stays(m, best) THEN kept ELSE new
  BY DEF updatePrimaryLink
<1>3. /\ best = NoLink => Live(m) = {} /\ ~HighLatency(m.primary)
      /\ best # NoLink => best \in Live(m) /\ ({l \in Live(m) : Good(l)} # {} => Good(best))
      /\ HighLatency(best) => best = m.primary \/ FirstHigh(m.links, best)
  BY BestIs
<1>4. \A l \in Live(m) : l # NoLink /\ (HighLatency(l) <=> ~Good(l))
  BY <1>1, ManagerFields, Held DEF Live, HighLatency, Good
<1>5. Live(m) \subseteq HeldBy(m) /\ HeldBy(m) \subseteq Links
  BY <1>1, ManagerFields, Held DEF Live
<1>6. best \in HeldBy(m) \cup {NoLink}
  BY <1>3, <1>5
<1> HIDE DEF best
<1>7. CASE Stays(m, best)
  <2>1. kept \in ManagerType /\ SameLinks(m, kept)
    BY <1>1 DEF ManagerType, SameLinks
  <2>2. /\ kept.primary = m.primary /\ kept.told = m.told /\ kept.picked = m.picked
        /\ kept.refused = m.refused
    BY <1>1 DEF ManagerType
  <2> HIDE DEF kept
  <2>3. HeldBy(kept) = HeldBy(m) /\ Live(kept) = Live(m)
    BY <2>1 DEF HeldBy, Live, SameLinks
  <2>4. Sane(kept)
    BY <2>1, <2>2, <2>3 DEF Sane, Controlled, SameLinks
  <2>5. Chosen(kept)
    BY <1>3, <1>4, <1>7, <2>2, <2>3 DEF Chosen, Sane, Stays
  <2> QED BY <1>2, <1>7, <2>1, <2>4, <2>5 DEF Sound
<1>8. CASE ~Stays(m, best)
  <2>1. PICK n : n = new
    OBVIOUS
  <2> DEFINE sent == IF m.queue # "free" THEN {}
                     ELSE IF m.primary \in links THEN {m.primary} ELSE links
             queue == IF sent = {} THEN m.queue ELSE "waits"
             told == (m.told \ sent) \cup (sent \cap {best})
             refused == (m.refused \ sent) \cup (links \ sent)
             made == [m EXCEPT !.handed = FALSE, !.primary = best, !.queue = queue,
                               !.told = told, !.refused = refused]
  <2>2. n = made
    BY <1>1, <2>1 DEF SwitchTo, ManagerType
  <2>3. \A l \in links : l \in HeldBy(m) /\ HighLatency(l)
    BY <1>6 DEF Sane, HighLatency
  <2>4. sent \subseteq links
    OBVIOUS
  <2> HIDE DEF links, sent
  <2>5. told \subseteq {l \in HeldBy(m) : HighLatency(l)} /\ refused \subseteq Links
    BY <1>1, <1>5, <2>3, <2>4, ManagerFields DEF Sane
  <2>6. queue \in {"free", "waits", "stopped"} /\ best \in Links \cup {NoLink}
    BY <1>1, <1>5, <1>6, ManagerFields
  <2> HIDE DEF told, refused, queue
  <2>7. told \subseteq Links
    BY <1>5, <2>5
  <2>8. made \in ManagerType /\ SameLinks(m, made)
    BY <1>1, <2>5, <2>6, <2>7 DEF ManagerType, SameLinks
  <2>9. made.primary = best /\ made.told = told /\ made.picked = m.picked
    BY <1>1 DEF ManagerType
  <2> HIDE DEF made
  <2>10. HeldBy(n) = HeldBy(m) /\ Live(n) = Live(m)
    BY <2>2, <2>8 DEF HeldBy, Live, SameLinks
  <2>11. ~m.picked => Controlled(n)
    <3>1. best # m.primary
      BY <1>8 DEF Stays
    <3>2. HighLatency(best) => FirstHigh(m.links, best)
      BY <1>3, <3>1
    <3>3. links = {l \in {m.primary, best} : HighLatency(l)}
      BY DEF links
    <3> HIDE DEF new
    <3>4. new = SwitchTo(m, best, links)
      BY DEF new
    <3> QED BY <2>1, <2>6, <3>1, <3>2, <3>3, <3>4, SwitchControlled
  <2>12. Sane(n)
    BY <1>6, <2>2, <2>5, <2>8, <2>9, <2>10, <2>11 DEF Sane, SameLinks
  <2>13. Chosen(n)
    BY <1>3, <2>2, <2>9, <2>10 DEF Chosen
  <2> QED BY <1>2, <1>8, <2>1, <2>2, <2>8, <2>12, <2>13 DEF Sound
<1> QED BY <1>7, <1>8

LEMMA AddLinkSound ==
  ASSUME NEW m, Sound(m), NEW l \in Links, l \notin HeldBy(m)
  PROVE  LET n == addLink(m, l)
         IN  Sound(n) /\ HeldBy(n) = HeldBy(m) \cup {l} /\ n.closed = m.closed
<1> DEFINE longer == [m EXCEPT !.links = Append(@, l)]
<1>1. m \in ManagerType /\ Sane(m)
  BY DEF Sound, Sane
<1>2. m.links \in Seq(Links) /\ NoRepeats(m.links) /\ l \notin Range(m.links)
  BY <1>1, ManagerFields DEF Sane, HeldBy
<1>3. /\ Append(m.links, l) \in Seq(Links) /\ NoRepeats(Append(m.links, l))
      /\ Range(Append(m.links, l)) = Range(m.links) \cup {l}
      /\ \A k \in HeldBy(m) : FirstHigh(m.links, k) => FirstHigh(Append(m.links, l), k)
  BY <1>2, AppendHeld DEF HeldBy
<1>4. longer \in ManagerType /\ longer.links = Append(m.links, l)
  BY <1>1, <1>3 DEF ManagerType
<1>5. /\ longer.lost = m.lost /\ longer.closed = m.closed /\ longer.primary = m.primary
      /\ longer.picked = m.picked /\ longer.told = m.told /\ longer.refused = m.refused
  BY <1>1 DEF ManagerType
<1> HIDE DEF longer
<1>6. HeldBy(longer) = HeldBy(m) \cup {l}
  BY <1>3, <1>4 DEF HeldBy
<1>7. Sane(longer)
  <2>1. ASSUME ~m.picked PROVE Controlled(longer)
    <3>1. Controlled(m) /\ m.told \subseteq HeldBy(m) /\ m.primary \in HeldBy(m) \cup {NoLink}
      BY <1>1, <2>1 DEF Sane
    <3>2. l # m.primary /\ l \notin m.told
      BY <3>1, LinksAssumption DEF NoLink
    <3>3. ~HighLatency(NoLink)
      BY DEF HighLatency
    <3> QED BY <1>3, <1>4, <1>5, <1>6, <3>1, <3>2, <3>3 DEF Controlled
  <2> QED BY <1>1, <1>3, <1>4, <1>5, <1>6, <2>1 DEF Sane
<1>8. addLink(m, l) = updatePrimaryLink(longer)
  BY DEF addLink, longer
<1>9. HeldBy(updatePrimaryLink(longer)) = HeldBy(longer)
  BY <1>7, UpdateSound DEF SameLinks, HeldBy
<1> QED BY <1>5, <1>6, <1>7, <1>8, <1>9, UpdateSound DEF SameLinks

LEMMA HeardSound ==
  ASSUME NEW m, Sound(m), NEW l
  PROVE  LET n == [m EXCEPT !.overdue = @ \ {l}]
         IN  Sound(n) /\ SameLinks(m, n)
<1> DEFINE n == [m EXCEPT !.overdue = @ \ {l}]
<1>1. m \in ManagerType
  BY DEF Sound, Sane
<1>2. n \in ManagerType /\ SameLinks(m, n)
  BY <1>1 DEF ManagerType, SameLinks
<1>3. /\ n.primary = m.primary /\ n.told = m.told /\ n.refused = m.refused
      /\ n.picked = m.picked /\ n.handed = m.handed
  BY <1>1 DEF ManagerType
<1> HIDE DEF n
<1>4. HeldBy(n) = HeldBy(m) /\ Live(n) = Live(m)
  BY <1>2 DEF HeldBy, Live, SameLinks
<1> QED BY <1>2, <1>3, <1>4 DEF Sound, Sane, Controlled, Chosen, SameLinks, n

LEMMA FlagsSound ==
  ASSUME NEW m, Sound(m), NEW n \in ManagerType, SameLinks(m, n),
         n.primary = m.primary, n.told = m.told, n.refused = m.refused,
         n.picked = m.picked, n.handed = m.handed
  PROVE  Sound(n)
<1>1. HeldBy(n) = HeldBy(m) /\ Live(n) = Live(m)
  BY DEF HeldBy, Live, SameLinks
<1> QED BY <1>1 DEF Sound, Sane, Controlled, Chosen, SameLinks

LEMMA RegainedSound ==
  ASSUME NEW m, Sound(m), NEW l \in HeldBy(m)
  PROVE  LET n == commRegainedOnLink(m, l)
         IN  Sound(n) /\ n.links = m.links /\ n.closed = m.closed
<1> DEFINE found == [m EXCEPT !.lost = @ \ {l}]
           k == updatePrimaryLink(found)
           over == [k EXCEPT !.commLost = @ /\ m.lost # {l}]
<1>1. m \in ManagerType /\ Sane(m)
  BY DEF Sound, Sane
<1>2. found \in ManagerType /\ found.lost = m.lost \ {l}
  BY <1>1 DEF ManagerType
<1>3. /\ found.links = m.links /\ found.closed = m.closed /\ found.primary = m.primary
      /\ found.picked = m.picked /\ found.told = m.told /\ found.refused = m.refused
  BY <1>1 DEF ManagerType
<1>4. commRegainedOnLink(m, l) = over
  BY DEF commRegainedOnLink
<1> HIDE DEF found
<1>5. Sane(found)
  BY <1>1, <1>2, <1>3 DEF Sane, Controlled, HeldBy
<1>6. Sound(k) /\ SameLinks(found, k)
  BY <1>5, UpdateSound
<1> HIDE DEF k
<1>7. k \in ManagerType
  BY <1>6 DEF Sound, Sane
<1>8. over \in ManagerType /\ SameLinks(k, over)
  BY <1>7 DEF ManagerType, SameLinks
<1>9. /\ over.primary = k.primary /\ over.told = k.told /\ over.refused = k.refused
      /\ over.picked = k.picked /\ over.handed = k.handed
  BY <1>7 DEF ManagerType
<1> HIDE DEF over
<1>10. Sound(over)
  BY <1>6, <1>8, <1>9, FlagsSound
<1> QED BY <1>3, <1>4, <1>6, <1>8, <1>10 DEF SameLinks

\* A message leaves the manager with the link, whether it had it or not.
LEMMA MessageSound ==
  ASSUME NEW m, Sound(m), NEW l \in Links
  PROVE  LET n == mavlinkMessageReceived(m, l)
         IN  Sound(n) /\ HeldBy(n) = HeldBy(m) \cup {l} /\ n.closed = m.closed
<1> DEFINE heard == [m EXCEPT !.overdue = @ \ {l}]
<1>1. Sound(heard) /\ SameLinks(m, heard)
  BY HeardSound
<1>2. mavlinkMessageReceived(m, l) =
        IF l \notin HeldBy(m) THEN addLink(m, l)
        ELSE IF l \in m.lost THEN commRegainedOnLink(heard, l) ELSE heard
  BY DEF mavlinkMessageReceived
<1> HIDE DEF heard
<1>3. CASE l \notin HeldBy(m)
  BY <1>2, <1>3, AddLinkSound
<1>4. CASE l \in HeldBy(m)
  <2>1. HeldBy(heard) = HeldBy(m) /\ heard.closed = m.closed
    BY <1>1 DEF SameLinks, HeldBy
  <2>2. Sound(commRegainedOnLink(heard, l)) /\ HeldBy(commRegainedOnLink(heard, l)) = HeldBy(heard)
        /\ commRegainedOnLink(heard, l).closed = heard.closed
    BY <1>1, <1>4, <2>1, RegainedSound DEF HeldBy
  <2> QED BY <1>1, <1>2, <1>4, <2>1, <2>2
<1> QED BY <1>3, <1>4

\* The first high latency link stays the first, unless it is one of `gone`.
KeepsFirst(m, gone, s) ==
    \A l \in HeldBy(m) \ gone : FirstHigh(m.links, l) => FirstHigh(s, l)

\* The links `s` are left of those of m, without `gone`.
Without(m, gone, s) == [Forget(m, gone) EXCEPT !.links = s]

LEMMA ForgetSane ==
  ASSUME NEW m, Sane(m), NEW gone \in SUBSET HeldBy(m), NEW s \in Seq(Links), NoRepeats(s),
         Range(s) = HeldBy(m) \ gone,
         KeepsFirst(m, gone, s)
  PROVE  LET n == Without(m, gone, s)
         IN  Sane(n) /\ HeldBy(n) = HeldBy(m) \ gone /\ n.links = s /\ n.closed = m.closed
<1> DEFINE p == IF m.primary \in gone THEN NoLink ELSE m.primary
           n == Without(m, gone, s)
<1>1. m \in ManagerType
  BY DEF Sane
<1>2. p \in Links \cup {NoLink}
  BY <1>1, ManagerFields
<1>3. n \in ManagerType
  BY <1>1, <1>2 DEF Without, Forget, ManagerType
<1>4. /\ n.links = s /\ n.primary = p /\ n.lost = m.lost \ gone /\ n.told = m.told \ gone
      /\ n.refused = m.refused \ gone /\ n.picked = m.picked /\ n.closed = m.closed
  BY <1>1 DEF Without, Forget, ManagerType
<1> HIDE DEF n
<1>5. HeldBy(n) = HeldBy(m) \ gone
  BY <1>4 DEF HeldBy
<1>6. p \in HeldBy(n) \cup {NoLink}
  BY <1>5 DEF Sane
<1>7. ASSUME ~m.picked PROVE Controlled(n)
  <2>1. Controlled(m) /\ m.told \subseteq HeldBy(m) /\ m.primary \in HeldBy(m) \cup {NoLink}
    BY <1>7 DEF Sane
  <2>2. ~HighLatency(NoLink)
    BY DEF HighLatency
  <2>3. ASSUME NEW l \in HeldBy(n) \ n.refused
        PROVE  l \in n.told <=> l = n.primary /\ HighLatency(l)
    BY <1>4, <1>5, <2>1, <2>2 DEF Controlled
  <2>4. ASSUME NEW l \in n.told \cup {n.primary}, HighLatency(l) PROVE FirstHigh(n.links, l)
    <3>1. l \in m.told \cup {m.primary} /\ l \in HeldBy(m) \ gone
      BY <1>4, <2>1, <2>2, <2>4
    <3> QED BY <1>4, <2>1, <2>4, <3>1 DEF Controlled, KeepsFirst
  <2> QED BY <2>3, <2>4 DEF Controlled
<1> HIDE DEF p
<1> QED BY <1>3, <1>4, <1>5, <1>6, <1>7 DEF Sane, n

LEMMA RemoveLinkSane ==
  ASSUME NEW m, Sane(m), NEW l \in HeldBy(m)
  PROVE  LET n == removeLink(m, l)
         IN  Sane(n) /\ HeldBy(n) = HeldBy(m) \ {l} /\ n.closed = m.closed
<1> DEFINE i == CHOOSE i \in DOMAIN m.links : m.links[i] = l
<1>1. m.links \in Seq(Links) /\ NoRepeats(m.links)
  BY ManagerFields DEF Sane
<1>2. DOMAIN m.links = 1..Len(m.links)
  BY <1>1, LenProperties
<1>3. i \in 1..Len(m.links) /\ m.links[i] = l
  BY <1>1, <1>2, Held
<1> HIDE DEF i
<1>4. /\ RemoveAt(m.links, i) \in Seq(Links) /\ NoRepeats(RemoveAt(m.links, i))
      /\ Range(RemoveAt(m.links, i)) = HeldBy(m) \ {l}
      /\ \A k \in HeldBy(m) \ {l} : FirstHigh(m.links, k) => FirstHigh(RemoveAt(m.links, i), k)
  BY <1>1, <1>3, RemoveHeld DEF HeldBy
<1>5. removeLink(m, l) = Without(m, {l}, RemoveAt(m.links, i))
  <2>1. m \in ManagerType
    BY DEF Sane
  <2>2. Forget(m, {l}).links = m.links
    BY <2>1 DEF Forget, ManagerType
  <2> QED BY <2>2 DEF Without, removeLink, i
<1>6. {l} \in SUBSET HeldBy(m)
  OBVIOUS
<1>7. PICK s \in Seq(Links) : s = RemoveAt(m.links, i)
  BY <1>4
<1>8. PICK gone \in SUBSET HeldBy(m) : gone = {l}
  BY <1>6
<1>9. NoRepeats(s) /\ Range(s) = HeldBy(m) \ gone /\ KeepsFirst(m, gone, s)
  BY <1>4, <1>7, <1>8 DEF KeepsFirst
<1>10. LET n == Without(m, gone, s)
       IN  Sane(n) /\ HeldBy(n) = HeldBy(m) \ gone /\ n.closed = m.closed
  BY <1>9, ForgetSane, ZenonT(30)
<1> QED BY <1>5, <1>7, <1>8, <1>10

\* A manager whose link is gone; it signals allLinksRemoved with the last one, once.
LEMMA DisconnectedSound ==
  ASSUME NEW m, Sound(m), NEW l \in HeldBy(m)
  PROVE  LET n == linkDisconnected(m, l)
         IN  /\ Sound(n) /\ HeldBy(n) = HeldBy(m) \ {l} /\ n.closed = m.closed
             /\ signalsRemoved(m, l) <=> n.links = <<>> /\ ~n.closed
<1> DEFINE k == updatePrimaryLink(removeLink(m, l))
           n == [k EXCEPT !.queue = IF HeldBy(m) = {l} THEN "stopped" ELSE @]
<1>1. Sane(removeLink(m, l)) /\ HeldBy(removeLink(m, l)) = HeldBy(m) \ {l}
      /\ removeLink(m, l).closed = m.closed
  BY RemoveLinkSane DEF Sound
<1>2. Sound(k) /\ HeldBy(k) = HeldBy(m) \ {l} /\ k.closed = m.closed
  BY <1>1, UpdateSound DEF SameLinks, HeldBy
<1>3. linkDisconnected(m, l) = n
  BY DEF linkDisconnected
<1> HIDE DEF k
<1>4. k \in ManagerType
  BY <1>2 DEF Sound, Sane
<1>5. n \in ManagerType /\ SameLinks(k, n)
  BY <1>4 DEF ManagerType, SameLinks
<1>6. /\ n.primary = k.primary /\ n.told = k.told /\ n.refused = k.refused
      /\ n.picked = k.picked /\ n.handed = k.handed
  BY <1>4 DEF ManagerType
<1> HIDE DEF n
<1>7. Sound(n) /\ HeldBy(n) = HeldBy(m) \ {l} /\ n.closed = m.closed
  BY <1>2, <1>5, <1>6, FlagsSound DEF SameLinks, HeldBy
<1>8. HeldBy(n) = {} <=> n.links = <<>>
  BY <1>5, ManagerFields, Held
<1> QED BY <1>3, <1>7, <1>8 DEF signalsRemoved

Emptied(m) ==
    [Forget(m, HeldBy(m)) EXCEPT !.links = <<>>, !.closed = TRUE, !.queue = "stopped"]

LEMMA EmptiedSound ==
  ASSUME NEW m, Sane(m)
  PROVE  Sound(Emptied(m)) /\ HeldBy(Emptied(m)) = {} /\ Emptied(m).closed
<1> DEFINE k == Without(m, HeldBy(m), <<>>)
<1>1. /\ <<>> \in Seq(Links) /\ NoRepeats(<<>>) /\ Range(<<>>) = {}
  BY DEF NoRepeats, Range
<1>2. Sane(k) /\ HeldBy(k) = {} /\ k.links = <<>>
  <2>1. PICK gone \in SUBSET HeldBy(m) : gone = HeldBy(m)
    OBVIOUS
  <2>2. PICK s \in Seq(Links) : s = <<>>
    BY <1>1
  <2>3. NoRepeats(s) /\ Range(s) = HeldBy(m) \ gone /\ KeepsFirst(m, gone, s)
    BY <1>1, <2>1, <2>2 DEF KeepsFirst
  <2>4. LET n == Without(m, gone, s)
        IN  Sane(n) /\ HeldBy(n) = HeldBy(m) \ gone /\ n.links = s
    BY <2>3, ForgetSane, ZenonT(30)
  <2> QED BY <2>1, <2>2, <2>4
<1>3. m \in ManagerType
  BY DEF Sane
<1>4. Emptied(m) = [k EXCEPT !.closed = TRUE, !.queue = "stopped"]
  BY <1>3 DEF Emptied, Without, Forget, ManagerType
<1> HIDE DEF k
<1>5. k \in ManagerType
  BY <1>2 DEF Sane
<1>6. /\ Emptied(m) \in ManagerType /\ Emptied(m).links = <<>> /\ Emptied(m).closed
      /\ Emptied(m).primary = k.primary /\ Emptied(m).lost = k.lost
      /\ Emptied(m).told = k.told /\ Emptied(m).picked = k.picked
      /\ Emptied(m).refused = k.refused
  BY <1>2, <1>4, <1>5 DEF ManagerType
<1>7. HeldBy(Emptied(m)) = {}
  BY <1>1, <1>6, Held
<1>8. Sane(Emptied(m))
  BY <1>2, <1>6, <1>7 DEF Sane, Controlled
<1>9. Chosen(Emptied(m))
  BY <1>7, <1>8 DEF Chosen, Live, Sane
<1> QED BY <1>6, <1>7, <1>8, <1>9 DEF Sound

LEMMA CheckSound ==
  ASSUME NEW m, Sound(m)
  PROVE  LET n == commLostCheck(m)
         IN  Sound(n) /\ n.links = m.links /\ n.closed = m.closed
<1> DEFINE silent == {l \in Live(m) : ~HighLatency(l) /\ l \in m.overdue}
           found == [m EXCEPT !.lost = @ \cup silent]
           n == updatePrimaryLink(found)
           c == n.commLost \/ (Live(m) = silent /\ ~m.autoDisconnect)
<1>1. m \in ManagerType /\ Sane(m)
  BY DEF Sound, Sane
<1>2. silent \subseteq Links /\ \A l \in silent : ~HighLatency(l)
  BY <1>1, ManagerFields, Held DEF Live
<1>3. commLostCheck(m) = [n EXCEPT !.commLost = c]
  BY DEF commLostCheck
<1> HIDE DEF silent
<1>4. found \in ManagerType /\ found.lost = m.lost \cup silent
  BY <1>1, <1>2 DEF ManagerType
<1>5. /\ found.links = m.links /\ found.closed = m.closed /\ found.primary = m.primary
      /\ found.picked = m.picked /\ found.told = m.told /\ found.refused = m.refused
  BY <1>1 DEF ManagerType
<1> HIDE DEF found
<1>6. Sane(found)
  BY <1>1, <1>2, <1>4, <1>5 DEF Sane, Controlled, HeldBy
<1>7. Sound(n) /\ SameLinks(found, n)
  BY <1>6, UpdateSound
<1> HIDE DEF n
<1>8. n \in ManagerType
  BY <1>7 DEF Sound, Sane
<1>9. c \in BOOLEAN
  BY <1>8, ManagerFields
<1> HIDE DEF c
<1> DEFINE r == [n EXCEPT !.commLost = c]
<1>10. r \in ManagerType /\ SameLinks(n, r)
  BY <1>8, <1>9 DEF ManagerType, SameLinks
<1>11. /\ r.primary = n.primary /\ r.told = n.told /\ r.refused = n.refused
       /\ r.picked = n.picked /\ r.handed = n.handed
  BY <1>8 DEF ManagerType
<1> HIDE DEF r
<1>12. Sound(r)
  BY <1>7, <1>10, <1>11, FlagsSound
<1>13. r.links = m.links /\ r.closed = m.closed
  BY <1>5, <1>7, <1>10 DEF SameLinks
<1> QED BY <1>3, <1>12, <1>13 DEF r
-----------------------------------------------------------------------------
(* The inductive invariant, on the record a handler works with: some vehicles may have *)
(* signalled the end of their links.                                                   *)

StateType == [
    vlm : [Vehicles -> ManagerType], link : [Links -> {"open", "closing", "closed"}],
    refs : [Links -> Nat], removed : SUBSET Vehicles,
    system : [Vehicles -> Systems \cup {None}], born : 0..MaxVehicles,
    alive : SUBSET Vehicles, listed : SUBSET Vehicles, active : Vehicles \cup {None},
    available : BOOLEAN, timers : Seq({"activate", "delete"} \X Vehicles),
    used : SUBSET Links, leaked : SUBSET Links, raced : BOOLEAN]

Managers(w) ==
    \A v \in Vehicles : Sound(w.vlm[v]) /\ (v \notin w.alive => w.vlm[v] = NewManager)

\* A vehicle stays in the list as long as it has a link, and its manager can still signal
\* the end of the last.
Kept(w) == \A v \in w.listed \ w.removed : HeldBy(w.vlm[v]) # {} /\ ~w.vlm[v].closed

Deleted(w) == (1..w.born) \ w.alive

\* What is counted for a link are the vehicles that have it and some deleted ones.
References(w, l, holders, count) ==
    \E lost \in SUBSET Deleted(w) : /\ count = Cardinality(holders \cup lost)
                                    /\ l \notin w.leaked => lost = {}

Counted(w) ==
    \A l \in Links :
        /\ References(w, l, Holders(w, l), w.refs[l])
        /\ w.link[l] = "closed" => Holders(w, l) = {}
        /\ l \notin w.leaked /\ w.link[l] = "open" /\ l \in w.used => Holders(w, l) # {}

Deletion(v) == <<"delete", v>>

\* Just the vehicles being deleted have a timer for it, one each, and nothing else of
\* theirs is to happen after it.
Timed(timers, alive, listed) ==
    /\ \A i \in DOMAIN timers : timers[i][2] \in alive
    /\ \A v \in alive \ listed : \E i \in DOMAIN timers : timers[i] = Deletion(v)
    /\ \A i \in DOMAIN timers : timers[i][1] = "delete" =>
          /\ timers[i][2] \notin listed
          /\ \A j \in DOMAIN timers : timers[j][2] = timers[i][2] => j <= i

Listing(w) ==
    /\ w.listed \subseteq w.alive /\ w.alive \subseteq 1..w.born
    /\ Timed(w.timers, w.alive, w.listed)
    /\ w.active \in w.alive \cup {None}
    /\ w.listed = {} => (w.available => w.raced)
    /\ w.timers = <<>> => IF w.listed = {} THEN w.active = None
                          ELSE w.active \in w.listed /\ w.available

StateInv(w) == w \in StateType /\ Managers(w) /\ Kept(w) /\ Counted(w) /\ Listing(w)

IInv ==
    /\ StateInv(gcs) /\ gcs.removed = {}
    /\ setting \in Settings /\ ops \in 0..setting.maxOps

-----------------------------------------------------------------------------
(* Timers *)

TimerSet == {"activate", "delete"} \X Vehicles

\* Timed in terms of the numbers of the timers.
LEMMA TimedIs ==
  ASSUME NEW t \in Seq(TimerSet), NEW alive, NEW listed
  PROVE  /\ DOMAIN t = 1..Len(t) /\ Len(t) \in Nat
         /\ \A i \in 1..Len(t) : t[i] \in TimerSet /\ t[i] = <<t[i][1], t[i][2]>>
<1>1. DOMAIN t = 1..Len(t) /\ Len(t) \in Nat
  BY LenProperties
<1>2. \A i \in 1..Len(t) : t[i] \in TimerSet
  BY ElementOfSeq
<1>3. \A x \in TimerSet : x = <<x[1], x[2]>>
  BY DEF TimerSet
<1> QED BY <1>1, <1>2, <1>3

LEMMA TimedAppend ==
  ASSUME NEW t \in Seq(TimerSet), NEW alive, NEW listed \in SUBSET alive,
         NEW v \in listed \cap Vehicles, Timed(t, alive, listed)
  PROVE  LET r == Append(t, <<"activate", v>>)
         IN  r \in Seq(TimerSet) /\ r # <<>> /\ Timed(r, alive, listed)
<1> DEFINE r == Append(t, <<"activate", v>>)
           n == Len(t)
<1>1. <<"activate", v>> \in TimerSet
  BY DEF TimerSet
<1>2. /\ r \in Seq(TimerSet) /\ r # <<>> /\ Len(r) = n + 1
      /\ \A i \in 1..n : r[i] = t[i]
      /\ r[n + 1] = <<"activate", v>>
  BY <1>1, AppendProperties
<1>3. DOMAIN t = 1..n /\ n \in Nat
  BY TimedIs
<1>4. DOMAIN r = 1..(n + 1)
  BY <1>2, LenProperties
<1>5. r[n + 1][1] = "activate" /\ r[n + 1][2] = v
  BY <1>2
<1> HIDE DEF r
<1> HIDE DEF n
<1>6. 1..(n + 1) = 1..n \cup {n + 1}
  BY <1>3
<1>7. \A i \in DOMAIN r : r[i][2] \in alive
  BY <1>2, <1>3, <1>4, <1>5, <1>6 DEF Timed
<1>8. \A u \in alive \ listed : \E i \in DOMAIN r : r[i] = Deletion(u)
  BY <1>2, <1>3, <1>4, <1>6 DEF Timed
<1>9. ASSUME NEW i \in DOMAIN r, r[i][1] = "delete"
      PROVE  /\ r[i][2] \notin listed
             /\ \A j \in DOMAIN r : r[j][2] = r[i][2] => j <= i
  <2>1. i \in 1..n /\ r[i] = t[i]
    BY <1>2, <1>4, <1>5, <1>6, <1>9
  <2>2. t[i][2] \notin listed /\ \A j \in 1..n : t[j][2] = t[i][2] => j <= i
    BY <1>3, <1>9, <2>1 DEF Timed
  <2> QED BY <1>2, <1>4, <1>5, <1>6, <2>1, <2>2
<1> QED BY <1>2, <1>7, <1>8, <1>9 DEF r, Timed

LEMMA TimedConcat ==
  ASSUME NEW t \in Seq(TimerSet), NEW alive \in SUBSET Vehicles, NEW listed \in SUBSET alive,
         Timed(t, alive, listed),
         NEW n \in Nat, NEW gone \in [1..n -> listed],
         \A i, j \in 1..n : i # j => gone[i] # gone[j]
  PROVE  LET r == t \o [i \in DOMAIN gone |-> <<"delete", gone[i]>>]
         IN  r \in Seq(TimerSet) /\ Timed(r, alive, listed \ Range(gone))
<1> DEFINE d == [i \in DOMAIN gone |-> <<"delete", gone[i]>>]
           r == t \o d
           k == Len(t)
<1>1. DOMAIN gone = 1..n /\ \A i \in 1..n : gone[i] \in listed
  OBVIOUS
<1>2. /\ DOMAIN d = 1..n
      /\ \A i \in 1..n : d[i] = Deletion(gone[i]) /\ d[i] \in TimerSet /\ d[i][1] = "delete"
                         /\ d[i][2] = gone[i]
  BY <1>1 DEF TimerSet, Deletion
<1> HIDE DEF d
<1>3. d \in Seq(TimerSet) /\ Len(d) = n
  <2>1. d \in [1..n -> TimerSet]
    <3>1. d = [i \in DOMAIN d |-> d[i]]
      BY DEF d
    <3> QED BY <1>2, <3>1
  <2> QED BY <1>2, <2>1, LenProperties
<1>4. /\ r \in Seq(TimerSet) /\ Len(r) = k + n
      /\ \A i \in 1..(k + n) : r[i] = IF i <= k THEN t[i] ELSE d[i - k]
  <2>1. /\ r \in Seq(TimerSet) /\ Len(r) = Len(t) + Len(d)
        /\ \A i \in 1..(Len(t) + Len(d)) : r[i] = IF i <= Len(t) THEN t[i] ELSE d[i - Len(t)]
    BY <1>3, ConcatProperties
  <2> HIDE DEF r
  <2> QED BY <1>3, <2>1
<1>5. DOMAIN t = 1..k /\ k \in Nat /\ DOMAIN r = 1..(k + n)
  BY <1>4, TimedIs
<1> HIDE DEF r
<1> HIDE DEF k
<1>6. \A i \in 1..k : i \in 1..(k + n) /\ r[i] = t[i]
  BY <1>4, <1>5
<1>7. \A i \in 1..n : i + k \in 1..(k + n) /\ r[i + k] = d[i]
  BY <1>4, <1>5
<1>8. \A i \in 1..(k + n) : i \in 1..k \/ (i > k /\ i - k \in 1..n /\ r[i] = d[i - k])
  BY <1>4, <1>5
<1>9. Range(gone) = {gone[i] : i \in 1..n}
  BY <1>1 DEF Range
<1>10. \A i \in DOMAIN r : r[i][2] \in alive
  BY <1>1, <1>2, <1>5, <1>6, <1>8 DEF Timed
<1>11. ASSUME NEW u \in alive \ (listed \ Range(gone))
       PROVE  \E i \in DOMAIN r : r[i] = Deletion(u)
  <2>1. CASE u \in Range(gone)
    BY <1>2, <1>5, <1>7, <1>9, <2>1
  <2>2. CASE u \notin listed
    BY <1>5, <1>6, <2>2 DEF Timed
  <2> QED BY <2>1, <2>2
<1>12. ASSUME NEW i \in DOMAIN r, r[i][1] = "delete"
       PROVE  /\ r[i][2] \notin listed \ Range(gone)
              /\ \A j \in DOMAIN r : r[j][2] = r[i][2] => j <= i
  <2>1. CASE i \in 1..k
    <3>1. t[i][1] = "delete" /\ r[i] = t[i]
      BY <1>6, <1>12, <2>1
    <3>2. t[i][2] \notin listed /\ \A j \in 1..k : t[j][2] = t[i][2] => j <= i
      BY <1>5, <2>1, <3>1 DEF Timed
    <3> QED BY <1>1, <1>2, <1>5, <1>6, <1>8, <3>1, <3>2
  <2>2. CASE i > k /\ i - k \in 1..n /\ r[i] = d[i - k]
    <3>1. r[i][2] = gone[i - k] /\ r[i][2] \in Range(gone)
      BY <1>2, <1>9, <2>2
    <3>2. ASSUME NEW j \in DOMAIN r, r[j][2] = r[i][2] PROVE j <= i
      <4>1. CASE j \in 1..k
        BY <1>5, <2>2, <4>1
      <4>2. CASE j > k /\ j - k \in 1..n /\ r[j] = d[j - k]
        <5>1. gone[j - k] = gone[i - k]
          BY <1>2, <3>1, <3>2, <4>2
        <5>2. j - k = i - k
          BY <2>2, <4>2, <5>1
        <5> QED BY <1>5, <5>2
      <4> QED BY <1>5, <1>8, <4>1, <4>2
    <3> QED BY <3>1, <3>2
  <2> QED BY <1>5, <1>8, <2>1, <2>2
<1> QED BY <1>4, <1>10, <1>11, <1>12 DEF d, r, Timed

\* The first timer fires.
LEMMA TimedTail ==
  ASSUME NEW t \in Seq(TimerSet), t # <<>>, NEW alive, NEW listed,
         Timed(t, alive, listed)
  PROVE  LET kind == Head(t)[1]
             v == Head(t)[2]
         IN  /\ Tail(t) \in Seq(TimerSet) /\ kind \in {"activate", "delete"} /\ v \in alive
             /\ kind = "activate" => Timed(Tail(t), alive, listed)
             /\ kind = "delete" => v \notin listed /\ Timed(Tail(t), alive \ {v}, listed)
<1> DEFINE r == Tail(t)
           n == Len(t)
           v == t[1][2]
<1>1. r \in Seq(TimerSet) /\ Len(r) = n - 1 /\ \A i \in 1..(n - 1) : r[i] = t[i + 1]
  BY HeadTailProperties
<1>2. DOMAIN t = 1..n /\ n \in Nat /\ n # 0
  BY TimedIs, EmptySeq
<1>3. DOMAIN r = 1..(n - 1)
  BY <1>1, LenProperties
<1>4. Head(t) = t[1] /\ 1 \in 1..n
  BY <1>2
<1>5. t[1] \in TimerSet
  BY <1>4, TimedIs
<1>6. t[1][1] \in {"activate", "delete"} /\ v \in alive /\ t[1] = <<t[1][1], v>>
  BY <1>2, <1>4, <1>5 DEF Timed, TimerSet
<1> HIDE DEF r
<1> HIDE DEF n
<1>7. \A i \in 1..(n - 1) : i + 1 \in 1..n /\ i + 1 # 1
  BY <1>2
<1>8. \A i \in 1..n : i # 1 => i - 1 \in 1..(n - 1) /\ r[i - 1] = t[i]
  BY <1>1, <1>2
<1>9. ASSUME NEW i \in DOMAIN r, r[i][1] = "delete"
      PROVE  /\ r[i][2] \notin listed
             /\ \A j \in DOMAIN r : r[j][2] = r[i][2] => j <= i
  <2>1. i + 1 \in 1..n /\ r[i] = t[i + 1] /\ i \in Nat
    BY <1>1, <1>2, <1>3
  <2>2. t[i + 1][2] \notin listed /\ \A j \in 1..n : t[j][2] = t[i + 1][2] => j <= i + 1
    BY <1>2, <1>9, <2>1 DEF Timed
  <2>3. ASSUME NEW j \in 1..(n - 1), r[j][2] = r[i][2] PROVE j <= i
    <3>1. j + 1 \in 1..n /\ t[j + 1][2] = t[i + 1][2]
      BY <1>1, <1>7, <2>1, <2>3
    <3>2. j + 1 <= i + 1
      BY <2>2, <3>1
    <3> QED BY <1>2, <2>1, <3>2
  <2> QED BY <1>3, <2>1, <2>2, <2>3
<1>10. CASE t[1][1] = "activate"
  <2>1. \A i \in DOMAIN r : r[i][2] \in alive
    BY <1>1, <1>2, <1>3, <1>7 DEF Timed
  <2>2. ASSUME NEW u \in alive \ listed PROVE \E i \in DOMAIN r : r[i] = Deletion(u)
    <3>1. PICK i \in 1..n : t[i] = Deletion(u)
      BY <1>2 DEF Timed
    <3>2. i # 1
      BY <1>10, <3>1 DEF Deletion
    <3> QED BY <1>3, <1>8, <3>1, <3>2
  <2>3. Timed(r, alive, listed)
    BY <1>9, <2>1, <2>2 DEF Timed
  <2> QED BY <1>1, <1>4, <1>6, <1>10, <2>3 DEF r
<1>11. CASE t[1][1] = "delete"
  <2>1. v \notin listed /\ \A j \in 1..n : t[j][2] = v => j <= 1
    BY <1>2, <1>4, <1>11 DEF Timed
  <2>2. ASSUME NEW i \in DOMAIN r PROVE r[i][2] \in alive \ {v}
    <3>1. r[i] = t[i + 1] /\ i + 1 \in 1..n /\ ~ (i + 1 <= 1)
      BY <1>1, <1>2, <1>3
    <3> QED BY <1>2, <2>1, <3>1 DEF Timed
  <2>3. ASSUME NEW u \in (alive \ {v}) \ listed PROVE \E i \in DOMAIN r : r[i] = Deletion(u)
    <3>1. PICK i \in 1..n : t[i] = Deletion(u)
      BY <1>2 DEF Timed
    <3>2. i # 1
      BY <3>1 DEF Deletion
    <3> QED BY <1>3, <1>8, <3>1, <3>2
  <2>4. Timed(r, alive \ {v}, listed)
    BY <1>9, <2>2, <2>3 DEF Timed
  <2> QED BY <1>1, <1>4, <1>6, <1>11, <2>1, <2>4 DEF r
<1> QED BY <1>6, <1>10, <1>11

LEMMA TimedNew ==
  ASSUME NEW t, NEW alive, NEW listed, NEW v, v \notin alive, Timed(t, alive, listed)
  PROVE  Timed(t, alive \cup {v}, listed \cup {v})
BY DEF Timed

LEMMA TimedEmpty == ASSUME NEW alive, NEW listed, Timed(<<>>, alive, listed) PROVE alive \subseteq listed
BY DEF Timed

-----------------------------------------------------------------------------
(* One state and the next *)

LEMMA StateFields ==
  ASSUME NEW w \in StateType
  PROVE  /\ w.vlm \in [Vehicles -> ManagerType]
         /\ w.link \in [Links -> {"open", "closing", "closed"}]
         /\ w.refs \in [Links -> Nat] /\ w.removed \in SUBSET Vehicles
         /\ w.system \in [Vehicles -> Systems \cup {None}] /\ w.born \in 0..MaxVehicles
         /\ w.alive \in SUBSET Vehicles /\ w.listed \in SUBSET Vehicles
         /\ w.active \in Vehicles \cup {None} /\ w.available \in BOOLEAN
         /\ w.timers \in Seq(TimerSet)
         /\ w.used \in SUBSET Links /\ w.leaked \in SUBSET Links /\ w.raced \in BOOLEAN
BY DEF StateType, TimerSet

\* Only what Managers and Counted tell may have changed.
SameList(w, n) ==
    /\ n.born = w.born /\ n.alive = w.alive /\ n.listed = w.listed /\ n.active = w.active
    /\ n.available = w.available /\ n.timers = w.timers /\ n.raced = w.raced

LEMMA ListingStays == ASSUME NEW w, NEW n, Listing(w), SameList(w, n) PROVE Listing(n)
BY DEF Listing, SameList

\* Each vehicle has the links it had.
SameHeld(w, n) ==
    n.alive = w.alive /\ \A v \in w.alive : HeldBy(n.vlm[v]) = HeldBy(w.vlm[v])

LEMMA HoldersStay ==
  ASSUME NEW w, NEW n, SameHeld(w, n)
  PROVE  \A l : Holders(n, l) = Holders(w, l)
BY DEF Holders, SameHeld

LEMMA CountedStays ==
  ASSUME NEW w, NEW n, Counted(w), SameHeld(w, n), n.born = w.born, n.refs = w.refs,
         n.link = w.link, n.leaked = w.leaked, n.used = w.used
  PROVE  Counted(n)
<1>1. \A l : Holders(n, l) = Holders(w, l)
  BY HoldersStay
<1>2. Deleted(n) = Deleted(w)
  BY DEF Deleted, SameHeld
<1> QED BY <1>1, <1>2 DEF Counted, References

LEMMA Finite ==
  ASSUME NEW w \in StateType, w.alive \subseteq 1..w.born, NEW S \in SUBSET (1..w.born)
  PROVE  IsFiniteSet(S) /\ Cardinality(S) \in Nat /\ Cardinality(S) <= w.born
<1>1. w.born \in Nat
  BY VehiclesAssumption DEF StateType
<1>2. IsFiniteSet(1..w.born) /\ Cardinality(1..w.born) = w.born
  <2>1. PICK n \in Nat : n = w.born
    BY <1>1
  <2>2. IsFiniteSet(1..n) /\ Cardinality(1..n) = IF 1 <= n THEN n - 1 + 1 ELSE 0
    BY FS_Interval
  <2>3. (IF 1 <= n THEN n - 1 + 1 ELSE 0) = n
    OBVIOUS
  <2> QED BY <2>1, <2>2, <2>3
<1> QED BY <1>2, FS_Subset, FS_CardinalityType

\* The handler of one vehicle changes its manager, which keeps its links.
LEMMA OneManager ==
  ASSUME NEW w, StateInv(w), NEW v \in w.alive, NEW m, Sound(m),
         HeldBy(m) = HeldBy(w.vlm[v]), m.closed = w.vlm[v].closed
  PROVE  LET n == [w EXCEPT !.vlm[v] = m]
         IN  StateInv(n) /\ n.removed = w.removed /\ n.vlm[v] = m /\ n.alive = w.alive
<1> DEFINE n == [w EXCEPT !.vlm[v] = m]
<1>1. w \in StateType /\ v \in Vehicles
  BY StateFields DEF StateInv
<1>2. m \in ManagerType
  BY DEF Sound, Sane
<1>3. /\ n.vlm = [w.vlm EXCEPT ![v] = m] /\ n.refs = w.refs /\ n.link = w.link
      /\ n.leaked = w.leaked /\ n.used = w.used /\ n.removed = w.removed /\ SameList(w, n)
  BY <1>1 DEF StateType, SameList
<1>4. n \in StateType
  BY <1>1, <1>2 DEF StateType
<1> HIDE DEF n
<1>5. n.vlm[v] = m /\ \A u \in Vehicles : u # v => n.vlm[u] = w.vlm[u]
  BY <1>1, <1>3, StateFields
<1>6. SameHeld(w, n) /\ w.alive \subseteq Vehicles /\ w.listed \subseteq Vehicles
  BY <1>1, <1>3, <1>5, StateFields DEF SameHeld, SameList
<1>7. Managers(n)
  BY <1>3, <1>5 DEF Managers, StateInv, SameList
<1>8. Kept(n)
  BY <1>3, <1>5, <1>6 DEF Kept, StateInv, SameList
<1>9. Counted(n) /\ Listing(n)
  BY <1>3, <1>6, CountedStays, ListingStays DEF StateInv, SameList
<1> QED BY <1>3, <1>4, <1>5, <1>7, <1>8, <1>9 DEF n, StateInv, SameList

\* What the end of every handler adds.
Noted(w) == [w EXCEPT !.used = @ \cup {l \in Links : w.refs[l] > 0}]

LEMMA NotedInv ==
  ASSUME NEW w, StateInv(w)
  PROVE  StateInv(Noted(w)) /\ Noted(w).removed = w.removed
<1> DEFINE n == Noted(w)
<1>1. w \in StateType
  BY DEF StateInv
<1>2. /\ n.vlm = w.vlm /\ n.refs = w.refs /\ n.link = w.link /\ n.leaked = w.leaked
      /\ n.removed = w.removed /\ SameList(w, n)
      /\ n.used = w.used \cup {l \in Links : w.refs[l] > 0}
  BY <1>1 DEF Noted, StateType, SameList
<1>3. n \in StateType
  BY <1>1 DEF Noted, StateType
<1> HIDE DEF n
<1>4. \A l : Holders(n, l) = Holders(w, l)
  BY <1>2 DEF Holders, SameList
<1>5. Deleted(n) = Deleted(w)
  BY <1>2 DEF Deleted, SameList
<1>6. Counted(n)
  <2>1. ASSUME NEW l \in Links, l \notin w.leaked, w.refs[l] > 0 PROVE Holders(w, l) # {}
    <3>1. w.refs[l] = Cardinality(Holders(w, l) \cup {})
      BY <2>1 DEF StateInv, Counted, References
    <3>2. Cardinality({}) = 0
      BY FS_EmptySet
    <3> QED BY <2>1, <3>1, <3>2
  <2> QED BY <1>2, <1>4, <1>5, <2>1 DEF StateInv, Counted, References
<1>7. Managers(n) /\ Kept(n)
  BY <1>2 DEF StateInv, Managers, Kept, SameList
<1> QED BY <1>2, <1>3, <1>6, <1>7, ListingStays DEF StateInv, n

LEMMA BecomesInv ==
  ASSUME NEW w, StateInv(w), Becomes(w)
  PROVE  StateInv(gcs)' /\ gcs'.removed = w.removed
<1>1. gcs' = Noted(w)
  BY DEF Becomes, Noted
<1> QED BY <1>1, NotedInv

LEMMA Enumerated ==
  ASSUME NEW S, IsFiniteSet(S), NEW gone \in SetToSeqs(S)
  PROVE  \E n \in Nat :
            /\ gone \in [1..n -> S] /\ \A i, j \in 1..n : i # j => gone[i] # gone[j]
            /\ Range(gone) = S /\ (n = 0 <=> S = {})
<1> DEFINE n == Cardinality(S)
<1>1. n \in Nat /\ (n = 0 <=> S = {})
  BY FS_CardinalityType, FS_EmptySet
<1>2. gone \in [1..n -> S] /\ \A i, j \in 1..n : i # j => gone[i] # gone[j]
  BY DEF SetToSeqs
<1>3. gone \in Injection(1..n, S)
  BY <1>2 DEF Injection, IsInjective
<1>4. Cardinality(1..n) = n
  BY <1>1, FS_Interval
<1>5. gone \in Surjection(1..n, S)
  BY <1>3, <1>4, FS_Injection
<1>6. Range(gone) = S
  BY <1>2, <1>5 DEF Surjection, Range
<1> QED BY <1>1, <1>2, <1>6


LEMMA DeliverInv ==
  ASSUME NEW w, StateInv(w), Deliver(w)
  PROVE  StateInv(gcs)' /\ gcs'.removed = {}
<1> DEFINE S == w.removed \cap w.listed
           k == [w EXCEPT !.removed = {}]
<1>1. PICK gone \in SetToSeqs(S) : Becomes(deleteVehiclePhase1(k, gone))
  BY DEF Deliver
<1>2. w \in StateType /\ w.listed \subseteq w.alive /\ w.alive \subseteq 1..w.born
  BY DEF StateInv, Listing
<1>3. IsFiniteSet(S)
  BY <1>2, Finite
<1>4. PICK n \in Nat : /\ gone \in [1..n -> S] /\ \A i, j \in 1..n : i # j => gone[i] # gone[j]
                       /\ Range(gone) = S /\ (n = 0 <=> S = {})
  BY <1>3, Enumerated
<1>5. k \in StateType /\ k.removed = {} /\ SameList(w, k)
  BY <1>2 DEF StateType, SameList
<1>6. k.vlm = w.vlm /\ k.refs = w.refs /\ k.link = w.link /\ k.leaked = w.leaked
      /\ k.used = w.used
  BY <1>2 DEF StateType
<1> HIDE DEF k
<1>7. Managers(k) /\ Counted(k) /\ Listing(k)
  <2>1. Managers(k)
    BY <1>5, <1>6 DEF Managers, StateInv, SameList
  <2>2. SameHeld(w, k)
    BY <1>5, <1>6 DEF SameHeld, SameList
  <2>3. Counted(k)
    BY <1>5, <1>6, <2>2, CountedStays DEF StateInv, SameList
  <2> QED BY <1>5, <2>1, <2>3, ListingStays DEF StateInv
<1> DEFINE d == deleteVehiclePhase1(k, gone)
<1>8. CASE gone = <<>>
  <2>1. d = k
    BY <1>8 DEF deleteVehiclePhase1
  <2>2. S = {}
    <3>1. Range(gone) = {}
      BY <1>8 DEF Range
    <3> QED BY <1>4, <3>1
  <2>3. Kept(k)
    BY <1>5, <1>6, <2>2 DEF Kept, StateInv, SameList
  <2>4. StateInv(k)
    BY <1>5, <1>7, <2>3 DEF StateInv
  <2> QED BY <1>1, <1>5, <2>1, <2>4, BecomesInv
<1>9. CASE gone # <<>>
  <2> DEFINE t == k.timers \o [i \in DOMAIN gone |-> <<"delete", gone[i]>>]
  <2>1. d = [k EXCEPT !.listed = @ \ Range(gone), !.available = FALSE, !.timers = t]
    BY <1>9 DEF deleteVehiclePhase1
  <2>2. S # {}
    <3>1. n # 0
      <4>1. n = 0 => DOMAIN gone = {}
        BY <1>4
      <4>2. DOMAIN gone = {} => gone = <<>>
        BY <1>4
      <4> QED BY <1>9, <4>1, <4>2
    <3> QED BY <1>4, <3>1
  <2>3. gone \in [1..n -> k.listed]
    BY <1>4, <1>5 DEF SameList
  <2>4. t \in Seq(TimerSet) /\ Timed(t, k.alive, k.listed \ Range(gone))
    <3>1. k.timers \in Seq(TimerSet) /\ k.alive \in SUBSET Vehicles
      BY <1>5, StateFields
    <3>2. k.listed \in SUBSET k.alive /\ Timed(k.timers, k.alive, k.listed)
      BY <1>7 DEF Listing
    <3> QED BY <1>4, <2>3, <3>1, <3>2, TimedConcat
  <2> HIDE DEF t
  <2>5. /\ d.listed = k.listed \ S /\ d.available = FALSE /\ d.timers = t /\ d.removed = {}
        /\ d.born = k.born /\ d.alive = k.alive /\ d.active = k.active /\ d.raced = k.raced
        /\ d.vlm = k.vlm /\ d.refs = k.refs /\ d.link = k.link /\ d.leaked = k.leaked
        /\ d.used = k.used
    BY <1>4, <1>5, <2>1 DEF StateType
  <2>6. d \in StateType
    <3>1. k.listed \ Range(gone) \in SUBSET Vehicles
      BY <1>5, StateFields
    <3> QED BY <1>5, <2>1, <2>4, <3>1 DEF StateType, TimerSet
  <2> HIDE DEF d
  <2>7. Managers(d) /\ Counted(d)
    <3>1. SameHeld(k, d)
      BY <2>5 DEF SameHeld
    <3> QED BY <1>7, <2>5, <3>1, CountedStays DEF Managers
  <2>8. Kept(d)
    BY <1>5, <1>6, <2>5 DEF Kept, StateInv, SameList
  <2>9. t # <<>>
    <3>1. S \subseteq k.alive /\ S \cap (k.listed \ Range(gone)) = {}
      BY <1>2, <1>4, <1>5 DEF SameList
    <3> QED BY <2>2, <2>4, <3>1, TimedEmpty
  <2>10. Listing(d)
    BY <1>4, <1>7, <2>4, <2>5, <2>9 DEF Listing
  <2> QED BY <1>1, <2>5, <2>6, <2>7, <2>8, <2>10, BecomesInv DEF StateInv, d
<1> QED BY <1>8, <1>9

-----------------------------------------------------------------------------
(* References *)

LEMMA HoldersBorn ==
  ASSUME NEW w, w.alive \subseteq 1..w.born, NEW l
  PROVE  Holders(w, l) \subseteq 1..w.born /\ Holders(w, l) \cap Deleted(w) = {}
BY DEF Holders, Deleted

\* Disjoint sets count apart.
LEMMA Apart ==
  ASSUME NEW A, NEW B, IsFiniteSet(A), IsFiniteSet(B), A \cap B = {}
  PROVE  Cardinality(A \cup B) = Cardinality(A) + Cardinality(B)
<1>1. Cardinality(A) \in Nat /\ Cardinality(B) \in Nat
  BY FS_CardinalityType
<1>2. Cardinality(A \cap B) = 0
  BY FS_EmptySet
<1>3. Cardinality(A \cup B) = Cardinality(A) + Cardinality(B) - Cardinality(A \cap B)
  BY FS_Union
<1> QED BY <1>1, <1>2, <1>3

\* The references of a link when vehicles take it up.
LEMMA TakenUp ==
  ASSUME NEW w, StateInv(w), NEW l \in Links, NEW A, IsFiniteSet(A),
         A \cap Holders(w, l) = {}, A \cap Deleted(w) = {}
  PROVE  References(w, l, Holders(w, l) \cup A, w.refs[l] + Cardinality(A))
<1>1. w \in StateType /\ w.alive \subseteq 1..w.born
  BY DEF StateInv, Listing
<1>2. PICK lost \in SUBSET Deleted(w) :
            /\ w.refs[l] = Cardinality(Holders(w, l) \cup lost)
            /\ l \notin w.leaked => lost = {}
  BY DEF StateInv, Counted, References
<1> DEFINE B == Holders(w, l) \cup lost
<1>3. B \in SUBSET (1..w.born) /\ B \cap A = {}
  BY <1>1, HoldersBorn DEF Deleted
<1>4. Cardinality(B \cup A) = Cardinality(B) + Cardinality(A)
  BY <1>1, <1>3, Finite, Apart
<1>5. B \cup A = (Holders(w, l) \cup A) \cup lost
  OBVIOUS
<1> QED BY <1>2, <1>4, <1>5 DEF References

\* The references of a link when vehicles give it up.
LEMMA GivenUp ==
  ASSUME NEW w, StateInv(w), NEW l \in Links, NEW A, A \subseteq Holders(w, l)
  PROVE  /\ w.refs[l] - Cardinality(A) \in Nat
         /\ References(w, l, Holders(w, l) \ A, w.refs[l] - Cardinality(A))
<1>1. w \in StateType /\ w.alive \subseteq 1..w.born
  BY DEF StateInv, Listing
<1>2. PICK lost \in SUBSET Deleted(w) :
            /\ w.refs[l] = Cardinality(Holders(w, l) \cup lost)
            /\ l \notin w.leaked => lost = {}
  BY DEF StateInv, Counted, References
<1> DEFINE B == (Holders(w, l) \ A) \cup lost
<1>3. B \in SUBSET (1..w.born) /\ A \in SUBSET (1..w.born) /\ B \cap A = {}
  BY <1>1, HoldersBorn DEF Deleted
<1>4. Cardinality(B \cup A) = Cardinality(B) + Cardinality(A)
  BY <1>1, <1>3, Finite, Apart
<1>5. B \cup A = Holders(w, l) \cup lost
  OBVIOUS
<1>6. Cardinality(A) \in Nat /\ Cardinality(B) \in Nat
  BY <1>1, <1>3, Finite
<1> HIDE DEF B
<1>7. w.refs[l] - Cardinality(A) = Cardinality(B)
  <2>1. w.refs[l] = Cardinality(B) + Cardinality(A)
    BY <1>2, <1>4, <1>5
  <2>2. \A a, b \in Nat : (b + a) - a = b
    OBVIOUS
  <2> QED BY <1>6, <2>1, <2>2
<1> QED BY <1>2, <1>6, <1>7 DEF B, References


-----------------------------------------------------------------------------
(* Messages *)

LEMMA ReceivedInv ==
  ASSUME NEW w, StateInv(w), w.removed = {}, NEW s, NEW l \in Links, w.link[l] # "closed"
  PROVE  LET n == Received(w, s, l)
         IN  StateInv(n) /\ n.removed = {}
<1> DEFINE n == Received(w, s, l)
           O == Objects(w, s)
           A == Adding(w, s, l)
           new == [v \in Vehicles |-> IF v \in O THEN mavlinkMessageReceived(w.vlm[v], l)
                                                ELSE w.vlm[v]]
           count == w.refs[l] + Cardinality(A)
<1>1. /\ w \in StateType /\ w.listed \subseteq w.alive /\ w.alive \subseteq 1..w.born
      /\ w.alive \subseteq Vehicles
  BY StateFields DEF StateInv, Listing
<1>2. O \subseteq w.alive /\ A \subseteq w.alive /\ A \cap Holders(w, l) = {}
  BY DEF Objects, Adding
<1>3. \A v \in Vehicles : Sound(w.vlm[v])
  BY DEF StateInv, Managers
<1>4. ASSUME NEW v \in Vehicles
      PROVE  /\ Sound(new[v]) /\ new[v].closed = w.vlm[v].closed
             /\ HeldBy(new[v]) = HeldBy(w.vlm[v]) \cup (IF v \in O THEN {l} ELSE {})
             /\ v \notin O => new[v] = w.vlm[v]
  <2>1. CASE v \in O
    BY <1>3, <2>1, MessageSound
  <2>2. CASE v \notin O
    BY <1>3, <2>2
  <2> QED BY <2>1, <2>2
<1>5. new \in [Vehicles -> ManagerType]
  <2>1. \A v \in Vehicles : new[v] \in ManagerType
    BY <1>4 DEF Sound, Sane
  <2> QED BY <2>1
<1>6. IsFiniteSet(A) /\ Cardinality(A) \in Nat
  BY <1>1, <1>2, Finite
<1>7. count \in Nat
  BY <1>1, <1>6, StateFields
<1> HIDE DEF new, O, count
<1>8. n = [w EXCEPT !.vlm = new, !.refs[l] = count]
  BY DEF Received, new, O, count
<1>9. /\ n.vlm = new /\ n.refs = [w.refs EXCEPT ![l] = count] /\ n.link = w.link
      /\ n.leaked = w.leaked /\ n.used = w.used /\ n.removed = w.removed /\ SameList(w, n)
  BY <1>1, <1>8 DEF StateType, SameList
<1>10. n \in StateType
  <2>1. [w.refs EXCEPT ![l] = count] \in [Links -> Nat]
    BY <1>1, <1>7, StateFields
  <2> QED BY <1>1, <1>5, <1>8, <2>1 DEF StateType
<1> HIDE DEF n
<1>11. Managers(n)
  BY <1>1, <1>2, <1>4, <1>9 DEF Managers, StateInv, SameList
<1>12. Kept(n)
  BY <1>1, <1>4, <1>9 DEF Kept, StateInv, SameList
<1>13. /\ Holders(n, l) = Holders(w, l) \cup A
       /\ \A k \in Links : k # l => Holders(n, k) = Holders(w, k)
  <2>1. \A v \in w.alive, k \in Links :
           k \in HeldBy(n.vlm[v]) <=> k \in HeldBy(w.vlm[v]) \/ (v \in O /\ k = l)
    BY <1>1, <1>4, <1>9
  <2>2. n.alive = w.alive /\ A = O \ Holders(w, l)
    BY <1>9 DEF SameList, Adding, O
  <2> QED BY <1>2, <2>1, <2>2 DEF Holders
<1>14. Deleted(n) = Deleted(w) /\ A \cap Deleted(w) = {}
  BY <1>2, <1>9 DEF Deleted, SameList
<1>15. n.refs[l] = count /\ \A k \in Links : k # l => n.refs[k] = w.refs[k]
  BY <1>1, <1>9, StateFields
<1>16. Counted(n)
  <2> SUFFICES ASSUME NEW k \in Links
               PROVE  /\ References(w, k, Holders(n, k), n.refs[k])
                      /\ w.link[k] = "closed" => Holders(n, k) = {}
                      /\ k \notin w.leaked /\ w.link[k] = "open" /\ k \in w.used
                            => Holders(n, k) # {}
    BY <1>9, <1>14 DEF Counted, References
  <2>1. CASE k # l
    BY <1>13, <1>15, <2>1 DEF StateInv, Counted
  <2>2. CASE k = l
    <3>1. References(w, l, Holders(w, l) \cup A, count)
      BY <1>2, <1>6, <1>14, TakenUp DEF count
    <3>2. l \notin w.leaked /\ w.link[l] = "open" /\ l \in w.used => Holders(w, l) # {}
      BY DEF StateInv, Counted
    <3> QED BY <1>13, <1>15, <2>2, <3>1, <3>2
  <2> QED BY <2>1, <2>2
<1> QED BY <1>9, <1>10, <1>11, <1>12, <1>16, ListingStays DEF StateInv, n


\* The state with a new vehicle, before it is made active.
Created(w, s, l) ==
    LET v == w.born + 1
    IN  [w EXCEPT !.born = v, !.system[v] = s, !.alive = @ \cup {v}, !.listed = @ \cup {v},
                  !.vlm[v] = addLink(@, l), !.refs[l] = @ + 1]

LEMMA CreatedIs ==
  ASSUME NEW w, StateInv(w), w.removed = {}, w.born < MaxVehicles, NEW s \in Systems,
         NEW l \in Links, w.link[l] # "closed"
  PROVE  LET n == Created(w, s, l)
             v == w.born + 1
         IN  /\ n \in StateType /\ Managers(n) /\ Kept(n) /\ Counted(n)
             /\ n.born = v /\ n.alive = w.alive \cup {v} /\ n.listed = w.listed \cup {v}
             /\ n.active = w.active /\ n.available = w.available /\ n.timers = w.timers
             /\ n.raced = w.raced /\ n.removed = {} /\ n.link = w.link
             /\ v \in Vehicles /\ v \notin w.alive /\ v # None
<1> DEFINE n == Created(w, s, l)
           v == w.born + 1
           m == addLink(w.vlm[v], l)
<1>1. /\ w \in StateType /\ w.listed \subseteq w.alive /\ w.alive \subseteq 1..w.born
      /\ w.alive \subseteq Vehicles /\ w.born \in Nat
  BY StateFields, VehiclesAssumption DEF StateInv, Listing
<1>2. /\ v \in Vehicles /\ v \notin w.alive /\ v # None /\ v \notin 1..w.born
      /\ v \in 0..MaxVehicles /\ 1..v = 1..w.born \cup {v}
  BY <1>1, VehiclesAssumption DEF Vehicles, None
<1>3. w.vlm[v] = NewManager
  BY <1>2 DEF StateInv, Managers
<1>4. Sound(m) /\ HeldBy(m) = {l} /\ ~m.closed /\ m \in ManagerType
  <2>1. Sound(m) /\ HeldBy(m) = {} \cup {l} /\ ~m.closed
    BY <1>3, NewIsSound, AddLinkSound
  <2> QED BY <2>1 DEF Sound, Sane
<1> HIDE DEF v, m
<1>5. n = [w EXCEPT !.born = v, !.system[v] = s, !.alive = @ \cup {v}, !.listed = @ \cup {v},
                    !.vlm[v] = m, !.refs[l] = @ + 1]
  BY DEF Created, v, m
<1>6. /\ n.born = v /\ n.alive = w.alive \cup {v} /\ n.listed = w.listed \cup {v}
      /\ n.active = w.active /\ n.available = w.available /\ n.timers = w.timers
      /\ n.raced = w.raced /\ n.removed = {} /\ n.link = w.link /\ n.leaked = w.leaked
      /\ n.used = w.used /\ n.vlm = [w.vlm EXCEPT ![v] = m]
      /\ n.refs = [w.refs EXCEPT ![l] = @ + 1]
  BY <1>1, <1>5 DEF StateType
<1>7. n \in StateType
  <2> DEFINE refs == [w.refs EXCEPT ![l] = @ + 1]
             vlm == [w.vlm EXCEPT ![v] = m]
             system == [w.system EXCEPT ![v] = s]
             alive == w.alive \cup {v}
             listed == w.listed \cup {v}
  <2>1. /\ refs \in [Links -> Nat] /\ vlm \in [Vehicles -> ManagerType]
        /\ system \in [Vehicles -> Systems \cup {None}]
        /\ alive \in SUBSET Vehicles /\ listed \in SUBSET Vehicles
    BY <1>1, <1>2, <1>4, StateFields
  <2>2. n = [w EXCEPT !.born = v, !.system = system, !.alive = alive, !.listed = listed,
                      !.vlm = vlm, !.refs = refs]
    BY <1>1, <1>5 DEF StateType
  <2> HIDE DEF refs, vlm, system, alive, listed, n
  <2> QED BY <1>1, <1>2, <2>1, <2>2 DEF StateType
<1> HIDE DEF n
<1>8. n.vlm[v] = m /\ \A u \in Vehicles : u # v => n.vlm[u] = w.vlm[u]
  BY <1>1, <1>2, <1>6, StateFields
<1>9. Managers(n)
  BY <1>4, <1>6, <1>8 DEF Managers, StateInv
<1>10. Kept(n)
  BY <1>1, <1>2, <1>4, <1>6, <1>8 DEF Kept, StateInv
<1>11. /\ Holders(n, l) = Holders(w, l) \cup {v}
       /\ \A k \in Links : k # l => Holders(n, k) = Holders(w, k)
  <2>1. \A u \in w.alive : n.vlm[u] = w.vlm[u]
    BY <1>1, <1>2, <1>8
  <2> QED BY <1>4, <1>6, <1>8, <2>1 DEF Holders
<1>12. Deleted(n) = Deleted(w) /\ {v} \cap Deleted(w) = {} /\ {v} \cap Holders(w, l) = {}
  BY <1>2, <1>6 DEF Deleted, Holders
<1>13. n.refs[l] = w.refs[l] + 1 /\ \A k \in Links : k # l => n.refs[k] = w.refs[k]
  BY <1>1, <1>6, StateFields
<1>14. Counted(n)
  <2> SUFFICES ASSUME NEW k \in Links
               PROVE  /\ References(w, k, Holders(n, k), n.refs[k])
                      /\ w.link[k] = "closed" => Holders(n, k) = {}
                      /\ k \notin w.leaked /\ w.link[k] = "open" /\ k \in w.used
                            => Holders(n, k) # {}
    BY <1>6, <1>12 DEF Counted, References
  <2>1. CASE k # l
    BY <1>11, <1>13, <2>1 DEF StateInv, Counted
  <2>2. CASE k = l
    <3>1. IsFiniteSet({v}) /\ Cardinality({v}) = 1
      BY FS_Singleton
    <3>2. References(w, l, Holders(w, l) \cup {v}, w.refs[l] + Cardinality({v}))
      BY <1>12, <3>1, TakenUp
    <3> QED BY <1>11, <1>13, <2>2, <3>1, <3>2
  <2> QED BY <2>1, <2>2
<1> QED BY <1>2, <1>6, <1>7, <1>9, <1>10, <1>14 DEF n, v

LEMMA HeartbeatInv ==
  ASSUME NEW s \in Systems, NEW l \in Links, gcs.link[l] # "closed", StateInv(gcs),
         gcs.removed = {}, Known(s) \/ gcs.born < MaxVehicles
  PROVE  LET n == vehicleHeartbeatInfo(gcs, s, l)
         IN  StateInv(n) /\ n.removed = {} /\ n.link = gcs.link
<1>1. CASE Known(s)
  BY <1>1 DEF vehicleHeartbeatInfo
<1>2. CASE ~Known(s)
  <2> DEFINE n == Created(gcs, s, l)
             v == gcs.born + 1
  <2>1. /\ n \in StateType /\ Managers(n) /\ Kept(n) /\ Counted(n)
        /\ n.born = v /\ n.alive = gcs.alive \cup {v} /\ n.listed = gcs.listed \cup {v}
        /\ n.active = gcs.active /\ n.available = gcs.available /\ n.timers = gcs.timers
        /\ n.raced = gcs.raced /\ n.removed = {} /\ n.link = gcs.link
        /\ v \in Vehicles /\ v \notin gcs.alive /\ v # None
    BY <1>2, CreatedIs
  <2>2. vehicleHeartbeatInfo(gcs, s, l) = IF n.listed # {v} THEN n ELSE setActiveVehicle(n, v)
    BY <1>2 DEF vehicleHeartbeatInfo, Created
  <2>3. Listing(gcs)
    BY DEF StateInv
  <2>4. gcs.born \in Nat
    BY StateFields, VehiclesAssumption DEF StateInv
  <2> HIDE DEF n
  <2>5. n.listed \subseteq n.alive /\ n.alive \subseteq 1..n.born
    BY <2>1, <2>3, <2>4 DEF Listing
  <2>6. Timed(n.timers, n.alive, n.listed)
    BY <2>1, <2>3, TimedNew DEF Listing
  <2>7. n.active \in n.alive \cup {None} /\ n.listed # {}
    BY <2>1, <2>3 DEF Listing
  <2>8. CASE n.listed # {v}
    <3>1. gcs.listed # {}
      BY <2>1, <2>8
    <3>2. Listing(n)
      BY <2>1, <2>3, <2>5, <2>6, <2>7, <3>1 DEF Listing
    <3> QED BY <2>1, <2>2, <2>8, <3>2 DEF StateInv
  <2>9. CASE n.listed = {v}
    <3> DEFINE r == setActiveVehicle(n, v)
               t == Append(n.timers, <<"activate", v>>)
    <3>1. v # n.active
      BY <2>1, <2>3 DEF Listing
    <3>2. r = [n EXCEPT !.available = @ /\ n.active = None, !.timers = t]
      BY <3>1 DEF setActiveVehicle
    <3>3. t \in Seq(TimerSet) /\ t # <<>> /\ Timed(t, n.alive, n.listed)
      <4>1. n.timers \in Seq(TimerSet) /\ v \in n.listed \cap Vehicles
        BY <2>1, <2>9, StateFields
      <4>2. n.listed \in SUBSET n.alive
        BY <2>5
      <4> QED BY <2>6, <4>1, <4>2, TimedAppend
    <3> HIDE DEF t
    <3>4. /\ r.born = n.born /\ r.alive = n.alive /\ r.listed = n.listed /\ r.active = n.active
          /\ r.timers = t /\ r.removed = {} /\ r.link = n.link /\ r.vlm = n.vlm
          /\ r.refs = n.refs /\ r.leaked = n.leaked /\ r.used = n.used
      BY <2>1, <3>2 DEF StateType
    <3>5. r \in StateType
      BY <2>1, <3>2, <3>3 DEF StateType, TimerSet
    <3> HIDE DEF r
    <3>6. Managers(r) /\ Kept(r)
      BY <2>1, <3>4 DEF Managers, Kept
    <3>7. SameHeld(n, r)
      BY <3>4 DEF SameHeld
    <3>8. Counted(r)
      BY <2>1, <3>4, <3>7, CountedStays
    <3>9. Listing(r)
      BY <2>5, <2>7, <3>3, <3>4 DEF Listing
    <3> QED BY <2>1, <2>2, <2>9, <3>4, <3>5, <3>6, <3>8, <3>9 DEF StateInv, r
  <2> QED BY <2>8, <2>9
<1> QED BY <1>1, <1>2


-----------------------------------------------------------------------------
(* Links that go *)

LEMMA CloseInv ==
  ASSUME NEW w, StateInv(w), w.removed = {}, NEW v \in w.alive
  PROVE  StateInv(closeVehicle(w, v))
<1> DEFINE m == w.vlm[v]
           gone == HeldBy(m)
           refs == [l \in Links |-> IF l \in gone THEN w.refs[l] - 1 ELSE w.refs[l]]
           link == [l \in Links |-> IF l \in gone /\ w.refs[l] = 1 /\ w.link[l] = "open"
                                    THEN "closing" ELSE w.link[l]]
           n == closeVehicle(w, v)
<1>1. /\ w \in StateType /\ w.listed \subseteq w.alive /\ w.alive \subseteq 1..w.born
      /\ w.alive \subseteq Vehicles /\ v \in Vehicles
  BY StateFields DEF StateInv, Listing
<1>2. Sound(m) /\ Sane(m)
  BY <1>1 DEF StateInv, Managers, Sound
<1>3. /\ Sound(Emptied(m)) /\ HeldBy(Emptied(m)) = {} /\ Emptied(m).closed
      /\ Emptied(m) \in ManagerType
  BY <1>2, EmptiedSound DEF Sound, Sane
<1>4. \A l \in Links : l \in gone <=> v \in Holders(w, l)
  BY DEF Holders
<1>5. ASSUME NEW l \in gone, l \in Links
      PROVE  /\ w.refs[l] - 1 \in Nat
             /\ References(w, l, Holders(w, l) \ {v}, w.refs[l] - 1)
  <2>1. Cardinality({v}) = 1 /\ {v} \subseteq Holders(w, l)
    BY <1>4, <1>5, FS_Singleton
  <2>2. /\ w.refs[l] - Cardinality({v}) \in Nat
        /\ References(w, l, Holders(w, l) \ {v}, w.refs[l] - Cardinality({v}))
    BY <1>5, <2>1, GivenUp
  <2> QED BY <2>1, <2>2
<1>6. refs \in [Links -> Nat] /\ link \in [Links -> {"open", "closing", "closed"}]
  BY <1>1, <1>5, StateFields
<1>7. /\ \A l \in Links : refs[l] = IF l \in gone THEN w.refs[l] - 1 ELSE w.refs[l]
      /\ \A l \in Links : link[l] = "closed" => w.link[l] = "closed"
      /\ \A l \in Links : link[l] = "open" => w.link[l] = "open" /\ (l \in gone => w.refs[l] # 1)
  BY <1>1, StateFields
<1>8. n = [w EXCEPT !.refs = refs, !.link = link, !.vlm[v] = Emptied(m), !.removed = {v}]
  BY <1>1 DEF closeVehicle, removeVehicleReferences, Emptied, StateType
<1> HIDE DEF refs, link, n
<1>9. /\ n.vlm = [w.vlm EXCEPT ![v] = Emptied(m)] /\ n.refs = refs /\ n.link = link
      /\ n.leaked = w.leaked /\ n.used = w.used /\ n.removed = {v} /\ SameList(w, n)
  BY <1>1, <1>8 DEF StateType, SameList
<1>10. n \in StateType
  <2>1. [w.vlm EXCEPT ![v] = Emptied(m)] \in [Vehicles -> ManagerType]
    BY <1>1, <1>3, StateFields
  <2> QED BY <1>1, <1>6, <1>8, <2>1 DEF StateType
<1>11. n.vlm[v] = Emptied(m) /\ \A u \in Vehicles : u # v => n.vlm[u] = w.vlm[u]
  BY <1>1, <1>9, StateFields
<1>12. Managers(n)
  BY <1>3, <1>9, <1>11 DEF Managers, StateInv, SameList
<1>13. Kept(n)
  BY <1>1, <1>9, <1>11 DEF Kept, StateInv, SameList
<1>14. \A l \in Links : Holders(n, l) = Holders(w, l) \ {v}
  <2>1. \A u \in w.alive : u # v => n.vlm[u] = w.vlm[u]
    BY <1>1, <1>11
  <2> QED BY <1>3, <1>9, <1>11, <2>1 DEF Holders, SameList
<1>15. Deleted(n) = Deleted(w)
  BY <1>9 DEF Deleted, SameList
<1>16. Counted(n)
  <2> SUFFICES ASSUME NEW l \in Links
               PROVE  /\ References(w, l, Holders(w, l) \ {v}, refs[l])
                      /\ link[l] = "closed" => Holders(w, l) \ {v} = {}
                      /\ l \notin w.leaked /\ link[l] = "open" /\ l \in w.used
                            => Holders(w, l) \ {v} # {}
    BY <1>9, <1>14, <1>15 DEF Counted, References
  <2>1. /\ link[l] = "closed" => Holders(w, l) = {}
        /\ l \notin w.leaked /\ link[l] = "open" /\ l \in w.used => Holders(w, l) # {}
    BY <1>7 DEF StateInv, Counted
  <2>2. CASE l \in gone
    <3>1. /\ w.refs[l] - 1 \in Nat
          /\ References(w, l, Holders(w, l) \ {v}, w.refs[l] - 1)
      BY <1>5, <2>2
    <3>2. ASSUME l \notin w.leaked, link[l] = "open" PROVE Holders(w, l) \ {v} # {}
      <4>1. w.refs[l] - 1 = Cardinality((Holders(w, l) \ {v}) \cup {})
        BY <3>1, <3>2 DEF References
      <4>2. w.refs[l] # 1 /\ w.refs[l] \in Nat
        BY <1>1, <1>7, <2>2, <3>2, StateFields
      <4>3. Cardinality({}) = 0
        BY FS_EmptySet
      <4> QED BY <4>1, <4>2, <4>3
    <3> QED BY <1>7, <2>1, <2>2, <3>1, <3>2
  <2>3. CASE l \notin gone
    <3>1. Holders(w, l) \ {v} = Holders(w, l)
      BY <1>4, <2>3
    <3>2. refs[l] = w.refs[l]
      BY <1>7, <2>3
    <3> QED BY <2>1, <3>1, <3>2 DEF StateInv, Counted
  <2> QED BY <2>2, <2>3
<1> QED BY <1>9, <1>10, <1>12, <1>13, <1>16, ListingStays DEF StateInv, n

\* What LinkClosed makes of the state before the signals are delivered.
Cut(w, l) ==
    [w EXCEPT !.link[l] = "closed", !.refs[l] = @ - Cardinality(Holders(w, l)),
              !.vlm = [v \in Vehicles |-> IF v \in Holders(w, l) THEN linkDisconnected(@[v], l)
                                          ELSE @[v]],
              !.removed = {v \in Holders(w, l) : signalsRemoved(w.vlm[v], l)}]

LEMMA CutInv ==
  ASSUME NEW w, StateInv(w), w.removed = {}, NEW l \in Links
  PROVE  StateInv(Cut(w, l))
<1> DEFINE n == Cut(w, l)
           on == Holders(w, l)
           new == [v \in Vehicles |-> IF v \in on THEN linkDisconnected(w.vlm[v], l)
                                      ELSE w.vlm[v]]
           ends == {v \in on : signalsRemoved(w.vlm[v], l)}
           count == w.refs[l] - Cardinality(on)
<1>1. /\ w \in StateType /\ w.listed \subseteq w.alive /\ w.alive \subseteq 1..w.born
      /\ w.alive \subseteq Vehicles
  BY StateFields DEF StateInv, Listing
<1>2. on \subseteq w.alive /\ \A v \in w.alive : v \in on <=> l \in HeldBy(w.vlm[v])
  BY DEF Holders
<1>3. ASSUME NEW v \in Vehicles
      PROVE  /\ Sound(new[v]) /\ new[v].closed = w.vlm[v].closed
             /\ HeldBy(new[v]) = HeldBy(w.vlm[v]) \ (IF v \in on THEN {l} ELSE {})
             /\ v \in on => (signalsRemoved(w.vlm[v], l) <=> HeldBy(new[v]) = {} /\ ~new[v].closed)
             /\ v \notin on => new[v] = w.vlm[v]
  <2>1. Sound(w.vlm[v])
    BY DEF StateInv, Managers
  <2>2. CASE v \in on
    <3>1. /\ Sound(new[v]) /\ HeldBy(new[v]) = HeldBy(w.vlm[v]) \ {l}
          /\ new[v].closed = w.vlm[v].closed
          /\ signalsRemoved(w.vlm[v], l) <=> new[v].links = <<>> /\ ~new[v].closed
      BY <1>2, <2>1, <2>2, DisconnectedSound
    <3>2. new[v].links \in Seq(Links)
      BY <3>1, ManagerFields DEF Sound, Sane
    <3> QED BY <2>2, <3>1, <3>2, Held
  <2>3. CASE v \notin on
    BY <2>1, <2>3
  <2> QED BY <2>2, <2>3
<1>4. new \in [Vehicles -> ManagerType]
  <2>1. \A v \in Vehicles : new[v] \in ManagerType
    BY <1>3 DEF Sound, Sane
  <2> QED BY <2>1
<1>5. /\ count \in Nat
      /\ References(w, l, on \ on, count)
  BY GivenUp
<1>6. n = [w EXCEPT !.link[l] = "closed", !.refs[l] = count, !.vlm = new, !.removed = ends]
  BY <1>1 DEF Cut, StateType
<1> HIDE DEF new, ends, count, n
<1>7. /\ n.vlm = new /\ n.refs = [w.refs EXCEPT ![l] = count]
      /\ n.link = [w.link EXCEPT ![l] = "closed"]
      /\ n.leaked = w.leaked /\ n.used = w.used /\ n.removed = ends /\ SameList(w, n)
  BY <1>1, <1>6 DEF StateType, SameList
<1>8. n \in StateType
  <2> DEFINE refs == [w.refs EXCEPT ![l] = count]
             link == [w.link EXCEPT ![l] = "closed"]
  <2>1. refs \in [Links -> Nat] /\ link \in [Links -> {"open", "closing", "closed"}]
    BY <1>1, <1>5, StateFields
  <2>2. ends \in SUBSET Vehicles
    BY <1>1, <1>2 DEF ends
  <2>3. n = [w EXCEPT !.link = link, !.refs = refs, !.vlm = new, !.removed = ends]
    BY <1>1, <1>6 DEF StateType
  <2> HIDE DEF refs, link
  <2> QED BY <1>1, <1>4, <2>1, <2>2, <2>3 DEF StateType
<1>9. Managers(n)
  BY <1>1, <1>2, <1>3, <1>7 DEF Managers, StateInv, SameList
<1>10. Kept(n)
  <2> SUFFICES ASSUME NEW v \in w.listed, v \notin ends
               PROVE  HeldBy(new[v]) # {} /\ ~new[v].closed
    BY <1>7 DEF Kept, SameList
  <2>1. v \in Vehicles /\ HeldBy(w.vlm[v]) # {} /\ ~w.vlm[v].closed
    BY <1>1 DEF Kept, StateInv
  <2>2. v \in on => ~signalsRemoved(w.vlm[v], l)
    BY DEF ends
  <2> QED BY <1>3, <2>1, <2>2
<1>11. Holders(n, l) = {} /\ \A k \in Links : k # l => Holders(n, k) = Holders(w, k)
  <2>1. \A v \in w.alive, k \in Links :
           k \in HeldBy(n.vlm[v]) <=> k \in HeldBy(w.vlm[v]) /\ ~ (v \in on /\ k = l)
    BY <1>1, <1>3, <1>7
  <2>2. n.alive = w.alive
    BY <1>7 DEF SameList
  <2> QED BY <1>2, <2>1, <2>2 DEF Holders
<1>12. Deleted(n) = Deleted(w)
  BY <1>7 DEF Deleted, SameList
<1>13. /\ n.refs[l] = count /\ n.link[l] = "closed"
       /\ \A k \in Links : k # l => n.refs[k] = w.refs[k] /\ n.link[k] = w.link[k]
  BY <1>1, <1>7, StateFields
<1>14. Counted(n)
  <2> SUFFICES ASSUME NEW k \in Links
               PROVE  /\ References(w, k, Holders(n, k), n.refs[k])
                      /\ n.link[k] = "closed" => Holders(n, k) = {}
                      /\ k \notin w.leaked /\ n.link[k] = "open" /\ k \in w.used
                            => Holders(n, k) # {}
    BY <1>7, <1>12 DEF Counted, References
  <2>1. CASE k # l
    BY <1>11, <1>13, <2>1 DEF StateInv, Counted
  <2>2. CASE k = l
    <3>1. on \ on = {}
      OBVIOUS
    <3> QED BY <1>5, <1>11, <1>13, <2>2, <3>1
  <2> QED BY <2>1, <2>2
<1> QED BY <1>7, <1>8, <1>9, <1>10, <1>14, ListingStays DEF StateInv, n


LEMMA OpenedInv ==
  ASSUME NEW w, StateInv(w), w.removed = {}, NEW l \in Links, w.link[l] = "closed"
  PROVE  LET n == [w EXCEPT !.link[l] = "open", !.refs[l] = 0, !.used = @ \ {l},
                            !.leaked = @ \ {l}]
         IN  StateInv(n) /\ n.removed = {}
<1> DEFINE n == [w EXCEPT !.link[l] = "open", !.refs[l] = 0, !.used = @ \ {l},
                          !.leaked = @ \ {l}]
           refs == [w.refs EXCEPT ![l] = 0]
           link == [w.link EXCEPT ![l] = "open"]
<1>1. w \in StateType
  BY DEF StateInv
<1>2. refs \in [Links -> Nat] /\ link \in [Links -> {"open", "closing", "closed"}]
  BY <1>1, StateFields
<1>3. n = [w EXCEPT !.link = link, !.refs = refs, !.used = @ \ {l}, !.leaked = @ \ {l}]
  BY <1>1 DEF StateType
<1>4. /\ refs[l] = 0 /\ link[l] = "open"
      /\ \A k \in Links : k # l => refs[k] = w.refs[k] /\ link[k] = w.link[k]
  BY <1>1, StateFields
<1> HIDE DEF n, refs, link
<1>5. /\ n.vlm = w.vlm /\ n.refs = refs /\ n.link = link /\ n.removed = {} /\ SameList(w, n)
      /\ n.used = w.used \ {l} /\ n.leaked = w.leaked \ {l}
  BY <1>1, <1>3 DEF StateType, SameList
<1>6. n \in StateType
  <2>1. w.used \ {l} \in SUBSET Links /\ w.leaked \ {l} \in SUBSET Links
    BY <1>1, StateFields
  <2> QED BY <1>1, <1>2, <1>3, <2>1 DEF StateType
<1>7. Managers(n) /\ Kept(n)
  BY <1>5 DEF Managers, Kept, StateInv, SameList
<1>8. Deleted(n) = Deleted(w) /\ \A k : Holders(n, k) = Holders(w, k)
  BY <1>5 DEF Deleted, Holders, SameList
<1>9. Counted(n)
  <2> SUFFICES ASSUME NEW k \in Links
               PROVE  /\ References(n, k, Holders(w, k), refs[k])
                      /\ link[k] = "closed" => Holders(w, k) = {}
                      /\ k \notin n.leaked /\ link[k] = "open" /\ k \in n.used
                            => Holders(w, k) # {}
    BY <1>5, <1>8 DEF Counted
  <2>1. CASE k # l
    BY <1>4, <1>5, <1>8, <2>1 DEF StateInv, Counted, References
  <2>2. CASE k = l
    <3>1. Holders(w, l) = {}
      BY DEF StateInv, Counted
    <3>2. References(n, l, {}, 0)
      <4>1. Cardinality({} \cup {}) = 0 /\ {} \in SUBSET Deleted(n)
        BY FS_EmptySet
      <4> QED BY <4>1 DEF References
    <3> QED BY <1>4, <1>5, <2>2, <3>1, <3>2
  <2> QED BY <2>1, <2>2
<1> QED BY <1>5, <1>6, <1>7, <1>9, ListingStays DEF StateInv, n

LEMMA ClosingInv ==
  ASSUME NEW w, StateInv(w), w.removed = {}, NEW l \in Links, w.link[l] = "open"
  PROVE  LET n == [w EXCEPT !.link[l] = "closing"]
         IN  StateInv(n) /\ n.removed = {}
<1> DEFINE n == [w EXCEPT !.link[l] = "closing"]
           link == [w.link EXCEPT ![l] = "closing"]
<1>1. w \in StateType
  BY DEF StateInv
<1>2. link \in [Links -> {"open", "closing", "closed"}]
  BY <1>1, StateFields
<1>3. n = [w EXCEPT !.link = link]
  BY <1>1 DEF StateType
<1>4. /\ link[l] = "closing"
      /\ \A k \in Links : k # l => link[k] = w.link[k]
  BY <1>1, StateFields
<1> HIDE DEF n, link
<1>5. /\ n.vlm = w.vlm /\ n.refs = w.refs /\ n.link = link /\ n.removed = {} /\ SameList(w, n)
      /\ n.used = w.used /\ n.leaked = w.leaked
  BY <1>1, <1>3 DEF StateType, SameList
<1>6. n \in StateType
  BY <1>1, <1>2, <1>3 DEF StateType
<1>7. Managers(n) /\ Kept(n)
  BY <1>5 DEF Managers, Kept, StateInv, SameList
<1>8. Deleted(n) = Deleted(w) /\ \A k : Holders(n, k) = Holders(w, k)
  BY <1>5 DEF Deleted, Holders, SameList
<1>9. Counted(n)
  <2> SUFFICES ASSUME NEW k \in Links
               PROVE  /\ References(n, k, Holders(w, k), w.refs[k])
                      /\ link[k] = "closed" => Holders(w, k) = {}
                      /\ k \notin w.leaked /\ link[k] = "open" /\ k \in w.used
                            => Holders(w, k) # {}
    BY <1>5, <1>8 DEF Counted
  <2>1. References(n, k, Holders(w, k), w.refs[k])
    BY <1>5, <1>8 DEF StateInv, Counted, References
  <2>2. (link[k] = "closed" => w.link[k] = "closed") /\ (link[k] = "open" => w.link[k] = "open")
    BY <1>4
  <2> QED BY <2>1, <2>2 DEF StateInv, Counted
<1> QED BY <1>5, <1>6, <1>7, <1>9, ListingStays DEF StateInv, n

-----------------------------------------------------------------------------
(* The active vehicle and the timers *)

\* Only what Listing tells may have changed, and no vehicle came, went or was listed.
SameVehicles(w, n) ==
    /\ n.vlm = w.vlm /\ n.refs = w.refs /\ n.link = w.link /\ n.leaked = w.leaked
    /\ n.used = w.used /\ n.removed = w.removed /\ n.born = w.born /\ n.alive = w.alive
    /\ n.listed = w.listed

LEMMA VehiclesStay ==
  ASSUME NEW w, NEW n, StateInv(w), SameVehicles(w, n), n \in StateType, Listing(n)
  PROVE  StateInv(n)
<1>1. SameHeld(w, n)
  BY DEF SameVehicles, SameHeld
<1>2. Counted(n)
  BY <1>1, CountedStays DEF SameVehicles, StateInv
<1>3. Managers(n) /\ Kept(n)
  BY DEF Managers, Kept, SameVehicles, StateInv
<1> QED BY <1>2, <1>3 DEF StateInv

LEMMA SetActiveInv ==
  ASSUME NEW w, StateInv(w), w.removed = {}, NEW v \in w.listed
  PROVE  LET n == setActiveVehicle(w, v)
         IN  StateInv(n) /\ n.removed = {}
<1>1. CASE v = w.active
  BY <1>1 DEF setActiveVehicle
<1>2. CASE v # w.active
  <2> DEFINE n == setActiveVehicle(w, v)
             t == Append(w.timers, <<"activate", v>>)
  <2>1. w \in StateType /\ Listing(w) /\ w.timers \in Seq(TimerSet) /\ v \in w.listed \cap Vehicles
    BY StateFields DEF StateInv
  <2>2. n = [w EXCEPT !.available = @ /\ w.active = None, !.timers = t]
    BY <1>2 DEF setActiveVehicle
  <2>3. t \in Seq(TimerSet) /\ t # <<>> /\ Timed(t, w.alive, w.listed)
    <3>1. w.listed \in SUBSET w.alive /\ Timed(w.timers, w.alive, w.listed)
      BY <2>1 DEF Listing
    <3> QED BY <2>1, <3>1, TimedAppend
  <2> HIDE DEF t
  <2>4. /\ SameVehicles(w, n) /\ n.active = w.active /\ n.timers = t
    BY <2>1, <2>2 DEF StateType, SameVehicles
  <2>5. n \in StateType
    BY <2>1, <2>2, <2>3 DEF StateType, TimerSet
  <2> HIDE DEF n
  <2>6. Listing(n)
    BY <2>1, <2>3, <2>4 DEF Listing, SameVehicles
  <2> QED BY <2>4, <2>5, <2>6, VehiclesStay DEF SameVehicles, n
<1> QED BY <1>1, <1>2

LEMMA ActivatedInv ==
  ASSUME NEW w, StateInv(w), w.removed = {}, w.timers # <<>>, Head(w.timers)[1] = "activate"
  PROVE  LET n == setActiveVehiclePhase2([w EXCEPT !.timers = Tail(@)], Head(w.timers)[2])
         IN  StateInv(n) /\ n.removed = {}
<1> DEFINE v == Head(w.timers)[2]
           t == Tail(w.timers)
           n == setActiveVehiclePhase2([w EXCEPT !.timers = Tail(@)], v)
<1>1. w \in StateType /\ Listing(w) /\ w.timers \in Seq(TimerSet) /\ w.listed \in SUBSET w.alive
      /\ w.alive \subseteq Vehicles
  BY StateFields DEF StateInv, Listing
<1>2. t \in Seq(TimerSet) /\ v \in w.alive /\ Timed(t, w.alive, w.listed)
  <2>1. Timed(w.timers, w.alive, w.listed)
    BY <1>1 DEF Listing
  <2> QED BY <1>1, <2>1, TimedTail
<1> HIDE DEF v, t
<1>3. n = [w EXCEPT !.timers = t, !.active = v, !.available = TRUE, !.raced = v \notin w.listed]
  BY <1>1 DEF setActiveVehiclePhase2, StateType, t
<1> HIDE DEF n
<1>4. /\ SameVehicles(w, n) /\ n.timers = t /\ n.active = v /\ n.available = TRUE
      /\ n.raced = (v \notin w.listed)
  BY <1>1, <1>3 DEF StateType, SameVehicles
<1>5. n \in StateType
  <2>1. v \in Vehicles \cup {None}
    BY <1>1, <1>2
  <2> QED BY <1>1, <1>2, <1>3, <2>1 DEF StateType, TimerSet
<1>6. Listing(n)
  <2>1. t = <<>> => w.alive \subseteq w.listed
    BY <1>2, TimedEmpty
  <2> QED BY <1>1, <1>2, <1>4, <2>1 DEF Listing, SameVehicles
<1> QED BY <1>4, <1>5, <1>6, VehiclesStay DEF SameVehicles, n, v

LEMMA DeletedInv ==
  ASSUME NEW w, StateInv(w), w.removed = {}, w.timers # <<>>, Head(w.timers)[1] = "delete"
  PROVE  LET n == deleteVehiclePhase2([w EXCEPT !.timers = Tail(@)], Head(w.timers)[2])
         IN  StateInv(n) /\ n.removed = {}
<1> DEFINE v == Head(w.timers)[2]
           t == Tail(w.timers)
           first == IF w.listed = {} THEN None ELSE Min(w.listed)
           gone == HeldBy(w.vlm[v])
           n == deleteVehiclePhase2([w EXCEPT !.timers = Tail(@)], v)
<1>1. w \in StateType /\ Listing(w) /\ w.timers \in Seq(TimerSet) /\ w.listed \in SUBSET w.alive
      /\ w.alive \subseteq Vehicles /\ w.alive \subseteq 1..w.born
  BY StateFields DEF StateInv, Listing
<1>2. t \in Seq(TimerSet) /\ v \in w.alive /\ v \notin w.listed /\ Timed(t, w.alive \ {v}, w.listed)
  <2>1. Timed(w.timers, w.alive, w.listed)
    BY <1>1 DEF Listing
  <2> QED BY <1>1, <2>1, TimedTail
<1>3. first \in w.listed \cup {None} /\ (w.listed = {} <=> first \notin w.listed)
  <2>1. w.listed \subseteq Nat
    BY <1>1 DEF Vehicles
  <2>2. w.listed # {} => Min(w.listed) \in w.listed
    BY <2>1, Least
  <2> QED BY <2>2
<1>4. /\ n.timers = t /\ n.active = first /\ n.alive = w.alive \ {v} /\ n.listed = w.listed
      /\ n.leaked = w.leaked \cup gone /\ n.vlm = [w.vlm EXCEPT ![v] = NewManager]
      /\ n.removed = {} /\ n.born = w.born /\ n.refs = w.refs /\ n.link = w.link
      /\ n.used = w.used /\ n.system = w.system
      /\ w.listed # {} => n.available = TRUE /\ n.raced = FALSE
      /\ w.listed = {} => n.available = w.available /\ n.raced = w.raced
  BY <1>1 DEF deleteVehiclePhase2, Delete, StateType
<1>5. n \in StateType
  <2> DEFINE vlm == [w.vlm EXCEPT ![v] = NewManager]
             alive == w.alive \ {v}
             leaked == w.leaked \cup gone
             available == IF w.listed = {} THEN w.available ELSE TRUE
             raced == IF w.listed = {} THEN w.raced ELSE FALSE
  <2>1. /\ vlm \in [Vehicles -> ManagerType] /\ alive \in SUBSET Vehicles
        /\ leaked \in SUBSET Links /\ first \in Vehicles \cup {None}
        /\ available \in BOOLEAN /\ raced \in BOOLEAN
    <3>1. NewManager \in ManagerType
      BY NewIsSound DEF Sound, Sane
    <3>2. gone \subseteq Links
      BY <1>1, <1>2, StateFields, ManagerFields, Held
    <3> QED BY <1>1, <1>3, <3>1, <3>2, StateFields
  <2>2. n = [w EXCEPT !.timers = t, !.active = first, !.alive = alive, !.leaked = leaked,
                      !.vlm = vlm, !.available = available, !.raced = raced]
    <3>1. CASE w.listed = {}
      BY <1>1, <3>1 DEF deleteVehiclePhase2, Delete, StateType
    <3>2. CASE w.listed # {}
      BY <1>1, <3>2, ZenonT(30) DEF deleteVehiclePhase2, Delete, StateType
    <3> QED BY <3>1, <3>2
  <2> HIDE DEF n, t, first, alive, leaked, vlm, available, raced
  <2> QED BY <1>1, <1>2, <2>1, <2>2 DEF StateType, TimerSet
<1> HIDE DEF n, t, v, first
<1>6. n.vlm[v] = NewManager /\ \A u \in Vehicles : u # v => n.vlm[u] = w.vlm[u]
  BY <1>1, <1>2, <1>4, StateFields
<1>7. Managers(n)
  BY <1>1, <1>4, <1>6, NewIsSound DEF Managers, StateInv
<1>8. Kept(n)
  BY <1>1, <1>2, <1>4, <1>6 DEF Kept, StateInv
<1>9. /\ \A l : Holders(n, l) = Holders(w, l) \ {v}
      /\ \A l \in Links : l \in gone <=> v \in Holders(w, l)
  <2>1. \A u \in w.alive : u # v => n.vlm[u] = w.vlm[u]
    BY <1>1, <1>6
  <2> QED BY <1>2, <1>4, <2>1 DEF Holders
<1>10. Deleted(n) = Deleted(w) \cup {v}
  BY <1>1, <1>2, <1>4 DEF Deleted
<1>11. Counted(n)
  <2> SUFFICES ASSUME NEW l \in Links
               PROVE  /\ References(n, l, Holders(w, l) \ {v}, w.refs[l])
                      /\ w.link[l] = "closed" => Holders(w, l) \ {v} = {}
                      /\ l \notin n.leaked /\ w.link[l] = "open" /\ l \in w.used
                            => Holders(w, l) \ {v} # {}
    <3>1. n.link = w.link /\ n.refs = w.refs /\ n.used = w.used
      BY <1>4
    <3> QED BY <1>9, <3>1 DEF Counted
  <2>1. PICK lost \in SUBSET Deleted(w) : /\ w.refs[l] = Cardinality(Holders(w, l) \cup lost)
                                          /\ l \notin w.leaked => lost = {}
    BY DEF StateInv, Counted, References
  <2> DEFINE more == lost \cup (IF l \in gone THEN {v} ELSE {})
  <2>2. /\ more \in SUBSET Deleted(n) /\ (Holders(w, l) \ {v}) \cup more = Holders(w, l) \cup lost
        /\ l \notin n.leaked => more = {}
    BY <1>4, <1>9, <1>10, <2>1
  <2>3. References(n, l, Holders(w, l) \ {v}, w.refs[l])
    BY <2>1, <2>2 DEF References
  <2>4. l \notin n.leaked => l \notin w.leaked /\ Holders(w, l) \ {v} = Holders(w, l)
    BY <1>4, <1>9
  <2> QED BY <2>3, <2>4 DEF StateInv, Counted
<1>12. Listing(n)
  <2>1. t = <<>> => w.alive \ {v} \subseteq w.listed
    BY <1>2, TimedEmpty
  <2> QED BY <1>1, <1>2, <1>3, <1>4 DEF Listing, None
<1> QED BY <1>4, <1>5, <1>7, <1>8, <1>11, <1>12 DEF StateInv, n, v


-----------------------------------------------------------------------------
(* The invariant *)

LEMMA SettingIs ==
  ASSUME setting \in Settings
  PROVE  setting.vehicles \in 0..MaxVehicles /\ setting.maxOps \in Nat
BY VehiclesAssumption

LEMMA InitInv == Init => IInv
<1> SUFFICES ASSUME Init PROVE IInv
  OBVIOUS
<1>1. /\ gcs.vlm = [v \in Vehicles |-> NewManager] /\ gcs.link = [l \in Links |-> "open"]
      /\ gcs.refs = [l \in Links |-> 0] /\ gcs.removed = {} /\ gcs.born = 0 /\ gcs.alive = {}
      /\ gcs.listed = {} /\ gcs.active = None /\ gcs.available = FALSE /\ gcs.timers = <<>>
      /\ gcs.used = {} /\ gcs.leaked = {}
  BY DEF Init
<1>2. NewManager \in ManagerType
  BY NewIsSound DEF Sound, Sane
<1>3. gcs \in StateType
  <2>1. 0 \in 0..MaxVehicles /\ <<>> \in Seq({"activate", "delete"} \X Vehicles)
    BY VehiclesAssumption
  <2>2. /\ [v \in Vehicles |-> NewManager] \in [Vehicles -> ManagerType]
        /\ [l \in Links |-> "open"] \in [Links -> {"open", "closing", "closed"}]
        /\ [l \in Links |-> 0] \in [Links -> Nat]
        /\ [v \in Vehicles |-> None] \in [Vehicles -> Systems \cup {None}]
    BY <1>2
  <2> QED BY <2>1, <2>2 DEF Init, StateType
<1>4. Managers(gcs) /\ Kept(gcs)
  BY <1>1, NewIsSound DEF Managers, Kept
<1>5. Counted(gcs)
  <2>1. \A l : Holders(gcs, l) = {}
    BY <1>1 DEF Holders
  <2>2. Cardinality({} \cup {}) = 0 /\ {} \in SUBSET Deleted(gcs)
    BY FS_EmptySet
  <2>3. \A l \in Links : gcs.refs[l] = 0 /\ gcs.link[l] = "open" /\ l \notin gcs.used
    BY <1>1
  <2> QED BY <2>1, <2>2, <2>3 DEF Counted, References
<1>6. Listing(gcs)
  <2>1. Timed(<<>>, {}, {})
    BY DEF Timed
  <2> QED BY <1>1, <2>1 DEF Listing
<1>7. setting \in Settings /\ ops \in 0..setting.maxOps
  BY SettingIs DEF Init
<1> QED BY <1>1, <1>3, <1>4, <1>5, <1>6, <1>7 DEF IInv, StateInv

\* The bounds of a setting.
LEMMA BoundsInv ==
  ASSUME IInv, Counts \/ UNCHANGED <<setting, ops>>
  PROVE  (setting \in Settings /\ ops \in 0..setting.maxOps)'
<1>1. setting \in Settings /\ ops \in 0..setting.maxOps /\ setting.maxOps \in Nat
  BY SettingIs DEF IInv
<1>2. CASE Counts
  BY <1>1, <1>2 DEF Counts
<1>3. CASE UNCHANGED <<setting, ops>>
  BY <1>1, <1>3
<1> QED BY <1>2, <1>3

LEMMA VehicleFacts ==
  ASSUME IInv
  PROVE  /\ gcs \in StateType /\ StateInv(gcs) /\ gcs.removed = {}
         /\ gcs.listed \subseteq gcs.alive /\ gcs.alive \subseteq Vehicles
         /\ \A v \in Vehicles : Sound(gcs.vlm[v]) /\ gcs.vlm[v] \in ManagerType
BY StateFields DEF IInv, StateInv, Listing, Managers, Sound, Sane

LEMMA MessageInv ==
  ASSUME IInv, NEW s \in Systems, NEW l \in Links, NEW heartbeat \in BOOLEAN,
         Message(s, l, heartbeat)
  PROVE  IInv'
<1> DEFINE w == IF heartbeat THEN vehicleHeartbeatInfo(gcs, s, l) ELSE gcs
<1>1. gcs.link[l] # "closed" /\ Becomes(Received(w, s, l)) /\ UNCHANGED <<setting, ops>>
  BY DEF Message
<1>2. heartbeat => Known(s) \/ gcs.born < MaxVehicles
  <2>1. heartbeat => Known(s) \/ gcs.born < setting.vehicles
    BY DEF Message
  <2>2. setting.vehicles \in 0..MaxVehicles /\ gcs.born \in 0..MaxVehicles /\ MaxVehicles \in Nat
    BY SettingIs, VehicleFacts, StateFields, VehiclesAssumption DEF IInv
  <2> QED BY <2>1, <2>2
<1>3. StateInv(w) /\ w.removed = {} /\ w.link = gcs.link
  BY <1>1, <1>2, HeartbeatInv, VehicleFacts
<1> HIDE DEF w
<1>4. StateInv(Received(w, s, l)) /\ Received(w, s, l).removed = {}
  BY <1>1, <1>3, ReceivedInv
<1> QED BY <1>1, <1>4, BecomesInv, BoundsInv DEF IInv

LEMMA SilentInv ==
  ASSUME IInv, NEW v \in Vehicles, NEW l \in Links, Silent(v, l)
  PROVE  IInv'
<1> DEFINE m == gcs.vlm[v]
           n == [m EXCEPT !.overdue = @ \cup {l}]
<1>1. v \in gcs.alive /\ gcs \in StateType /\ Sound(m) /\ m \in ManagerType /\ v \in Vehicles
  BY VehicleFacts DEF Silent
<1>2. n \in ManagerType /\ SameLinks(m, n) /\ n.primary = m.primary /\ n.told = m.told
      /\ n.refused = m.refused /\ n.picked = m.picked /\ n.handed = m.handed
  BY <1>1 DEF ManagerType, SameLinks
<1>3. Sound(n)
  BY <1>1, <1>2, FlagsSound
<1>4. HeldBy(n) = HeldBy(m) /\ n.closed = m.closed
  BY <1>2 DEF HeldBy, SameLinks
<1>5. [gcs EXCEPT !.vlm[v].overdue = @ \cup {l}] = [gcs EXCEPT !.vlm[v] = n]
  BY <1>1, StateFields DEF StateType
<1> HIDE DEF n
<1>6. StateInv([gcs EXCEPT !.vlm[v] = n]) /\ [gcs EXCEPT !.vlm[v] = n].removed = {}
  BY <1>1, <1>3, <1>4, OneManager, VehicleFacts
<1>7. Becomes([gcs EXCEPT !.vlm[v] = n]) /\ UNCHANGED <<setting, ops>>
  BY <1>5 DEF Silent
<1> QED BY <1>6, <1>7, BecomesInv, BoundsInv DEF IInv

LEMMA CommLostCheckInv ==
  ASSUME IInv, NEW v \in Vehicles, CommLostCheck(v)
  PROVE  IInv'
<1> DEFINE m == commLostCheck(gcs.vlm[v])
           w == [gcs EXCEPT !.vlm[v] = m]
<1>1. /\ IF closesVehicle(m) THEN Deliver(closeVehicle(w, v)) ELSE Becomes(w)
      /\ UNCHANGED <<setting, ops>>
  BY DEF CommLostCheck
<1>2. v \in gcs.alive /\ Sound(gcs.vlm[v])
  BY VehicleFacts DEF CommLostCheck
<1>3. Sound(m) /\ HeldBy(m) = HeldBy(gcs.vlm[v]) /\ m.closed = gcs.vlm[v].closed
  BY <1>2, CheckSound DEF HeldBy
<1> HIDE DEF m
<1>4. StateInv(w) /\ w.removed = {} /\ w.alive = gcs.alive
  BY <1>2, <1>3, OneManager, VehicleFacts
<1> HIDE DEF w
<1>5. StateInv(closeVehicle(w, v))
  BY <1>2, <1>4, CloseInv
<1>6. StateInv(gcs)' /\ gcs'.removed = {}
  BY <1>1, <1>4, <1>5, BecomesInv, DeliverInv
<1> QED BY <1>1, <1>6, BoundsInv DEF IInv

LEMMA TimerFiresInv ==
  ASSUME IInv, TimerFires
  PROVE  IInv'
<1> DEFINE v == Head(gcs.timers)[2]
           w == [gcs EXCEPT !.timers = Tail(@)]
<1>1. gcs.timers # <<>> /\ UNCHANGED <<setting, ops>>
  BY DEF TimerFires
<1>2. \/ Head(gcs.timers)[1] = "activate" /\ Becomes(setActiveVehiclePhase2(w, v))
      \/ Head(gcs.timers)[1] = "delete" /\ Becomes(deleteVehiclePhase2(w, v))
  BY DEF TimerFires
<1>3. CASE Head(gcs.timers)[1] = "activate" /\ Becomes(setActiveVehiclePhase2(w, v))
  <2>1. StateInv(setActiveVehiclePhase2(w, v)) /\ setActiveVehiclePhase2(w, v).removed = {}
    BY <1>1, <1>3, ActivatedInv, VehicleFacts
  <2> QED BY <1>1, <1>3, <2>1, BecomesInv, BoundsInv DEF IInv
<1>4. CASE Head(gcs.timers)[1] = "delete" /\ Becomes(deleteVehiclePhase2(w, v))
  <2>1. StateInv(deleteVehiclePhase2(w, v)) /\ deleteVehiclePhase2(w, v).removed = {}
    BY <1>1, <1>4, DeletedInv, VehicleFacts
  <2> QED BY <1>1, <1>4, <2>1, BecomesInv, BoundsInv DEF IInv
<1> QED BY <1>2, <1>3, <1>4

LEMMA LinksInv ==
  ASSUME IInv, NEW l \in Links, LinkClosed(l) \/ LinkOpened(l) \/ DisconnectLink(l)
  PROVE  IInv'
<1>1. CASE LinkClosed(l)
  <2>1. Deliver(Cut(gcs, l)) /\ (Counts \/ UNCHANGED <<setting, ops>>)
    BY <1>1 DEF LinkClosed, Cut
  <2>2. StateInv(gcs)' /\ gcs'.removed = {}
    BY <2>1, CutInv, DeliverInv, VehicleFacts
  <2> QED BY <2>1, <2>2, BoundsInv DEF IInv
<1>2. CASE LinkOpened(l)
  <2>1. /\ gcs.link[l] = "closed" /\ Counts
        /\ gcs' = [gcs EXCEPT !.link[l] = "open", !.refs[l] = 0, !.used = @ \ {l},
                              !.leaked = @ \ {l}]
    BY <1>2 DEF LinkOpened
  <2>2. StateInv(gcs)' /\ gcs'.removed = {}
    BY <2>1, OpenedInv, VehicleFacts
  <2> QED BY <2>1, <2>2, BoundsInv DEF IInv
<1>3. CASE DisconnectLink(l)
  <2>1. /\ gcs.link[l] = "open" /\ Counts
        /\ Becomes([gcs EXCEPT !.link[l] = "closing"])
    BY <1>3 DEF DisconnectLink
  <2>2. StateInv(gcs)' /\ gcs'.removed = {}
    BY <2>1, ClosingInv, BecomesInv, VehicleFacts
  <2> QED BY <2>1, <2>2, BoundsInv DEF IInv
<1> QED BY <1>1, <1>2, <1>3


LEMMA PickInv ==
  ASSUME IInv, NEW v \in Vehicles, NEW l \in Links, SetPrimaryLinkByName(v, l)
  PROVE  IInv'
<1> DEFINE m == gcs.vlm[v]
           n == [m EXCEPT !.primary = l, !.picked = TRUE, !.handed = TRUE]
<1>1. /\ v \in gcs.alive /\ gcs \in StateType /\ Sound(m) /\ Sane(m) /\ m \in ManagerType
      /\ l \in HeldBy(m)
  BY VehicleFacts DEF SetPrimaryLinkByName, Sound
<1>2. n \in ManagerType /\ SameLinks(m, n) /\ n.primary = l /\ n.picked /\ n.handed
      /\ n.told = m.told
  <2>1. l \in Links
    OBVIOUS
  <2>2. n \in ManagerType
    BY <1>1, <2>1 DEF ManagerType
  <2> QED BY <1>1, <2>2 DEF ManagerType, SameLinks
<1>3. setPrimaryLinkByName(gcs, v, l) = [gcs EXCEPT !.vlm[v] = n]
  BY <1>1, StateFields DEF StateType, setPrimaryLinkByName
<1> HIDE DEF n
<1>4. HeldBy(n) = HeldBy(m) /\ n.closed = m.closed
  BY <1>2 DEF HeldBy, SameLinks
<1>5. Sound(n)
  BY <1>1, <1>2, <1>4 DEF Sound, Sane, Chosen, SameLinks
<1>6. StateInv([gcs EXCEPT !.vlm[v] = n]) /\ [gcs EXCEPT !.vlm[v] = n].removed = {}
  BY <1>1, <1>4, <1>5, OneManager, VehicleFacts
<1>7. Becomes([gcs EXCEPT !.vlm[v] = n]) /\ Counts
  BY <1>3 DEF SetPrimaryLinkByName
<1> QED BY <1>6, <1>7, BecomesInv, BoundsInv DEF IInv

LEMMA FlagInv ==
  ASSUME IInv, NEW v \in Vehicles,
         CommandEnds(v) \/ SetCommunicationLostEnabled(v) \/ SetAutoDisconnect(v)
  PROVE  IInv'
<1> DEFINE m == gcs.vlm[v]
<1>1. v \in gcs.alive /\ gcs \in StateType /\ Sound(m) /\ m \in ManagerType
  <2>1. CommandEnds(v) => v \in gcs.alive
    BY DEF CommandEnds, IInv, StateInv, Managers, NewManager
  <2> QED BY <2>1, VehicleFacts DEF SetCommunicationLostEnabled, SetAutoDisconnect
<1>2. ASSUME NEW n \in ManagerType, n.links = m.links, n.lost = m.lost, n.closed = m.closed,
             n.primary = m.primary, n.told = m.told, n.picked = m.picked,
             n.refused = m.refused, n.handed = m.handed,
             Counts \/ UNCHANGED <<setting, ops>>, Becomes([gcs EXCEPT !.vlm[v] = n])
      PROVE  IInv'
  <2>1. Live(n) = Live(m) /\ HeldBy(n) = HeldBy(m)
    BY <1>2 DEF Live, HeldBy
  <2>2. Sound(n)
    BY <1>1, <1>2, <2>1 DEF Sound, Sane, Controlled, Chosen
  <2>3. StateInv([gcs EXCEPT !.vlm[v] = n]) /\ [gcs EXCEPT !.vlm[v] = n].removed = {}
    BY <1>1, <1>2, <2>1, <2>2, OneManager, VehicleFacts
  <2> QED BY <1>2, <2>3, BecomesInv, BoundsInv DEF IInv
<1>3. CASE SetCommunicationLostEnabled(v)
  <2> DEFINE n == [m EXCEPT !.enabled = ~@]
  <2>1. /\ n \in ManagerType /\ n.links = m.links /\ n.lost = m.lost /\ n.closed = m.closed
        /\ n.primary = m.primary /\ n.told = m.told /\ n.picked = m.picked
        /\ n.refused = m.refused /\ n.handed = m.handed
    BY <1>1 DEF ManagerType
  <2>2. [gcs EXCEPT !.vlm[v].enabled = ~@] = [gcs EXCEPT !.vlm[v] = n]
    BY <1>1, StateFields DEF StateType
  <2> HIDE DEF n
  <2>3. Becomes([gcs EXCEPT !.vlm[v] = n]) /\ Counts
    BY <1>3, <2>2 DEF SetCommunicationLostEnabled
  <2> QED BY <1>2, <2>1, <2>3
<1>4. CASE SetAutoDisconnect(v)
  <2> DEFINE n == [m EXCEPT !.autoDisconnect = TRUE]
  <2>1. /\ n \in ManagerType /\ n.links = m.links /\ n.lost = m.lost /\ n.closed = m.closed
        /\ n.primary = m.primary /\ n.told = m.told /\ n.picked = m.picked
        /\ n.refused = m.refused /\ n.handed = m.handed
    BY <1>1 DEF ManagerType
  <2>2. [gcs EXCEPT !.vlm[v].autoDisconnect = TRUE] = [gcs EXCEPT !.vlm[v] = n]
    BY <1>1, StateFields DEF StateType
  <2> HIDE DEF n
  <2>3. Becomes([gcs EXCEPT !.vlm[v] = n]) /\ Counts
    BY <1>4, <2>2 DEF SetAutoDisconnect
  <2> QED BY <1>2, <2>1, <2>3
<1>5. CASE CommandEnds(v)
  <2> DEFINE n == [m EXCEPT !.queue = "free"]
  <2>1. /\ n \in ManagerType /\ n.links = m.links /\ n.lost = m.lost /\ n.closed = m.closed
        /\ n.primary = m.primary /\ n.told = m.told /\ n.picked = m.picked
        /\ n.refused = m.refused /\ n.handed = m.handed
    BY <1>1 DEF ManagerType
  <2>2. [gcs EXCEPT !.vlm[v].queue = "free"] = [gcs EXCEPT !.vlm[v] = n]
    BY <1>1, StateFields DEF StateType
  <2> HIDE DEF n
  <2>3. Becomes([gcs EXCEPT !.vlm[v] = n]) /\ UNCHANGED <<setting, ops>>
    BY <1>5, <2>2 DEF CommandEnds
  <2> QED BY <1>2, <2>1, <2>3
<1> QED BY <1>3, <1>4, <1>5

LEMMA UserInv ==
  ASSUME IInv, NEW v \in Vehicles, CloseVehicle(v) \/ SetActiveVehicle(v)
  PROVE  IInv'
<1>1. CASE CloseVehicle(v)
  <2>1. v \in gcs.alive /\ Deliver(closeVehicle(gcs, v)) /\ Counts
    BY <1>1, VehicleFacts DEF CloseVehicle
  <2>2. StateInv(gcs)' /\ gcs'.removed = {}
    BY <2>1, CloseInv, DeliverInv, VehicleFacts
  <2> QED BY <2>1, <2>2, BoundsInv DEF IInv
<1>2. CASE SetActiveVehicle(v)
  <2>1. v \in gcs.listed /\ Becomes(setActiveVehicle(gcs, v)) /\ Counts
    BY <1>2 DEF SetActiveVehicle
  <2>2. StateInv(setActiveVehicle(gcs, v)) /\ setActiveVehicle(gcs, v).removed = {}
    BY <2>1, SetActiveInv, VehicleFacts
  <2> QED BY <2>1, <2>2, BecomesInv, BoundsInv DEF IInv
<1> QED BY <1>1, <1>2

LEMMA NextInv == IInv /\ [Next]_vars => IInv'
<1> SUFFICES ASSUME IInv, [Next]_vars PROVE IInv'
  OBVIOUS
<1>1. ASSUME NEW s \in Systems, NEW l \in Links, NEW heartbeat \in BOOLEAN,
             Message(s, l, heartbeat)
      PROVE  IInv'
  BY <1>1, MessageInv
<1>2. ASSUME NEW v \in Vehicles, NEW l \in Links, Silent(v, l) \/ SetPrimaryLinkByName(v, l)
      PROVE  IInv'
  BY <1>2, SilentInv, PickInv
<1>3. ASSUME NEW v \in Vehicles,
             \/ CommLostCheck(v) \/ CommandEnds(v) \/ CloseVehicle(v)
             \/ SetCommunicationLostEnabled(v)
             \/ SetAutoDisconnect(v) \/ SetActiveVehicle(v)
      PROVE  IInv'
  BY <1>3, CommLostCheckInv, FlagInv, UserInv
<1>4. CASE TimerFires
  BY <1>4, TimerFiresInv
<1>5. ASSUME NEW l \in Links, LinkClosed(l) \/ LinkOpened(l) \/ DisconnectLink(l)
      PROVE  IInv'
  BY <1>5, LinksInv
<1>6. CASE UNCHANGED vars
  BY <1>6 DEF vars, IInv
<1> QED BY <1>1, <1>2, <1>3, <1>4, <1>5, <1>6 DEF Next

LEMMA Invariant == Spec => []IInv
BY InitInv, NextInv, PTL DEF Spec

-----------------------------------------------------------------------------
(* Theorems *)

\* No reference count goes below zero or above the vehicles there were, and no timer, list
\* or primary link holds anything else than a vehicle or a link.
THEOREM TypeCorrect == Spec => []TypeOK
<1>1. IInv => TypeOK
  <2> SUFFICES ASSUME IInv PROVE TypeOK
    OBVIOUS
  <2>1. gcs \in StateType /\ gcs.removed = {} /\ gcs.alive \subseteq 1..gcs.born
    BY DEF IInv, StateInv, Listing
  <2>2. gcs.born \in 0..MaxVehicles /\ MaxVehicles \in Nat
    BY <2>1, StateFields, VehiclesAssumption
  <2>3. ASSUME NEW l \in Links PROVE gcs.refs[l] \in 0..MaxVehicles
    <3>1. PICK lost \in SUBSET Deleted(gcs) : gcs.refs[l] = Cardinality(Holders(gcs, l) \cup lost)
      BY DEF IInv, StateInv, Counted, References
    <3>2. Holders(gcs, l) \cup lost \subseteq 1..gcs.born
      BY <2>1, HoldersBorn DEF Deleted
    <3>3. Cardinality(Holders(gcs, l) \cup lost) <= gcs.born /\ gcs.refs[l] \in Nat
      BY <2>1, <3>2, Finite, StateFields
    <3> QED BY <2>2, <3>1, <3>3
  <2>4. gcs.refs \in [Links -> 0..MaxVehicles]
    BY <2>1, <2>3, StateFields
  <2>5. gcs \in GcsType
    BY <2>1, <2>4 DEF StateType, GcsType
  <2> QED BY <2>5 DEF TypeOK, IInv
<1> QED BY <1>1, Invariant, PTL

\* In whatever order links come, fall silent, are heard again and go, a manager's primary
\* link is the best there is, but for a link the user chose.
THEOREM BestLinkIsPrimary == Spec => []PrimaryIsLive
<1>1. IInv => PrimaryIsLive
  BY VehicleFacts DEF PrimaryIsLive, Sound, Chosen
<1> QED BY <1>1, Invariant, PTL

\* However the links of a vehicle come and go and whatever its queue refuses, at most one
\* high latency link is told to transmit: the first of the list.  It is the primary one or
\* was told to stop, or the last command for it was refused (VehicleLinkManager.cc:332-349,
\* MavCommandQueue.cc:274).  All this while the user has not chosen a link.
THEOREM HighLatencyIsControlled == Spec => []HighLatencyControlled
<1>1. IInv => HighLatencyControlled
  <2> SUFFICES ASSUME IInv, NEW v \in gcs.alive, ~gcs.vlm[v].picked
               PROVE  LET m == gcs.vlm[v]
                      IN  /\ \A k, l \in m.told : k = l
                          /\ \A l \in HeldBy(m) \ m.refused :
                                l \in m.told <=> l = m.primary /\ HighLatency(l)
    BY DEF HighLatencyControlled
  <2> DEFINE m == gcs.vlm[v]
  <2>1. Controlled(m) /\ m.links \in Seq(Links) /\ \A l \in m.told : HighLatency(l)
    BY VehicleFacts, ManagerFields DEF Sound, Sane
  <2>2. ASSUME NEW k \in m.told, NEW l \in m.told PROVE k = l
    <3>1. FirstHigh(m.links, k) /\ FirstHigh(m.links, l)
      BY <2>1 DEF Controlled
    <3> QED BY <2>1, <3>1, LenProperties DEF FirstHigh
  <2> QED BY <2>1, <2>2 DEF Controlled
<1> QED BY <1>1, Invariant, PTL

\* The reference counts follow the vehicles, however many share a link, until a vehicle is
\* deleted with a link it took up while it waited for its deletion.
THEOREM LinksAreCounted == Spec => []ReferencesMatch
<1>1. IInv => ReferencesMatch
  <2> SUFFICES ASSUME IInv, NEW l \in Links \ gcs.leaked
               PROVE  /\ gcs.link[l] = "closed" => Holders(gcs, l) = {}
                      /\ gcs.link[l] # "closed" => gcs.refs[l] = Cardinality(Holders(gcs, l))
                      /\ gcs.link[l] = "open" /\ l \in gcs.used => Holders(gcs, l) # {}
    BY DEF ReferencesMatch
  <2>1. gcs.refs[l] = Cardinality(Holders(gcs, l) \cup {})
    BY DEF IInv, StateInv, Counted, References
  <2>2. Holders(gcs, l) \cup {} = Holders(gcs, l)
    OBVIOUS
  <2> QED BY <2>1, <2>2 DEF IInv, StateInv, Counted
<1> QED BY <1>1, Invariant, PTL

\* A listed vehicle has a link, and one that left the list waits for one deletion.
THEOREM ListFollowsLinks == Spec => []ListedHasLink
<1>1. IInv => ListedHasLink
  <2> SUFFICES ASSUME IInv, NEW v \in Vehicles
               PROVE  LET waits == {i \in DOMAIN gcs.timers : gcs.timers[i] = <<"delete", v>>}
                      IN  /\ v \in gcs.listed => v \in gcs.alive /\ gcs.vlm[v].links # <<>>
                          /\ Cardinality(waits) = IF v \in gcs.alive \ gcs.listed THEN 1 ELSE 0
    BY DEF ListedHasLink
  <2> DEFINE waits == {i \in DOMAIN gcs.timers : gcs.timers[i] = <<"delete", v>>}
  <2>1. /\ gcs.listed \subseteq gcs.alive /\ Timed(gcs.timers, gcs.alive, gcs.listed)
        /\ gcs.timers \in Seq(TimerSet)
    BY VehicleFacts, StateFields DEF IInv, StateInv, Listing
  <2>2. DOMAIN gcs.timers \subseteq Nat
    BY <2>1, TimedIs
  <2>3. ASSUME v \in gcs.listed PROVE gcs.vlm[v].links # <<>>
    <3>1. HeldBy(gcs.vlm[v]) # {}
      BY <2>3 DEF IInv, StateInv, Kept
    <3> QED BY <3>1, VehicleFacts, ManagerFields, Held
  <2>4. ASSUME v \in gcs.alive \ gcs.listed PROVE Cardinality(waits) = 1
    <3>1. PICK i \in DOMAIN gcs.timers : gcs.timers[i] = <<"delete", v>>
      BY <2>1, <2>4 DEF Timed, Deletion
    <3>2. ASSUME NEW j \in waits PROVE j = i
      <4>1. /\ gcs.timers[i][1] = "delete" /\ gcs.timers[j][1] = "delete"
            /\ gcs.timers[i][2] = v /\ gcs.timers[j][2] = v /\ j \in DOMAIN gcs.timers
        BY <3>1
      <4>2. j <= i /\ i <= j
        BY <2>1, <4>1 DEF Timed
      <4> QED BY <2>2, <4>1, <4>2
    <3>3. waits = {i}
      BY <3>1, <3>2
    <3> QED BY <3>3, FS_Singleton
  <2>5. ASSUME v \notin gcs.alive \ gcs.listed PROVE Cardinality(waits) = 0
    <3>1. ASSUME NEW i \in waits PROVE FALSE
      <4>1. gcs.timers[i][1] = "delete" /\ gcs.timers[i][2] = v /\ i \in DOMAIN gcs.timers
        OBVIOUS
      <4> QED BY <2>1, <2>5, <4>1 DEF Timed
    <3>2. waits = {}
      BY <3>1
    <3> QED BY <3>2, FS_EmptySet
  <2> QED BY <2>1, <2>3, <2>4, <2>5
<1> QED BY <1>1, Invariant, PTL

\* No deleted vehicle is or becomes active, and with no timer under way the active vehicle
\* is a listed one, if there is one.
THEOREM ActiveIsThere == Spec => []ActiveIsListed
<1>1. IInv => ActiveIsListed
  BY DEF IInv, StateInv, Listing, Timed, ActiveIsListed
<1> QED BY <1>1, Invariant, PTL
=============================================================================
