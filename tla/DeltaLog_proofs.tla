--------------------------- MODULE DeltaLog_proofs ---------------------------
(***************************************************************************)
(* Facts about event lists: what recording, reclaiming and slicing a list  *)
(* do to what readers see in it.                                           *)
(***************************************************************************)
EXTENDS DeltaLog, SequenceTheorems, WellFoundedInduction, TLAPS

\* The least-number principle, from the well-foundedness of < on Nat.
LEMMA LeastNumber ==
    ASSUME NEW T \in SUBSET Nat, T # {}
    PROVE  \E x \in T : \A y \in T : x <= y
<1> DEFINE R == OpToRel(<, Nat)
<1>1. IsWellFoundedOn(R, Nat)
  BY NatLessThanWellFounded
<1>2. PICK x \in T : \A y \in T : ~ (<<y, x>> \in R)
  BY <1>1, WFMin
<1>3. ASSUME NEW y \in T PROVE x <= y
  <2>1. x \in Nat /\ y \in Nat
    OBVIOUS
  <2>2. ~ (y < x)
    BY <1>2, <2>1 DEF OpToRel
  <2> QED BY <2>1, <2>2
<1> QED BY <1>3

\* A bounded non-empty set of numbers has a greatest element.
LEMMA GreatestNumber ==
    ASSUME NEW n \in Nat, NEW T \in SUBSET (0 .. n), T # {}
    PROVE  \E x \in T : \A y \in T : y <= x
<1> DEFINE U == {n - y : y \in T}
<1>1. U \in SUBSET Nat /\ U # {}
  <2>1. \A y \in T : y \in 0 .. n /\ n - y \in Nat
    OBVIOUS
  <2>2. U \in SUBSET Nat
    BY <2>1
  <2>3. PICK y \in T : TRUE
    OBVIOUS
  <2>4. n - y \in U
    OBVIOUS
  <2> QED BY <2>2, <2>4
<1>2. PICK u \in U : \A v \in U : u <= v
  BY <1>1, LeastNumber
<1>3. PICK x \in T : u = n - x
  OBVIOUS
<1>4. \A y \in T : n - x <= n - y
  BY <1>2, <1>3
<1> QED BY <1>4

\* The entries of an event list are events.
LEMMA ListElements ==
    ASSUME NEW evs \in Seq(Event)
    PROVE  /\ Len(evs) \in Nat
           /\ \A i \in 1 .. Len(evs) :
                 evs[i] \in Event /\ evs[i].epoch \in Nat /\ evs[i].kind \in Kinds
<1>1. Len(evs) \in Nat /\ \A i \in 1 .. Len(evs) : evs[i] \in Event
  OBVIOUS
<1>2. \A ev \in Event : ev.epoch \in Nat /\ ev.kind \in Kinds
  BY DEF Event
<1> QED BY <1>1, <1>2

\* The reverse search of probe ends at the greatest position it may see.
LEMMA LastUpToSpec ==
    ASSUME NEW evs \in Seq(Event), NEW e \in Nat, UpTo(evs, e) # {}
    PROVE  /\ LastUpTo(evs, e) \in UpTo(evs, e)
           /\ \A j \in UpTo(evs, e) : j <= LastUpTo(evs, e)
<1>1. UpTo(evs, e) \in SUBSET (0 .. Len(evs)) /\ Len(evs) \in Nat
  BY DEF UpTo
<1>2. \E x \in UpTo(evs, e) : \A y \in UpTo(evs, e) : y <= x
  BY <1>1, GreatestNumber
<1> QED BY <1>2 DEF LastUpTo

\* On an epoch-sorted list the partition point exists, splits the list, and
\* is the position the reverse search of probe ends at.
LEMMA LeadSpec ==
    ASSUME NEW evs \in Seq(Event), Sorted(evs), NEW e \in Nat
    PROVE  /\ Lead(evs, e) \in 0 .. Len(evs)
           /\ \A i \in 1 .. Len(evs) : evs[i].epoch <= e <=> i <= Lead(evs, e)
           /\ UpTo(evs, e) = 1 .. Lead(evs, e)
           /\ UpTo(evs, e) # {} => LastUpTo(evs, e) = Lead(evs, e)
<1> DEFINE Good(c) == /\ \A i \in 1 .. c : evs[i].epoch <= e
                      /\ c < Len(evs) => evs[c + 1].epoch > e
<1>0. Len(evs) \in Nat /\ \A i \in 1 .. Len(evs) : evs[i] \in Event
  OBVIOUS
<1>1. \E c \in 0 .. Len(evs) : Good(c)
  <2>1. CASE UpTo(evs, e) = {}
    <3>1. Good(0)
      BY <1>0, <2>1 DEF UpTo, Event
    <3> QED BY <1>0, <3>1
  <2>2. CASE UpTo(evs, e) # {}
    <3> DEFINE k == LastUpTo(evs, e)
    <3>1. k \in UpTo(evs, e) /\ \A j \in UpTo(evs, e) : j <= k
      BY <2>2, LastUpToSpec
    <3>2. k \in 1 .. Len(evs) /\ evs[k].epoch <= e
      BY <3>1 DEF UpTo
    <3> HIDE DEF k
    <3>3. ASSUME NEW i \in 1 .. k PROVE evs[i].epoch <= e
      <4>1. evs[i].epoch <= evs[k].epoch /\ evs[i] \in Event /\ evs[k] \in Event
        BY <1>0, <3>2 DEF Sorted
      <4> QED BY <3>2, <4>1 DEF Event
    <3>4. k < Len(evs) => evs[k + 1].epoch > e
      <4>1. SUFFICES ASSUME k < Len(evs), ~(evs[k + 1].epoch > e) PROVE FALSE
        OBVIOUS
      <4>2. k + 1 \in 1 .. Len(evs) /\ evs[k + 1] \in Event
        BY <1>0, <3>2, <4>1
      <4>3. k + 1 \in UpTo(evs, e)
        BY <4>1, <4>2 DEF UpTo, Event
      <4> QED BY <3>1, <3>2, <4>3
    <3> QED BY <1>0, <3>2, <3>3, <3>4
  <2> QED BY <2>1, <2>2
<1>2. Lead(evs, e) = CHOOSE c \in 0 .. Len(evs) : Good(c)
  BY DEF Lead
<1>3. Lead(evs, e) \in 0 .. Len(evs) /\ Good(Lead(evs, e))
  <2> HIDE DEF Good
  <2> QED BY <1>1, <1>2
<1>4. \A i \in 1 .. Len(evs) : evs[i].epoch <= e <=> i <= Lead(evs, e)
  BY <1>0, <1>3 DEF Sorted, Event
<1>5. UpTo(evs, e) = 1 .. Lead(evs, e)
  BY <1>0, <1>3, <1>4 DEF UpTo
<1>6. UpTo(evs, e) # {} => LastUpTo(evs, e) = Lead(evs, e)
  <2>1. SUFFICES ASSUME UpTo(evs, e) # {} PROVE LastUpTo(evs, e) = Lead(evs, e)
    OBVIOUS
  <2>2. LastUpTo(evs, e) \in 1 .. Lead(evs, e)
    BY <1>5, <2>1, LastUpToSpec
  <2>3. Lead(evs, e) \in UpTo(evs, e) => Lead(evs, e) <= LastUpTo(evs, e)
    BY <2>1, LastUpToSpec
  <2>4. Lead(evs, e) \in UpTo(evs, e)
    <3> HIDE DEF Good
    <3> QED BY <1>3, <1>5, <2>2
  <2> HIDE DEF Good
  <2> QED BY <1>3, <2>2, <2>3, <2>4
<1> QED BY <1>3, <1>4, <1>5, <1>6

\* What probe returns on a sorted list, in terms of the partition point.
LEMMA ProbeAtLead ==
    ASSUME NEW evs \in Seq(Event), Sorted(evs), NEW e \in Nat
    PROVE  probe(evs, e) =
             IF Lead(evs, e) = 0 THEN NoEvent ELSE evs[Lead(evs, e)].kind
<1> DEFINE c == Lead(evs, e)
<1>1. c \in Nat /\ UpTo(evs, e) = 1 .. c /\ (UpTo(evs, e) # {} => LastUpTo(evs, e) = c)
  BY LeadSpec
<1> HIDE DEF c
<1>2. (UpTo(evs, e) = {}) <=> c = 0
  BY <1>1
<1>3. probe(evs, e) = IF c = 0 THEN NoEvent ELSE evs[c].kind
  BY <1>1, <1>2 DEF probe
<1> QED BY <1>3 DEF c

\* The partition point is the only position that splits the list at e.
LEMMA LeadUnique ==
    ASSUME NEW evs \in Seq(Event), Sorted(evs), NEW e \in Nat,
           NEW c \in 0 .. Len(evs),
           \A i \in 1 .. Len(evs) : evs[i].epoch <= e <=> i <= c
    PROVE  Lead(evs, e) = c
<1> DEFINE d == Lead(evs, e)
<1>1. d \in 0 .. Len(evs) /\ \A i \in 1 .. Len(evs) : evs[i].epoch <= e <=> i <= d
  BY LeadSpec
<1> HIDE DEF d
<1>2. \A i \in 1 .. Len(evs) : i <= c <=> i <= d
  BY <1>1
<1>3. c \in Nat /\ d \in Nat /\ Len(evs) \in Nat /\ c <= Len(evs) /\ d <= Len(evs)
  BY <1>1
<1>4. c > 0 => c <= d
  BY <1>2, <1>3
<1>5. d > 0 => d <= c
  BY <1>2, <1>3
<1>6. c = d
  BY <1>3, <1>4, <1>5
<1> QED BY <1>6 DEF d

\* Recording one event at an epoch no smaller than any before it.
LEMMA AppendEvent ==
    ASSUME NEW evs \in Seq(Event), Sorted(evs), NEW n \in Nat, NEW k \in Kinds,
           \A i \in 1 .. Len(evs) : evs[i].epoch <= n
    PROVE  LET new == Append(evs, [epoch |-> n, kind |-> k])
           IN  /\ new \in Seq(Event)
               /\ Sorted(new)
               /\ \A i \in 1 .. Len(new) : new[i].epoch <= n
               /\ \A e \in Nat : e < n => Lead(new, e) = Lead(evs, e)
               /\ \A e \in Nat : e < n => probe(new, e) = probe(evs, e)
               /\ \A e \in Nat : e >= n => probe(new, e) = k
<1> DEFINE ev == [epoch |-> n, kind |-> k]
           new == Append(evs, ev)
<1>0. ev \in Event /\ ev.epoch = n /\ ev.kind = k
  BY DEF Event
<1> HIDE DEF ev
<1>1. /\ new \in Seq(Event)
      /\ Len(new) = Len(evs) + 1 /\ Len(evs) \in Nat
      /\ \A i \in 1 .. Len(evs) : new[i] = evs[i]
      /\ new[Len(evs) + 1] = ev
  BY <1>0
<1>2. \A i \in 1 .. Len(evs) : evs[i] \in Event /\ evs[i].epoch \in Nat
  BY ListElements
<1> HIDE DEF new
<1>3. \A i \in 1 .. Len(new) : new[i].epoch <= n
  BY <1>0, <1>1
<1>4. Sorted(new)
  BY <1>0, <1>1, <1>2 DEF Sorted
<1>5. ASSUME NEW e \in Nat, e < n
      PROVE  Lead(new, e) = Lead(evs, e) /\ probe(new, e) = probe(evs, e)
  <2> DEFINE c == Lead(evs, e)
  <2>1. c \in 0 .. Len(evs) /\ \A i \in 1 .. Len(evs) : evs[i].epoch <= e <=> i <= c
    BY LeadSpec
  <2> HIDE DEF c
  <2>2. c \in 0 .. Len(new) /\ \A i \in 1 .. Len(new) : new[i].epoch <= e <=> i <= c
    BY <1>0, <1>1, <1>5, <2>1
  <2>3. Lead(new, e) = c
    BY <1>1, <1>4, <2>2, LeadUnique
  <2>4. probe(new, e) = IF c = 0 THEN NoEvent ELSE new[c].kind
    BY <1>1, <1>4, <2>3, ProbeAtLead
  <2>5. probe(evs, e) = IF c = 0 THEN NoEvent ELSE evs[c].kind
    BY ProbeAtLead DEF c
  <2>6. c # 0 => new[c] = evs[c]
    BY <1>1, <2>1
  <2>7. Lead(evs, e) = c
    BY DEF c
  <2> QED BY <2>3, <2>4, <2>5, <2>6, <2>7
<1>6. ASSUME NEW e \in Nat, e >= n PROVE probe(new, e) = k
  <2>1. \A i \in 1 .. Len(new) : new[i].epoch <= e <=> i <= Len(new)
    <3>1. \A i \in 1 .. Len(new) : new[i].epoch \in Nat
      BY <1>0, <1>1, <1>2
    <3> QED BY <1>1, <1>3, <1>6, <3>1
  <2>2. Lead(new, e) = Len(new)
    BY <1>1, <1>4, <2>1, LeadUnique
  <2>3. probe(new, e) = new[Len(new)].kind
    BY <1>1, <1>4, <2>2, ProbeAtLead
  <2> QED BY <1>0, <1>1, <2>3
<1>7. \A e \in Nat : e < n => Lead(new, e) = Lead(evs, e) /\ probe(new, e) = probe(evs, e)
  BY <1>5
<1>8. \A e \in Nat : e >= n => probe(new, e) = k
  BY <1>6
<1>9. new = Append(evs, [epoch |-> n, kind |-> k])
  BY DEF new, ev
<1> QED BY <1>1, <1>3, <1>4, <1>7, <1>8, <1>9

\* Dropping a prefix that lies at or below epoch m, as gc does: sortedness
\* stays, and every partition point at or above m moves by the same amount.
LEMMA DropPrefix ==
    ASSUME NEW evs \in Seq(Event), Sorted(evs), NEW m \in Nat,
           NEW k \in 0 .. Lead(evs, m)
    PROVE  LET rest == SubSeq(evs, k + 1, Len(evs))
           IN  /\ rest \in Seq(Event)
               /\ Sorted(rest)
               /\ Len(rest) = Len(evs) - k
               /\ \A i \in 1 .. Len(rest) : rest[i] = evs[i + k]
               /\ \A e \in Nat : e >= m => Lead(rest, e) = Lead(evs, e) - k
<1> DEFINE rest == SubSeq(evs, k + 1, Len(evs))
<1>0. Lead(evs, m) \in 0 .. Len(evs)
  BY LeadSpec
<1>1. k \in Nat /\ Len(evs) \in Nat /\ k <= Len(evs)
  BY <1>0, ListElements
<1>2. /\ rest \in Seq(Event)
      /\ Len(rest) = Len(evs) - k
      /\ \A i \in 1 .. Len(rest) : rest[i] = evs[i + k]
  <2>1. k + 1 \in 1 .. Len(evs) + 1
    BY <1>1
  <2>2. \A i \in 1 .. Len(evs) : evs[i] \in Event
    BY ListElements
  <2>3. /\ Len(rest) = Len(evs) - k
        /\ rest = [i \in 1 .. Len(evs) - k |-> evs[k + 1 + i - 1]]
    BY <1>1, <2>1
  <2>4. \A i \in 1 .. Len(evs) - k : rest[i] = evs[i + k] /\ i + k \in 1 .. Len(evs)
    BY <1>1, <2>3
  <2>5. rest \in Seq(Event)
    BY <1>1, <2>2, <2>3, <2>4
  <2> QED BY <2>3, <2>4, <2>5
<1> HIDE DEF rest
<1>3. \A i \in 1 .. Len(rest) : i + k \in 1 .. Len(evs)
  BY <1>1, <1>2
<1>4. Sorted(rest)
  <2>1. ASSUME NEW i \in 1 .. Len(rest), NEW j \in 1 .. Len(rest), i <= j
        PROVE  rest[i].epoch <= rest[j].epoch
    <3>1. i + k \in 1 .. Len(evs) /\ j + k \in 1 .. Len(evs) /\ i + k <= j + k
      BY <1>1, <1>3, <2>1
    <3> QED BY <1>2, <3>1 DEF Sorted
  <2> QED BY <2>1 DEF Sorted
<1>5. ASSUME NEW e \in Nat, e >= m PROVE Lead(rest, e) = Lead(evs, e) - k
  <2> DEFINE c == Lead(evs, e)
             b == Lead(evs, m)
  <2>1. c \in 0 .. Len(evs) /\ \A i \in 1 .. Len(evs) : evs[i].epoch <= e <=> i <= c
    BY LeadSpec
  <2>2. b \in 0 .. Len(evs) /\ \A i \in 1 .. Len(evs) : evs[i].epoch <= m <=> i <= b
    BY LeadSpec
  <2>3. k \in 0 .. b
    OBVIOUS
  <2> HIDE DEF b, c
  <2>4. b <= c
    <3>1. CASE b = 0
      BY <2>1, <3>1
    <3>2. CASE b > 0
      <4>1. b \in 1 .. Len(evs) /\ evs[b].epoch <= m /\ evs[b].epoch \in Nat
        BY <2>2, <3>2, ListElements
      <4>2. evs[b].epoch <= e
        BY <1>5, <4>1
      <4> QED BY <2>1, <4>1, <4>2
    <3> QED BY <2>2, <3>1, <3>2
  <2>5. c - k \in 0 .. Len(rest)
    BY <1>1, <1>2, <2>1, <2>2, <2>3, <2>4
  <2>6. ASSUME NEW i \in 1 .. Len(rest) PROVE rest[i].epoch <= e <=> i <= c - k
    <3>1. evs[i + k].epoch <= e <=> i + k <= c
      BY <1>3, <2>1
    <3>2. i + k <= c <=> i <= c - k
      BY <1>1, <1>2, <2>1
    <3> QED BY <1>2, <3>1, <3>2
  <2>7. Lead(rest, e) = c - k
    BY <1>2, <1>4, <2>5, <2>6, LeadUnique
  <2> QED BY <2>7 DEF c
<1>6. \A e \in Nat : e >= m => Lead(rest, e) = Lead(evs, e) - k
  BY <1>5
<1>7. rest = SubSeq(evs, k + 1, Len(evs))
  BY DEF rest
<1> QED BY <1>2, <1>4, <1>6, <1>7

\* Delta::gc at floor `min` is invisible to every reader at `min` or later,
\* for any base, and keeps the list sorted.
THEOREM GcInvisible ==
    ASSUME NEW evs \in Seq(Event), Sorted(evs), NEW min \in Nat, NEW inBase \in BOOLEAN
    PROVE  /\ gc(evs, min, inBase) \in Seq(Event)
           /\ Sorted(gc(evs, min, inBase))
           /\ \A e \in Nat : e >= min =>
                 (contains_key(inBase, gc(evs, min, inBase), e) <=> contains_key(inBase, evs, e))
<1> DEFINE cut == Lead(evs, min)
           restates == (evs[cut].kind = "Add") <=> inBase
           k == IF restates THEN cut ELSE cut - 1
           rest == SubSeq(evs, k + 1, Len(evs))
<1>1. cut \in 0 .. Len(evs)
  BY LeadSpec
<1>2. CASE cut = 0
  <2>1. gc(evs, min, inBase) = evs
    BY <1>2 DEF gc
  <2> QED BY <2>1
<1>3. CASE cut # 0
  <2>1. gc(evs, min, inBase) = rest
    <3>1. gc(evs, min, inBase) =
            SubSeq(evs, IF restates THEN cut + 1 ELSE cut, Len(evs))
      BY <1>3, Zenon DEF gc
    <3>2. (IF restates THEN cut + 1 ELSE cut) = k + 1
      <4> HIDE DEF restates
      <4> QED BY <1>1
    <3> QED BY <3>1, <3>2, Zenon
  <2>2. k \in 0 .. cut
    BY <1>1, <1>3
  <2> HIDE DEF rest, k
  <2>3. /\ rest \in Seq(Event)
        /\ Sorted(rest)
        /\ Len(rest) = Len(evs) - k
        /\ \A i \in 1 .. Len(rest) : rest[i] = evs[i + k]
        /\ \A e \in Nat : e >= min => Lead(rest, e) = Lead(evs, e) - k
    BY <2>2, DropPrefix DEF rest
  <2>4. ASSUME NEW e \in Nat, e >= min
        PROVE  contains_key(inBase, rest, e) <=> contains_key(inBase, evs, e)
    <3> DEFINE c == Lead(evs, e)
    <3>1. c \in 0 .. Len(evs) /\ Lead(rest, e) = c - k
      BY <2>3, <2>4, LeadSpec
    <3>2. Lead(rest, e) \in 0 .. Len(rest)
      BY <2>3, LeadSpec
    <3>3. probe(evs, e) = IF c = 0 THEN NoEvent ELSE evs[c].kind
      BY ProbeAtLead
    <3>4. probe(rest, e) = IF c - k = 0 THEN NoEvent ELSE rest[c - k].kind
      BY <2>3, <3>1, ProbeAtLead
    <3> HIDE DEF c
    <3>5. k \in Nat /\ k <= c /\ Len(evs) \in Nat
      BY <1>1, <2>2, <2>3, <3>1, <3>2, ListElements
    <3>6. CASE c - k # 0
      <4>1. rest[c - k] = evs[c]
        BY <2>3, <3>1, <3>2, <3>5, <3>6
      <4>2. c # 0
        BY <3>1, <3>5, <3>6
      <4> QED BY <3>3, <3>4, <3>6, <4>1, <4>2 DEF contains_key
    <3>7. CASE c - k = 0
      <4>1. c = k
        BY <3>1, <3>5, <3>7
      <4>2. cut <= c
        <5>1. \A i \in 1 .. Len(evs) : evs[i].epoch <= min <=> i <= cut
          BY LeadSpec
        <5>2. \A i \in 1 .. Len(evs) : evs[i].epoch <= e <=> i <= c
          BY LeadSpec DEF c
        <5>3. cut \in 1 .. Len(evs) /\ evs[cut].epoch \in Nat
          BY <1>1, <1>3, ListElements
        <5> HIDE DEF cut
        <5>4. evs[cut].epoch <= min
          BY <5>1, <5>3
        <5>5. evs[cut].epoch <= e
          BY <2>4, <5>3, <5>4
        <5> QED BY <5>2, <5>3, <5>5
      <4>3. restates /\ c = cut
        BY <1>1, <3>1, <4>1, <4>2 DEF k
      <4>4. probe(evs, e) = evs[cut].kind /\ evs[cut].kind \in Kinds
        BY <1>1, <1>3, <3>3, <4>3, ListElements
      <4>5. probe(rest, e) = NoEvent
        BY <3>4, <3>7
      <4> QED BY <4>3, <4>4, <4>5 DEF contains_key, Kinds, NoEvent
    <3> QED BY <3>6, <3>7
  <2> QED BY <2>1, <2>3, <2>4
<1> QED BY <1>2, <1>3

\* What collect_suffix returns, element by element.
LEMMA SuffixSpec ==
    ASSUME NEW evs \in Seq(Event), Sorted(evs), NEW a \in Nat, NEW u \in Nat, a <= u
    PROVE  LET s == collect_suffix(evs, a, u)
           IN  /\ Lead(evs, a) \in 0 .. Lead(evs, u)
               /\ Lead(evs, u) \in 0 .. Len(evs)
               /\ s \in Seq(Event)
               /\ Len(s) = Lead(evs, u) - Lead(evs, a)
               /\ \A i \in 1 .. Len(s) : s[i] = evs[Lead(evs, a) + i]
               /\ \A i \in 1 .. Len(s) : a < s[i].epoch /\ s[i].epoch <= u
               /\ Sorted(s)
<1> DEFINE la == Lead(evs, a)
           lu == Lead(evs, u)
           s == SubSeq(evs, la + 1, lu)
<1>1. la \in 0 .. Len(evs) /\ \A i \in 1 .. Len(evs) : evs[i].epoch <= a <=> i <= la
  BY LeadSpec
<1>2. lu \in 0 .. Len(evs) /\ \A i \in 1 .. Len(evs) : evs[i].epoch <= u <=> i <= lu
  BY LeadSpec
<1> HIDE DEF la, lu
<1>3. Len(evs) \in Nat /\ \A i \in 1 .. Len(evs) : evs[i] \in Event /\ evs[i].epoch \in Nat
  BY ListElements
<1>4. la <= lu
  <2>1. CASE la = 0
    BY <1>2, <2>1
  <2>2. CASE la > 0
    <3>1. la \in 1 .. Len(evs) /\ evs[la].epoch <= a
      BY <1>1, <1>3, <2>2
    <3> QED BY <1>2, <1>3, <3>1
  <2> QED BY <1>1, <2>1, <2>2
<1>5. Len(s) = lu - la /\ s = [i \in 1 .. lu - la |-> evs[la + i]]
  BY <1>1, <1>2, <1>3, <1>4
<1> HIDE DEF s
<1>6. \A i \in 1 .. Len(s) : s[i] = evs[la + i] /\ la + i \in 1 .. Len(evs)
  BY <1>1, <1>2, <1>3, <1>4, <1>5
<1>7. s \in Seq(Event)
  BY <1>1, <1>2, <1>3, <1>4, <1>5, <1>6
<1>8. \A i \in 1 .. Len(s) : a < s[i].epoch /\ s[i].epoch <= u
  BY <1>1, <1>2, <1>3, <1>5, <1>6
<1>9. Sorted(s)
  <2>1. ASSUME NEW i \in 1 .. Len(s), NEW j \in 1 .. Len(s), i <= j
        PROVE  s[i].epoch <= s[j].epoch
    <3>1. la + i <= la + j
      BY <1>1, <1>5, <2>1
    <3> QED BY <1>6, <3>1 DEF Sorted
  <2> QED BY <2>1 DEF Sorted
<1>10. s = collect_suffix(evs, a, u)
  BY DEF collect_suffix, la, lu, s
<1>11. la \in 0 .. lu
  BY <1>1, <1>2, <1>4
<1>12. la = Lead(evs, a) /\ lu = Lead(evs, u)
  BY DEF la, lu
<1> HIDE DEF la, lu, s
<1> QED BY <1>2, <1>5, <1>6, <1>7, <1>8, <1>9, <1>10, <1>11, <1>12

\* Delta::gc takes nothing from the events after its floor: what a merge
\* that froze at or above the floor still has to collect.
LEMMA GcKeepsSuffix ==
    ASSUME NEW evs \in Seq(Event), Sorted(evs), NEW min \in Nat, NEW inBase \in BOOLEAN,
           NEW a \in Nat, NEW u \in Nat, min <= a, a <= u
    PROVE  collect_suffix(gc(evs, min, inBase), a, u) = collect_suffix(evs, a, u)
<1> DEFINE cut == Lead(evs, min)
           restates == (evs[cut].kind = "Add") <=> inBase
           k == IF cut = 0 THEN 0 ELSE IF restates THEN cut ELSE cut - 1
           rest == SubSeq(evs, k + 1, Len(evs))
<1>1. cut \in 0 .. Len(evs)
  BY LeadSpec
<1>2. k \in 0 .. cut
  <2> HIDE DEF restates
  <2> QED BY <1>1
<1>3. gc(evs, min, inBase) = rest
  <2>1. CASE cut = 0
    <3>1. gc(evs, min, inBase) = evs
      BY <2>1 DEF gc
    <3>2. rest = evs
      BY <2>1, ListElements
    <3> QED BY <3>1, <3>2
  <2>2. CASE cut # 0
    <3>1. gc(evs, min, inBase) =
            SubSeq(evs, IF restates THEN cut + 1 ELSE cut, Len(evs))
      BY <2>2, Zenon DEF gc
    <3>2. (IF restates THEN cut + 1 ELSE cut) = k + 1
      <4> HIDE DEF restates
      <4> QED BY <1>1, <2>2
    <3> QED BY <3>1, <3>2, Zenon
  <2> QED BY <2>1, <2>2
<1> HIDE DEF k, rest
<1>4. /\ rest \in Seq(Event)
      /\ Sorted(rest)
      /\ Len(rest) = Len(evs) - k
      /\ \A i \in 1 .. Len(rest) : rest[i] = evs[i + k]
      /\ \A e \in Nat : e >= min => Lead(rest, e) = Lead(evs, e) - k
  BY <1>2, DropPrefix DEF rest
<1> DEFINE la == Lead(evs, a)
           lu == Lead(evs, u)
<1>5. la \in 0 .. Len(evs) /\ lu \in 0 .. Len(evs)
  BY LeadSpec
<1>6. Lead(rest, a) = la - k /\ Lead(rest, u) = lu - k
  BY <1>4
<1> DEFINE s == collect_suffix(rest, a, u)
           t == collect_suffix(evs, a, u)
<1>7. /\ Lead(rest, a) \in 0 .. Lead(rest, u) /\ Lead(rest, u) \in 0 .. Len(rest)
      /\ s \in Seq(Event) /\ Len(s) = Lead(rest, u) - Lead(rest, a)
      /\ \A i \in 1 .. Len(s) : s[i] = rest[Lead(rest, a) + i]
  BY <1>4, SuffixSpec
<1>8. /\ t \in Seq(Event) /\ Len(t) = lu - la
      /\ \A i \in 1 .. Len(t) : t[i] = evs[la + i]
  <2> HIDE DEF la, lu, t
  <2> QED BY SuffixSpec DEF la, lu, t
<1> HIDE DEF la, lu, cut, s, t
<1>9. k \in Nat /\ Len(evs) \in Nat
  BY <1>1, <1>2, ListElements
<1>10. Len(s) = Len(t)
  <2>1. Len(s) = (lu - k) - (la - k)
    BY <1>6, <1>7
  <2>2. (lu - k) - (la - k) = lu - la
    BY <1>5, <1>9
  <2> QED BY <1>8, <2>1, <2>2
<1>11. ASSUME NEW i \in 1 .. Len(s) PROVE s[i] = t[i]
  <2>1. (la - k) + i \in 1 .. Len(rest)
    BY <1>4, <1>5, <1>6, <1>7, <1>9
  <2>2. rest[(la - k) + i] = evs[((la - k) + i) + k]
    BY <1>4, <2>1
  <2>3. ((la - k) + i) + k = la + i
    BY <1>5, <1>9
  <2> QED BY <1>6, <1>7, <1>8, <1>10, <2>2, <2>3
<1>12. s = t
  BY <1>7, <1>8, <1>10, <1>11, SeqEqual
<1> QED BY <1>3, <1>12 DEF s, t

\* Two adjacent slices concatenate to one: shadow passes over disjoint
\* ascending epoch ranges lose and repeat nothing.
LEMMA SuffixesConcatenate ==
    ASSUME NEW evs \in Seq(Event), Sorted(evs),
           NEW a \in Nat, NEW m \in Nat, NEW u \in Nat, a <= m, m <= u
    PROVE  collect_suffix(evs, a, m) \o collect_suffix(evs, m, u) = collect_suffix(evs, a, u)
<1> DEFINE s == collect_suffix(evs, a, m)
           t == collect_suffix(evs, m, u)
           w == collect_suffix(evs, a, u)
           la == Lead(evs, a)
           lm == Lead(evs, m)
           lu == Lead(evs, u)
<1>1. /\ la \in 0 .. lm /\ lm \in 0 .. Len(evs)
      /\ s \in Seq(Event) /\ Len(s) = lm - la /\ \A i \in 1 .. Len(s) : s[i] = evs[la + i]
  BY SuffixSpec
<1>2. /\ lm \in 0 .. lu /\ lu \in 0 .. Len(evs)
      /\ t \in Seq(Event) /\ Len(t) = lu - lm /\ \A i \in 1 .. Len(t) : t[i] = evs[lm + i]
  BY SuffixSpec
<1>3. /\ w \in Seq(Event) /\ Len(w) = lu - la /\ \A i \in 1 .. Len(w) : w[i] = evs[la + i]
  <2>1. a <= u
    OBVIOUS
  <2> HIDE DEF w, la, lu
  <2> QED BY <2>1, SuffixSpec DEF w, la, lu
<1>4. Len(evs) \in Nat
  BY ListElements
<1> HIDE DEF s, t, w, la, lm, lu
<1>5. /\ s \o t \in Seq(Event)
      /\ Len(s \o t) = Len(s) + Len(t)
      /\ \A i \in 1 .. Len(s) + Len(t) :
            (s \o t)[i] = IF i <= Len(s) THEN s[i] ELSE t[i - Len(s)]
  BY <1>1, <1>2, ConcatProperties
<1>6. Len(s) + Len(t) = Len(w)
  BY <1>1, <1>2, <1>3, <1>4
<1>7. ASSUME NEW i \in 1 .. Len(w) PROVE (s \o t)[i] = w[i]
  <2>1. (s \o t)[i] = IF i <= Len(s) THEN s[i] ELSE t[i - Len(s)]
    BY <1>5, <1>6
  <2>2. CASE i <= Len(s)
    <3>1. i \in 1 .. Len(s)
      BY <1>1, <1>3, <1>4, <2>2
    <3> QED BY <1>1, <1>3, <2>1, <2>2, <3>1
  <2>3. CASE ~(i <= Len(s))
    <3>1. i - Len(s) \in 1 .. Len(t) /\ lm + (i - Len(s)) = la + i
      BY <1>1, <1>2, <1>3, <1>4, <2>3
    <3> QED BY <1>2, <1>3, <2>1, <2>3, <3>1
  <2> QED BY <2>2, <2>3
<1>8. s \o t = w
  BY <1>3, <1>5, <1>6, <1>7, SeqEqual
<1> QED BY <1>8 DEF s, t, w

\* A list sliced after epoch a reads, over a base that holds what the full
\* list showed at a, exactly like the full list: the merge's fold.
THEOREM FoldFaithful ==
    ASSUME NEW evs \in Seq(Event), Sorted(evs), NEW inBase \in BOOLEAN,
           NEW a \in Nat, NEW u \in Nat, a <= u,
           NEW e \in Nat, a <= e, e <= u
    PROVE  contains_key(contains_key(inBase, evs, a), collect_suffix(evs, a, u), e)
             <=> contains_key(inBase, evs, e)
<1> DEFINE s == collect_suffix(evs, a, u)
           la == Lead(evs, a)
           le == Lead(evs, e)
           lu == Lead(evs, u)
<1>1. /\ la \in 0 .. lu /\ lu \in 0 .. Len(evs)
      /\ s \in Seq(Event) /\ Len(s) = lu - la /\ \A i \in 1 .. Len(s) : s[i] = evs[la + i]
      /\ Sorted(s)
  BY SuffixSpec
<1>2. la \in 0 .. le /\ le \in 0 .. lu
  BY SuffixSpec
<1>3. \A i \in 1 .. Len(evs) : evs[i].epoch <= e <=> i <= le
  BY LeadSpec
<1>4. Len(evs) \in Nat
  BY ListElements
<1>5. probe(evs, e) = IF le = 0 THEN NoEvent ELSE evs[le].kind
  BY ProbeAtLead
<1>6. probe(evs, a) = IF la = 0 THEN NoEvent ELSE evs[la].kind
  BY ProbeAtLead
<1>7. probe(s, e) = IF Lead(s, e) = 0 THEN NoEvent ELSE s[Lead(s, e)].kind
  BY <1>1, ProbeAtLead
<1> HIDE DEF s, la, le, lu
<1>8. Lead(s, e) = le - la
  <2>1. le - la \in 0 .. Len(s)
    BY <1>1, <1>2, <1>4
  <2>2. ASSUME NEW i \in 1 .. Len(s) PROVE s[i].epoch <= e <=> i <= le - la
    <3>1. la + i \in 1 .. Len(evs) /\ (la + i <= le <=> i <= le - la)
      BY <1>1, <1>2, <1>4
    <3> QED BY <1>1, <1>3, <3>1
  <2> QED BY <1>1, <2>1, <2>2, LeadUnique
<1>9. CASE le = la
  <2>1. probe(s, e) = NoEvent
    BY <1>1, <1>7, <1>8, <1>9
  <2>2. probe(evs, e) = probe(evs, a)
    BY <1>5, <1>6, <1>9
  <2>3. contains_key(inBase, evs, a) <=> contains_key(inBase, evs, e)
    BY <2>2 DEF contains_key
  <2>4. contains_key(contains_key(inBase, evs, a), s, e) <=> contains_key(inBase, evs, a)
    BY <2>1 DEF contains_key, NoEvent
  <2> QED BY <2>3, <2>4 DEF s
<1>10. CASE le # la
  <2>1. le - la \in 1 .. Len(s) /\ le \in 1 .. Len(evs)
    BY <1>1, <1>2, <1>4, <1>10
  <2>2. s[le - la] = evs[le]
    BY <1>1, <1>2, <1>4, <2>1
  <2>3. probe(s, e) = probe(evs, e) /\ probe(evs, e) = evs[le].kind
    BY <1>5, <1>7, <1>8, <2>1, <2>2
  <2>4. probe(evs, e) # NoEvent
    BY <2>1, <2>3, ListElements DEF Kinds, NoEvent
  <2> QED BY <2>3, <2>4 DEF contains_key, s
<1> QED BY <1>9, <1>10

\* Recording a commit at a new epoch n: readers below n notice nothing, and
\* readers from n on see its deletes and then its adds.
THEOREM RecordSpec ==
    ASSUME NEW evs \in Seq(Event), Sorted(evs), NEW n \in Nat,
           \A i \in 1 .. Len(evs) : evs[i].epoch < n,
           NEW entries, NEW q
    PROVE  LET new == record(evs, entries, q, n)
           IN  /\ new \in Seq(Event)
               /\ Sorted(new)
               /\ \A i \in 1 .. Len(new) : new[i].epoch <= n
               /\ \A e \in Nat : e < n => probe(new, e) = probe(evs, e)
               /\ \A e \in Nat : e >= n =>
                     probe(new, e) = IF q \in entries.adds THEN "Add"
                                     ELSE IF q \in entries.tombs THEN "Tombstone"
                                     ELSE probe(evs, e)
               /\ \A a, u \in Nat : a <= u /\ u < n =>
                     collect_suffix(new, a, u) = collect_suffix(evs, a, u)
<1> DEFINE t == IF q \in entries.tombs
                THEN Append(evs, [epoch |-> n, kind |-> "Tombstone"]) ELSE evs
           new == IF q \in entries.adds
                  THEN Append(t, [epoch |-> n, kind |-> "Add"]) ELSE t
<1>1. \A i \in 1 .. Len(evs) : evs[i].epoch <= n
  BY ListElements
<1>2. /\ t \in Seq(Event)
      /\ Sorted(t)
      /\ \A i \in 1 .. Len(t) : t[i].epoch <= n
      /\ \A e \in Nat : e < n => Lead(t, e) = Lead(evs, e)
      /\ \A e \in Nat : e < n => probe(t, e) = probe(evs, e)
      /\ \A e \in Nat : e >= n =>
            probe(t, e) = IF q \in entries.tombs THEN "Tombstone" ELSE probe(evs, e)
  <2>1. CASE q \in entries.tombs
    <3>1. t = Append(evs, [epoch |-> n, kind |-> "Tombstone"]) /\ "Tombstone" \in Kinds
      BY <2>1 DEF Kinds
    <3> QED BY <1>1, <2>1, <3>1, AppendEvent
  <2>2. CASE q \notin entries.tombs
    BY <1>1, <2>2
  <2> QED BY <2>1, <2>2
<1>3. \A i \in 1 .. Len(evs) : t[i] = evs[i]
  <2>1. CASE q \in entries.tombs
    BY <2>1, ListElements DEF Event, Kinds
  <2>2. CASE q \notin entries.tombs
    BY <2>2
  <2> QED BY <2>1, <2>2
<1>4. Len(t) \in Nat /\ Len(evs) \in Nat /\ Len(t) >= Len(evs)
  <2>1. CASE q \in entries.tombs
    BY <2>1, ListElements DEF Event, Kinds
  <2>2. CASE q \notin entries.tombs
    BY <2>2, ListElements
  <2> QED BY <2>1, <2>2
<1> HIDE DEF t
<1>5. /\ new \in Seq(Event)
      /\ Sorted(new)
      /\ \A i \in 1 .. Len(new) : new[i].epoch <= n
      /\ \A e \in Nat : e < n => Lead(new, e) = Lead(t, e)
      /\ \A e \in Nat : e < n => probe(new, e) = probe(t, e)
      /\ \A e \in Nat : e >= n =>
            probe(new, e) = IF q \in entries.adds THEN "Add" ELSE probe(t, e)
  <2>1. CASE q \in entries.adds
    <3>1. new = Append(t, [epoch |-> n, kind |-> "Add"]) /\ "Add" \in Kinds
      BY <2>1 DEF Kinds
    <3> QED BY <1>2, <2>1, <3>1, AppendEvent
  <2>2. CASE q \notin entries.adds
    BY <1>2, <2>2
  <2> QED BY <2>1, <2>2
<1>6. \A i \in 1 .. Len(evs) : new[i] = evs[i]
  <2>1. CASE q \in entries.adds
    <3>1. \A i \in 1 .. Len(t) : new[i] = t[i]
      BY <1>2, <1>4, <2>1
    <3> QED BY <1>3, <1>4, <3>1
  <2>2. CASE q \notin entries.adds
    BY <1>3, <2>2
  <2> QED BY <2>1, <2>2
<1> HIDE DEF new
<1>7. ASSUME NEW a \in Nat, NEW u \in Nat, a <= u, u < n
      PROVE  collect_suffix(new, a, u) = collect_suffix(evs, a, u)
  <2> DEFINE x == collect_suffix(new, a, u)
             y == collect_suffix(evs, a, u)
  <2>1. Lead(new, a) = Lead(evs, a) /\ Lead(new, u) = Lead(evs, u)
    BY <1>2, <1>5, <1>7
  <2>2. /\ x \in Seq(Event) /\ Len(x) = Lead(new, u) - Lead(new, a)
        /\ \A i \in 1 .. Len(x) : x[i] = new[Lead(new, a) + i]
    BY <1>5, <1>7, SuffixSpec
  <2>3. /\ y \in Seq(Event) /\ Len(y) = Lead(evs, u) - Lead(evs, a)
        /\ \A i \in 1 .. Len(y) : y[i] = evs[Lead(evs, a) + i]
        /\ Lead(evs, a) \in 0 .. Lead(evs, u) /\ Lead(evs, u) \in 0 .. Len(evs)
    BY <1>7, SuffixSpec
  <2> HIDE DEF x, y
  <2>4. \A i \in 1 .. Len(y) : Lead(evs, a) + i \in 1 .. Len(evs)
    BY <1>4, <2>3
  <2>5. Len(x) = Len(y) /\ \A i \in 1 .. Len(x) : x[i] = y[i]
    BY <1>6, <2>1, <2>2, <2>3, <2>4
  <2>6. x = y
    BY <2>2, <2>3, <2>5, SeqEqual
  <2> QED BY <2>6 DEF x, y
<1>8. \A e \in Nat : e >= n =>
        probe(new, e) = IF q \in entries.adds THEN "Add"
                        ELSE IF q \in entries.tombs THEN "Tombstone"
                        ELSE probe(evs, e)
  BY <1>2, <1>5
<1>9. \A e \in Nat : e < n => probe(new, e) = probe(evs, e)
  BY <1>2, <1>5
<1>10. new = record(evs, entries, q, n)
  BY Zenon DEF new, t, record
<1> QED BY <1>5, <1>7, <1>8, <1>9, <1>10

\* gc keeps every bound on the epochs of a list.
LEMMA GcBounded ==
    ASSUME NEW evs \in Seq(Event), Sorted(evs), NEW min \in Nat, NEW inBase \in BOOLEAN,
           NEW n \in Nat, \A i \in 1 .. Len(evs) : evs[i].epoch <= n
    PROVE  LET new == gc(evs, min, inBase)
           IN  \A i \in 1 .. Len(new) : new[i].epoch <= n
<1> DEFINE cut == Lead(evs, min)
           restates == (evs[cut].kind = "Add") <=> inBase
           k == IF restates THEN cut ELSE cut - 1
           rest == SubSeq(evs, k + 1, Len(evs))
<1>1. cut \in 0 .. Len(evs)
  BY LeadSpec
<1>2. CASE cut = 0
  <2>1. gc(evs, min, inBase) = evs
    BY <1>2 DEF gc
  <2> QED BY <2>1
<1>3. CASE cut # 0
  <2>1. gc(evs, min, inBase) = rest
    <3>1. gc(evs, min, inBase) =
            SubSeq(evs, IF restates THEN cut + 1 ELSE cut, Len(evs))
      BY <1>3, Zenon DEF gc
    <3>2. (IF restates THEN cut + 1 ELSE cut) = k + 1
      <4> HIDE DEF restates
      <4> QED BY <1>1
    <3> QED BY <3>1, <3>2, Zenon
  <2>2. k \in 0 .. cut
    <3> HIDE DEF restates
    <3> QED BY <1>1, <1>3
  <2> HIDE DEF rest, k
  <2>3. Len(rest) = Len(evs) - k /\ \A i \in 1 .. Len(rest) : rest[i] = evs[i + k]
    BY <2>2, DropPrefix DEF rest
  <2>4. \A i \in 1 .. Len(rest) : i + k \in 1 .. Len(evs)
    BY <1>1, <2>2, <2>3, ListElements
  <2> QED BY <2>1, <2>3, <2>4
<1> QED BY <1>2, <1>3

\* Past the last event nothing changes any more.
LEMMA ProbePastEnd ==
    ASSUME NEW evs \in Seq(Event), NEW n \in Nat, NEW e \in Nat, n <= e,
           \A i \in 1 .. Len(evs) : evs[i].epoch <= n
    PROVE  probe(evs, e) = probe(evs, n)
<1>1. UpTo(evs, e) = UpTo(evs, n)
  BY ListElements DEF UpTo
<1> QED BY <1>1 DEF probe, LastUpTo
=============================================================================
