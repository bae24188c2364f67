----------------------- MODULE DurableRecovery_proofs -----------------------
(***************************************************************************)
(* What crashes leave on disk, for any number of commits and merges.       *)
(***************************************************************************)
EXTENDS DurableStore_proofs

-----------------------------------------------------------------------------
(* The logs replay: transactions increase along each log, and none is      *)
(* beyond what its writer has reached.                                     *)

Staging == {"shadow", "staged", "flipped", "pointed", "renamed"}
StageRecs == logs[stage].recs

OrderedLog(s) ==
    /\ \A i \in 1 .. Len(s) : s[i].kind = "tx" => s[i].epoch >= 1
    /\ \A i, j \in 1 .. Len(s) :
          i < j /\ s[i].kind = "tx" /\ s[j].kind = "tx" => s[i].epoch < s[j].epoch
AtMost(s, n, e) == \A i \in 1 .. n : s[i].epoch <= e

LogInv ==
    /\ \A w \in {0, 1} : OrderedLog(logs[w].recs)
    /\ mem.up => AtMost(Written, mem.written, mem.epoch)
    /\ merge.phase \in Staging => AtMost(StageRecs, Len(StageRecs), merge.mark)

LEMMA OrderedPrefix ==
    ASSUME NEW s \in Seq(Rec), OrderedLog(s), NEW n \in Nat, n <= Len(s)
    PROVE  OrderedLog(Prefix(s, n))
<1>1. PICK p : p = Prefix(s, n)
  OBVIOUS
<1>2. Len(p) = n /\ \A i \in 1 .. n : p[i] = s[i]
  BY <1>1, PrefixOfLog
<1>3. Len(s) \in Nat /\ \A i \in 1 .. n : i \in 1 .. Len(s)
  BY RecsAre
<1>4. OrderedLog(p)
  BY <1>2, <1>3 DEF OrderedLog
<1> QED BY <1>1, <1>4

\* A log stays ordered when what is appended is ordered and above m.
LEMMA OrderedConcat ==
    ASSUME NEW s \in Seq(Rec), OrderedLog(s), NEW t \in Seq(Rec), OrderedLog(t), NEW m \in Nat,
           AtMost(s, Len(s), m), \A j \in 1 .. Len(t) : t[j].kind = "tx" => t[j].epoch > m
    PROVE  OrderedLog(s \o t)
<1>1. PICK u \in Seq(Rec), a, b \in Nat : u = s \o t /\ a = Len(s) /\ b = Len(t)
  BY RecsAre, ConcatProperties
<1>2. /\ Len(u) = a + b /\ \A i \in 1 .. a : u[i] = s[i]
      /\ \A i \in a + 1 .. a + b : u[i] = t[i - a] /\ i - a \in 1 .. b
  BY <1>1, ConcatProperties
<1>3. \A i \in 1 .. Len(u) : i \in 1 .. a \/ i \in a + 1 .. a + b
  BY <1>1, <1>2
<1>4. /\ \A i \in 1 .. a : s[i].epoch \in Nat
      /\ \A i \in 1 .. b : t[i].epoch \in Nat
  BY <1>1, RecsAre
<1>5. \A i \in 1 .. Len(u) : u[i].kind = "tx" => u[i].epoch >= 1
  BY <1>1, <1>2, <1>3 DEF OrderedLog
<1>6. ASSUME NEW i \in 1 .. Len(u), NEW j \in 1 .. Len(u), i < j, u[i].kind = "tx", u[j].kind = "tx"
      PROVE  u[i].epoch < u[j].epoch
  <2>1. CASE j \in 1 .. a
    <3>1. i \in 1 .. a
      BY <1>1, <1>6, <2>1
    <3> QED BY <1>1, <1>2, <1>6, <2>1, <3>1 DEF OrderedLog
  <2>2. CASE i \in a + 1 .. a + b
    <3>1. j \in a + 1 .. a + b /\ i - a < j - a
      BY <1>1, <1>2, <1>6, <2>2
    <3> QED BY <1>1, <1>2, <1>6, <2>2, <3>1 DEF OrderedLog
  <2>3. CASE i \in 1 .. a /\ j \in a + 1 .. a + b
    <3>1. u[i].epoch <= m /\ u[i].epoch \in Nat
      BY <1>1, <1>2, <1>4, <2>3 DEF AtMost
    <3>2. u[j].epoch > m /\ u[j].epoch \in Nat
      BY <1>1, <1>2, <1>4, <1>6, <2>3
    <3> QED BY <3>1, <3>2
  <2> QED BY <1>3, <2>1, <2>2, <2>3
<1>7. OrderedLog(u)
  BY <1>5, <1>6 DEF OrderedLog
<1> QED BY <1>1, <1>7

LEMMA OneRecord ==
    ASSUME NEW r \in Rec
    PROVE  /\ <<r>> \in Seq(Rec) /\ Len(<<r>>) = 1 /\ <<r>>[1] = r
           /\ (r.kind = "tx" => r.epoch >= 1) => OrderedLog(<<r>>)
<1>1. <<r>> \in Seq(Rec) /\ Len(<<r>>) = 1 /\ <<r>>[1] = r
  OBVIOUS
<1>2. \A i \in 1 .. 1 : i = 1
  OBVIOUS
<1>3. PICK s : s = <<r>>
  OBVIOUS
<1>4. ASSUME r.kind = "tx" => r.epoch >= 1 PROVE OrderedLog(s)
  BY <1>1, <1>2, <1>3, <1>4 DEF OrderedLog
<1> QED BY <1>1, <1>3, <1>4

\* A log in order is one that recovery accepts.
LEMMA OrderedReplays ==
    ASSUME NEW s \in Seq(Rec), OrderedLog(s)
    PROVE  Increasing(replay(s).txs)
<1>1. PICK t \in Seq(Rec) : t = replay(s).txs
  BY ReplayIs
<1>2. Surviving(s) \in SUBSET (1 .. Len(s)) /\ Picks(s, Surviving(s), t)
  BY <1>1, ReplayIs, KeepPicks
<1>3. PICK m \in [1 .. Len(t) -> Surviving(s)] :
        /\ \A k \in 1 .. Len(t) : t[k] = s[m[k]]
        /\ \A j, k \in 1 .. Len(t) : j < k => m[j] < m[k]
  BY <1>2 DEF Picks
<1>4. \A k \in 1 .. Len(t) : m[k] \in 1 .. Len(s) /\ s[m[k]].kind = "tx"
  BY <1>2, <1>3 DEF Surviving
<1>5. Len(t) \in Nat /\ DOMAIN t = 1 .. Len(t) /\ \A k \in 1 .. Len(t) : t[k].epoch \in Nat
  BY RecsAre
<1>6. ASSUME NEW k \in 1 .. Len(t) PROVE t[k].epoch > (IF k = 1 THEN 0 ELSE t[k - 1].epoch)
  <2>1. CASE k = 1
    <3>1. t[k].epoch >= 1
      BY <1>3, <1>4 DEF OrderedLog
    <3> QED BY <1>5, <2>1, <3>1
  <2>2. CASE k # 1
    <3>1. k - 1 \in 1 .. Len(t) /\ k - 1 < k
      BY <1>5, <2>2
    <3>2. m[k - 1] < m[k] /\ m[k - 1] \in 1 .. Len(s) /\ m[k] \in 1 .. Len(s)
      BY <1>3, <1>4, <3>1
    <3>3. t[k - 1].epoch < t[k].epoch
      BY <1>3, <1>4, <3>1, <3>2 DEF OrderedLog
    <3> QED BY <1>5, <2>2, <3>1, <3>3
  <2> QED BY <2>1, <2>2
<1>7. Increasing(t)
  BY <1>5, <1>6 DEF Increasing
<1> QED BY <1>1, <1>7

LEMMA AtMostConcat ==
    ASSUME NEW s \in Seq(Rec), NEW t \in Seq(Rec), NEW e \in Nat,
           AtMost(s, Len(s), e), AtMost(t, Len(t), e)
    PROVE  s \o t \in Seq(Rec) /\ AtMost(s \o t, Len(s \o t), e)
<1>1. PICK u \in Seq(Rec), a, b \in Nat : u = s \o t /\ a = Len(s) /\ b = Len(t)
  BY RecsAre, ConcatProperties
<1>2. /\ Len(u) = a + b /\ \A i \in 1 .. a : u[i] = s[i]
      /\ \A i \in a + 1 .. a + b : u[i] = t[i - a] /\ i - a \in 1 .. b
  BY <1>1, ConcatProperties
<1>3. \A i \in 1 .. Len(u) : i \in 1 .. a \/ i \in a + 1 .. a + b
  BY <1>1, <1>2
<1>4. AtMost(u, Len(u), e)
  BY <1>1, <1>2, <1>3 DEF AtMost
<1> QED BY <1>1, <1>4

LEMMA AtMostUp ==
    ASSUME NEW s \in Seq(Rec), NEW n, n <= Len(s), n \in Nat, NEW d \in Nat, NEW e \in Nat,
           d <= e, AtMost(s, n, d)
    PROVE  AtMost(s, n, e)
<1> SUFFICES ASSUME NEW i \in 1 .. n PROVE s[i].epoch <= e
  BY DEF AtMost
<1>1. s[i].epoch \in Nat /\ s[i].epoch <= d
  <2>1. i \in 1 .. Len(s)
    BY RecsAre
  <2> QED BY <2>1, RecsAre DEF AtMost
<1> QED BY <1>1

\* Transactions picked from a sorted list.
LEMMA KeepOrdered ==
    ASSUME NEW s \in Seq(Rec), Sorted(s), NEW I \in SUBSET (1 .. Len(s)), NEW m \in Nat, NEW e \in Nat,
           \A i \in I : m < s[i].epoch /\ s[i].epoch <= e
    PROVE  /\ Keep(s, I) \in Seq(Rec) /\ OrderedLog(Keep(s, I))
           /\ AtMost(Keep(s, I), Len(Keep(s, I)), e)
           /\ \A j \in 1 .. Len(Keep(s, I)) : Keep(s, I)[j].epoch > m
<1>1. PICK k \in Seq(Rec) : k = Keep(s, I) /\ Picks(s, I, k)
  BY KeepPicks
<1>2. PICK p \in [1 .. Len(k) -> I] :
        /\ \A j \in 1 .. Len(k) : k[j] = s[p[j]]
        /\ \A i, j \in 1 .. Len(k) : i < j => p[i] < p[j]
  BY <1>1 DEF Picks
<1>3. \A j \in 1 .. Len(k) : p[j] \in 1 .. Len(s) /\ p[j] \in I
  BY <1>2
<1>4. \A i, j \in 1 .. Len(k) : i < j => k[i].epoch < k[j].epoch
  BY <1>2, <1>3 DEF Sorted
<1>5. \A j \in 1 .. Len(k) : k[j].epoch > m /\ k[j].epoch <= e /\ k[j].epoch \in Nat
  BY <1>2, <1>3, RecsAre
<1>6. OrderedLog(k) /\ AtMost(k, Len(k), e)
  BY <1>4, <1>5 DEF OrderedLog, AtMost
<1> QED BY <1>1, <1>5, <1>6

LEMMA StagedOrdered ==
    ASSUME TypeInv, ReadInv, LogInv, merge.phase = "shadow"
    PROVE  /\ Staged(mem.epoch) \in Seq(Rec) /\ OrderedLog(Staged(mem.epoch))
           /\ AtMost(Staged(mem.epoch), Len(Staged(mem.epoch)), mem.epoch)
<1>1. /\ mem.up /\ Sorted(mem.delta) /\ merge.f <= merge.mark /\ merge.mark <= mem.epoch
      /\ mem.delta \in Seq(Rec) /\ StageRecs \in Seq(Rec)
  <2>1. mem.up
    BY MergeIsUp
  <2>2. Frozen /\ Sorted(mem.delta)
    BY <2>1 DEF ReadInv, Merging
  <2> QED BY <2>1, <2>2, Parts DEF Frozen, Log, StageRecs
<1>2. PICK e, a, f \in Nat : e = mem.epoch /\ a = merge.mark /\ f = merge.f
  BY Parts
<1>3. PICK s \in Seq(Rec), d \in Seq(Rec) : s = StageRecs /\ d = mem.delta
  BY <1>1
<1>4. OrderedLog(s) /\ AtMost(s, Len(s), a)
  <2>1. stage \in {0, 1}
    BY Parts
  <2> QED BY <1>2, <1>3, <2>1 DEF LogInv, Staging, StageRecs
<1> DEFINE I == {i \in DOMAIN d : a < d[i].epoch /\ d[i].epoch <= e}
           h == IF merge.header THEN <<>> ELSE <<Checkpoint(f)>>
           k == Keep(d, I)
<1>5. CASE e <= a
  <2>1. Staged(e) = s
    BY <1>2, <1>3, <1>5 DEF Staged, StageRecs
  <2>2. AtMost(s, Len(s), e)
    <3>1. a <= e /\ Len(s) \in Nat /\ Len(s) <= Len(s)
      BY <1>1, <1>2, RecsAre
    <3> QED BY <1>4, <3>1, AtMostUp
  <2> QED BY <1>2, <1>4, <2>1, <2>2
<1>6. CASE ~(e <= a)
  <2>1. Staged(e) = (s \o h) \o k
    BY <1>2, <1>3, <1>6 DEF Staged, StageRecs
  <2>2. I \in SUBSET (1 .. Len(d)) /\ \A i \in I : a < d[i].epoch /\ d[i].epoch <= e
    BY RecsAre
  <2>3. Sorted(d)
    BY <1>1, <1>3
  <2> HIDE DEF I
  <2>4. /\ k \in Seq(Rec) /\ OrderedLog(k) /\ AtMost(k, Len(k), e)
        /\ \A j \in 1 .. Len(k) : k[j].epoch > a
    BY <2>2, <2>3, KeepOrdered
  <2>5. h \in Seq(Rec) /\ OrderedLog(h) /\ AtMost(h, Len(h), a) /\ \A j \in 1 .. Len(h) : h[j].kind # "tx"
    <3>1. CASE merge.header
      <4>1. h = <<>> /\ 1 .. Len(<<>>) = {} /\ <<>> \in Seq(Rec)
        BY <3>1
      <4> HIDE DEF h
      <4> QED BY <4>1 DEF OrderedLog, AtMost
    <3>2. CASE ~merge.header
      <4>1. PICK r : r = Checkpoint(f)
        OBVIOUS
      <4>2. r \in Rec /\ r.kind = "checkpoint" /\ r.epoch = f
        BY <4>1, TxIsRec DEF Checkpoint
      <4>3. h = <<r>>
        BY <3>2, <4>1
      <4> HIDE DEF h
      <4>4. h \in Seq(Rec) /\ OrderedLog(h) /\ Len(h) = 1 /\ h[1] = r
        BY <4>2, <4>3, OneRecord
      <4>5. \A j \in 1 .. 1 : j = 1
        OBVIOUS
      <4> QED BY <1>1, <1>2, <4>2, <4>4, <4>5 DEF AtMost
    <3> QED BY <3>1, <3>2
  <2> HIDE DEF h, k
  <2>6. OrderedLog(s \o h)
    BY <1>4, <2>5, OrderedConcat
  <2>7. s \o h \in Seq(Rec) /\ AtMost(s \o h, Len(s \o h), a)
    BY <1>4, <2>5, AtMostConcat
  <2>8. PICK g \in Seq(Rec) : g = s \o h
    BY <2>7
  <2>9. AtMost(g, Len(g), e)
    <3>1. a <= e /\ Len(g) \in Nat /\ Len(g) <= Len(g)
      BY <1>1, <1>2, RecsAre
    <3> QED BY <2>7, <2>8, <3>1, AtMostUp
  <2>10. OrderedLog(g \o k)
    BY <2>4, <2>6, <2>7, <2>8, OrderedConcat
  <2>11. g \o k \in Seq(Rec) /\ AtMost(g \o k, Len(g \o k), e)
    BY <2>4, <2>8, <2>9, AtMostConcat
  <2> QED BY <1>2, <2>1, <2>8, <2>10, <2>11
<1> QED BY <1>5, <1>6

-----------------------------------------------------------------------------
(* Every step keeps the logs in order.                                     *)

\* The whole log of the handle: what was recorded and the group in flight.
LEMMA WholeLog ==
    ASSUME TypeInv, ReadInv, LogInv, mem.up
    PROVE  AtMost(Written, Len(Written), Len(hist) - 1) /\ Len(hist) - 1 \in Nat
<1>1. PICK e, p, w, l, h \in Nat :
         /\ mem.epoch = e /\ Pending = p /\ mem.written = w /\ Len(Written) = l /\ Len(hist) = h
         /\ l = w + p /\ h = e + 1 + p
  BY FlightIs
<1>2. PICK s \in Seq(Rec) : s = Written
  BY Parts
<1>3. /\ \A i \in 1 .. w : s[i].epoch <= e
      /\ \A i \in 1 .. p : s[w + i].epoch = e + i
  BY <1>1, <1>2 DEF ReadInv, LogInv, AtMost
<1>4. ASSUME NEW i \in 1 .. l PROVE s[i].epoch <= e + p
  <2>1. CASE i \in 1 .. w
    <3>1. s[i].epoch \in Nat /\ s[i].epoch <= e
      BY <1>1, <1>2, <1>3, <2>1, RecsAre
    <3> QED BY <3>1
  <2>2. CASE i \notin 1 .. w
    <3>1. PICK j \in 1 .. p : i = w + j
      <4>1. i - w \in 1 .. p /\ i = w + (i - w)
        BY <1>1, <2>2
      <4> QED BY <4>1
    <3>2. s[i].epoch = e + j
      BY <1>3, <3>1
    <3> QED BY <3>1, <3>2
  <2> QED BY <2>1, <2>2
<1>5. AtMost(s, l, e + p) /\ h - 1 = e + p
  BY <1>1, <1>4 DEF AtMost
<1> QED BY <1>1, <1>2, <1>5

LEMMA AppendOrdered ==
    ASSUME NEW s \in Seq(Rec), OrderedLog(s), NEW r \in Rec, NEW m \in Nat, AtMost(s, Len(s), m),
           r.kind = "tx" => r.epoch > m
    PROVE  Append(s, r) \in Seq(Rec) /\ OrderedLog(Append(s, r))
<1>1. PICK t : t = <<r>>
  OBVIOUS
<1>2. r.kind = "tx" => r.epoch >= 1
  BY DEF Rec
<1>3. t \in Seq(Rec) /\ Len(t) = 1 /\ t[1] = r /\ OrderedLog(t)
  BY <1>1, <1>2, OneRecord
<1>4. \A j \in 1 .. 1 : j = 1
  OBVIOUS
<1>5. OrderedLog(s \o t)
  BY <1>3, <1>4, OrderedConcat
<1>6. Append(s, r) = s \o t
  BY <1>1, AppendIsConcat
<1> QED BY <1>5, <1>6, AppendProperties

\* The clauses of the invariant, in the next state.
LEMMA LogNext ==
    ASSUME NEW a, NEW b, OrderedLog(a), OrderedLog(b), logs'[0].recs = a, logs'[1].recs = b,
           NEW s, NEW n, NEW e, mem'.up => AtMost(s, n, e),
           mem'.up => Written' = s /\ mem'.written = n /\ mem'.epoch = e,
           NEW t, NEW m, merge'.phase \in Staging => AtMost(t, Len(t), m),
           merge'.phase \in Staging => StageRecs' = t /\ merge'.mark = m
    PROVE  LogInv'
<1>1. Staging' = Staging
  BY DEF Staging
<1>2. \A w \in {0, 1} : OrderedLog(logs'[w].recs)
  OBVIOUS
<1>3. mem'.up => AtMost(Written', mem'.written, mem'.epoch)
  OBVIOUS
<1>4. merge'.phase \in Staging => AtMost(StageRecs', Len(StageRecs'), merge'.mark)
  OBVIOUS
<1> QED BY <1>1, <1>2, <1>3, <1>4 DEF LogInv, OrderedLog, AtMost

LEMMA LogKept ==
    ASSUME TypeInv, LogInv, logs'[0].recs = logs[0].recs, logs'[1].recs = logs[1].recs,
           mem'.up => /\ mem.up /\ mem'.epoch = mem.epoch /\ mem'.written = mem.written
                      /\ mem'.wal = mem.wal,
           merge'.phase \in Staging =>
               merge.phase \in Staging /\ merge'.mark = merge.mark /\ mem'.wal = mem.wal
    PROVE  LogInv'
<1>1. mem.wal \in {0, 1} /\ stage \in {0, 1}
  BY Parts
<1>2. OrderedLog(logs[0].recs) /\ OrderedLog(logs[1].recs)
  BY DEF LogInv
<1>3. mem'.wal = mem.wal => Written' = Written /\ StageRecs' = StageRecs
  <2>1. ASSUME mem'.wal = mem.wal PROVE stage' = stage
    BY <2>1 DEF stage
  <2> QED BY <1>1, <2>1 DEF Written, StageRecs
<1>4. PICK s, n, e, t, m : s = Written /\ n = mem.written /\ e = mem.epoch /\ t = StageRecs /\ m = merge.mark
  OBVIOUS
<1>5. mem'.up => AtMost(s, n, e) /\ Written' = s /\ mem'.written = n /\ mem'.epoch = e
  BY <1>3, <1>4 DEF LogInv
<1>6. merge'.phase \in Staging => AtMost(t, Len(t), m) /\ StageRecs' = t /\ merge'.mark = m
  BY <1>3, <1>4 DEF LogInv
<1> QED BY <1>2, <1>5, <1>6, LogNext

LEMMA LogWith ==
    ASSUME NEW l \in Log, NEW u \in Seq(Rec), NEW c \in Nat
    PROVE  /\ [l EXCEPT !.recs = u] \in Log /\ [l EXCEPT !.recs = u].recs = u
           /\ [l EXCEPT !.synced = c] \in Log /\ [l EXCEPT !.synced = c].recs = l.recs
BY DEF Log

LEMMA OneLog ==
    ASSUME TypeInv, LogInv, NEW w \in {0, 1}, NEW l \in Log, OrderedLog(l.recs),
           logs' = [logs EXCEPT ![w] = l]
    PROVE  /\ OrderedLog(logs'[0].recs) /\ OrderedLog(logs'[1].recs)
           /\ logs'[w].recs = l.recs /\ \A v \in {0, 1} : v # w => logs'[v] = logs[v]
<1>1. logs'[w] = l /\ \A v \in {0, 1} : v # w => logs'[v] = logs[v]
  BY DEF TypeInv
<1>2. OrderedLog(logs[0].recs) /\ OrderedLog(logs[1].recs)
  BY DEF LogInv
<1> QED BY <1>1, <1>2

\* The handle's log changes, the staged one does not.
LEMMA LogGroups ==
    ASSUME TypeInv, ReadInv, LogInv
    PROVE  /\ \A dels, adds \in SUBSET Quads : WriteTx(dels, adds) => LogInv'
           /\ \A strict \in BOOLEAN : GroupDone(strict) => LogInv'
           /\ GroupFails => LogInv'
<1> USE Parts
<1>1. ASSUME NEW l \in Log, OrderedLog(l.recs), logs' = [logs EXCEPT ![mem.wal] = l],
             NEW n, NEW e, AtMost(l.recs, n, e), mem'.written = n, mem'.epoch = e,
             mem'.wal = mem.wal, merge' = merge
      PROVE  LogInv'
  <2>1. /\ OrderedLog(logs'[0].recs) /\ OrderedLog(logs'[1].recs)
        /\ logs'[mem.wal].recs = l.recs /\ logs'[stage] = logs[stage]
    BY <1>1, OneLog
  <2>2. Written' = l.recs /\ StageRecs' = StageRecs
    BY <1>1, <2>1 DEF Written, StageRecs, stage
  <2>3. PICK a, b, s, t, m : /\ a = logs'[0].recs /\ b = logs'[1].recs /\ s = l.recs
                             /\ t = StageRecs /\ m = merge.mark
    OBVIOUS
  <2>4. merge'.phase \in Staging => AtMost(t, Len(t), m) /\ StageRecs' = t /\ merge'.mark = m
    BY <1>1, <2>2, <2>3 DEF LogInv
  <2>5. mem'.up => AtMost(s, n, e) /\ Written' = s /\ mem'.written = n /\ mem'.epoch = e
    BY <1>1, <2>2, <2>3
  <2> QED BY <2>1, <2>3, <2>4, <2>5, LogNext
<1>2. OrderedLog(Written) /\ logs[mem.wal] \in Log
  BY DEF LogInv, Written
<1>3. ASSUME NEW dels \in SUBSET Quads, NEW adds \in SUBSET Quads, WriteTx(dels, adds)
      PROVE  LogInv'
  <2>1. /\ mem.up /\ UNCHANGED <<dirs, mem, merge, acked, crashes>>
        /\ logs' = [logs EXCEPT ![mem.wal].recs = Append(@, Tx(Len(hist), dels, adds))]
    BY <1>3 DEF WriteTx, CanCommit
  <2>2. PICK r \in Rec : r = Tx(Len(hist), dels, adds) /\ r.epoch = Len(hist)
    BY TxIsRec DEF Tx
  <2>3. PICK m \in Nat : m = Len(hist) - 1 /\ AtMost(Written, Len(Written), m) /\ r.epoch > m
    BY <2>1, <2>2, WholeLog
  <2>4. PICK u \in Seq(Rec) : u = Append(Written, r) /\ OrderedLog(u)
    BY <1>2, <2>3, AppendOrdered
  <2>5. PICK l \in Log : l = [logs[mem.wal] EXCEPT !.recs = u] /\ l.recs = u
    BY <1>2, LogWith
  <2>6. logs' = [logs EXCEPT ![mem.wal] = l]
    BY <2>1, <2>2, <2>4, <2>5 DEF Written
  <2>7. AtMost(u, mem.written, mem.epoch)
    <3>1. \A i \in 1 .. mem.written : i \in 1 .. Len(Written)
      <4>1. PICK e, p, w, k, h \in Nat :
               /\ mem.epoch = e /\ Pending = p /\ mem.written = w /\ Len(Written) = k
               /\ Len(hist) = h /\ k = w + p /\ h = e + 1 + p
        BY <2>1, FlightIs
      <4> QED BY <4>1
    <3>2. \A i \in 1 .. Len(Written) : u[i] = Written[i]
      BY <2>4, AppendProperties
    <3> QED BY <2>1, <3>1, <3>2 DEF AtMost, LogInv
  <2>8. OrderedLog(l.recs) /\ AtMost(l.recs, mem.written, mem.epoch)
    BY <2>4, <2>5, <2>7
  <2>9. mem' = mem /\ merge' = merge
    BY <2>1
  <2> QED BY <1>1, <2>6, <2>8, <2>9
<1>4. ASSUME NEW strict \in BOOLEAN, GroupDone(strict) PROVE LogInv'
  <2>1. /\ UNCHANGED <<dirs, merge, hist, crashes>> /\ mem.up
        /\ mem' = [mem EXCEPT !.epoch = Len(hist) - 1, !.written = Len(Written),
                              !.delta = @ \o SubSeq(Written, mem.written + 1, Len(Written))]
        /\ logs' = [logs EXCEPT ![mem.wal].synced = IF strict THEN Len(Written) ELSE @]
    BY <1>4 DEF GroupDone, Written, CanCommit
  <2>2. PICK n, e : n = Len(Written) /\ e = Len(hist) - 1
    OBVIOUS
  <2>3. AtMost(Written, n, e)
    BY <2>1, <2>2, WholeLog
  <2>4. mem'.written = n /\ mem'.epoch = e /\ mem'.wal = mem.wal
    BY <2>1, <2>2 DEF TypeInv, Mem
  <2>5. PICK c \in Nat : c = IF strict THEN Len(Written) ELSE logs[mem.wal].synced
    BY DEF Log
  <2>6. PICK l \in Log : l = [logs[mem.wal] EXCEPT !.synced = c] /\ l.recs = Written
    BY <1>2, LogWith DEF Written
  <2>7. logs' = [logs EXCEPT ![mem.wal] = l]
    BY <2>1, <2>5, <2>6
  <2>8. OrderedLog(l.recs) /\ AtMost(l.recs, n, e) /\ merge' = merge
    BY <1>2, <2>1, <2>3, <2>6
  <2> QED BY <1>1, <2>4, <2>7, <2>8
<1>5. ASSUME GroupFails PROVE LogInv'
  <2>1. /\ UNCHANGED <<dirs, mem, merge, acked, crashes>> /\ mem.up
        /\ logs' = [logs EXCEPT ![mem.wal].recs = Prefix(@, mem.written)]
    BY <1>5 DEF GroupFails, CanCommit
  <2>2. mem.written <= Len(Written)
    <3>1. PICK e, p, w, k, h \in Nat :
               /\ mem.epoch = e /\ Pending = p /\ mem.written = w /\ Len(Written) = k
               /\ Len(hist) = h /\ k = w + p /\ h = e + 1 + p
      BY <2>1, FlightIs
    <3> QED BY <3>1
  <2>3. PICK u \in Seq(Rec) : u = Prefix(Written, mem.written) /\ OrderedLog(u)
    BY <1>2, <2>2, PrefixOfLog, OrderedPrefix
  <2>4. AtMost(u, mem.written, mem.epoch)
    <3>1. \A i \in 1 .. mem.written : u[i] = Written[i]
      BY <2>2, <2>3, PrefixOfLog
    <3> QED BY <2>1, <3>1 DEF AtMost, LogInv
  <2>5. PICK l \in Log : l = [logs[mem.wal] EXCEPT !.recs = u] /\ l.recs = u
    BY <1>2, LogWith
  <2>6. logs' = [logs EXCEPT ![mem.wal] = l]
    BY <2>1, <2>3, <2>5 DEF Written
  <2>7. OrderedLog(l.recs) /\ AtMost(l.recs, mem.written, mem.epoch)
    BY <2>3, <2>4, <2>5
  <2>8. mem' = mem /\ merge' = merge
    BY <2>1
  <2> QED BY <1>1, <2>6, <2>7, <2>8
<1> QED BY <1>3, <1>4, <1>5

\* The staged log changes, the handle's does not.
LEMMA LogBuild ==
    ASSUME TypeInv, ReadInv, LogInv
    PROVE  BuildDone \/ ShadowPass \/ SwapTail => LogInv'
<1> USE Parts
<1>1. ASSUME NEW l \in Log, OrderedLog(l.recs), logs' = [logs EXCEPT ![stage] = l],
             NEW m, AtMost(l.recs, Len(l.recs), m), merge'.mark = m, mem' = mem
      PROVE  LogInv'
  <2>1. /\ OrderedLog(logs'[0].recs) /\ OrderedLog(logs'[1].recs)
        /\ logs'[stage].recs = l.recs /\ logs'[mem.wal] = logs[mem.wal]
    BY <1>1, OneLog
  <2>2. Written' = Written /\ StageRecs' = l.recs
    BY <1>1, <2>1 DEF Written, StageRecs, stage
  <2>3. PICK a, b, s, n, e, t : /\ a = logs'[0].recs /\ b = logs'[1].recs /\ s = Written
                                /\ n = mem.written /\ e = mem.epoch /\ t = l.recs
    OBVIOUS
  <2>4. merge'.phase \in Staging => AtMost(t, Len(t), m) /\ StageRecs' = t /\ merge'.mark = m
    BY <1>1, <2>2, <2>3
  <2>5. mem'.up => AtMost(s, n, e) /\ Written' = s /\ mem'.written = n /\ mem'.epoch = e
    BY <1>1, <2>2, <2>3 DEF LogInv
  <2> QED BY <2>1, <2>3, <2>4, <2>5, LogNext
<1>2. ASSUME BuildDone PROVE LogInv'
  <2>1. /\ mem' = mem /\ merge' = [merge EXCEPT !.phase = "shadow"]
        /\ logs' = [logs EXCEPT ![stage] = EmptyLog]
    BY <1>2 DEF BuildDone
  <2>2. EmptyLog \in Log /\ EmptyLog.recs = <<>> /\ Len(<<>>) = 0 /\ 1 .. 0 = {}
    BY DEF EmptyLog, Log
  <2>3. OrderedLog(EmptyLog.recs) /\ AtMost(EmptyLog.recs, Len(EmptyLog.recs), merge.mark)
    BY <2>2 DEF OrderedLog, AtMost
  <2>4. merge'.mark = merge.mark
    BY <2>1 DEF TypeInv, Merge
  <2> QED BY <1>1, <2>1, <2>2, <2>3, <2>4
<1>3. ASSUME ShadowPass PROVE LogInv'
  <2>1. /\ mem' = mem /\ merge.phase = "shadow"
        /\ merge' = [merge EXCEPT !.mark = mem.epoch, !.header = TRUE]
        /\ logs' = [logs EXCEPT ![stage].recs = Staged(mem.epoch)]
    BY <1>3 DEF ShadowPass
  <2>2. PICK u \in Seq(Rec) :
           u = Staged(mem.epoch) /\ OrderedLog(u) /\ AtMost(u, Len(u), mem.epoch)
    BY <2>1, StagedOrdered
  <2>3. PICK l \in Log : l = [logs[stage] EXCEPT !.recs = u] /\ l.recs = u
    BY LogWith
  <2>4. logs' = [logs EXCEPT ![stage] = l] /\ merge'.mark = mem.epoch
    BY <2>1, <2>2, <2>3 DEF TypeInv, Merge
  <2>5. OrderedLog(l.recs) /\ AtMost(l.recs, Len(l.recs), mem.epoch)
    BY <2>2, <2>3
  <2> QED BY <1>1, <2>1, <2>4, <2>5
<1>4. ASSUME SwapTail PROVE LogInv'
  <2> DEFINE h == merge.header \/ mem.epoch > merge.mark
  <2>1. /\ mem' = mem /\ merge.phase = "shadow"
        /\ merge' = [merge EXCEPT !.phase = "staged", !.mark = mem.epoch, !.header = TRUE]
        /\ logs' = [logs EXCEPT ![stage] = finish(Staged(mem.epoch), ~h)]
    BY <1>4 DEF SwapTail
  <2>2. PICK u \in Seq(Rec) :
           u = Staged(mem.epoch) /\ OrderedLog(u) /\ AtMost(u, Len(u), mem.epoch)
    BY <2>1, StagedOrdered
  <2>3. PICK e, f \in Nat : e = mem.epoch /\ f = merge.f /\ f <= e
    <3>1. mem.up
      BY <2>1, MergeIsUp
    <3>2. Frozen
      BY <2>1, <3>1 DEF ReadInv, Merging
    <3> QED BY <3>2 DEF Frozen
  <2>4. PICK r \in Rec : r = Checkpoint(f) /\ r.kind = "checkpoint" /\ r.epoch = f
    BY TxIsRec DEF Checkpoint
  <2>5. PICK v \in Seq(Rec) : v = Append(u, r) /\ OrderedLog(v) /\ AtMost(v, Len(v), e)
    <3>1. Append(u, r) \in Seq(Rec) /\ OrderedLog(Append(u, r))
      BY <2>2, <2>3, <2>4, AppendOrdered
    <3>2. PICK t \in Seq(Rec) : t = <<r>> /\ Len(t) = 1 /\ t[1] = r
      BY OneRecord
    <3>3. AtMost(t, Len(t), e)
      <4>1. \A i \in 1 .. 1 : i = 1
        OBVIOUS
      <4> QED BY <2>3, <2>4, <3>2, <4>1 DEF AtMost
    <3>4. AtMost(u \o t, Len(u \o t), e)
      BY <2>2, <2>3, <3>3, AtMostConcat
    <3>5. Append(u, r) = u \o t
      BY <3>2, AppendIsConcat
    <3> QED BY <3>1, <3>4, <3>5
  <2>6. PICK l : l = finish(Staged(mem.epoch), ~h)
    OBVIOUS
  <2>7. l \in Log /\ (l.recs = u \/ l.recs = v)
    <3>1. /\ [recs |-> v, synced |-> Len(u) + 1] \in Log
          /\ [recs |-> u, synced |-> logs[stage].synced] \in Log
      BY <2>3, <2>4, <2>5, FinishIsLog
    <3>2. \/ l = [recs |-> v, synced |-> Len(u) + 1]
          \/ l = [recs |-> u, synced |-> logs[stage].synced]
      BY <2>2, <2>3, <2>4, <2>5, <2>6 DEF finish
    <3> QED BY <3>1, <3>2
  <2>8. logs' = [logs EXCEPT ![stage] = l] /\ merge'.mark = e
    BY <2>1, <2>3, <2>6 DEF TypeInv, Merge
  <2>9. OrderedLog(l.recs) /\ AtMost(l.recs, Len(l.recs), e)
    BY <2>2, <2>3, <2>5, <2>7
  <2> QED BY <1>1, <2>1, <2>7, <2>8, <2>9
<1> QED BY <1>2, <1>3, <1>4

\* The staged log becomes the handle's.
LEMMA LogActivate ==
    ASSUME TypeInv, ReadInv, LogInv, Activate
    PROVE  LogInv'
<1>1. /\ logs' = logs /\ merge.phase = "renamed"
      /\ merge' = [IdleMerge EXCEPT !.phase = "drain"]
      /\ mem' = [mem EXCEPT !.wal = stage, !.written = Len(logs[stage].recs),
                            !.broken = FALSE, !.gen = new_gen, !.base = merge.data,
                            !.delta = After(@, merge.f), !.retired = @ \cup {mem.gen}]
  BY DEF Activate
<1>2. mem.up
  BY <1>1, MergeIsUp
<1>3. PICK s \in Seq(Rec), n, m, e \in Nat :
         s = StageRecs /\ n = Len(s) /\ m = merge.mark /\ e = mem.epoch /\ m <= e
  <2>1. Frozen
    BY <1>1, <1>2 DEF ReadInv, Merging
  <2>2. StageRecs \in Seq(Rec)
    BY Parts DEF Log, StageRecs
  <2> QED BY <2>1, <2>2, Parts, RecsAre DEF Frozen
<1>4. AtMost(s, n, e)
  <2>1. AtMost(s, n, m)
    BY <1>1, <1>3 DEF LogInv, Staging
  <2>2. n <= Len(s)
    BY <1>3
  <2> QED BY <1>3, <2>1, <2>2, AtMostUp
<1>5. /\ mem'.wal = stage /\ mem'.written = Len(logs[stage].recs) /\ mem'.epoch = mem.epoch
  BY <1>1 DEF TypeInv, Mem
<1>6. Written' = s /\ mem'.written = n /\ mem'.epoch = e
  BY <1>1, <1>3, <1>5 DEF Written, StageRecs
<1>7. merge'.phase \notin Staging
  BY <1>1 DEF IdleMerge, Staging
<1>8. PICK a, b : a = logs[0].recs /\ b = logs[1].recs /\ OrderedLog(a) /\ OrderedLog(b)
  BY DEF LogInv
<1> QED BY <1>1, <1>4, <1>6, <1>7, <1>8, LogNext

\* A reopened handle is beyond every record of its log.
LEMMA OpenCovers ==
    ASSUME TypeInv, Open
    PROVE  AtMost(Live, Len(Live), OpenEpoch)
<1>1. PICK s \in Seq(Rec) : s = Live
  BY OpenIs
<1>2. PICK t \in Seq(Rec), c \in Nat : t = replay(s).txs /\ c = replay(s).checkpoint
  BY ReplayIs
<1>3. PICK e \in Nat, l \in Nat : /\ OpenEpoch = e /\ LastEpoch = l /\ l <= e /\ c <= e
                                  /\ t # <<>> => l = t[Len(t)].epoch
  <2>1. OpenEpoch \in Nat /\ LastEpoch \in Nat /\ LastEpoch <= OpenEpoch
    BY OpenIs
  <2>2. c <= OpenEpoch
    BY <1>1, <1>2, <2>1 DEF OpenEpoch
  <2>3. t # <<>> => LastEpoch = t[Len(t)].epoch
    BY <1>1, <1>2, OpenIs
  <2> QED BY <2>1, <2>2, <2>3
<1>4. Increasing(t)
  BY <1>1, <1>2, OpenIs DEF Opens, Live
<1>5. \A k \in 1 .. Len(t) : t[k].epoch <= e
  <2> SUFFICES ASSUME NEW k \in 1 .. Len(t) PROVE t[k].epoch <= e
    OBVIOUS
  <2>1. t # <<>>
    <3>1. Len(t) \in Nat /\ (t = <<>> => Len(t) = 0)
      BY LenProperties
    <3> QED BY <3>1
  <2>2. t[k].epoch <= l /\ t[k].epoch \in Nat
    BY <1>3, <1>4, <2>1, IncreasingIsSorted, RecsAre
  <2> QED BY <1>3, <2>2
<1>6. ASSUME NEW i \in 1 .. Len(s) PROVE s[i].epoch <= e
  <2>1. s[i] \in Rec /\ s[i].epoch \in Nat /\ DOMAIN s = 1 .. Len(s)
    BY RecsAre
  <2>2. \A j \in 1 .. Len(s) : s[j].kind = "checkpoint" => s[j].epoch <= e
    <3> SUFFICES ASSUME NEW j \in 1 .. Len(s), s[j].kind = "checkpoint" PROVE s[j].epoch <= e
      OBVIOUS
    <3>1. s[j].epoch \in Folded(s) /\ s[j].epoch \in Nat
      BY <2>1, RecsAre DEF Folded
    <3>2. s[j].epoch <= c
      BY <1>2, <3>1, ReplayIs
    <3> QED BY <1>3, <3>1, <3>2
  <2>3. CASE i \in Surviving(s)
    <3>1. Picks(s, Surviving(s), t)
      BY <1>2, ReplayIs, KeepPicks
    <3>2. PICK k \in 1 .. Len(t) : t[k] = s[i]
      BY <2>3, <3>1 DEF Picks
    <3> QED BY <1>5, <3>2
  <2>4. CASE i \notin Surviving(s) /\ s[i].kind = "tx"
    <3>1. PICK j \in 1 .. Len(s) : s[j].kind = "checkpoint" /\ ~(s[j].epoch < s[i].epoch)
      BY <2>1, <2>4 DEF Surviving
    <3>2. s[j].epoch <= e /\ s[j].epoch \in Nat
      BY <2>2, <3>1, RecsAre
    <3> QED BY <1>3, <2>1, <3>1, <3>2
  <2>5. CASE s[i].kind # "tx"
    <3>1. s[i].kind = "checkpoint"
      BY <2>1, <2>5 DEF Rec
    <3> QED BY <2>2, <3>1
  <2> QED BY <2>3, <2>4, <2>5
<1>7. AtMost(s, Len(s), e)
  BY <1>6 DEF AtMost
<1> QED BY <1>1, <1>3, <1>7

LEMMA LogCrash ==
    ASSUME TypeInv, ReadInv, LogInv
    PROVE  Kill \/ PowerLoss \/ Open => LogInv'
<1> USE Parts
<1>1. ASSUME NEW w \in {0, 1}, NEW n \in Nat, n <= Len(logs[w].recs)
      PROVE  OrderedLog(CutTo(w, n).recs)
  <2>1. logs[w].recs \in Seq(Rec) /\ OrderedLog(logs[w].recs)
    BY DEF LogInv, TypeInv, Log
  <2>2. OrderedLog(Prefix(logs[w].recs, n))
    BY <1>1, <2>1, OrderedPrefix
  <2>3. CutTo(w, n).recs = Prefix(logs[w].recs, n)
    BY DEF CutTo
  <2> QED BY <2>2, <2>3
<1>2. ASSUME mem' = ClosedMem, merge' = IdleMerge, OrderedLog(logs'[0].recs), OrderedLog(logs'[1].recs)
      PROVE  LogInv'
  <2>1. ~mem'.up /\ merge'.phase \notin Staging
    BY <1>2 DEF ClosedMem, IdleMerge, Staging
  <2>2. PICK a, b : a = logs'[0].recs /\ b = logs'[1].recs
    OBVIOUS
  <2> QED BY <1>2, <2>1, <2>2, LogNext
<1>3. ASSUME Kill PROVE LogInv'
  <2>1. PICK n \in mem.written .. Len(Written) : logs' = [logs EXCEPT ![mem.wal] = CutTo(mem.wal, n)]
    BY <1>3 DEF Kill, Written
  <2>2. n \in Nat /\ n <= Len(logs[mem.wal].recs)
    BY DEF Written
  <2>3. PICK l \in Log : l = CutTo(mem.wal, n) /\ OrderedLog(l.recs)
    BY <1>1, <2>2, CutLog
  <2>4. OrderedLog(logs'[0].recs) /\ OrderedLog(logs'[1].recs)
    BY <2>1, <2>3, OneLog
  <2>5. mem' = ClosedMem /\ merge' = IdleMerge
    BY <1>3 DEF Kill
  <2> QED BY <1>2, <2>4, <2>5
<1>4. ASSUME PowerLoss PROVE LogInv'
  <2>1. PICK n \in logs[0].synced .. Len(logs[0].recs), m \in logs[1].synced .. Len(logs[1].recs) :
           logs' = [i \in {0, 1} |-> IF i = 0 THEN CutTo(0, n) ELSE CutTo(1, m)]
    BY <1>4 DEF PowerLoss
  <2>2. n \in Nat /\ n <= Len(logs[0].recs) /\ m \in Nat /\ m <= Len(logs[1].recs)
    BY RecsAre DEF Log
  <2>3. logs'[0] = CutTo(0, n) /\ logs'[1] = CutTo(1, m)
    BY <2>1
  <2>4. OrderedLog(logs'[0].recs) /\ OrderedLog(logs'[1].recs)
    BY <1>1, <2>2, <2>3
  <2>5. mem' = ClosedMem /\ merge' = IdleMerge
    BY <1>4 DEF PowerLoss
  <2> QED BY <1>2, <2>4, <2>5
<1>5. ASSUME Open PROVE LogInv'
  <2>1. /\ merge' = merge /\ ~mem.up /\ Live \in Seq(Rec)
        /\ mem' = [ClosedMem EXCEPT !.up = TRUE, !.gen = dir.current, !.epoch = OpenEpoch,
                                    !.base = Base, !.delta = Delta, !.wal = dir.wal,
                                    !.written = Len(Live)]
    BY <1>5, OpenIs
  <2>2. mem'.epoch = OpenEpoch /\ mem'.wal = dir.wal /\ mem'.written = Len(Live)
    BY <2>1 DEF ClosedMem
  <2> DEFINE w == 1 - dir.wal
  <2>3. dir.wal \in {0, 1} /\ w \in {0, 1} /\ w # dir.wal
    BY DEF Dir
  <2>4. PICK l \in Log : /\ OrderedLog(l.recs) /\ logs' = [logs EXCEPT ![w] = l]
    <3>1. EmptyLog \in Log /\ OrderedLog(EmptyLog.recs)
      <4>1. EmptyLog \in Log /\ EmptyLog.recs = <<>> /\ 1 .. Len(<<>>) = {}
        BY DEF EmptyLog, Log
      <4> QED BY <4>1 DEF OrderedLog
    <3>2. logs[w] \in Log /\ OrderedLog(logs[w].recs)
      BY <2>3 DEF TypeInv, LogInv
    <3>3. logs' = [logs EXCEPT ![w] = IF \E d \in Range(dirs) : d.wal # dir.wal
                                      THEN logs[w] ELSE EmptyLog]
      BY <1>5, OpenIs
    <3> QED BY <3>1, <3>2, <3>3
  <2>5. /\ OrderedLog(logs'[0].recs) /\ OrderedLog(logs'[1].recs) /\ logs'[dir.wal] = logs[dir.wal]
    BY <2>3, <2>4, OneLog
  <2>6. PICK a, b, s, n, e : /\ a = logs'[0].recs /\ b = logs'[1].recs /\ s = Live
                             /\ n = Len(Live) /\ e = OpenEpoch
    OBVIOUS
  <2>7. AtMost(s, n, e) /\ Written' = s /\ mem'.written = n /\ mem'.epoch = e
    BY <1>5, <2>2, <2>5, <2>6, OpenCovers DEF Written, Live
  <2>8. merge'.phase \notin Staging
    BY <2>1 DEF TypeInv, IdleMerge, Staging
  <2> QED BY <2>5, <2>6, <2>7, <2>8, LogNext
<1> QED BY <1>3, <1>4, <1>5

\* The steps that leave the records alone.
LEMMA LogOthers ==
    ASSUME TypeInv, ReadInv, LogInv,
           \/ GroupStuck \/ MergeStart \/ BuildBegin \/ Flip \/ FlipSync \/ FlipFails \/ Rename
           \/ ActivateFails \/ EndDrain \/ MergeAbort
           \/ \E g \in Gens : Sweep(g)
    PROVE  LogInv'
<1>1. logs'[0].recs = logs[0].recs /\ logs'[1].recs = logs[1].recs
  <2>1. CASE MergeStart
    <3>1. logs' = [logs EXCEPT ![mem.wal].synced = Len(logs[mem.wal].recs)]
      BY <2>1 DEF MergeStart
    <3> QED BY <3>1, Parts DEF TypeInv, Log
  <2>2. CASE ~MergeStart
    BY <2>2 DEF GroupStuck, BuildBegin, Flip, FlipSync, FlipFails, Rename, ActivateFails, EndDrain,
                MergeAbort, Sweep
  <2> QED BY <2>1, <2>2
<1>2. /\ mem'.up = mem.up /\ mem'.epoch = mem.epoch /\ mem'.written = mem.written
      /\ mem'.wal = mem.wal
  BY DEF GroupStuck, MergeStart, BuildBegin, Flip, FlipSync, FlipFails, Rename, ActivateFails,
         EndDrain, MergeAbort, Sweep, TypeInv, Mem
<1>3. merge'.phase \in Staging => merge.phase \in Staging /\ merge'.mark = merge.mark
  <2>1. CASE Flip \/ FlipSync \/ Rename
    <3>1. merge.phase \in Staging
      BY <2>1 DEF Flip, FlipSync, Rename, Staging
    <3>2. merge'.mark = merge.mark
      BY <2>1 DEF Flip, FlipSync, Rename, TypeInv, Merge
    <3> QED BY <3>1, <3>2
  <2>2. CASE GroupStuck \/ \E g \in Gens : Sweep(g)
    BY <2>2 DEF GroupStuck, Sweep
  <2>3. CASE MergeStart \/ BuildBegin \/ FlipFails \/ ActivateFails \/ EndDrain \/ MergeAbort
    <3> DEFINE P == {"started", "building", "drain", "idle"}
    <3>1. merge'.phase \in P
      <4>1. CASE MergeStart \/ FlipFails \/ ActivateFails \/ EndDrain
        <5>1. MergeStart => merge'.phase = "started"
          BY DEF MergeStart, IdleMerge
        <5>2. FlipFails \/ ActivateFails => merge' = [IdleMerge EXCEPT !.phase = "drain"]
          BY DEF FlipFails, ActivateFails
        <5>3. EndDrain => merge' = IdleMerge
          BY DEF EndDrain
        <5> QED BY <4>1, <5>1, <5>2, <5>3 DEF IdleMerge
      <4>2. CASE BuildBegin
        BY <4>2 DEF BuildBegin, TypeInv, Merge
      <4>3. CASE MergeAbort
        BY <4>3 DEF MergeAbort, IdleMerge
      <4> QED BY <2>3, <4>1, <4>2, <4>3
    <3> QED BY <3>1 DEF Staging
  <2> QED BY <2>1, <2>2, <2>3
<1> QED BY <1>1, <1>2, <1>3, LogKept

LEMMA LogSteps == TypeInv /\ ReadInv /\ LogInv /\ [Next]_vars => LogInv'
<1>1. ASSUME TypeInv, ReadInv, LogInv, Next PROVE LogInv'
  BY <1>1, LogGroups, LogBuild, LogActivate, LogCrash, LogOthers DEF Next
<1>2. ASSUME TypeInv, LogInv, UNCHANGED vars PROVE LogInv'
  BY <1>2, LogKept DEF vars
<1> QED BY <1>1, <1>2

LEMMA InitLogs == Init => LogInv
<1> SUFFICES ASSUME Init PROVE LogInv
  OBVIOUS
<1>1. \A w \in {0, 1} : logs[w].recs = <<>>
  BY DEF Init, EmptyLog
<1>2. OrderedLog(<<>>)
  <2>1. 1 .. Len(<<>>) = {}
    OBVIOUS
  <2> QED BY <2>1 DEF OrderedLog
<1>3. ~mem.up /\ merge.phase \notin Staging
  BY DEF Init, ClosedMem, IdleMerge, Staging
<1> QED BY <1>1, <1>2, <1>3 DEF LogInv

-----------------------------------------------------------------------------
(* CURRENT names a generation that is built, as long as its directory      *)
(* fsync does not fail.                                                    *)

Pointing == {"flipped", "pointed", "renamed"}
DirInv ==
    /\ \A d \in Range(dirs) : Built(d, d.current)
    /\ mem.up => /\ \A g \in mem.retired : g < mem.gen
                 /\ dir.current = mem.gen \/ dir.current = new_gen
                 /\ dir.current = mem.gen \/ mem.poisoned \/ merge.phase \in Pointing
    /\ ~mem.up => mem.retired = {}
    /\ merge.phase \in Merging => ~mem.poisoned
    /\ merge.phase \in Pointing => dir.current = new_gen
    /\ merge.phase \in {"shadow", "staged"} => Built(dir, new_gen)

\* A dataset is neither missing nor half-built.
LEMMA DataIsBuilt ==
    ASSUME TypeInv, NEW D \in SUBSET Quads, NEW d \in Dir, NEW g \in Gens
    PROVE  /\ Built([d EXCEPT !.base[g] = D], g)
           /\ \A h : h # g => \A x \in {D, Absent, Partial} :
                 Built([d EXCEPT !.base[g] = x], h) <=> Built(d, h)
           /\ \A x : [d EXCEPT !.base[g] = x].current = d.current
<1>1. D # Absent /\ D # Partial
  BY ConstantsAssumption DEF TypeInv, Quads
<1>2. d.base \in [Gens -> (SUBSET Quads) \cup {Absent, Partial}]
  BY DEF Dir
<1>3. [d EXCEPT !.base[g] = D].base[g] = D
  BY <1>2 DEF Dir
<1>4. ASSUME NEW h, h # g, NEW x PROVE [d EXCEPT !.base[g] = x].base[h] = d.base[h]
  BY <1>2, <1>4 DEF Dir
<1>5. \A x : [d EXCEPT !.base[g] = x].current = d.current
  BY DEF Dir
<1> QED BY <1>1, <1>3, <1>4, <1>5 DEF Built

\* Steps that leave the last state of the directory alone.
LEMMA DirKept ==
    ASSUME TypeInv, DirInv, dir' = dir, Range(dirs') \subseteq Range(dirs),
           mem'.up => mem.up /\ mem'.gen = mem.gen /\ mem'.retired = mem.retired,
           ~mem'.up => mem'.retired = {},
           mem'.up => (mem.poisoned \/ merge.phase \in Pointing =>
                          mem'.poisoned \/ merge'.phase \in Pointing),
           merge'.phase \in Merging => ~mem'.poisoned,
           merge'.phase \in Pointing \cup {"shadow", "staged"} => mem'.gen = mem.gen,
           merge'.phase \in Pointing => merge.phase \in Pointing,
           merge'.phase \in {"shadow", "staged"} => merge.phase \in {"shadow", "staged"}
    PROVE  DirInv'
<1>1. Pointing' = Pointing /\ Merging' = Merging
  BY DEF Pointing, Merging
<1>2. mem'.gen = mem.gen => new_gen' = new_gen
  BY DEF new_gen
<1>3. \A d : \A g : Built(d, g)' <=> Built(d, g)
  BY DEF Built
<1>4. \A d \in Range(dirs') : Built(d, d.current)'
  BY <1>3 DEF DirInv
<1>5. mem'.up => /\ \A g \in mem'.retired : g < mem'.gen
                 /\ dir'.current = mem'.gen \/ dir'.current = new_gen'
                 /\ dir'.current = mem'.gen \/ mem'.poisoned \/ merge'.phase \in Pointing
  BY <1>2 DEF DirInv
<1>6. merge'.phase \in Pointing => dir'.current = new_gen'
  BY <1>2 DEF DirInv
<1>7. merge'.phase \in {"shadow", "staged"} => Built(dir', new_gen')
  BY <1>2 DEF DirInv
<1> QED BY <1>1, <1>4, <1>5, <1>6, <1>7 DEF DirInv, Built

LEMMA DirQuiet ==
    ASSUME TypeInv, DirInv, env' = env, "flip" \notin Faults,
           \/ \E dels, adds \in SUBSET Quads : WriteTx(dels, adds)
           \/ \E strict \in BOOLEAN : GroupDone(strict)
           \/ GroupFails \/ GroupStuck \/ MergeStart \/ ShadowPass \/ SwapTail \/ FlipSync
           \/ FlipFails \/ ActivateFails \/ EndDrain \/ MergeAbort \/ Kill
    PROVE  DirInv'
<1>0. dir \in Dir /\ dir \in Range(dirs)
  BY DirIs DEF TypeInv
<1>1. dir' = dir /\ Range(dirs') \subseteq Range(dirs)
  <2>1. CASE FlipSync
    <3>1. dirs' = <<dir>>
      BY <2>1 DEF FlipSync
    <3> QED BY <1>0, <3>1, OneDir
  <2>2. CASE ~FlipSync
    <3>1. dirs' = dirs
      BY <2>2 DEF WriteTx, GroupDone, GroupFails, GroupStuck, MergeStart, ShadowPass, SwapTail,
                  FlipFails, ActivateFails, EndDrain, MergeAbort, Kill
    <3> QED BY <3>1 DEF dir
  <2> QED BY <2>1, <2>2
<1>2. CASE Kill
  <2>1. mem' = ClosedMem /\ merge' = IdleMerge
    BY <1>2 DEF Kill
  <2>2. ~mem'.up /\ mem'.retired = {} /\ merge'.phase = "idle" /\ "idle" \notin Pointing \cup {"shadow", "staged"}
        /\ "idle" \notin Merging
    BY <2>1 DEF ClosedMem, IdleMerge, Pointing, Merging
  <2> QED BY <1>1, <2>2, DirKept
<1>3. CASE ActivateFails
  <2>1. mem' = [mem EXCEPT !.poisoned = TRUE] /\ merge' = [IdleMerge EXCEPT !.phase = "drain"]
    BY <1>3 DEF ActivateFails
  <2>2. /\ mem'.up = mem.up /\ mem'.gen = mem.gen /\ mem'.retired = mem.retired /\ mem'.poisoned
        /\ merge'.phase = "drain" /\ "drain" \notin Pointing \cup {"shadow", "staged"}
        /\ "drain" \notin Merging
    BY <2>1 DEF IdleMerge, Pointing, Merging, TypeInv, Mem
  <2>3. ~mem.up => mem.retired = {}
    BY DEF DirInv
  <2> QED BY <1>1, <2>2, <2>3, DirKept
<1>4. CASE ~Kill /\ ~ActivateFails
  <2>1. /\ mem'.up = mem.up /\ mem'.gen = mem.gen /\ mem'.retired = mem.retired
        /\ mem'.poisoned = mem.poisoned
    BY <1>4 DEF WriteTx, GroupDone, GroupFails, GroupStuck, MergeStart, ShadowPass, SwapTail,
                FlipSync, FlipFails, EndDrain, MergeAbort, TypeInv, Mem
  <2>2. \/ merge' = merge
        \/ merge'.phase = "started" /\ merge.phase = "idle" /\ ~mem.poisoned
        \/ merge'.phase \in {"shadow", "staged"} /\ merge.phase = "shadow"
        \/ merge'.phase = "pointed" /\ merge.phase = "flipped"
        \/ merge'.phase \in {"idle", "drain"} /\ merge.phase \notin Pointing
    <3>1. CASE \/ \E dels, adds \in SUBSET Quads : WriteTx(dels, adds)
               \/ \E strict \in BOOLEAN : GroupDone(strict)
               \/ GroupFails \/ GroupStuck
      BY <3>1 DEF WriteTx, GroupDone, GroupFails, GroupStuck
    <3>2. CASE MergeStart
      BY <3>2 DEF MergeStart, IdleMerge
    <3>3. CASE ShadowPass
      BY <3>3 DEF ShadowPass, TypeInv, Merge
    <3>4. CASE SwapTail
      BY <3>4 DEF SwapTail, TypeInv, Merge
    <3>5. CASE FlipSync
      BY <3>5 DEF FlipSync, TypeInv, Merge
    <3>6. CASE FlipFails
      BY <3>6 DEF FlipFails
    <3>7. CASE EndDrain
      BY <3>7 DEF EndDrain, IdleMerge, Pointing
    <3>8. CASE MergeAbort
      BY <3>8 DEF MergeAbort, IdleMerge, Pointing
    <3> QED BY <1>4, <3>1, <3>2, <3>3, <3>4, <3>5, <3>6, <3>7, <3>8
  <2>3. /\ "idle" \notin Pointing /\ "started" \notin Pointing /\ "shadow" \notin Pointing
        /\ "staged" \notin Pointing /\ "drain" \notin Pointing
        /\ "idle" \notin Merging /\ "drain" \notin Merging
        /\ {"shadow", "staged"} \subseteq Merging /\ Pointing \subseteq Merging
        /\ "flipped" \in Pointing /\ "pointed" \in Pointing
    BY DEF Pointing, Merging
  <2>4. (merge.phase \in Merging => ~mem.poisoned) /\ (~mem.up => mem.retired = {})
    BY DEF DirInv
  <2> QED BY <1>1, <2>1, <2>2, <2>3, <2>4, DirKept
<1> QED BY <1>2, <1>3, <1>4

LEMMA DirIsNow ==
    ASSUME TypeInv, NEW d \in Dir, dirs' = Changed(d) \/ dirs' = <<d>>
    PROVE  dir' = d /\ Range(dirs') \subseteq Range(dirs) \cup {d}
<1>1. CASE dirs' = Changed(d)
  <2>1. /\ Changed(d)[Len(Changed(d))] = d /\ Range(Changed(d)) = Range(dirs) \cup {d}
    BY ChangedKeeps DEF TypeInv
  <2>2. dir' = dirs'[Len(dirs')]
    BY DEF dir
  <2> QED BY <1>1, <2>1, <2>2
<1>2. CASE dirs' = <<d>>
  BY <1>2, OneDir
<1> QED BY <1>1, <1>2

\* Steps after which the directory is d.
LEMMA DirNext ==
    ASSUME TypeInv, DirInv, NEW d \in Dir, dirs' = Changed(d) \/ dirs' = <<d>>,
           Built(d, d.current), ~mem'.up => mem'.retired = {},
           mem'.up => /\ \A g \in mem'.retired : g < mem'.gen
                      /\ \/ d.current = mem'.gen
                         \/ d.current = mem'.gen + 1 /\ merge'.phase \in Pointing
                         \/ d.current = mem'.gen + 1 /\ mem'.poisoned,
           merge'.phase \in Merging => ~mem'.poisoned,
           merge'.phase \in Pointing => d.current = mem'.gen + 1,
           merge'.phase \in {"shadow", "staged"} => Built(d, mem'.gen + 1)
    PROVE  DirInv'
<1>1. dir' = d /\ Range(dirs') \subseteq Range(dirs) \cup {d}
  BY DirIsNow
<1>2. Pointing' = Pointing /\ Merging' = Merging /\ new_gen' = mem'.gen + 1
  BY DEF Pointing, Merging, new_gen
<1>3. \A x \in Range(dirs') : Built(x, x.current)
  BY <1>1 DEF DirInv
<1>4. mem'.up => /\ \A g \in mem'.retired : g < mem'.gen
                 /\ dir'.current = mem'.gen \/ dir'.current = new_gen'
                 /\ dir'.current = mem'.gen \/ mem'.poisoned \/ merge'.phase \in Pointing
  BY <1>1, <1>2
<1> QED BY <1>1, <1>2, <1>3, <1>4 DEF DirInv, Built

LEMMA DirBuild ==
    ASSUME TypeInv, ReadInv, DirInv
    PROVE  BuildBegin \/ BuildDone => DirInv'
<1>1. dir \in Dir /\ Built(dir, dir.current)
  BY DirIs DEF TypeInv, DirInv
<1>2. /\ "building" \notin Pointing \cup {"shadow", "staged"} /\ "shadow" \notin Pointing
      /\ "started" \notin Pointing /\ "building" \notin Pointing
      /\ "started" \in Merging /\ "building" \in Merging
  BY DEF Pointing, Merging
<1>3. ASSUME merge.phase \in {"started", "building"}
      PROVE  /\ mem.up /\ ~mem.poisoned /\ dir.current = mem.gen /\ mem.gen \in Nat
             /\ new_gen \in Gens /\ new_gen # mem.gen
             /\ \A g \in mem.retired : g < mem.gen
  <2>1. mem.up
    BY <1>3, MergeIsUp
  <2>2. mem.gen < MaxGen /\ mem.gen \in Gens /\ MaxGen \in Nat
    BY <1>2, <1>3, Parts DEF TypeInv
  <2>3. mem.gen \in Nat /\ new_gen \in Gens /\ new_gen # mem.gen
    BY <2>2 DEF Gens, new_gen
  <2> QED BY <1>2, <1>3, <2>1, <2>3 DEF DirInv
<1>4. ASSUME BuildBegin PROVE DirInv'
  <2>1. PICK d : d = [dir EXCEPT !.base[new_gen] = Partial]
    OBVIOUS
  <2>2. /\ mem' = mem /\ merge.phase = "started"
        /\ merge' = [merge EXCEPT !.phase = "building"] /\ dirs' = Changed(d)
    BY <1>4, <2>1 DEF BuildBegin
  <2>3. /\ mem.up /\ ~mem.poisoned /\ dir.current = mem.gen /\ mem.gen \in Nat
        /\ new_gen \in Gens /\ new_gen # mem.gen
        /\ \A g \in mem.retired : g < mem.gen
    BY <1>3, <2>2
  <2>4. d \in Dir /\ d.current = dir.current
    BY <1>1, <2>1, <2>3 DEF Dir
  <2>5. Built(d, d.current)
    <3>1. merge.data \in SUBSET Quads
      BY Parts
    <3> QED BY <1>1, <2>1, <2>3, <2>4, <3>1, DataIsBuilt
  <2>6. merge'.phase = "building"
    BY <2>2 DEF TypeInv, Merge
  <2>7. merge'.phase \notin Pointing \cup {"shadow", "staged"}
    BY <1>2, <2>6
  <2> QED BY <2>2, <2>3, <2>4, <2>5, <2>6, <2>7, DirNext
<1>5. ASSUME BuildDone PROVE DirInv'
  <2>1. PICK d : d = [dir EXCEPT !.base[new_gen] = merge.data]
    OBVIOUS
  <2>2. /\ mem' = mem /\ merge.phase = "building"
        /\ merge' = [merge EXCEPT !.phase = "shadow"] /\ dirs' = <<d>>
    BY <1>5, <2>1 DEF BuildDone
  <2>3. /\ mem.up /\ ~mem.poisoned /\ dir.current = mem.gen /\ mem.gen \in Nat
        /\ new_gen \in Gens /\ new_gen # mem.gen
        /\ \A g \in mem.retired : g < mem.gen
    BY <1>3, <2>2
  <2>4. d \in Dir /\ d.current = dir.current
    BY <1>1, <2>1, <2>3, Parts DEF Dir
  <2>5. Built(d, d.current) /\ Built(d, new_gen)
    <3>1. merge.data \in SUBSET Quads
      BY Parts
    <3> QED BY <1>1, <2>1, <2>3, <2>4, <3>1, DataIsBuilt
  <2>6. merge'.phase = "shadow"
    BY <2>2 DEF TypeInv, Merge
  <2>7. Built(d, mem'.gen + 1)
    BY <2>2, <2>5 DEF new_gen
  <2> QED BY <1>2, <2>2, <2>3, <2>4, <2>5, <2>6, <2>7, DirNext
<1> QED BY <1>4, <1>5

LEMMA DirSwap ==
    ASSUME TypeInv, ReadInv, DirInv
    PROVE  Flip \/ Rename \/ Activate => DirInv'
<1>1. dir \in Dir /\ Built(dir, dir.current)
  BY DirIs DEF TypeInv, DirInv
<1>2. mem.gen \in Nat /\ MaxGen \in Nat
  BY Parts DEF Gens
<1>3. ASSUME Flip PROVE DirInv'
  <2>1. PICK d : d = [dir EXCEPT !.current = new_gen]
    OBVIOUS
  <2>2. /\ mem' = mem /\ merge.phase = "staged"
        /\ merge' = [merge EXCEPT !.phase = "flipped"] /\ dirs' = Changed(d)
    BY <1>3, <2>1 DEF Flip
  <2>3. mem.up /\ mem.gen < MaxGen
    BY <2>2, MergeIsUp DEF TypeInv, Merging
  <2>4. new_gen \in Gens
    BY <1>2, <2>3 DEF new_gen, Gens
  <2>5. d \in Dir /\ d.current = new_gen /\ d.base = dir.base
    BY <1>1, <2>1, <2>4 DEF Dir
  <2>6. Built(d, d.current)
    BY <2>2, <2>5 DEF DirInv, Built
  <2>7. merge'.phase = "flipped"
    BY <2>2 DEF TypeInv, Merge
  <2>8. ~mem.poisoned /\ \A g \in mem.retired : g < mem.gen
    BY <2>2, <2>3 DEF DirInv, Merging
  <2>9. d.current = mem'.gen + 1 /\ "flipped" \in Pointing
    BY <2>2, <2>5 DEF new_gen, Pointing
  <2> QED BY <2>2, <2>3, <2>5, <2>6, <2>7, <2>8, <2>9, DirNext
<1>4. ASSUME Rename PROVE DirInv'
  <2>1. PICK d : d = [dir EXCEPT !.wal = stage]
    OBVIOUS
  <2>2. /\ mem' = mem /\ merge.phase = "pointed"
        /\ merge' = [merge EXCEPT !.phase = "renamed"] /\ dirs' = Changed(d)
    BY <1>4, <2>1 DEF Rename
  <2>3. d \in Dir /\ d.current = dir.current /\ d.base = dir.base
    BY <1>1, <2>1, Parts DEF Dir
  <2>4. Built(d, d.current)
    BY <1>1, <2>3 DEF Built
  <2>5. merge'.phase = "renamed" /\ mem.up
    BY <2>2, MergeIsUp DEF TypeInv, Merge
  <2>6. ~mem.poisoned /\ (\A g \in mem.retired : g < mem.gen) /\ dir.current = mem.gen + 1
    BY <2>2, <2>5 DEF DirInv, Merging, Pointing, new_gen
  <2>7. "renamed" \in Pointing
    BY DEF Pointing
  <2> QED BY <2>2, <2>3, <2>4, <2>5, <2>6, <2>7, DirNext
<1>5. ASSUME Activate PROVE DirInv'
  <2>1. /\ dirs' = <<dir>> /\ merge.phase = "renamed"
        /\ merge' = [IdleMerge EXCEPT !.phase = "drain"]
        /\ mem' = [mem EXCEPT !.wal = stage, !.written = Len(logs[stage].recs),
                              !.broken = FALSE, !.gen = new_gen, !.base = merge.data,
                              !.delta = After(@, merge.f), !.retired = @ \cup {mem.gen}]
    BY <1>5 DEF Activate
  <2>2. mem'.gen = mem.gen + 1 /\ mem'.retired = mem.retired \cup {mem.gen} /\ mem'.up = mem.up
    BY <2>1 DEF TypeInv, Mem, new_gen
  <2>7. mem.up
    BY <2>1, MergeIsUp
  <2>3. dir.current = mem.gen + 1 /\ \A g \in mem.retired : g < mem.gen
    BY <2>1, <2>7 DEF DirInv, Pointing, new_gen
  <2>4. mem.retired \subseteq Nat
    BY <1>2 DEF TypeInv, Mem, Gens
  <2>5. \A g \in mem'.retired : g < mem'.gen
    BY <1>2, <2>2, <2>3, <2>4
  <2>6. merge'.phase \notin Merging /\ merge'.phase \notin Pointing \cup {"shadow", "staged"}
    BY <2>1 DEF IdleMerge, Merging, Pointing
  <2> QED BY <1>1, <2>1, <2>2, <2>3, <2>5, <2>6, <2>7, DirNext
<1> QED BY <1>3, <1>4, <1>5

LEMMA DirCrash ==
    ASSUME TypeInv, ReadInv, DirInv
    PROVE  /\ \A g \in Gens : Sweep(g) => DirInv'
           /\ PowerLoss => DirInv'
           /\ Open => DirInv'
<1>1. dir \in Dir /\ Built(dir, dir.current) /\ mem.gen \in Nat
  BY DirIs, Parts DEF TypeInv, DirInv, Gens
<1>2. ASSUME NEW g \in Gens, Sweep(g) PROVE DirInv'
  <2>1. PICK d : d = [dir EXCEPT !.base[g] = Absent]
    OBVIOUS
  <2>2. /\ merge' = merge /\ dirs' = Changed(d) /\ g \in mem.retired
        /\ mem' = [mem EXCEPT !.retired = @ \ {g}]
    BY <1>2, <2>1 DEF Sweep
  <2>3. /\ mem'.up = mem.up /\ mem'.gen = mem.gen /\ mem'.poisoned = mem.poisoned
        /\ mem'.retired = mem.retired \ {g}
    BY <2>2 DEF TypeInv, Mem
  <2>4. d \in Dir /\ d.current = dir.current
    BY <1>1, <2>1 DEF Dir
  <2>5. merge.phase \in Merging => mem.up
    BY MergeIsUp DEF Merging
  <2>6. ASSUME mem.up PROVE g # dir.current /\ g # new_gen
    <3>1. g < mem.gen /\ g \in Nat
      BY <2>2, <2>6 DEF DirInv, Gens
    <3> QED BY <1>1, <2>6, <3>1 DEF DirInv, new_gen
  <2>7. mem.up
    BY <2>2 DEF DirInv
  <2>8. \A h : h # g => (Built(d, h) <=> Built(dir, h))
    <3>1. merge.data \in SUBSET Quads
      BY Parts
    <3> QED BY <1>1, <2>1, <3>1, DataIsBuilt
  <2>9. Built(d, d.current) /\ (Built(dir, new_gen) => Built(d, new_gen))
    BY <1>1, <2>4, <2>6, <2>7, <2>8
  <2>10. \A h \in mem'.retired : h < mem'.gen
    BY <2>3, <2>7 DEF DirInv
  <2>11. /\ \/ d.current = mem'.gen
            \/ d.current = mem'.gen + 1 /\ merge'.phase \in Pointing
            \/ d.current = mem'.gen + 1 /\ mem'.poisoned
         /\ merge'.phase \in Merging => ~mem'.poisoned
         /\ merge'.phase \in Pointing => d.current = mem'.gen + 1
         /\ merge'.phase \in {"shadow", "staged"} => Built(d, mem'.gen + 1)
    BY <2>2, <2>3, <2>4, <2>7, <2>9 DEF DirInv, new_gen
  <2> QED BY <2>2, <2>3, <2>4, <2>7, <2>9, <2>10, <2>11, DirNext
<1>3. ASSUME PowerLoss PROVE DirInv'
  <2>1. mem' = ClosedMem /\ merge' = IdleMerge
    BY <1>3 DEF PowerLoss
  <2>2. PICK d \in Range(dirs) : dirs' = <<d>>
    BY <1>3 DEF PowerLoss
  <2>3. d \in Dir /\ Built(d, d.current)
    BY LenProperties DEF TypeInv, Range, DirInv
  <2>4. ~mem'.up /\ mem'.retired = {} /\ merge'.phase = "idle"
        /\ "idle" \notin Pointing \cup {"shadow", "staged"} /\ "idle" \notin Merging
    BY <2>1 DEF ClosedMem, IdleMerge, Pointing, Merging
  <2> QED BY <2>2, <2>3, <2>4, DirNext
<1>4. ASSUME Open PROVE DirInv'
  <2>1. /\ merge' = merge /\ merge = IdleMerge /\ Clean \in Dir /\ dirs' = Changed(Clean)
        /\ mem' = [ClosedMem EXCEPT !.up = TRUE, !.gen = dir.current, !.epoch = OpenEpoch,
                                    !.base = Base, !.delta = Delta, !.wal = dir.wal,
                                    !.written = Len(Live)]
    BY <1>4, OpenIs DEF TypeInv
  <2>2. mem'.up /\ mem'.gen = dir.current /\ mem'.retired = {} /\ ~mem'.poisoned
    BY <2>1 DEF ClosedMem
  <2>3. Clean.current = dir.current /\ Built(Clean, dir.current)
    <3>1. dir.current \in Gens
      BY <1>1 DEF Dir
    <3>2. Clean.current = dir.current /\ Clean.base[dir.current] = Base
      BY <1>1, <3>1 DEF Clean, Dir
    <3> QED BY <1>1, <3>2 DEF Built, Base
  <2>4. merge'.phase = "idle" /\ "idle" \notin Pointing \cup {"shadow", "staged"} /\ "idle" \notin Merging
    BY <2>1 DEF IdleMerge, Pointing, Merging
  <2> QED BY <2>1, <2>2, <2>3, <2>4, DirNext
<1> QED BY <1>2, <1>3, <1>4

LEMMA DirSteps ==
    TypeInv /\ ReadInv /\ DirInv /\ "flip" \notin Faults /\ [Next]_vars => DirInv'
<1>1. ASSUME TypeInv, ReadInv, DirInv, "flip" \notin Faults, Next PROVE DirInv'
  BY <1>1, DirQuiet, DirBuild, DirSwap, DirCrash DEF Next
<1>2. ASSUME TypeInv, DirInv, UNCHANGED vars PROVE DirInv'
  <2>1. /\ dir' = dir /\ Range(dirs') = Range(dirs) /\ mem' = mem /\ merge' = merge
    BY <1>2 DEF vars, dir
  <2>2. (merge.phase \in Merging => ~mem.poisoned) /\ (~mem.up => mem.retired = {})
    BY <1>2 DEF DirInv
  <2> QED BY <1>2, <2>1, <2>2, DirKept
<1> QED BY <1>1, <1>2

LEMMA InitDirs == Init => DirInv
<1> SUFFICES ASSUME Init PROVE DirInv
  OBVIOUS
<1>1. TypeInv
  BY InitTypes
<1>2. ~mem.up /\ mem.retired = {} /\ merge.phase = "idle"
  BY DEF Init, ClosedMem, IdleMerge
<1>3. PICK B \in SUBSET Quads : \E d :
         /\ d = [current |-> 0, wal |-> 0, base |-> [g \in Gens |-> IF g = 0 THEN B ELSE Absent]]
         /\ dirs = <<d>>
  BY DEF Init
<1>8. PICK d :
         /\ d = [current |-> 0, wal |-> 0, base |-> [g \in Gens |-> IF g = 0 THEN B ELSE Absent]]
         /\ dirs = <<d>>
  BY <1>3
<1>4. d.current = 0 /\ d.base[0] = B
  <2>1. 0 \in Gens
    BY <1>1, Parts DEF Gens
  <2> QED BY <1>8, <2>1
<1>5. B # Absent /\ B # Partial
  BY <1>1, ConstantsAssumption DEF TypeInv, Quads
<1>6. Range(dirs) = {d}
  <2>1. DOMAIN <<d>> = {1} /\ <<d>>[1] = d
    OBVIOUS
  <2> QED BY <1>8, <2>1 DEF Range
<1>7. "idle" \notin Pointing \cup {"shadow", "staged"} /\ "idle" \notin Merging
  BY DEF Pointing, Merging
<1> QED BY <1>2, <1>4, <1>5, <1>6, <1>7 DEF DirInv, Built

\* The live log replays and CURRENT names a built generation, after every
\* crash at any point, whatever else fails, in every environment in which the
\* directory fsync of write_current does not (write_current, open_with).
THEOREM AlwaysReopens == Spec => []OpensUnlessFlipFails
<1> DEFINE NoFlip == "flip" \notin Faults
           IInv == TypeInv /\ ReadInv /\ LogInv /\ (NoFlip => DirInv)
<1>1. Init => IInv
  BY InitTypes, InitReads, InitLogs, InitDirs
<1>2. IInv /\ [Next]_vars => IInv'
  <2>1. [Next]_vars => env' = env
    BY DEF Next, vars
  <2>2. env' = env => NoFlip' = NoFlip
    BY DEF Faults
  <2> HIDE DEF NoFlip
  <2>3. NoFlip => "flip" \notin Faults
    BY DEF NoFlip
  <2> QED BY <2>1, <2>2, <2>3, ReadSteps, LogSteps, DirSteps
<1>3. IInv => OpensUnlessFlipFails
  <2> SUFFICES ASSUME IInv, NoFlip, NEW d \in Range(dirs) PROVE Opens(d)
    BY DEF OpensUnlessFlipFails, AlwaysOpens
  <2>1. d \in Dir
    BY LenProperties DEF TypeInv, Range
  <2>2. logs[d.wal].recs \in Seq(Rec) /\ OrderedLog(logs[d.wal].recs)
    BY <2>1 DEF LogInv, TypeInv, Dir, Log
  <2>3. Built(d, d.current)
    BY DEF DirInv
  <2> QED BY <2>2, <2>3, OrderedReplays DEF Opens
<1> QED BY <1>1, <1>2, <1>3, PTL DEF Spec

-----------------------------------------------------------------------------
(* What a kill leaves on disk: the live log is an unbroken run of commits  *)
(* over a base of the history.                                             *)

CommitsIn(x, t) ==
    /\ t.kind = "tx" /\ t.epoch \in 1 .. Len(x) - 1
    /\ t.dels \cup t.adds # {}
    /\ x[t.epoch + 1] = (x[t.epoch] \ t.dels) \cup t.adds

\* The commits of history x after epoch s, behind c checkpoints.
RunOf(x, r, c, s) ==
    /\ c \in {0, 1} /\ c <= Len(r)
    /\ c = 0 => s = 0
    /\ c = 1 => r[1].kind = "checkpoint" /\ r[1].epoch = s
    /\ \A i \in 1 .. Len(r) - c : CommitsIn(x, r[c + i]) /\ r[c + i].epoch = s + i

\* A set of numbers that has i exactly when it has i - 1, from m on.
LEMMA Unchanging ==
    ASSUME NEW n \in Nat, NEW m \in 0 .. n, NEW T, \A i \in m + 1 .. n : i \in T <=> i - 1 \in T
    PROVE  m \in T <=> n \in T
<1> DEFINE U == {d \in 0 .. n - m : m + d \in T <=> m \in T}
<1>1. 0 \in U
  OBVIOUS
<1>2. ASSUME NEW d \in 0 .. n - m - 1, d \in U PROVE d + 1 \in U
  <2>1. m + (d + 1) \in m + 1 .. n /\ (m + (d + 1)) - 1 = m + d /\ d + 1 \in 0 .. n - m
    OBVIOUS
  <2>2. m + (d + 1) \in T <=> m + d \in T
    BY <2>1
  <2> QED BY <1>2, <2>1, <2>2
<1>3. n - m \in U
  <2> HIDE DEF U
  <2>1. n - m \in Nat /\ n - m \in 0 .. n - m
    OBVIOUS
  <2> QED BY <1>1, <1>2, <2>1, UpTo
<1>4. m + (n - m) = n
  OBVIOUS
<1> QED BY <1>3, <1>4

\* The elements at the indices from a + 1 to b.
Between(I, s, a, b) ==
    a <= b /\ b <= Len(s) /\ \A i \in 1 .. Len(s) : i \in I <=> i \in a + 1 .. b

LEMMA KeepInterval ==
    ASSUME NEW S, NEW s \in Seq(S), NEW a \in Nat, NEW b \in Nat, NEW I, Between(I, s, a, b)
    PROVE  /\ Keep(s, I) \in Seq(S) /\ Len(Keep(s, I)) = b - a
           /\ \A k \in 1 .. b - a : Keep(s, I)[k] = s[a + k]
<1> DEFINE K == Keeping(s, I)
           L(i) == IF i <= a THEN 0 ELSE IF i <= b THEN i - a ELSE b - a
           P(i) == K[i] \in Seq(S) /\ Len(K[i]) = L(i) /\ \A k \in 1 .. L(i) : K[i][k] = s[a + k]
           T == {i \in 0 .. Len(s) : P(i)}
<1>1. /\ Len(s) \in Nat /\ \A i \in 1 .. Len(s) : s[i] \in S
      /\ a <= b /\ b <= Len(s) /\ \A i \in 1 .. Len(s) : i \in I <=> i \in a + 1 .. b
  BY LenProperties DEF Between
<1>2. \A i \in 0 .. Len(s) : K[i] = KeepStep(s, I, K, i)
  BY <1>1, KeepingSteps
<1> HIDE DEF K
<1>3. 0 \in T
  <2>1. K[0] = <<>> /\ 0 \in 0 .. Len(s)
    BY <1>1, <1>2 DEF KeepStep
  <2>2. L(0) = 0
    BY <1>1
  <2>3. <<>> \in Seq(S) /\ Len(<<>>) = 0
    BY EmptySeq
  <2>4. \A k \in 1 .. 0 : FALSE
    OBVIOUS
  <2> HIDE DEF L
  <2> QED BY <2>1, <2>2, <2>3, <2>4
<1>4. ASSUME NEW i \in 0 .. Len(s) - 1, i \in T PROVE i + 1 \in T
  <2>1. i \in Nat /\ i + 1 \in 0 .. Len(s) /\ i + 1 \in 1 .. Len(s) /\ (i + 1) - 1 = i /\ i + 1 # 0
    BY <1>1
  <2>2. K[i] \in Seq(S) /\ Len(K[i]) = L(i) /\ \A k \in 1 .. L(i) : K[i][k] = s[a + k]
    BY <1>4
  <2>3. CASE i + 1 \in I
    <3>1. K[i + 1] = Append(K[i], s[i + 1])
      BY <1>2, <2>1, <2>3 DEF KeepStep
    <3>2. /\ K[i + 1] \in Seq(S) /\ Len(K[i + 1]) = Len(K[i]) + 1
          /\ \A k \in 1 .. Len(K[i]) : K[i + 1][k] = K[i][k]
          /\ K[i + 1][Len(K[i]) + 1] = s[i + 1]
      <4>1. K[i] \in Seq(S) /\ s[i + 1] \in S
        BY <1>1, <2>1, <2>2
      <4> QED BY <3>1, <4>1, AppendProperties
    <3>3. a + 1 <= i + 1 /\ i + 1 <= b
      <4>1. i + 1 \in a + 1 .. b
        BY <1>1, <2>1, <2>3
      <4> QED BY <4>1
    <3>4. L(i) = i - a /\ L(i + 1) = i - a + 1 /\ a + (i - a + 1) = i + 1 /\ i - a \in Nat
      BY <3>3, <2>1
    <3> HIDE DEF L
    <3>5. \A k \in 1 .. i - a + 1 : k \in 1 .. i - a \/ k = i - a + 1
      BY <3>4
    <3>6. \A k \in 1 .. i - a + 1 : K[i + 1][k] = s[a + k]
      BY <2>2, <3>2, <3>4, <3>5
    <3> QED BY <2>1, <2>2, <3>2, <3>4, <3>6
  <2>4. CASE i + 1 \notin I
    <3>1. K[i + 1] = K[i]
      BY <1>2, <2>1, <2>4 DEF KeepStep
    <3>2. L(i + 1) = L(i)
      BY <1>1, <2>1, <2>4
    <3> HIDE DEF L
    <3> QED BY <2>1, <2>2, <3>1, <3>2
  <2> QED BY <2>3, <2>4
<1>5. Len(s) \in T
  <2> HIDE DEF T
  <2>1. Len(s) \in 0 .. Len(s)
    BY <1>1
  <2> QED BY <1>1, <1>3, <1>4, <2>1, UpTo
<1>6. L(Len(s)) = b - a
  BY <1>1
<1>7. P(Len(s))
  BY <1>5
<1> HIDE DEF L
<1> QED BY <1>6, <1>7 DEF Keep, K

\* Commits of history x from s on.
Follow(x, t, s) == \A i \in 1 .. Len(t) : CommitsIn(x, t[i]) /\ t[i].epoch = s + i
Datasets(x) == Len(x) \in Nat /\ \A i \in 1 .. Len(x) : x[i] \in SUBSET Quads

\* Commits from s on, over a dataset of the history that some of them may
\* already be in, lead to the last one's dataset: replay is a no-op for
\* what the base has absorbed.
LEMMA DataRun ==
    ASSUME NEW x, Datasets(x), NEW t \in Seq(Rec), NEW s \in Nat, Follow(x, t, s),
           NEW b \in Nat, s <= b, b <= s + Len(t), s + Len(t) < Len(x)
    PROVE  Data(x[b + 1], t) = x[s + Len(t) + 1]
<1>p. PICK p \in Nat, h \in Nat : p = Len(t) /\ h = Len(x)
  BY RecsAre DEF Datasets
<1>a. b <= s + p /\ s + p < h
  BY <1>p
<1>b. \A i \in 1 .. h : x[i] \in SUBSET Quads
  BY <1>p DEF Datasets
<1>c. \A i \in 1 .. p : CommitsIn(x, t[i]) /\ t[i].epoch = s + i
  BY <1>p DEF Follow
<1>1. /\ b + 1 \in 1 .. h /\ s + p + 1 \in 1 .. h
      /\ \A i \in 0 .. p : s + i + 1 \in 1 .. h
  BY <1>a
<1>2. x[b + 1] \in SUBSET Quads /\ x[s + p + 1] \in SUBSET Quads
  BY <1>1, <1>b
<1>3. \A i \in 1 .. p : x[s + i + 1] = (x[s + i] \ t[i].dels) \cup t[i].adds
  BY <1>c DEF CommitsIn
<1>4. ASSUME NEW q \in Quads PROVE q \in Data(x[b + 1], t) <=> q \in x[s + p + 1]
  <2> DEFINE T == {i \in 0 .. p : q \in x[s + i + 1]}
  <2>1. ASSUME NEW i \in 1 .. p, ~Touches(t[i], q) PROVE i \in T <=> i - 1 \in T
    <3>1. i \in 0 .. p /\ i - 1 \in 0 .. p /\ s + (i - 1) + 1 = s + i
      OBVIOUS
    <3>2. q \in x[s + i + 1] <=> q \in x[s + i]
      BY <1>3, <2>1 DEF Touches
    <3> QED BY <3>1, <3>2
  <2>2. ASSUME NEW m \in 0 .. p, \A i \in 1 .. p : i > m => ~Touches(t[i], q)
        PROVE  q \in x[s + m + 1] <=> q \in x[s + p + 1]
    <3>1. \A i \in m + 1 .. p : i \in 1 .. p /\ i > m
      OBVIOUS
    <3>2. \A i \in m + 1 .. p : i \in T <=> i - 1 \in T
      BY <2>1, <2>2, <3>1
    <3>3. m \in T <=> p \in T
      <4> HIDE DEF T
      <4> QED BY <3>2, Unchanging
    <3> QED BY <3>3
  <2>3. CASE \A i \in 1 .. p : ~Touches(t[i], q)
    <3>1. PICK m \in 0 .. p : s + m = b
      <4>1. b - s \in 0 .. p /\ s + (b - s) = b
        BY <1>a
      <4> QED BY <4>1
    <3>2. q \in x[b + 1] <=> q \in x[s + p + 1]
      BY <2>2, <2>3, <3>1
    <3>3. q \in Data(x[b + 1], t) <=> q \in x[b + 1]
      BY <1>p, <2>3, DataNone
    <3> QED BY <3>2, <3>3
  <2>4. ASSUME NEW i \in 1 .. p, Touches(t[i], q), \A j \in 1 .. p : j > i => ~Touches(t[j], q)
        PROVE  q \in Data(x[b + 1], t) <=> q \in x[s + p + 1]
    <3>1. q \in Data(x[b + 1], t) <=> q \in t[i].adds
      BY <1>p, <2>4, DataLast
    <3>2. q \in x[s + i + 1] <=> q \in t[i].adds
      BY <1>3, <2>4 DEF Touches
    <3>3. i \in 0 .. p
      OBVIOUS
    <3>4. q \in x[s + i + 1] <=> q \in x[s + p + 1]
      BY <2>2, <2>4, <3>3
    <3> QED BY <3>1, <3>2, <3>4
  <2> QED BY <1>p, <2>3, <2>4, LastTouch
<1>5. Data(x[b + 1], t) \subseteq Quads
  BY DEF Data
<1> QED BY <1>2, <1>4, <1>5, <1>p

\* What recovery leaves out of the delta changes nothing.
LEMMA DataApplied ==
    ASSUME NEW b \in SUBSET Quads, NEW s \in Seq(Rec)
    PROVE  Data(b, Applied(b, s)) = Data(b, s)
<1> DEFINE n == Len(s)
           a == Applied(b, s)
           D(i) == Data(b, Prefix(s, i))
<1>1. n \in Nat /\ \A i \in 1 .. n : s[i] \in Rec
  BY RecsAre
<1>2. PICK m : AppliedBy(b, s, m)
  BY AppliedIs
<1>3. a \in Seq(Rec) /\ Len(a) \in Nat
  BY AppliedIs, LenProperties
<1>4. /\ \A k \in 1 .. Len(a) : m[k] \in 1 .. n /\ a[k] = Effective(b, s, m[k])
      /\ \A j, k \in 1 .. Len(a) : j < k => m[j] < m[k]
      /\ \A i \in 1 .. n : Effective(b, s, i).dels \cup Effective(b, s, i).adds # {} =>
                                  \E k \in 1 .. Len(a) : m[k] = i
  BY <1>2 DEF AppliedBy
<1> HIDE DEF a
<1>5. D(0) = b /\ D(n) = Data(b, s)
  <2>1. Prefix(s, 0) = <<>> /\ Prefix(s, n) = s
    BY SubSeqEmpty, SubSeqFull DEF Prefix
  <2>2. Data(b, <<>>) = b
    <3>1. \A q \in Quads : q \in Data(b, <<>>) <=> q \in b
      <4>1. PICK e \in Seq(Rec) : e = <<>> /\ Len(e) = 0
        BY EmptySeq
      <4>2. \A i \in 1 .. Len(e) : FALSE
        BY <4>1
      <4>3. \A q \in Quads : q \in Data(b, e) <=> q \in b
        BY <4>2, DataNone
      <4> QED BY <4>1, <4>3
    <3>2. Data(b, <<>>) \subseteq Quads
      BY DEF Data
    <3> QED BY <3>1, <3>2
  <2> QED BY <2>1, <2>2
<1>6. ASSUME NEW i \in 1 .. n PROVE D(i) = (D(i - 1) \ s[i].dels) \cup s[i].adds
  <2>1. Prefix(s, i) = Append(Prefix(s, i - 1), s[i])
    <3>1. i - 1 \in Nat /\ i - 1 <= n /\ (i - 1) + 1 = i /\ i - 1 \in 0 .. n
      BY <1>1
    <3>2. SubSeq(s, 1, i) = SubSeq(s, 1, i - 1) \o <<s[i]>>
      BY <1>1, <3>1, SubSeqRecursiveSecond
    <3>3. SubSeq(s, 1, i - 1) \in Seq(Rec)
      BY <3>1, PrefixOfLog DEF Prefix
    <3> QED BY <1>1, <3>2, <3>3, AppendIsConcat DEF Prefix
  <2>2. Prefix(s, i - 1) \in Seq(Rec)
    <3>1. i - 1 \in Nat /\ i - 1 <= Len(s)
      BY <1>1
    <3> QED BY <3>1, PrefixOfLog
  <2> QED BY <1>1, <2>1, <2>2, DataAppend
<1>7. \A i \in 1 .. n : /\ Effective(b, s, i).dels = s[i].dels \cap D(i - 1)
                        /\ Effective(b, s, i).adds = s[i].adds \ (D(i - 1) \ s[i].dels)
  BY <1>1 DEF Effective, Rec
<1>8. Data(b, a) \subseteq Quads /\ Data(b, s) \subseteq Quads
  BY DEF Data
<1> HIDE DEF D, n
<1>9. ASSUME NEW q \in Quads PROVE q \in Data(b, a) <=> q \in D(n)
  <2> DEFINE T == {i \in 0 .. n : q \in D(i)}
  <2>1. ASSUME NEW i \in 1 .. n, ~Touches(Effective(b, s, i), q) PROVE i \in T <=> i - 1 \in T
    <3>1. i \in 0 .. n /\ i - 1 \in 0 .. n
      BY <1>1
    <3>2. q \in D(i) <=> q \in D(i - 1)
      BY <1>6, <1>7, <2>1 DEF Touches
    <3> QED BY <3>1, <3>2
  <2>2. ASSUME NEW i \in 0 .. n, \A j \in 1 .. n : j > i => ~Touches(Effective(b, s, j), q)
        PROVE  q \in D(i) <=> q \in D(n)
    <3>1. \A j \in i + 1 .. n : j \in 1 .. n /\ j > i
      BY <1>1
    <3>2. \A j \in i + 1 .. n : j \in T <=> j - 1 \in T
      BY <2>1, <2>2, <3>1
    <3>3. i \in T <=> n \in T
      <4> HIDE DEF T
      <4> QED BY <1>1, <3>2, Unchanging
    <3> QED BY <1>1, <3>3
  <2>3. ASSUME NEW i \in 1 .. n, Touches(Effective(b, s, i), q)
        PROVE  \E k \in 1 .. Len(a) : m[k] = i /\ Touches(a[k], q)
    <3>1. PICK k \in 1 .. Len(a) : m[k] = i
      BY <1>4, <2>3 DEF Touches
    <3> QED BY <1>4, <2>3, <3>1
  <2>4. CASE \A k \in 1 .. Len(a) : ~Touches(a[k], q)
    <3>1. \A j \in 1 .. n : ~Touches(Effective(b, s, j), q)
      BY <2>3, <2>4
    <3>2. q \in D(0) <=> q \in D(n)
      BY <1>1, <2>2, <3>1
    <3>3. q \in Data(b, a) <=> q \in b
      BY <1>3, <2>4, DataNone
    <3> QED BY <1>5, <3>2, <3>3
  <2>5. ASSUME NEW k \in 1 .. Len(a), Touches(a[k], q),
               \A j \in 1 .. Len(a) : j > k => ~Touches(a[j], q)
        PROVE  q \in Data(b, a) <=> q \in D(n)
    <3>1. q \in Data(b, a) <=> q \in a[k].adds
      BY <1>3, <2>5, DataLast
    <3>2. PICK i \in 1 .. n : m[k] = i
      BY <1>4
    <3>3. a[k] = Effective(b, s, i)
      BY <1>4, <3>2
    <3>4. q \in D(i) <=> q \in a[k].adds
      BY <1>6, <1>7, <2>5, <3>3 DEF Touches
    <3>5. ASSUME NEW j \in 1 .. n, j > i PROVE ~Touches(Effective(b, s, j), q)
      <4> SUFFICES ASSUME Touches(Effective(b, s, j), q) PROVE FALSE
        OBVIOUS
      <4>1. PICK l \in 1 .. Len(a) : m[l] = j /\ Touches(a[l], q)
        BY <2>3, <3>5
      <4>2. l < k \/ l = k
        BY <1>3, <2>5, <4>1
      <4>3. m[l] < m[k] \/ m[l] = m[k]
        BY <1>4, <4>2
      <4> QED BY <3>2, <3>5, <4>1, <4>3
    <3>6. i \in 0 .. n
      BY <1>1
    <3>7. q \in D(i) <=> q \in D(n)
      BY <2>2, <3>5, <3>6
    <3> QED BY <3>1, <3>4, <3>7
  <2> QED BY <1>3, <2>4, <2>5, LastTouch
<1> QED BY <1>5, <1>8, <1>9 DEF a

\* A run replays: the transactions behind its checkpoint, and the epoch of it.
LEMMA RunReplays ==
    ASSUME NEW x, NEW r \in Seq(Rec), NEW c \in Nat, NEW s \in Nat, RunOf(x, r, c, s)
    PROVE  /\ replay(r).txs \in Seq(Rec) /\ Len(replay(r).txs) = Len(r) - c
           /\ Follow(x, replay(r).txs, s)
           /\ replay(r).checkpoint = s
<1>a. PICK n \in Nat : Len(r) = c + n
  <2>1. Len(r) \in Nat /\ c <= Len(r)
    BY RecsAre DEF RunOf
  <2>2. Len(r) - c \in Nat /\ Len(r) = c + (Len(r) - c)
    BY <2>1
  <2> QED BY <2>2
<1>1. /\ c \in {0, 1}
      /\ c = 0 => s = 0
      /\ c = 1 => r[1].kind = "checkpoint" /\ r[1].epoch = s
      /\ \A i \in 1 .. n : /\ CommitsIn(x, r[c + i]) /\ r[c + i].epoch = s + i
                             /\ r[c + i].kind = "tx"
  <2>1. Len(r) - c = n
    BY <1>a
  <2> QED BY <2>1, Zenon DEF RunOf, CommitsIn
<1>2. \A i \in 1 .. c + n : i \in 1 .. c \/ (i - c \in 1 .. n /\ c + (i - c) = i)
  OBVIOUS
<1>3. ASSUME NEW i \in 1 .. c + n
      PROVE  \/ i \in 1 .. c /\ c = 1 /\ i = 1 /\ r[i].kind = "checkpoint" /\ r[i].epoch = s
             \/ i \in c + 1 .. c + n /\ r[i].kind = "tx" /\ r[i].epoch > s
  <2>1. CASE i \in 1 .. c
    BY <1>1, <2>1
  <2>2. CASE i - c \in 1 .. n /\ c + (i - c) = i
    <3>1. PICK k \in 1 .. n : i = c + k
      BY <2>2
    <3>2. r[c + k].kind = "tx" /\ r[c + k].epoch = s + k /\ s + k > s
      BY <1>1
    <3> QED BY <3>1, <3>2
  <2> QED BY <1>2, <2>1, <2>2
<1>4. DOMAIN r = 1 .. c + n
  BY <1>a, RecsAre
<1>5. \A i \in 1 .. Len(r) : i \in Surviving(r) <=> i \in c + 1 .. c + n
  <2> SUFFICES ASSUME NEW i \in 1 .. c + n PROVE i \in Surviving(r) <=> i \in c + 1 .. c + n
    BY <1>a
  <2>1. CASE i \in 1 .. c
    <3>1. r[i].kind # "tx" /\ ~(i \in c + 1 .. c + n)
      BY <1>3, <2>1
    <3> QED BY <3>1 DEF Surviving
  <2>2. CASE i \in c + 1 .. c + n
    <3>1. r[i].kind = "tx" /\ r[i].epoch > s
      BY <1>3, <2>2
    <3>2. \A j \in 1 .. c + n : j > i => r[j].kind # "checkpoint"
      BY <1>3, <2>2
    <3> QED BY <1>4, <2>2, <3>1, <3>2 DEF Surviving
  <2> QED BY <1>3, <2>1, <2>2
<1>6. PICK I : I = Surviving(r)
  OBVIOUS
<1>7. /\ Keep(r, I) \in Seq(Rec) /\ Len(Keep(r, I)) = c + n - c
      /\ \A i \in 1 .. c + n - c : Keep(r, I)[i] = r[c + i]
  <2>1. Between(I, r, c, c + n)
    BY <1>5, <1>6, <1>a DEF Between
  <2> QED BY <2>1, KeepInterval
<1>8. replay(r).txs = Keep(r, I) /\ c + n - c = n
  BY <1>6 DEF replay
<1>9. replay(r).checkpoint = s
  <2>1. CASE c = 0
    <3>1. Folded(r) = {}
      BY <1>3, <1>4, <2>1 DEF Folded
    <3> QED BY <1>1, <2>1, <3>1, ReplayIs
  <2>2. CASE c = 1
    <3>1. 1 \in DOMAIN r /\ r[1].kind = "checkpoint" /\ r[1].epoch = s
      BY <1>1, <1>4, <2>2
    <3>2. \A i \in DOMAIN r : r[i].kind = "checkpoint" => r[i].epoch = s
      BY <1>3, <1>4
    <3>3. Folded(r) = {s}
      BY <3>1, <3>2 DEF Folded
    <3> QED BY <3>3, ReplayIs
  <2> QED BY <1>1, <2>1, <2>2
<1>10. PICK t : t = Keep(r, I)
  OBVIOUS
<1>11. Follow(x, t, s) /\ t \in Seq(Rec) /\ Len(t) = n
  BY <1>1, <1>7, <1>8, <1>10 DEF Follow
<1> QED BY <1>8, <1>9, <1>10, <1>11, <1>a

\* What a store opened on a run reads, and the epoch it reports.
LEMMA RunOpens ==
    ASSUME NEW x, Datasets(x), Live \in Seq(Rec),
           NEW c \in Nat, NEW s \in Nat, RunOf(x, Live, c, s), NEW e \in Nat, e = s + (Len(Live) - c),
           NEW b \in Nat, Base = x[b + 1], s <= b, b <= e, e < Len(x)
    PROVE  OpenEpoch = e /\ Data(Base, Delta) = x[e + 1]
<1>1. PICK t : t = replay(Live).txs
  OBVIOUS
<1>2. /\ t \in Seq(Rec) /\ Len(t) = Len(Live) - c /\ Follow(x, t, s)
      /\ replay(Live).checkpoint = s
  <2>1. PICK l \in Seq(Rec) : l = Live
    OBVIOUS
  <2>2. RunOf(x, l, c, s)
    BY <2>1
  <2>3. /\ replay(l).txs \in Seq(Rec) /\ Len(replay(l).txs) = Len(l) - c
        /\ Follow(x, replay(l).txs, s) /\ replay(l).checkpoint = s
    BY <2>2, RunReplays
  <2> QED BY <1>1, <2>1, <2>3
<1>3. PICK n \in Nat : n = Len(t) /\ e = s + n
  BY <1>2, RecsAre
<1>4. OpenEpoch = e
  <2>1. CASE n = 0
    <3>1. t = <<>>
      BY <1>2, <1>3, <2>1, EmptySeq
    <3> QED BY <1>1, <1>2, <1>3, <2>1, <3>1 DEF OpenEpoch, LastEpoch
  <2>2. CASE n # 0
    <3>1. t # <<>> /\ n \in 1 .. n
      BY <1>2, <1>3, <2>2, EmptySeq
    <3>2. LastEpoch = s + n
      BY <1>1, <1>2, <1>3, <3>1 DEF LastEpoch, Follow
    <3> QED BY <1>2, <1>3, <2>2, <3>2 DEF OpenEpoch
  <2> QED BY <2>1, <2>2
<1>5. Data(x[b + 1], t) = x[e + 1]
  <2>1. b <= s + Len(t) /\ s + Len(t) < Len(x) /\ s + Len(t) = e
    BY <1>3
  <2>2. Data(x[b + 1], t) = x[s + Len(t) + 1]
    BY <1>2, <2>1, DataRun
  <2> QED BY <2>1, <2>2
<1>6. x[b + 1] \in SUBSET Quads
  <2>1. b + 1 \in 1 .. Len(x)
    BY DEF Datasets
  <2> QED BY <2>1 DEF Datasets
<1>7. Data(Base, Applied(Base, t)) = Data(Base, t)
  BY <1>2, <1>6, DataApplied
<1> QED BY <1>1, <1>4, <1>5, <1>7 DEF Delta

\* Two histories that agree up to epoch m.
Agree(x, y, m) ==
    /\ Len(x) \in Nat /\ Len(y) \in Nat /\ m < Len(x) /\ m < Len(y)
    /\ \A i \in 1 .. m + 1 : y[i] = x[i]

LEMMA CommitsAgree ==
    ASSUME NEW x, NEW y, NEW m \in Nat, Agree(x, y, m), NEW t, CommitsIn(x, t), t.epoch <= m
    PROVE  CommitsIn(y, t)
<1>1. PICK h, l, k \in Nat : h = Len(x) /\ l = Len(y) /\ k = t.epoch /\ k \in 1 .. h - 1
  BY DEF Agree, CommitsIn
<1>2. k \in 1 .. m + 1 /\ k + 1 \in 1 .. m + 1 /\ k \in 1 .. l - 1
  BY <1>1 DEF Agree
<1>3. y[k] = x[k] /\ y[k + 1] = x[k + 1]
  BY <1>2 DEF Agree
<1> QED BY <1>1, <1>2, <1>3 DEF CommitsIn

LEMMA RunAgrees ==
    ASSUME NEW x, NEW y, NEW m \in Nat, Agree(x, y, m), NEW r \in Seq(Rec), NEW c, NEW s \in Nat,
           RunOf(x, r, c, s), s + (Len(r) - c) <= m
    PROVE  RunOf(y, r, c, s)
<1>1. PICK n, l \in Nat : c \in {0, 1} /\ l = Len(r) /\ n = l - c
  <2>1. Len(r) \in Nat /\ c \in {0, 1} /\ c <= Len(r)
    BY RecsAre DEF RunOf
  <2>2. Len(r) - c \in Nat
    BY <2>1
  <2> QED BY <2>1, <2>2
<1>2. ASSUME NEW i \in 1 .. n PROVE CommitsIn(y, r[c + i])
  <2>1. CommitsIn(x, r[c + i]) /\ r[c + i].epoch = s + i
    BY <1>1 DEF RunOf
  <2>2. r[c + i].epoch <= m
    BY <1>1, <2>1
  <2> QED BY <2>1, <2>2, CommitsAgree
<1> QED BY <1>1, <1>2 DEF RunOf

\* w is the log on disk, its first n records those that survive for sure, B
\* the base: recovery reaches epoch e at least, from a base that has absorbed
\* what the log's checkpoint folds away, and a is acknowledged; the log begins
\* no later than epoch f.
OnDisk(x, w, n, B, a, e, f) ==
    \E c, s, b \in Nat :
        /\ RunOf(x, w, c, s) /\ c <= n /\ n <= Len(w) /\ e = s + (n - c) /\ e < Len(x)
        /\ B = x[b + 1] /\ s <= b /\ b <= e /\ a <= e /\ s <= f

LEMMA DiskAgrees ==
    ASSUME NEW x, NEW y, NEW e \in Nat, Agree(x, y, e), NEW w \in Seq(Rec), NEW B, NEW a, NEW f,
           OnDisk(x, w, Len(w), B, a, e, f)
    PROVE  OnDisk(y, w, Len(w), B, a, e, f)
<1>1. PICK c, s, b \in Nat :
        /\ RunOf(x, w, c, s) /\ c <= Len(w) /\ e = s + (Len(w) - c) /\ e < Len(x)
        /\ B = x[b + 1] /\ s <= b /\ b <= e /\ a <= e /\ s <= f
  BY DEF OnDisk
<1>2. RunOf(y, w, c, s)
  BY <1>1, RunAgrees
<1>3. B = y[b + 1]
  <2>1. b + 1 \in 1 .. e + 1
    BY <1>1
  <2> QED BY <1>1, <2>1 DEF Agree
<1>4. e < Len(y) /\ Len(w) <= Len(w)
  BY RecsAre DEF Agree
<1> QED BY <1>1, <1>2, <1>3, <1>4 DEF OnDisk

\* A transaction of the group in flight.
LEMMA DiskGrows ==
    ASSUME NEW x, NEW y, NEW e \in Nat, NEW p \in Nat, Len(x) = e + 1 + p, Agree(x, y, e + p),
           Len(y) = Len(x) + 1, NEW w \in Seq(Rec), NEW n \in Nat, Len(w) = n + p,
           NEW t \in Rec, CommitsIn(y, t), t.epoch = Len(x),
           NEW B, NEW a, NEW f, OnDisk(x, w, n, B, a, e, f)
    PROVE  OnDisk(y, Append(w, t), n, B, a, e, f)
<1>1. PICK c, s, b \in Nat :
        /\ RunOf(x, w, c, s) /\ c <= n /\ n <= Len(w) /\ e = s + (n - c) /\ e < Len(x)
        /\ B = x[b + 1] /\ s <= b /\ b <= e /\ a <= e /\ s <= f
  BY DEF OnDisk
<1>2. PICK u \in Seq(Rec) :
        /\ u = Append(w, t) /\ Len(u) = n + p + 1 /\ u[n + p + 1] = t
        /\ \A i \in 1 .. n + p : u[i] = w[i]
  <2>1. /\ Append(w, t) \in Seq(Rec) /\ Len(Append(w, t)) = Len(w) + 1
        /\ Append(w, t)[Len(w) + 1] = t /\ \A i \in 1 .. Len(w) : Append(w, t)[i] = w[i]
    BY AppendProperties
  <2> QED BY <2>1
<1>3. RunOf(y, w, c, s)
  <2>1. s + (Len(w) - c) <= e + p
    BY <1>1
  <2> QED BY <1>1, <2>1, RunAgrees
<1>4. RunOf(y, u, c, s)
  <2>1. c \in {0, 1} /\ c <= Len(u)
    BY <1>1, <1>2 DEF RunOf
  <2>2. c = 0 => s = 0
    BY <1>1 DEF RunOf
  <2>3. ASSUME c = 1 PROVE u[1].kind = "checkpoint" /\ u[1].epoch = s
    <3>1. 1 \in 1 .. n + p
      BY <1>1, <2>3
    <3>2. w[1].kind = "checkpoint" /\ w[1].epoch = s
      BY <1>1, <2>3 DEF RunOf
    <3> QED BY <1>2, <3>1, <3>2
  <2>4. ASSUME NEW i \in 1 .. Len(u) - c PROVE CommitsIn(y, u[c + i]) /\ u[c + i].epoch = s + i
    <3>1. CASE c + i \in 1 .. n + p
      <4>1. i \in 1 .. Len(w) - c
        BY <2>1, <3>1
      <4>2. CommitsIn(y, w[c + i]) /\ w[c + i].epoch = s + i
        BY <1>3, <4>1 DEF RunOf
      <4> QED BY <1>2, <3>1, <4>2
    <3>2. CASE c + i = n + p + 1
      <4>1. s + i = e + 1 + p
        BY <1>1, <3>2
      <4>2. u[c + i] = t
        BY <1>2, <3>2
      <4> QED BY <4>1, <4>2
    <3>3. c + i \in 1 .. n + p \/ c + i = n + p + 1
      BY <1>2, <2>1
    <3> QED BY <3>1, <3>2, <3>3
  <2> QED BY <2>1, <2>2, <2>3, <2>4 DEF RunOf
<1>5. B = y[b + 1]
  <2>1. b + 1 \in 1 .. e + p + 1
    BY <1>1
  <2> QED BY <1>1, <2>1 DEF Agree
<1>6. n <= Len(u) /\ e < Len(y)
  BY <1>2
<1> QED BY <1>1, <1>2, <1>4, <1>5, <1>6 DEF OnDisk

\* The first m records of a log.
LEMMA DiskCut ==
    ASSUME NEW x, NEW e \in Nat, NEW p \in Nat, Len(x) = e + 1 + p,
           NEW w \in Seq(Rec), NEW n \in Nat, Len(w) = n + p,
           NEW B, NEW a, a \in Nat, NEW f, OnDisk(x, w, n, B, a, e, f), NEW m \in n .. n + p
    PROVE  OnDisk(x, Prefix(w, m), m, B, a, e + (m - n), f)
<1>1. PICK c, s, b \in Nat :
        /\ RunOf(x, w, c, s) /\ c <= n /\ n <= Len(w) /\ e = s + (n - c) /\ e < Len(x)
        /\ B = x[b + 1] /\ s <= b /\ b <= e /\ a <= e /\ s <= f
  BY DEF OnDisk
<1>2. PICK u \in Seq(Rec) : u = Prefix(w, m) /\ Len(u) = m /\ \A i \in 1 .. m : u[i] = w[i]
  <2>1. m \in Nat /\ m <= Len(w)
    OBVIOUS
  <2> QED BY <2>1, PrefixOfLog
<1>3. RunOf(x, u, c, s)
  <2>1. c \in {0, 1} /\ c <= Len(u)
    BY <1>1, <1>2 DEF RunOf
  <2>2. c = 0 => s = 0
    BY <1>1 DEF RunOf
  <2>3. ASSUME c = 1 PROVE u[1].kind = "checkpoint" /\ u[1].epoch = s
    <3>1. 1 \in 1 .. m
      BY <1>1, <2>3
    <3>2. w[1].kind = "checkpoint" /\ w[1].epoch = s
      BY <1>1, <2>3 DEF RunOf
    <3> QED BY <1>2, <3>1, <3>2
  <2>4. ASSUME NEW i \in 1 .. Len(u) - c PROVE CommitsIn(x, u[c + i]) /\ u[c + i].epoch = s + i
    <3>1. c + i \in 1 .. m /\ i \in 1 .. Len(w) - c
      BY <1>2, <2>1
    <3>2. CommitsIn(x, w[c + i]) /\ w[c + i].epoch = s + i
      BY <1>1, <3>1 DEF RunOf
    <3> QED BY <1>2, <3>1, <3>2
  <2> QED BY <2>1, <2>2, <2>3, <2>4 DEF RunOf
<1>4. /\ m <= Len(u) /\ e + (m - n) = s + (m - c) /\ e + (m - n) < Len(x)
      /\ b <= e + (m - n) /\ a <= e + (m - n) /\ c <= m
  <2>1. m \in Nat /\ n <= m /\ m <= n + p
    OBVIOUS
  <2>2. /\ c \in Nat /\ s \in Nat /\ b \in Nat /\ c <= n /\ e = s + (n - c) /\ b <= e /\ a <= e
        /\ Len(u) = m
    BY <1>1, <1>2
  <2>3. e + (m - n) = s + (m - c) /\ e + (m - n) < e + 1 + p
    BY <2>1, <2>2
  <2>4. b <= e + (m - n) /\ a <= e + (m - n) /\ c <= m /\ m <= Len(u)
    BY <2>1, <2>2
  <2> QED BY <2>3, <2>4
<1> QED BY <1>1, <1>2, <1>3, <1>4 DEF OnDisk

LEMMA DiskIs ==
    ASSUME NEW x, NEW w, NEW n, NEW B, NEW a, NEW e, NEW f, OnDisk(x, w, n, B, a, e, f)
    PROVE  \E c, s, b \in Nat :
             /\ RunOf(x, w, c, s) /\ c <= n /\ n <= Len(w) /\ e = s + (n - c) /\ e < Len(x)
             /\ B = x[b + 1] /\ s <= b /\ b <= e /\ a <= e /\ s <= f
BY DEF OnDisk

\* The group is recorded.
LEMMA DiskDone ==
    ASSUME NEW x, NEW e \in Nat, NEW p \in Nat, Len(x) = e + 1 + p, NEW w \in Seq(Rec),
           NEW n \in Nat, Len(w) = n + p, NEW B, NEW a, NEW g, g <= e + p, NEW f,
           OnDisk(x, w, n, B, a, e, f)
    PROVE  OnDisk(x, w, n + p, B, g, e + p, f)
<1>1. PICK c, s, b \in Nat :
        /\ RunOf(x, w, c, s) /\ c <= n /\ n <= Len(w) /\ e = s + (n - c) /\ e < Len(x)
        /\ B = x[b + 1] /\ s <= b /\ b <= e /\ a <= e /\ s <= f
  BY DiskIs
<1>2. /\ c <= n + p /\ n + p <= Len(w) /\ e + p = s + (n + p - c) /\ e + p < Len(x) /\ b <= e + p
  BY <1>1
<1> QED BY <1>1, <1>2 DEF OnDisk

\* The base becomes the dataset of the freeze.
LEMMA DiskFlip ==
    ASSUME NEW x, NEW w, NEW n, NEW B, NEW a, NEW e \in Nat, NEW f \in Nat, f <= e,
           OnDisk(x, w, n, B, a, e, f)
    PROVE  OnDisk(x, w, n, x[f + 1], a, e, f)
<1>1. PICK c, s, b \in Nat :
        /\ RunOf(x, w, c, s) /\ c <= n /\ n <= Len(w) /\ e = s + (n - c) /\ e < Len(x)
        /\ B = x[b + 1] /\ s <= b /\ b <= e /\ a <= e /\ s <= f
  BY DiskIs
<1> QED BY <1>1 DEF OnDisk

\* A merge freezes at the epoch the handle has reached.
LEMMA DiskFreeze ==
    ASSUME NEW x, NEW w, NEW n, NEW B, NEW a, NEW e \in Nat, NEW f, OnDisk(x, w, n, B, a, e, f)
    PROVE  OnDisk(x, w, n, B, a, e, e)
<1>1. PICK c, s, b \in Nat :
        /\ RunOf(x, w, c, s) /\ c <= n /\ n <= Len(w) /\ e = s + (n - c) /\ e < Len(x)
        /\ B = x[b + 1] /\ s <= b /\ b <= e /\ a <= e /\ s <= f
  BY DiskIs
<1>2. s <= e
  BY <1>1
<1> QED BY <1>1, <1>2 DEF OnDisk

-----------------------------------------------------------------------------
(* What a merge copies: the staged log is a run over the frozen dataset.   *)

\* The delta d of a handle at epoch e ends with the commits after f.
Suffixed(x, d, e, f) ==
    \E k \in Nat :
        /\ Len(d) = k + (e - f) /\ f <= e
        /\ \A i \in 1 .. k : d[i].epoch <= f
        /\ \A i \in 1 .. e - f : CommitsIn(x, d[k + i]) /\ d[k + i].epoch = f + i

\* The staged log r has the checkpoint of f and the commits from it to m, or
\* nothing yet.
RunTo(x, r, f, m) == RunOf(x, r, 1, f) /\ m = f + (Len(r) - 1)
Copied(x, r, header, f, m) ==
    /\ header => RunTo(x, r, f, m)
    /\ ~header => r = <<>> /\ m = f

Later(I, d, m, e) == \A i \in 1 .. Len(d) : i \in I <=> m < d[i].epoch /\ d[i].epoch <= e

LEMMA SuffixAgrees ==
    ASSUME NEW x, NEW y, NEW e \in Nat, Agree(x, y, e), NEW d \in Seq(Rec), NEW f \in Nat,
           Suffixed(x, d, e, f)
    PROVE  Suffixed(y, d, e, f)
<1>1. PICK k \in Nat :
        /\ Len(d) = k + (e - f) /\ f <= e
        /\ \A i \in 1 .. k : d[i].epoch <= f
        /\ \A i \in 1 .. e - f : CommitsIn(x, d[k + i]) /\ d[k + i].epoch = f + i
  BY DEF Suffixed
<1>2. ASSUME NEW i \in 1 .. e - f PROVE CommitsIn(y, d[k + i])
  <2>1. CommitsIn(x, d[k + i]) /\ d[k + i].epoch = f + i
    BY <1>1
  <2>2. f + i <= e
    OBVIOUS
  <2> QED BY <2>1, <2>2, CommitsAgree
<1> QED BY <1>1, <1>2 DEF Suffixed

LEMMA CopyAgrees ==
    ASSUME NEW x, NEW y, NEW m \in Nat, Agree(x, y, m), NEW r \in Seq(Rec), NEW f \in Nat,
           NEW h, Copied(x, r, h, f, m)
    PROVE  Copied(y, r, h, f, m)
<1>1. CASE h
  <2>1. RunOf(x, r, 1, f) /\ m = f + (Len(r) - 1)
    BY <1>1 DEF Copied, RunTo
  <2>2. RunOf(y, r, 1, f)
    <3>1. f + (Len(r) - 1) <= m
      BY <2>1
    <3> QED BY <2>1, <3>1, RunAgrees
  <2> QED BY <1>1, <2>1, <2>2 DEF Copied, RunTo
<1>2. CASE ~h
  BY <1>2 DEF Copied
<1> QED BY <1>1, <1>2

\* The commits at the end of a list, after m.
LEMMA SuffixPart ==
    ASSUME NEW x, NEW d \in Seq(Rec), NEW e \in Nat, NEW f \in Nat, Suffixed(x, d, e, f),
           NEW m \in Nat, f <= m, m <= e, NEW I, Later(I, d, m, e)
    PROVE  Keep(d, I) \in Seq(Rec) /\ Len(Keep(d, I)) = e - m /\ Follow(x, Keep(d, I), m)
<1>1. PICK k \in Nat :
        /\ Len(d) = k + (e - f) /\ f <= e
        /\ \A i \in 1 .. k : d[i].epoch <= f
        /\ \A i \in 1 .. e - f : CommitsIn(x, d[k + i]) /\ d[k + i].epoch = f + i
  BY DEF Suffixed
<1>2. PICK a, b \in Nat : a = k + (m - f) /\ b = k + (e - f) /\ a <= b /\ b = Len(d) /\ b - a = e - m
  <2>1. k + (m - f) \in Nat /\ k + (e - f) \in Nat
    OBVIOUS
  <2> QED BY <1>1, <2>1
<1>3. Between(I, d, a, b)
  <2>1. ASSUME NEW i \in 1 .. Len(d) PROVE i \in I <=> i \in a + 1 .. b
    <3>1. d[i].epoch \in Nat
      BY RecsAre
    <3>2. CASE i \in 1 .. k
      <4>1. d[i].epoch <= f /\ ~(m < d[i].epoch) /\ ~(i \in a + 1 .. b)
        BY <1>1, <1>2, <3>1, <3>2
      <4> QED BY <4>1 DEF Later
    <3>3. CASE i \notin 1 .. k
      <4>1. PICK j \in 1 .. e - f : i = k + j
        <5>1. i - k \in 1 .. e - f /\ i = k + (i - k)
          BY <1>1, <3>3
        <5> QED BY <5>1
      <4>2. d[i].epoch = f + j
        BY <1>1, <4>1
      <4>3. i \in a + 1 .. b <=> m < f + j /\ f + j <= e
        BY <1>2, <4>1
      <4> QED BY <4>2, <4>3 DEF Later
    <3> QED BY <3>2, <3>3
  <2>2. a <= b /\ b <= Len(d)
    BY <1>2
  <2> QED BY <2>1, <2>2 DEF Between
<1>4. /\ Keep(d, I) \in Seq(Rec) /\ Len(Keep(d, I)) = b - a
      /\ \A i \in 1 .. b - a : Keep(d, I)[i] = d[a + i]
  BY <1>3, KeepInterval
<1>5. PICK t \in Seq(Rec) : t = Keep(d, I)
  BY <1>4
<1>6. ASSUME NEW i \in 1 .. Len(t) PROVE CommitsIn(x, t[i]) /\ t[i].epoch = m + i
  <2>1. i \in 1 .. b - a /\ t[i] = d[a + i]
    BY <1>4, <1>5, <1>6
  <2>2. PICK j \in 1 .. e - f : a + i = k + j /\ f + j = m + i
    <3>1. m - f + i \in 1 .. e - f /\ a + i = k + (m - f + i) /\ f + (m - f + i) = m + i
      BY <1>2, <2>1
    <3> QED BY <3>1
  <2> QED BY <1>1, <2>1, <2>2
<1> QED BY <1>2, <1>4, <1>5, <1>6 DEF Follow

\* A run goes on with the commits that follow.
LEMMA RunGrows ==
    ASSUME NEW x, NEW r \in Seq(Rec), NEW f \in Nat, NEW m \in Nat, RunTo(x, r, f, m),
           NEW t \in Seq(Rec), Follow(x, t, m)
    PROVE  r \o t \in Seq(Rec) /\ RunTo(x, r \o t, f, m + Len(t))
<1>1. PICK u \in Seq(Rec), a, b \in Nat : u = r \o t /\ a = Len(r) /\ b = Len(t)
  BY RecsAre, ConcatProperties
<1>2. /\ Len(u) = a + b /\ \A i \in 1 .. a : u[i] = r[i]
      /\ \A i \in a + 1 .. a + b : u[i] = t[i - a]
  BY <1>1, ConcatProperties
<1>3. /\ a >= 1 /\ r[1].kind = "checkpoint" /\ r[1].epoch = f
      /\ \A i \in 1 .. a - 1 : CommitsIn(x, r[1 + i]) /\ r[1 + i].epoch = f + i
  BY <1>1 DEF RunOf, RunTo
<1>4. m = f + (a - 1)
  BY <1>1 DEF RunTo
<1>5. ASSUME NEW i \in 1 .. Len(u) - 1 PROVE CommitsIn(x, u[1 + i]) /\ u[1 + i].epoch = f + i
  <2>1. i \in 1 .. a + b - 1
    BY <1>2
  <2>2. CASE i <= a - 1
    <3>1. i \in 1 .. a - 1 /\ 1 + i \in 1 .. a
      BY <2>1, <2>2
    <3> QED BY <1>2, <1>3, <3>1
  <2>3. CASE ~(i <= a - 1)
    <3>1. PICK j \in 1 .. b : 1 + i = a + j /\ f + i = m + j
      <4>1. 1 + i - a \in 1 .. b /\ 1 + i = a + (1 + i - a) /\ f + i = m + (1 + i - a)
        BY <1>3, <1>4, <2>1, <2>3
      <4> QED BY <4>1
    <3>2. a + j \in a + 1 .. a + b /\ (a + j) - a = j
      OBVIOUS
    <3>3. u[1 + i] = t[j]
      BY <1>2, <3>1, <3>2
    <3>4. CommitsIn(x, t[j]) /\ t[j].epoch = m + j
      BY <1>1 DEF Follow
    <3> QED BY <3>1, <3>3, <3>4
  <2> QED BY <2>2, <2>3
<1>6. u[1] = r[1] /\ 1 <= Len(u) /\ m + b = f + (Len(u) - 1)
  <2>1. 1 \in 1 .. a /\ 1 <= a + b
    BY <1>3
  <2>2. m + b = f + ((a + b) - 1)
    BY <1>4
  <2>3. u[1] = r[1]
    BY <1>2, <2>1
  <2>4. Len(u) = a + b
    BY <1>2
  <2> QED BY <2>1, <2>2, <2>3, <2>4
<1>7. RunOf(x, u, 1, f)
  <2>1. 1 <= Len(u) /\ u[1].kind = "checkpoint" /\ u[1].epoch = f
    BY <1>3, <1>6
  <2>2. \A i \in 1 .. Len(u) - 1 : CommitsIn(x, u[1 + i]) /\ u[1 + i].epoch = f + i
    BY <1>5
  <2> QED BY <2>1, <2>2 DEF RunOf
<1>8. RunTo(x, u, f, m + b)
  BY <1>6, <1>7 DEF RunTo
<1> QED BY <1>1, <1>8, Zenon

\* A pass of the copy: the header if it is still buffered, then the suffix.
LEMMA PassCopies ==
    ASSUME NEW x, NEW r \in Seq(Rec), NEW h \in BOOLEAN, NEW f \in Nat, NEW m \in Nat, NEW e \in Nat,
           f <= m, m <= e, Copied(x, r, h, f, m), NEW d \in Seq(Rec), Suffixed(x, d, e, f),
           NEW I, Later(I, d, m, e)
    PROVE  LET g == r \o (IF h THEN <<>> ELSE <<Checkpoint(f)>>)
           IN  g \o Keep(d, I) \in Seq(Rec) /\ Copied(x, g \o Keep(d, I), TRUE, f, e)
<1>1. PICK g : g = r \o (IF h THEN <<>> ELSE <<Checkpoint(f)>>)
  OBVIOUS
<1>2. g \in Seq(Rec) /\ RunTo(x, g, f, m)
  <2>1. CASE h
    <3>1. g = r
      BY <1>1, <2>1, ConcatEmptySeq
    <3> QED BY <2>1, <3>1 DEF Copied
  <2>2. CASE ~h
    <3>1. PICK c : c = Checkpoint(f)
      OBVIOUS
    <3>2. c \in Rec /\ c.kind = "checkpoint" /\ c.epoch = f
      BY <3>1, TxIsRec DEF Checkpoint
    <3>3. r = <<>> /\ m = f
      BY <2>2 DEF Copied
    <3>4. PICK s \in Seq(Rec) : s = <<c>> /\ Len(s) = 1 /\ s[1] = c
      BY <3>2, OneRecord
    <3>5. g = s
      BY <1>1, <2>2, <3>1, <3>3, <3>4, ConcatEmptySeq
    <3>6. \A i \in 1 .. Len(s) - 1 : FALSE
      BY <3>4
    <3>7. RunOf(x, s, 1, f) /\ m = f + (Len(s) - 1)
      BY <3>2, <3>3, <3>4, <3>6 DEF RunOf
    <3> QED BY <3>4, <3>5, <3>7 DEF RunTo
  <2> QED BY <2>1, <2>2
<1>3. PICK t \in Seq(Rec) : t = Keep(d, I) /\ Len(t) = e - m /\ Follow(x, t, m)
  BY SuffixPart
<1>4. g \o t \in Seq(Rec) /\ RunTo(x, g \o t, f, m + Len(t))
  BY <1>2, <1>3, RunGrows
<1>5. m + Len(t) = e
  BY <1>3
<1>6. Copied(x, g \o t, TRUE, f, e)
  BY <1>4, <1>5 DEF Copied
<1> QED BY <1>1, <1>3, <1>4, <1>6

-----------------------------------------------------------------------------
(* The invariant of a store whose processes only get killed.               *)

\* The live log survives up to what the handle has recorded.
Kept == IF mem.up /\ dir.wal = mem.wal THEN mem.written ELSE Len(Live)
DiskInv ==
    \E e, f \in Nat :
        /\ OnDisk(hist, Live, Kept, Base, acked, e, f)
        /\ mem.up => e = mem.epoch
        /\ merge.phase \in Merging => f = merge.f

\* The handle appends to the live log, but for a moment of the rotation.
UpInv ==
    mem.up => /\ ~mem.poisoned
              /\ merge.phase # "renamed" => dir.wal = mem.wal
              /\ merge.phase = "renamed" => dir.wal = stage

Copies(x, phase, d, e, f, header, m, r, built, data) ==
    /\ phase \in Merging => Suffixed(x, d, e, f)
    /\ phase \in {"started", "building"} => ~header /\ m = f
    /\ phase \in Staging => built = data /\ Copied(x, r, header, f, m)
    /\ phase \in Staging \ {"shadow"} => header /\ m = e

StageInv == Copies(hist, merge.phase, mem.delta, mem.epoch, merge.f, merge.header, merge.mark,
                   StageRecs, dir.base[new_gen], merge.data)

KillInv == Datasets(hist) /\ DiskInv /\ UpInv /\ StageInv

LEMMA DiskNext ==
    ASSUME NEW x, NEW w, NEW n, NEW B, NEW a, NEW e \in Nat, NEW f \in Nat,
           OnDisk(x, w, n, B, a, e, f),
           hist' = x, Live' = w, Kept' = n, Base' = B, acked' = a,
           mem'.up => mem'.epoch = e, merge'.phase \in Merging => merge'.f = f
    PROVE  DiskInv'
<1>1. Merging' = Merging
  BY DEF Merging
<1>2. \E d, g \in Nat :
        /\ OnDisk(hist', Live', Kept', Base', acked', d, g)
        /\ mem'.up => d = mem'.epoch
        /\ merge'.phase \in Merging' => g = merge'.f
  BY <1>1
<1> QED BY <1>2, Zenon DEF DiskInv, OnDisk, RunOf, CommitsIn

LEMMA StageNext ==
    ASSUME NEW x, NEW phase, NEW d, NEW e, NEW f, NEW h, NEW m, NEW r, NEW b, NEW D,
           Copies(x, phase, d, e, f, h, m, r, b, D), merge'.phase = phase,
           phase \in Merging => /\ hist' = x /\ mem'.delta = d /\ mem'.epoch = e /\ merge'.f = f
                                /\ merge'.header = h /\ merge'.mark = m,
           phase \in Staging => StageRecs' = r /\ dir'.base[new_gen'] = b /\ merge'.data = D
    PROVE  StageInv'
<1>1. Merging' = Merging /\ Staging' = Staging /\ Staging \subseteq Merging
      /\ {"started", "building"} \subseteq Merging
  BY DEF Merging, Staging
<1>2. merge'.phase \in Merging => Suffixed(hist', mem'.delta, mem'.epoch, merge'.f)
  BY <1>1 DEF Copies
<1>3. merge'.phase \in {"started", "building"} => ~merge'.header /\ merge'.mark = merge'.f
  BY <1>1 DEF Copies
<1>4. merge'.phase \in Staging =>
          /\ dir'.base[new_gen'] = merge'.data
          /\ Copied(hist', StageRecs', merge'.header, merge'.f, merge'.mark)
  BY <1>1 DEF Copies
<1>5. merge'.phase \in Staging \ {"shadow"} => merge'.header /\ merge'.mark = mem'.epoch
  BY <1>1 DEF Copies
<1> QED BY <1>1, <1>2, <1>3, <1>4, <1>5
        DEF StageInv, Copies, Suffixed, Copied, RunTo, RunOf, CommitsIn

LEMMA StageNone ==
    ASSUME merge'.phase \notin Merging
    PROVE  StageInv'
<1>1. PICK phase : phase = merge'.phase
  OBVIOUS
<1>2. Staging \subseteq Merging /\ {"started", "building"} \subseteq Merging
  BY DEF Merging, Staging
<1>3. Copies(1, phase, 1, 1, 1, 1, 1, 1, 1, 1)
  BY <1>1, <1>2 DEF Copies
<1> QED BY <1>1, <1>2, <1>3, StageNext

LEMMA UpNext ==
    ASSUME mem'.up => /\ ~mem'.poisoned
                      /\ merge'.phase # "renamed" => dir'.wal = mem'.wal
                      /\ merge'.phase = "renamed" => dir'.wal = 1 - mem'.wal
    PROVE  UpInv'
BY DEF UpInv, stage

LEMMA DatasetsNext ==
    ASSUME NEW x, Datasets(x), hist' = x, env' = env
    PROVE  Datasets(hist)'
<1>1. Quads' = Quads
  BY SameTypes
<1> QED BY <1>1 DEF Datasets

LEMMA CopiesAgree ==
    ASSUME NEW x, NEW y, NEW e \in Nat, Agree(x, y, e), NEW phase, NEW d \in Seq(Rec), NEW f \in Nat,
           NEW h, NEW m \in Nat, NEW r \in Seq(Rec), NEW b, NEW D, phase \in Merging => m <= e,
           Copies(x, phase, d, e, f, h, m, r, b, D)
    PROVE  Copies(y, phase, d, e, f, h, m, r, b, D)
<1>1. ASSUME phase \in Merging PROVE Suffixed(y, d, e, f)
  BY <1>1, SuffixAgrees DEF Copies
<1>2. ASSUME phase \in Staging PROVE Copied(y, r, h, f, m)
  <2>1. m <= e
    BY <1>2 DEF Staging, Merging
  <2>2. Agree(x, y, m)
    BY <2>1 DEF Agree
  <2>3. Copied(x, r, h, f, m)
    BY <1>2 DEF Copies
  <2> QED BY <2>2, <2>3, CopyAgrees
<1> QED BY <1>1, <1>2 DEF Copies

LEMMA SuffixGrows ==
    ASSUME NEW x, NEW d \in Seq(Rec), NEW e \in Nat, NEW f \in Nat, Suffixed(x, d, e, f),
           NEW t \in Seq(Rec), Follow(x, t, e)
    PROVE  Suffixed(x, d \o t, e + Len(t), f)
<1>1. PICK k \in Nat :
        /\ Len(d) = k + (e - f) /\ f <= e
        /\ \A i \in 1 .. k : d[i].epoch <= f
        /\ \A i \in 1 .. e - f : CommitsIn(x, d[k + i]) /\ d[k + i].epoch = f + i
  BY DEF Suffixed
<1>2. PICK u \in Seq(Rec), a, b \in Nat : u = d \o t /\ a = Len(d) /\ b = Len(t)
  BY RecsAre, ConcatProperties
<1>3. /\ Len(u) = a + b /\ \A i \in 1 .. a : u[i] = d[i]
      /\ \A i \in a + 1 .. a + b : u[i] = t[i - a]
  BY <1>2, ConcatProperties
<1>4. a = k + (e - f)
  BY <1>1, <1>2
<1>v. PICK v \in Nat : v = e + b
  OBVIOUS
<1>5. ASSUME NEW i \in 1 .. k PROVE u[i].epoch <= f
  <2>1. i \in 1 .. a
    BY <1>1, <1>4
  <2> QED BY <1>1, <1>3, <2>1
<1>6. ASSUME NEW i \in 1 .. v - f PROVE CommitsIn(x, u[k + i]) /\ u[k + i].epoch = f + i
  <2>1. CASE i <= e - f
    <3>1. i \in 1 .. e - f /\ k + i \in 1 .. a
      BY <1>1, <1>4, <2>1
    <3> QED BY <1>1, <1>3, <3>1
  <2>2. CASE ~(i <= e - f)
    <3>1. PICK j \in 1 .. b : k + i = a + j /\ f + i = e + j
      <4>1. k + i - a \in 1 .. b /\ k + i = a + (k + i - a) /\ f + i = e + (k + i - a)
        BY <1>1, <1>4, <1>v, <2>2
      <4> QED BY <4>1
    <3>2. a + j \in a + 1 .. a + b /\ (a + j) - a = j
      OBVIOUS
    <3>3. u[k + i] = t[j]
      BY <1>3, <3>1, <3>2
    <3>4. CommitsIn(x, t[j]) /\ t[j].epoch = e + j
      BY <1>2 DEF Follow
    <3> QED BY <3>1, <3>3, <3>4
  <2> QED BY <2>1, <2>2
<1>7. Len(u) = k + (v - f) /\ f <= v
  <2>1. a + b = k + (v - f) /\ f <= v
    BY <1>1, <1>4, <1>v
  <2>2. Len(u) = a + b
    BY <1>3
  <2> QED BY <2>1, <2>2
<1>8. Suffixed(x, u, v, f)
  <2>1. k \in Nat
    OBVIOUS
  <2>2. \A i \in 1 .. k : u[i].epoch <= f
    BY <1>5
  <2>3. \A i \in 1 .. v - f : CommitsIn(x, u[k + i]) /\ u[k + i].epoch = f + i
    BY <1>6
  <2> QED BY ONLY <1>7, <2>1, <2>2, <2>3 DEF Suffixed
<1> QED BY <1>2, <1>v, <1>8, Zenon

\* The parts of the invariant while a handle is open.
HandleIs(e, p, n, f, w) ==
    /\ e = mem.epoch /\ n = mem.written /\ w = Written
    /\ Len(w) = n + p /\ Len(hist) = e + 1 + p
    /\ \A i \in 1 .. p : CommitsIn(hist, w[n + i]) /\ w[n + i].epoch = e + i
    /\ OnDisk(hist, Live, Kept, Base, acked, e, f)
    /\ merge.phase \in Merging => f = merge.f
    /\ merge.phase # "renamed" => dir.wal = mem.wal /\ Live = w /\ Kept = n
    /\ merge.phase = "renamed" => dir.wal = stage /\ Live = StageRecs /\ Kept = Len(Live)

LEMMA Handle ==
    ASSUME TypeInv, ReadInv, KillInv, mem.up
    PROVE  \E e, p, n, f \in Nat : \E w \in Seq(Rec) : HandleIs(e, p, n, f, w)
<1>1. PICK e, p, n, l, h \in Nat :
         /\ mem.epoch = e /\ Pending = p /\ mem.written = n /\ Len(Written) = l /\ Len(hist) = h
         /\ l = n + p /\ h = e + 1 + p
  BY FlightIs
<1>2. PICK w \in Seq(Rec) : w = Written
  BY Parts
<1>3. \A i \in 1 .. p : CommitsIn(hist, w[n + i]) /\ w[n + i].epoch = e + i
  BY <1>1, <1>2 DEF ReadInv, Commits, CommitsIn
<1>4. PICK f \in Nat : /\ OnDisk(hist, Live, Kept, Base, acked, e, f)
                       /\ merge.phase \in Merging => f = merge.f
  BY <1>1 DEF KillInv, DiskInv
<1>5. merge.phase # "renamed" => dir.wal = mem.wal /\ Live = w /\ Kept = n
  BY <1>1, <1>2 DEF KillInv, UpInv, Live, Written, Kept
<1>6. merge.phase = "renamed" => dir.wal = stage /\ Live = StageRecs /\ Kept = Len(Live)
  BY Parts DEF KillInv, UpInv, Live, StageRecs, Kept
<1>7. HandleIs(e, p, n, f, w)
  BY <1>1, <1>2, <1>3, <1>4, <1>5, <1>6 DEF HandleIs
<1> QED BY <1>7

LEMMA AgreeLess ==
    ASSUME NEW x, NEW y, NEW m \in Nat, Agree(x, y, m), NEW e \in Nat, e <= m
    PROVE  Agree(x, y, e)
BY DEF Agree

LEMMA KillNext ==
    ASSUME NEW x, Datasets(x), hist' = x, env' = env, DiskInv', UpInv', StageInv'
    PROVE  KillInv'
BY DatasetsNext DEF KillInv

\* What the steps of a commit group leave alone.
LEMMA GroupFrame ==
    ASSUME TypeInv, ReadInv, KillInv, mem.up, merge.phase # "renamed", dirs' = dirs, merge' = merge,
           mem'.up = mem.up, mem'.wal = mem.wal, mem'.gen = mem.gen, mem'.poisoned = mem.poisoned,
           NEW l, logs' = [logs EXCEPT ![mem.wal] = l]
    PROVE  /\ Base' = Base /\ Live' = l.recs /\ Kept' = mem'.written /\ UpInv'
           /\ StageRecs' = StageRecs /\ dir' = dir /\ new_gen' = new_gen
           /\ dir'.base[new_gen'] = dir.base[new_gen]
<1>1. dir' = dir /\ new_gen' = new_gen /\ stage' = stage
  BY DEF dir, new_gen, stage
<1>2. dir.wal = mem.wal /\ ~mem.poisoned
  BY DEF KillInv, UpInv
<1>3. mem.wal \in {0, 1} /\ stage \in {0, 1} /\ stage # mem.wal
  BY Parts
<1>4. logs'[mem.wal] = l /\ logs'[stage] = logs[stage]
  BY <1>3 DEF TypeInv
<1>5. UpInv'
  BY <1>1, <1>2, UpNext
<1>6. Base' = Base
  BY <1>1 DEF Base
<1>7. Live' = l.recs /\ StageRecs' = StageRecs
  BY <1>1, <1>2, <1>4 DEF Live, StageRecs
<1>8. Kept' = mem'.written
  BY <1>1, <1>2 DEF Kept
<1> QED BY <1>1, <1>5, <1>6, <1>7, <1>8

\* The merge's locals are those of before, over a history that agrees.
LEMMA StageSame ==
    ASSUME TypeInv, ReadInv, KillInv, mem.up, NEW y, Agree(hist, y, mem.epoch), hist' = y,
           mem'.delta = mem.delta, mem'.epoch = mem.epoch, merge' = merge,
           StageRecs' = StageRecs, dir'.base[new_gen'] = dir.base[new_gen]
    PROVE  StageInv'
<1>1. PICK x, phase, e, f, h, m, b, D :
         /\ x = hist /\ phase = merge.phase /\ e = mem.epoch /\ f = merge.f /\ h = merge.header
         /\ m = merge.mark /\ b = dir.base[new_gen] /\ D = merge.data
  OBVIOUS
<1>2. PICK d \in Seq(Rec), r \in Seq(Rec) : d = mem.delta /\ r = StageRecs
  BY Parts DEF StageRecs, Log
<1>3. e \in Nat /\ f \in Nat /\ m \in Nat
  BY <1>1, Parts
<1>4. phase \in Merging => m <= e
  BY <1>1 DEF ReadInv, Frozen
<1>5. Copies(x, phase, d, e, f, h, m, r, b, D)
  BY <1>1, <1>2 DEF KillInv, StageInv
<1>6. Copies(y, phase, d, e, f, h, m, r, b, D)
  BY <1>1, <1>3, <1>4, <1>5, CopiesAgree
<1> QED BY <1>1, <1>2, <1>6, StageNext

LEMMA KillWrite ==
    ASSUME TypeInv, ReadInv, KillInv, env' = env,
           NEW dels \in SUBSET Quads, NEW adds \in SUBSET Quads, WriteTx(dels, adds)
    PROVE  KillInv'
<1> USE Parts
<1>1. /\ mem.up /\ merge.phase # "renamed" /\ dels \cup adds # {}
      /\ UNCHANGED <<dirs, mem, merge, acked, crashes>>
      /\ logs' = [logs EXCEPT ![mem.wal].recs = Append(@, Tx(Len(hist), dels, adds))]
      /\ hist' = Append(hist, (hist[Len(hist)] \ dels) \cup adds)
  BY DEF WriteTx, CanCommit
<1>2. PICK e, p, n, f \in Nat, w \in Seq(Rec) : HandleIs(e, p, n, f, w)
  BY <1>1, Handle
<1>3. /\ e = mem.epoch /\ n = mem.written /\ w = Written
      /\ Len(w) = n + p /\ Len(hist) = e + 1 + p
      /\ merge.phase \in Merging => f = merge.f
      /\ OnDisk(hist, w, n, Base, acked, e, f)
  BY <1>1, <1>2 DEF HandleIs
<1>4. PICK x, y, after : /\ x = hist /\ after = (x[Len(x)] \ dels) \cup adds
                         /\ y = Append(x, after) /\ hist' = y /\ Datasets(x)
  BY <1>1 DEF KillInv
<1>5. /\ Len(y) = Len(x) + 1 /\ Len(x) = e + 1 + p /\ y[Len(x) + 1] = after
      /\ \A i \in 1 .. Len(x) : y[i] = x[i]
  <2>1. IsSeq(x)
    BY <1>4 DEF TypeInv
  <2>2. /\ Len(Append(x, after)) = Len(x) + 1 /\ Append(x, after)[Len(x) + 1] = after
        /\ \A i \in 1 .. Len(x) : Append(x, after)[i] = x[i]
    <3> HIDE Parts
    <3> QED BY ONLY <2>1, AppendIsSeq
  <2> QED BY <1>3, <1>4, <2>2
<1>6. Agree(x, y, e + p)
  <2>1. PICK m \in Nat : m = e + p
    OBVIOUS
  <2>2. Len(x) = m + 1 /\ Len(y) = m + 2
    BY <1>5, <2>1
  <2> QED BY <1>5, <2>1, <2>2 DEF Agree
<1>7. after \in SUBSET Quads /\ Datasets(y)
  <2>1. Len(x) \in 1 .. Len(x)
    BY <1>5
  <2>2. after \in SUBSET Quads
    BY <1>4, <2>1 DEF Datasets
  <2>3. \A i \in 1 .. Len(y) : i \in 1 .. Len(x) \/ i = Len(x) + 1
    BY <1>5
  <2>4. \A i \in 1 .. Len(y) : y[i] \in SUBSET Quads
    BY <1>4, <1>5, <2>2, <2>3 DEF Datasets
  <2> QED BY <1>5, <2>2, <2>4 DEF Datasets
<1>8. PICK t \in Rec : t = Tx(Len(x), dels, adds)
  BY <1>5, TxIsRec
<1>9. CommitsIn(y, t) /\ t.epoch = Len(x)
  <2>1. t.kind = "tx" /\ t.epoch = Len(x) /\ t.dels = dels /\ t.adds = adds
    BY <1>8 DEF Tx
  <2>2. Len(x) \in 1 .. Len(y) - 1 /\ Len(x) \in 1 .. Len(x)
    BY <1>5
  <2>3. y[Len(x)] = x[Len(x)]
    BY <1>5, <2>2
  <2>4. dels \cup adds # {} /\ y[Len(x) + 1] = (y[Len(x)] \ dels) \cup adds
    BY <1>1, <1>4, <1>5, <2>3
  <2>5. PICK k : k = t.epoch /\ k = Len(x)
    BY <2>1
  <2> QED BY <2>1, <2>2, <2>4, <2>5 DEF CommitsIn
<1>10. PICK B, a : B = Base /\ a = acked
  OBVIOUS
<1>11. OnDisk(y, Append(w, t), n, B, a, e, f)
  <2>1. /\ Len(x) = e + 1 + p /\ Len(y) = Len(x) + 1 /\ Len(w) = n + p
        /\ OnDisk(x, w, n, B, a, e, f)
    BY <1>3, <1>4, <1>5, <1>10
  <2> QED BY <1>6, <1>9, <2>1, DiskGrows
<1>12. PICK l : /\ l = [logs[mem.wal] EXCEPT !.recs = Append(w, t)]
                /\ l.recs = Append(w, t) /\ logs' = [logs EXCEPT ![mem.wal] = l]
  <2>1. logs[mem.wal] \in Log /\ Append(w, t) \in Seq(Rec)
    BY AppendProperties
  <2>2. [logs[mem.wal] EXCEPT !.recs = Append(w, t)].recs = Append(w, t)
    BY <2>1, LogWith
  <2> QED BY <1>1, <1>3, <1>4, <1>8, <2>2 DEF Written
<1>13. /\ Base' = Base /\ Live' = l.recs /\ Kept' = mem'.written /\ UpInv'
       /\ StageRecs' = StageRecs /\ dir'.base[new_gen'] = dir.base[new_gen]
  BY <1>1, <1>12, GroupFrame
<1>14. DiskInv'
  <2>1. PICK u : u = Append(w, t)
    OBVIOUS
  <2>2. /\ hist' = y /\ Live' = u /\ Kept' = n /\ Base' = B /\ acked' = a
        /\ OnDisk(y, u, n, B, a, e, f)
        /\ mem'.up => mem'.epoch = e
        /\ merge'.phase \in Merging => merge'.f = f
    BY <1>1, <1>3, <1>4, <1>10, <1>11, <1>12, <1>13, <2>1
  <2> QED BY <2>2, DiskNext
<1>15. StageInv'
  <2>1. Agree(hist, y, mem.epoch)
    <3>1. Agree(x, y, e)
      <4>1. e <= e + p /\ e + p \in Nat
        OBVIOUS
      <4> QED BY <1>6, <4>1, AgreeLess
    <3> QED BY <1>3, <1>4, <3>1
  <2> QED BY <1>1, <1>4, <1>13, <2>1, StageSame
<1> QED BY <1>4, <1>7, <1>13, <1>14, <1>15, KillNext

LEMMA SubSeqOfLog ==
    ASSUME NEW w \in Seq(Rec), NEW n \in Nat, NEW p \in Nat, Len(w) = n + p
    PROVE  /\ SubSeq(w, n + 1, n + p) \in Seq(Rec) /\ Len(SubSeq(w, n + 1, n + p)) = p
           /\ \A i \in 1 .. p : SubSeq(w, n + 1, n + p)[i] = w[n + i]
<1>1. \A i \in n + 1 .. n + p : w[i] \in Rec
  BY RecsAre
<1>2. PICK a, b : a = n + 1 /\ b = n + p /\ a \in Int /\ b \in Int
  OBVIOUS
<1>3. /\ SubSeq(w, a, b) \in Seq(Rec)
      /\ Len(SubSeq(w, a, b)) = IF a <= b THEN b - a + 1 ELSE 0
      /\ \A i \in 1 .. b - a + 1 : SubSeq(w, a, b)[i] = w[a + i - 1]
  BY <1>1, <1>2, SubSeqProperties
<1>4. (IF a <= b THEN b - a + 1 ELSE 0) = p /\ b - a + 1 = p /\ \A i \in 1 .. p : a + i - 1 = n + i
  BY <1>2
<1> QED BY <1>2, <1>3, <1>4

LEMMA KillDone ==
    ASSUME TypeInv, ReadInv, KillInv, env' = env, NEW strict \in BOOLEAN, GroupDone(strict)
    PROVE  KillInv'
<1> USE Parts
<1>1. /\ mem.up /\ merge.phase \notin {"staged", "flipped", "pointed", "renamed"}
      /\ UNCHANGED <<dirs, merge, hist, crashes>>
      /\ mem' = [mem EXCEPT !.epoch = Len(hist) - 1, !.written = Len(Written),
                            !.delta = @ \o SubSeq(Written, mem.written + 1, Len(Written))]
      /\ logs' = [logs EXCEPT ![mem.wal].synced = IF strict THEN Len(Written) ELSE @]
      /\ acked' = IF strict THEN Len(hist) - 1 ELSE acked
  BY DEF GroupDone, CanCommit, Written
<1>2. PICK e, p, n, f \in Nat, w \in Seq(Rec) : HandleIs(e, p, n, f, w)
  BY <1>1, Handle
<1>3. /\ e = mem.epoch /\ n = mem.written /\ w = Written
      /\ Len(w) = n + p /\ Len(hist) = e + 1 + p
      /\ \A i \in 1 .. p : CommitsIn(hist, w[n + i]) /\ w[n + i].epoch = e + i
      /\ merge.phase \in Merging => f = merge.f
      /\ OnDisk(hist, w, n, Base, acked, e, f)
  BY <1>1, <1>2 DEF HandleIs
<1>4. PICK x, B, a : x = hist /\ B = Base /\ a = acked /\ Datasets(x)
  BY DEF KillInv
<1>5. PICK d \in Seq(Rec), t \in Seq(Rec) :
         /\ d = mem.delta /\ t = SubSeq(w, n + 1, n + p) /\ Len(t) = p /\ Follow(x, t, e)
  <2>1. PICK t \in Seq(Rec) : /\ t = SubSeq(w, n + 1, n + p) /\ Len(t) = p
                              /\ \A i \in 1 .. p : t[i] = w[n + i]
    <3>1. Len(w) = n + p
      BY <1>3
    <3>2. /\ SubSeq(w, n + 1, n + p) \in Seq(Rec) /\ Len(SubSeq(w, n + 1, n + p)) = p
          /\ \A i \in 1 .. p : SubSeq(w, n + 1, n + p)[i] = w[n + i]
      BY <3>1, SubSeqOfLog, Zenon
    <3> HIDE Parts
    <3> QED BY ONLY <3>2
  <2>2. Follow(x, t, e)
    BY <1>3, <1>4, <2>1 DEF Follow
  <2> QED BY <2>1, <2>2
<1>6. /\ mem'.epoch = e + p /\ mem'.written = n + p /\ mem'.delta = d \o t
      /\ mem'.up = mem.up /\ mem'.wal = mem.wal /\ mem'.gen = mem.gen /\ mem'.poisoned = mem.poisoned
  <2>1. Len(hist) - 1 = e + p /\ Len(Written) = n + p
    BY <1>3
  <2> QED BY <1>1, <1>3, <1>5, <2>1 DEF TypeInv, Mem
<1>7. PICK l : logs' = [logs EXCEPT ![mem.wal] = l] /\ l.recs = w
  <2>1. PICK c \in Nat : c = IF strict THEN Len(Written) ELSE logs[mem.wal].synced
    BY DEF Log
  <2>2. PICK l \in Log : l = [logs[mem.wal] EXCEPT !.synced = c] /\ l.recs = Written
    <3>1. logs[mem.wal] \in Log
      OBVIOUS
    <3> QED BY <3>1, LogWith DEF Written
  <2> QED BY <1>1, <1>3, <2>1, <2>2
<1>8. /\ Base' = Base /\ Live' = w /\ Kept' = n + p /\ UpInv'
      /\ StageRecs' = StageRecs /\ dir'.base[new_gen'] = dir.base[new_gen]
  BY <1>1, <1>6, <1>7, GroupFrame
<1>9. PICK g \in Nat : g = acked' /\ g <= e + p
  <2>1. CASE strict
    <3>1. acked' = e + p
      <4>1. Len(hist) - 1 = e + p
        BY <1>3
      <4> QED BY <1>1, <2>1, <4>1
    <3> QED BY <3>1
  <2>2. CASE ~strict
    <3>1. acked \in Nat /\ acked' = acked
      BY <1>1, <2>2 DEF TypeInv
    <3>2. acked <= e
      BY <1>3, DiskIs
    <3> QED BY <3>1, <3>2
  <2> QED BY <2>1, <2>2
<1>10. DiskInv'
  <2>1. PICK m, h : m = n + p /\ h = e + p /\ h \in Nat
    <3>1. e + p \in Nat
      OBVIOUS
    <3> QED BY <3>1
  <2>2. OnDisk(x, w, n, B, a, e, f) /\ Len(x) = e + 1 + p /\ Len(w) = n + p
    BY <1>3, <1>4
  <2>3. OnDisk(x, w, n + p, B, g, e + p, f)
    BY <1>9, <2>2, DiskDone
  <2>4. /\ hist' = x /\ Live' = w /\ Kept' = m /\ Base' = B /\ acked' = g
        /\ OnDisk(x, w, m, B, g, h, f)
        /\ mem'.up => mem'.epoch = h
        /\ merge'.phase \in Merging => merge'.f = f
    BY <1>1, <1>3, <1>4, <1>6, <1>8, <1>9, <2>1, <2>3
  <2> QED BY <2>1, <2>4, DiskNext
<1>11. StageInv'
  <2>1. PICK phase, h, m, b, D, r :
         /\ phase = merge.phase /\ h = merge.header
         /\ m = merge.mark /\ b = dir.base[new_gen] /\ D = merge.data /\ r = StageRecs
    OBVIOUS
  <2>2. PICK u, k : u = d \o t /\ k = e + p
    OBVIOUS
  <2>3. phase \in Merging => f = merge.f
    BY <1>3, <2>1
  <2>4. phase \in Merging => Copies(x, phase, d, e, f, h, m, r, b, D)
    BY <1>3, <1>4, <1>5, <2>1, <2>3 DEF KillInv, StageInv
  <2>5. phase \in Merging => Suffixed(x, u, k, f)
    <3>1. ASSUME phase \in Merging PROVE Suffixed(x, d, e, f)
      BY <2>4, <3>1 DEF Copies
    <3>2. ASSUME phase \in Merging PROVE Suffixed(x, d \o t, e + Len(t), f)
      BY <1>5, <3>1, <3>2, SuffixGrows
    <3> QED BY <1>5, <2>2, <3>2
  <2>6. phase \notin Staging \ {"shadow"}
    BY <1>1, <2>1 DEF Staging
  <2>7. Staging \subseteq Merging /\ {"started", "building"} \subseteq Merging
    BY DEF Staging, Merging
  <2>8. Copies(x, phase, u, k, f, h, m, r, b, D)
    BY <2>4, <2>5, <2>6, <2>7 DEF Copies
  <2>9. /\ merge'.phase = phase
        /\ phase \in Merging => /\ hist' = x /\ mem'.delta = u /\ mem'.epoch = k /\ merge'.f = f
                                /\ merge'.header = h /\ merge'.mark = m
        /\ phase \in Staging => StageRecs' = r /\ dir'.base[new_gen'] = b /\ merge'.data = D
    BY <1>1, <1>4, <1>6, <1>8, <2>1, <2>2, <2>3
  <2> QED BY <2>8, <2>9, StageNext
<1>12. hist' = x
  BY <1>1, <1>4
<1> QED BY <1>4, <1>8, <1>10, <1>11, <1>12, KillNext

LEMMA HistoryCut ==
    ASSUME TypeInv, NEW x, Datasets(x), NEW e \in Nat, e < Len(x)
    PROVE  /\ Agree(x, Prefix(x, e + 1), e) /\ Len(Prefix(x, e + 1)) = e + 1
           /\ Datasets(Prefix(x, e + 1))
<1>n. PICK n \in Nat : n = e + 1
  OBVIOUS
<1>y. PICK y : y = Prefix(x, n)
  OBVIOUS
<1>1. n = e + 1 /\ y = Prefix(x, n)
  BY <1>n, <1>y
<1>2. Len(y) = n /\ \A i \in 1 .. n : y[i] = x[i]
  BY <1>1, SubSeqIsSeq
<1>3. Len(x) \in Nat /\ n <= Len(x) /\ \A i \in 1 .. n : i \in 1 .. Len(x)
  BY <1>1 DEF Datasets
<1>4. Agree(x, y, e)
  BY <1>1, <1>2, <1>3 DEF Agree
<1>5. Datasets(y)
  BY <1>2, <1>3 DEF Datasets
<1> QED BY <1>1, <1>2, <1>4, <1>5

LEMMA PrefixIsAll ==
    ASSUME NEW w \in Seq(Rec), NEW n \in Nat, NEW u \in Seq(Rec), Len(u) = n,
           \A i \in 1 .. n : u[i] = w[i], NEW x, NEW B, NEW a, NEW e \in Nat, NEW f,
           OnDisk(x, w, n, B, a, e, f)
    PROVE  OnDisk(x, u, n, B, a, e, f)
<1>1. PICK c, s, b \in Nat :
        /\ RunOf(x, w, c, s) /\ c <= n /\ n <= Len(w) /\ e = s + (n - c) /\ e < Len(x)
        /\ B = x[b + 1] /\ s <= b /\ b <= e /\ a <= e /\ s <= f
  BY DiskIs
<1>2. c \in {0, 1} /\ (c = 0 => s = 0) /\ Len(w) \in Nat
  BY <1>1, RecsAre DEF RunOf
<1>3. ASSUME c = 1 PROVE u[1].kind = "checkpoint" /\ u[1].epoch = s
  <2>1. 1 \in 1 .. n
    BY <1>1, <1>3
  <2> QED BY <1>1, <1>3, <2>1 DEF RunOf
<1>4. ASSUME NEW i \in 1 .. n - c PROVE CommitsIn(x, u[c + i]) /\ u[c + i].epoch = s + i
  <2>1. c + i \in 1 .. n /\ i \in 1 .. Len(w) - c
    BY <1>1, <1>2
  <2>2. CommitsIn(x, w[c + i]) /\ w[c + i].epoch = s + i
    BY <1>1, <2>1 DEF RunOf
  <2> QED BY <2>1, <2>2
<1>5. RunOf(x, u, c, s)
  BY <1>1, <1>2, <1>3, <1>4 DEF RunOf
<1> QED BY <1>1, <1>5 DEF OnDisk

LEMMA KillFails ==
    ASSUME TypeInv, ReadInv, KillInv, env' = env, GroupFails
    PROVE  KillInv'
<1> USE Parts
<1>1. /\ mem.up /\ merge.phase # "renamed"
      /\ UNCHANGED <<dirs, mem, merge, acked, crashes>>
      /\ logs' = [logs EXCEPT ![mem.wal].recs = Prefix(@, mem.written)]
      /\ hist' = Prefix(hist, mem.epoch + 1)
  BY DEF GroupFails, CanCommit
<1>2. PICK e, p, n, f \in Nat, w \in Seq(Rec) : HandleIs(e, p, n, f, w)
  BY <1>1, Handle
<1>3. /\ e = mem.epoch /\ n = mem.written /\ w = Written
      /\ Len(w) = n + p /\ Len(hist) = e + 1 + p
      /\ merge.phase \in Merging => f = merge.f
      /\ OnDisk(hist, w, n, Base, acked, e, f)
  BY <1>1, <1>2 DEF HandleIs
<1>4. PICK x, B, a : x = hist /\ B = Base /\ a = acked /\ Datasets(x)
  BY DEF KillInv
<1>5. PICK y : y = Prefix(x, e + 1) /\ hist' = y
  BY <1>1, <1>3, <1>4
<1>6. Agree(x, y, e) /\ Datasets(y)
  <2>1. e < Len(x)
    BY <1>3, <1>4
  <2> QED BY <1>4, <1>5, <2>1, HistoryCut
<1>7. PICK u \in Seq(Rec) : u = Prefix(w, n) /\ Len(u) = n /\ \A i \in 1 .. n : u[i] = w[i]
  <2>1. n <= Len(w)
    BY <1>3
  <2> QED BY <2>1, PrefixOfLog
<1>8. PICK l : logs' = [logs EXCEPT ![mem.wal] = l] /\ l.recs = u
  <2>1. logs[mem.wal] \in Log
    OBVIOUS
  <2>2. PICK l \in Log : l = [logs[mem.wal] EXCEPT !.recs = u] /\ l.recs = u
    BY <2>1, LogWith
  <2> QED BY <1>1, <1>3, <1>7, <2>2 DEF Written
<1>9. /\ Base' = Base /\ Live' = u /\ Kept' = n /\ UpInv'
      /\ StageRecs' = StageRecs /\ dir'.base[new_gen'] = dir.base[new_gen]
  BY <1>1, <1>3, <1>8, GroupFrame
<1>10. DiskInv'
  <2>1. OnDisk(x, u, Len(u), B, a, e, f)
    <3>1. OnDisk(x, w, n, B, a, e, f)
      BY <1>3, <1>4
    <3>2. OnDisk(x, u, n, B, a, e, f)
      BY <1>7, <3>1, PrefixIsAll
    <3> QED BY <1>7, <3>2
  <2>2. OnDisk(y, u, Len(u), B, a, e, f)
    BY <1>6, <2>1, DiskAgrees
  <2>3. /\ hist' = y /\ Live' = u /\ Kept' = n /\ Base' = B /\ acked' = a
        /\ OnDisk(y, u, n, B, a, e, f)
        /\ mem'.up => mem'.epoch = e
        /\ merge'.phase \in Merging => merge'.f = f
    BY <1>1, <1>3, <1>4, <1>5, <1>7, <1>9, <2>2
  <2> QED BY <2>3, DiskNext
<1>11. StageInv'
  <2>1. Agree(hist, y, mem.epoch)
    BY <1>3, <1>4, <1>6
  <2> QED BY <1>1, <1>5, <1>9, <2>1, StageSame
<1> QED BY <1>5, <1>6, <1>9, <1>10, <1>11, KillNext

\* Steps that change neither the live log nor the history, nor the base.
LEMMA KillQuiet ==
    ASSUME TypeInv, ReadInv, KillInv, env' = env, mem.up, hist' = hist, acked' = acked,
           Live' = Live, dir'.wal = dir.wal, Base' = Base,
           mem'.up, mem'.epoch = mem.epoch, mem'.written = mem.written, mem'.wal = mem.wal,
           mem'.poisoned = mem.poisoned, merge'.phase = "renamed" <=> merge.phase = "renamed",
           merge'.phase \in Merging => merge'.f = merge.f /\ merge.phase \in Merging, StageInv'
    PROVE  KillInv'
<1>1. /\ ~mem.poisoned
      /\ merge.phase # "renamed" => dir.wal = mem.wal
      /\ merge.phase = "renamed" => dir.wal = 1 - mem.wal
  BY DEF KillInv, UpInv, stage
<1>2. Kept' = Kept
  BY DEF Kept
<1>3. UpInv'
  BY <1>1, UpNext
<1>4. PICK e \in Nat, f \in Nat :
         /\ OnDisk(hist, Live, Kept, Base, acked, e, f)
         /\ e = mem.epoch /\ (merge.phase \in Merging => f = merge.f)
  BY DEF KillInv, DiskInv
<1>5. PICK x, w, n, B, a : x = hist /\ w = Live /\ n = Kept /\ B = Base /\ a = acked
  OBVIOUS
<1>6. DiskInv'
  BY <1>2, <1>4, <1>5, DiskNext
<1>7. Datasets(x) /\ hist' = x
  BY <1>5 DEF KillInv
<1> QED BY <1>3, <1>6, <1>7, KillNext

LEMMA AgreeSelf ==
    ASSUME TypeInv, ReadInv, mem.up
    PROVE  Agree(hist, hist, mem.epoch)
<1>1. mem.epoch < Len(hist) /\ Len(hist) \in Nat
  BY Parts DEF ReadInv
<1> QED BY <1>1 DEF Agree

LEMMA KillStops ==
    ASSUME TypeInv, ReadInv, KillInv, env' = env, GroupStuck \/ EndDrain \/ MergeAbort
    PROVE  KillInv'
<1>1. mem.up
  BY MergeIsUp DEF GroupStuck, CanCommit, EndDrain, MergeAbort
<1>2. /\ UNCHANGED <<dirs, logs, hist, acked>>
      /\ mem'.up = mem.up /\ mem'.epoch = mem.epoch /\ mem'.written = mem.written
      /\ mem'.wal = mem.wal /\ mem'.poisoned = mem.poisoned /\ mem'.delta = mem.delta
      /\ mem'.gen = mem.gen
  BY DEF GroupStuck, EndDrain, MergeAbort, TypeInv, Mem
<1>3. /\ Live' = Live /\ Base' = Base /\ dir' = dir /\ StageRecs' = StageRecs /\ new_gen' = new_gen
  BY <1>2 DEF Live, Base, dir, StageRecs, stage, new_gen
<1>4. merge.phase # "renamed" /\ merge'.phase # "renamed"
  BY DEF GroupStuck, CanCommit, EndDrain, MergeAbort, IdleMerge
<1>5. CASE GroupStuck
  <2>1. merge' = merge
    BY <1>5 DEF GroupStuck
  <2>2. PICK y : y = hist
    OBVIOUS
  <2>3. StageInv'
    BY <1>1, <1>2, <1>3, <2>1, <2>2, AgreeSelf, StageSame
  <2> QED BY <1>1, <1>2, <1>3, <2>1, <2>3, KillQuiet
<1>6. CASE EndDrain \/ MergeAbort
  <2>1. merge'.phase \notin Merging
    BY <1>6 DEF EndDrain, MergeAbort, IdleMerge, Merging
  <2>2. StageInv'
    BY <2>1, StageNone
  <2> QED BY <1>1, <1>2, <1>3, <1>4, <2>1, <2>2, KillQuiet
<1> QED BY <1>5, <1>6

\* Where the merge writes: not the generation or the log in use.
LEMMA Apart ==
    ASSUME TypeInv, DirInv, KillInv, mem.up
    PROVE  /\ dir \in Dir /\ mem.gen \in Nat /\ new_gen # mem.gen /\ dir.current \in Gens
           /\ merge.phase \in Merging => new_gen \in Gens
           /\ merge.phase \notin Pointing => dir.current = mem.gen
           /\ merge.phase \in Pointing => dir.current = new_gen
           /\ \A g \in mem.retired : g < mem.gen /\ g # dir.current /\ g # new_gen
           /\ merge.phase # "renamed" => dir.wal = mem.wal /\ dir.wal # stage
           /\ merge.phase = "renamed" => dir.wal = stage
<1>1. dir \in Dir /\ mem.gen \in Nat /\ MaxGen \in Nat /\ mem.gen \in Gens
  BY DirIs, Parts DEF TypeInv, Gens
<1>2. new_gen # mem.gen /\ dir.current \in Gens
  BY <1>1 DEF new_gen, Dir
<1>3. merge.phase \in Merging => new_gen \in Gens
  BY <1>1 DEF TypeInv, Gens, new_gen
<1>4. /\ merge.phase \notin Pointing => dir.current = mem.gen
      /\ merge.phase \in Pointing => dir.current = new_gen
  BY DEF DirInv, KillInv, UpInv
<1>5. ASSUME NEW g \in mem.retired PROVE g < mem.gen /\ g # dir.current /\ g # new_gen
  <2>1. g < mem.gen /\ g \in Nat
    BY DEF DirInv, TypeInv, Mem, Gens
  <2>2. dir.current = mem.gen \/ dir.current = new_gen
    BY <1>4
  <2> QED BY <1>1, <2>1, <2>2 DEF new_gen
<1>6. /\ merge.phase # "renamed" => dir.wal = mem.wal /\ dir.wal # stage
      /\ merge.phase = "renamed" => dir.wal = stage
  BY Parts DEF KillInv, UpInv
<1> QED BY <1>1, <1>2, <1>3, <1>4, <1>5, <1>6

LEMMA KillSweep ==
    ASSUME TypeInv, ReadInv, DirInv, KillInv, env' = env, NEW g \in Gens, Sweep(g)
    PROVE  KillInv'
<1>1. PICK d : d = [dir EXCEPT !.base[g] = Absent]
  OBVIOUS
<1>2. /\ UNCHANGED <<logs, merge, hist, acked>> /\ dirs' = Changed(d) /\ g \in mem.retired
      /\ mem' = [mem EXCEPT !.retired = @ \ {g}]
  BY <1>1 DEF Sweep
<1>3. mem.up
  BY <1>2 DEF DirInv
<1>4. /\ mem'.up = mem.up /\ mem'.epoch = mem.epoch /\ mem'.written = mem.written
      /\ mem'.wal = mem.wal /\ mem'.poisoned = mem.poisoned /\ mem'.delta = mem.delta
      /\ mem'.gen = mem.gen
  BY <1>2 DEF TypeInv, Mem
<1>5. dir \in Dir /\ g # dir.current /\ g # new_gen
  BY <1>2, <1>3, Apart
<1>6. d \in Dir /\ d.current = dir.current /\ d.wal = dir.wal /\ \A h : h # g => d.base[h] = dir.base[h]
  BY <1>1, <1>5 DEF Dir
<1>7. dir' = d
  BY <1>2, <1>6, DirIsNow
<1>8. /\ Live' = Live /\ Base' = Base /\ StageRecs' = StageRecs /\ new_gen' = new_gen
      /\ dir'.base[new_gen'] = dir.base[new_gen]
  BY <1>2, <1>4, <1>5, <1>6, <1>7 DEF Live, Base, StageRecs, stage, new_gen
<1>9. PICK y : y = hist
  OBVIOUS
<1>10. StageInv'
  BY <1>2, <1>3, <1>4, <1>8, <1>9, AgreeSelf, StageSame
<1> QED BY <1>2, <1>3, <1>4, <1>6, <1>7, <1>8, <1>10, KillQuiet

LEMMA SuffixStarts ==
    ASSUME NEW x, NEW d \in Seq(Rec), NEW e \in Nat, \A i \in 1 .. Len(d) : d[i].epoch <= e
    PROVE  Suffixed(x, d, e, e)
<1>1. PICK k \in Nat : k = Len(d)
  BY RecsAre
<1>2. k = k + (e - e) /\ e <= e /\ \A i \in 1 .. e - e : FALSE
  OBVIOUS
<1> QED BY <1>1, <1>2 DEF Suffixed

LEMMA KillStart ==
    ASSUME TypeInv, ReadInv, KillInv, env' = env, MergeStart
    PROVE  KillInv'
<1>1. /\ mem.up /\ merge.phase = "idle" /\ UNCHANGED <<dirs, mem, hist, acked>>
      /\ logs' = [logs EXCEPT ![mem.wal].synced = Len(logs[mem.wal].recs)]
      /\ merge' = [IdleMerge EXCEPT !.phase = "started", !.f = mem.epoch,
                                    !.data = View, !.mark = mem.epoch]
  BY DEF MergeStart
<1>2. PICK e \in Nat, d \in Seq(Rec) : e = mem.epoch /\ d = mem.delta
  BY Parts
<1>3. PICK h : /\ merge'.phase = "started" /\ merge'.f = e /\ merge'.mark = e
               /\ h = merge'.header /\ ~h
  BY <1>1, <1>2 DEF IdleMerge
<1>4. logs'[0].recs = logs[0].recs /\ logs'[1].recs = logs[1].recs
  BY <1>1, Parts DEF TypeInv, Log
<1>5. Live' = Live /\ Base' = Base /\ Kept' = Kept /\ dir' = dir
  <2>1. dir.wal \in {0, 1}
    BY Parts DEF Dir
  <2> QED BY <1>1, <1>4, <2>1 DEF Live, Base, Kept, dir
<1>6. PICK x, w, n, B, a : x = hist /\ w = Live /\ n = Kept /\ B = Base /\ a = acked
  OBVIOUS
<1>7. OnDisk(x, w, n, B, a, e, e)
  <2>1. PICK f \in Nat : OnDisk(x, w, n, B, a, e, f)
    BY <1>1, <1>2, <1>6 DEF KillInv, DiskInv
  <2> QED BY <2>1, DiskFreeze
<1>8. DiskInv'
  BY <1>1, <1>2, <1>3, <1>5, <1>6, <1>7, DiskNext
<1>9. StageInv'
  <2>1. Suffixed(x, d, e, e)
    BY <1>1, <1>2, SuffixStarts DEF ReadInv
  <2>2. "started" \notin Staging
    BY DEF Staging
  <2>3. PICK phase : phase = "started"
    OBVIOUS
  <2>4. Copies(x, phase, d, e, e, h, e, 1, 1, 1)
    BY <1>3, <2>1, <2>2, <2>3 DEF Copies
  <2> QED BY <1>1, <1>2, <1>3, <1>6, <2>2, <2>3, <2>4, StageNext
<1>10. UpInv'
  <2>1. ~mem.poisoned /\ dir.wal = mem.wal
    BY <1>1 DEF KillInv, UpInv
  <2> QED BY <1>1, <1>3, <1>5, <2>1, UpNext
<1>11. Datasets(x) /\ hist' = x
  BY <1>1, <1>6 DEF KillInv
<1> QED BY <1>8, <1>9, <1>10, <1>11, KillNext

LEMMA KillBuilds ==
    ASSUME TypeInv, ReadInv, DirInv, KillInv, env' = env, BuildBegin \/ BuildDone
    PROVE  KillInv'
<1>1. /\ mem.up /\ merge.phase \in {"started", "building"} /\ merge.phase \in Merging
      /\ mem' = mem /\ hist' = hist /\ acked' = acked
  BY MergeIsUp DEF BuildBegin, BuildDone, Merging
<1>2. /\ dir \in Dir /\ new_gen \in Gens /\ new_gen # dir.current /\ dir.wal = mem.wal
      /\ dir.wal # stage
  BY <1>1, Apart DEF Pointing
<1>3. PICK x, e, f, h, m : /\ x = hist /\ e = mem.epoch /\ f = merge.f /\ h = merge.header
                           /\ m = merge.mark /\ ~h /\ m = f
  BY <1>1 DEF KillInv, StageInv, Copies
<1>4. PICK d : d = mem.delta /\ Suffixed(x, d, e, f)
  BY <1>1, <1>3 DEF KillInv, StageInv, Copies
<1>5. ASSUME NEW D, D = Partial \/ D \in SUBSET Quads,
             dirs' = Changed([dir EXCEPT !.base[new_gen] = D]) \/ dirs' = <<[dir EXCEPT !.base[new_gen] = D]>>
      PROVE  Base' = Base /\ dir'.wal = dir.wal /\ dir'.base[new_gen'] = D
  <2>1. PICK c : c = [dir EXCEPT !.base[new_gen] = D]
    OBVIOUS
  <2>2. c \in Dir /\ c.current = dir.current /\ c.wal = dir.wal /\ c.base[new_gen] = D
        /\ \A g : g # new_gen => c.base[g] = dir.base[g]
    BY <1>2, <1>5, <2>1 DEF Dir
  <2>3. dir' = c
    BY <1>5, <2>1, <2>2, DirIsNow
  <2>4. new_gen' = new_gen
    BY <1>1 DEF new_gen
  <2> QED BY <1>2, <2>2, <2>3, <2>4 DEF Base
<1>6. CASE BuildBegin
  <2>1. /\ merge' = [merge EXCEPT !.phase = "building"] /\ logs' = logs
        /\ dirs' = Changed([dir EXCEPT !.base[new_gen] = Partial])
    BY <1>6 DEF BuildBegin
  <2>2. /\ merge'.phase = "building" /\ merge'.f = f /\ merge'.header = h /\ merge'.mark = m
    BY <1>3, <2>1 DEF TypeInv, Merge
  <2>3. Base' = Base /\ dir'.wal = dir.wal
    BY <1>5, <2>1
  <2>4. Live' = Live
    BY <2>1, <2>3 DEF Live
  <2>5. StageInv'
    <3>1. "building" \notin Staging
      BY DEF Staging
    <3>2. PICK phase : phase = "building"
      OBVIOUS
    <3>3. Copies(x, phase, d, e, f, h, m, 1, 1, 1)
      BY <1>3, <1>4, <3>1, <3>2 DEF Copies
    <3> QED BY <1>1, <1>3, <1>4, <2>2, <3>1, <3>2, <3>3, StageNext
  <2> QED BY <1>1, <1>3, <2>2, <2>3, <2>4, <2>5, KillQuiet
<1>7. CASE BuildDone
  <2>1. /\ merge' = [merge EXCEPT !.phase = "shadow"] /\ logs' = [logs EXCEPT ![stage] = EmptyLog]
        /\ dirs' = <<[dir EXCEPT !.base[new_gen] = merge.data]>>
    BY <1>7 DEF BuildDone
  <2>2. /\ merge'.phase = "shadow" /\ merge'.f = f /\ merge'.header = h /\ merge'.mark = m
        /\ merge'.data = merge.data
    BY <1>3, <2>1 DEF TypeInv, Merge
  <2>3. Base' = Base /\ dir'.wal = dir.wal /\ dir'.base[new_gen'] = merge.data
    <3>1. merge.data \in SUBSET Quads
      BY Parts
    <3> QED BY <1>5, <2>1, <3>1
  <2>4. Live' = Live
    <3>1. logs'[dir.wal] = logs[dir.wal]
      BY <1>2, <2>1 DEF TypeInv, Dir
    <3> QED BY <2>3, <3>1 DEF Live
  <2>5. StageRecs' = <<>>
    <3>1. stage' = stage /\ stage \in {0, 1}
      BY <1>1, Parts DEF stage
    <3>2. logs'[stage] = EmptyLog
      BY <2>1, <3>1 DEF TypeInv
    <3> QED BY <3>1, <3>2 DEF StageRecs, EmptyLog
  <2>6. StageInv'
    <3>1. PICK phase, r, D : phase = "shadow" /\ r = <<>> /\ D = merge.data
      OBVIOUS
    <3>2. Copied(x, r, h, f, m)
      BY <1>3, <3>1 DEF Copied
    <3>3. Copies(x, phase, d, e, f, h, m, r, D, D)
      BY <1>4, <3>1, <3>2 DEF Copies
    <3> QED BY <1>1, <1>3, <1>4, <2>2, <2>3, <2>5, <3>1, <3>3, StageNext
  <2> QED BY <1>1, <1>3, <2>2, <2>3, <2>4, <2>6, KillQuiet
<1> QED BY <1>6, <1>7

LEMMA StagedCopies ==
    ASSUME TypeInv, ReadInv, KillInv, merge.phase = "shadow"
    PROVE  /\ mem.epoch > merge.mark => Copied(hist, Staged(mem.epoch), TRUE, merge.f, mem.epoch)
           /\ ~(mem.epoch > merge.mark) =>
                 /\ merge.mark = mem.epoch /\ Staged(mem.epoch) = StageRecs
                 /\ Copied(hist, Staged(mem.epoch), merge.header, merge.f, mem.epoch)
<1>1. PICK e, f, m \in Nat, h \in BOOLEAN :
         e = mem.epoch /\ f = merge.f /\ m = merge.mark /\ h = merge.header
  BY Parts
<1>2. mem.up /\ merge.phase \in Merging /\ merge.phase \in Staging
  BY MergeIsUp DEF Merging, Staging
<1>3. f <= m /\ m <= e
  BY <1>1, <1>2 DEF ReadInv, Frozen
<1>4. PICK d \in Seq(Rec), r \in Seq(Rec) : d = mem.delta /\ r = StageRecs
  BY Parts DEF StageRecs, Log
<1> DEFINE x == hist
<1>5. Suffixed(x, d, e, f) /\ Copied(x, r, h, f, m)
  BY <1>1, <1>2, <1>4 DEF KillInv, StageInv, Copies
<1>6. CASE e > m
  <2>1. PICK I : I = {i \in DOMAIN d : m < d[i].epoch /\ d[i].epoch <= e}
    OBVIOUS
  <2>2. Later(I, d, m, e)
    <3>1. DOMAIN d = 1 .. Len(d)
      BY RecsAre
    <3> QED BY <2>1, <3>1 DEF Later
  <2>3. PICK g : g = r \o (IF h THEN <<>> ELSE <<Checkpoint(f)>>)
    OBVIOUS
  <2>4. Copied(x, g \o Keep(d, I), TRUE, f, e)
    BY <1>3, <1>5, <2>2, <2>3, PassCopies
  <2>5. ~(e <= m)
    BY <1>6
  <2>6. Staged(e) = g \o Keep(d, I)
    BY <1>1, <1>4, <2>1, <2>3, <2>5 DEF Staged, StageRecs
  <2> QED BY <1>1, <1>4, <1>6, <2>4, <2>6
<1>7. CASE ~(e > m)
  <2>1. e <= m /\ m = e
    BY <1>3, <1>7
  <2>2. Staged(e) = r
    BY <1>1, <1>4, <2>1 DEF Staged, StageRecs
  <2> QED BY <1>1, <1>4, <1>5, <1>7, <2>1, <2>2
<1> QED BY <1>6, <1>7

LEMMA HeaderRun ==
    ASSUME NEW x, NEW f \in Nat, NEW r, r = <<>>
    PROVE  Copied(x, Append(r, Checkpoint(f)), TRUE, f, f)
<1>1. PICK c : c = Checkpoint(f)
  OBVIOUS
<1>2. c \in Rec /\ c.kind = "checkpoint" /\ c.epoch = f
  BY <1>1, TxIsRec DEF Checkpoint
<1>3. PICK s \in Seq(Rec) : s = <<c>> /\ Len(s) = 1 /\ s[1] = c
  BY <1>2, OneRecord
<1>4. Append(r, Checkpoint(f)) = s
  BY <1>1, <1>3
<1>5. \A i \in 1 .. Len(s) - 1 : FALSE
  BY <1>3
<1>6. RunOf(x, s, 1, f) /\ f = f + (Len(s) - 1)
  BY <1>2, <1>3, <1>5 DEF RunOf
<1> QED BY <1>4, <1>6 DEF Copied, RunTo

LEMMA KillCopies ==
    ASSUME TypeInv, ReadInv, DirInv, KillInv, env' = env, ShadowPass \/ SwapTail
    PROVE  KillInv'
<1>1. /\ merge.phase = "shadow" /\ mem.up /\ merge.phase \in Merging /\ merge.phase \in Staging
      /\ mem' = mem /\ hist' = hist /\ acked' = acked /\ dirs' = dirs
  BY MergeIsUp DEF ShadowPass, SwapTail, Merging, Staging
<1>2. PICK x, e, d : /\ x = hist /\ e = mem.epoch /\ d = mem.delta
  OBVIOUS
<1>f. PICK f \in Nat : f = merge.f
  BY Parts
<1>d. PICK D : D = merge.data
  OBVIOUS
<1>3. /\ f = merge.f /\ D = merge.data /\ dir.base[new_gen] = D
      /\ Suffixed(x, d, e, f)
  BY <1>1, <1>2, <1>f, <1>d DEF KillInv, StageInv, Copies
<1>4. ASSUME NEW l, logs' = [logs EXCEPT ![stage] = l], NEW phase \in {"shadow", "staged"},
             merge'.phase = phase, merge'.f = f, merge'.data = D, merge'.header = TRUE, merge'.mark = e,
             Copied(x, l.recs, TRUE, f, e)
      PROVE  KillInv'
  <2>1. dir.wal # stage /\ dir.wal = mem.wal /\ dir' = dir /\ stage' = stage /\ new_gen' = new_gen
    <3>1. dir.wal # stage /\ dir.wal = mem.wal
      BY <1>1, Apart
    <3> QED BY <1>1, <3>1 DEF dir, stage, new_gen
  <2>2. logs'[stage] = l /\ logs'[dir.wal] = logs[dir.wal]
    BY <1>4, <2>1, Parts DEF TypeInv
  <2>3. Live' = Live /\ Base' = Base /\ StageRecs' = l.recs
    BY <2>1, <2>2 DEF Live, Base, StageRecs
  <2>4. PICK r : r = l.recs
    OBVIOUS
  <2>5. Copies(x, phase, d, e, f, TRUE, e, r, D, D)
    BY <1>3, <1>4, <2>4 DEF Copies
  <2>6. StageInv'
    BY <1>1, <1>2, <1>3, <1>4, <2>1, <2>3, <2>4, <2>5, StageNext
  <2> QED BY <1>1, <1>3, <1>4, <2>1, <2>3, <2>6, KillQuiet
<1>5. CASE ShadowPass
  <2>1. /\ merge' = [merge EXCEPT !.mark = mem.epoch, !.header = TRUE] /\ mem.epoch > merge.mark
        /\ logs' = [logs EXCEPT ![stage].recs = Staged(mem.epoch)]
    BY <1>5 DEF ShadowPass
  <2>2. /\ merge'.phase = "shadow" /\ merge'.f = f /\ merge'.data = D /\ merge'.header = TRUE
        /\ merge'.mark = e
    BY <1>1, <1>2, <1>3, <2>1 DEF TypeInv, Merge
  <2>3. PICK l : logs' = [logs EXCEPT ![stage] = l] /\ l.recs = Staged(mem.epoch)
    <3>1. logs[stage] \in Log /\ Staged(mem.epoch) \in Seq(Rec)
      BY Parts, StagedIsLog
    <3>2. PICK l \in Log : /\ l = [logs[stage] EXCEPT !.recs = Staged(mem.epoch)]
                           /\ l.recs = Staged(mem.epoch)
      BY <3>1, LogWith
    <3> QED BY <2>1, <3>2
  <2>4. Copied(x, l.recs, TRUE, f, e)
    BY <1>1, <1>2, <1>3, <2>1, <2>3, StagedCopies
  <2> QED BY <1>4, <2>2, <2>3, <2>4
<1>6. CASE SwapTail
  <2> DEFINE h == merge.header \/ mem.epoch > merge.mark
  <2>1. /\ merge' = [merge EXCEPT !.phase = "staged", !.mark = mem.epoch, !.header = TRUE]
        /\ logs' = [logs EXCEPT ![stage] = finish(Staged(mem.epoch), ~h)]
    BY <1>6 DEF SwapTail
  <2>2. /\ merge'.phase = "staged" /\ merge'.f = f /\ merge'.data = D /\ merge'.header = TRUE
        /\ merge'.mark = e
    BY <1>2, <1>3, <2>1 DEF TypeInv, Merge
  <2>3. PICK l : l = finish(Staged(mem.epoch), ~h)
    OBVIOUS
  <2>4. Copied(x, l.recs, TRUE, f, e)
    <3>1. CASE h
      <4>1. l.recs = Staged(mem.epoch)
        BY <2>3, <3>1 DEF finish
      <4>2. Copied(x, Staged(mem.epoch), TRUE, f, e)
        BY <1>1, <1>2, <1>3, <3>1, StagedCopies
      <4> QED BY <4>1, <4>2
    <3>2. CASE ~h
      <4>1. Copied(x, Staged(mem.epoch), FALSE, f, e)
        BY <1>1, <1>2, <1>3, <3>2, StagedCopies, Parts
      <4>2. PICK r : r = Staged(mem.epoch) /\ r = <<>> /\ e = f
        BY <4>1 DEF Copied
      <4>3. l.recs = Append(r, Checkpoint(f))
        BY <1>3, <2>3, <3>2, <4>2 DEF finish
      <4> QED BY <4>2, <4>3, HeaderRun
    <3> QED BY <3>1, <3>2
  <2> HIDE DEF h
  <2> QED BY <1>4, <2>1, <2>2, <2>3, <2>4
<1> QED BY <1>5, <1>6

\* The staged log takes over: a run over the dataset of the freeze.
LEMMA DiskRename ==
    ASSUME NEW x, NEW v \in Seq(Rec), NEW f \in Nat, NEW e \in Nat, RunTo(x, v, f, e), e < Len(x),
           NEW a, a <= e
    PROVE  OnDisk(x, v, Len(v), x[f + 1], a, e, f)
<1>1. RunOf(x, v, 1, f) /\ e = f + (Len(v) - 1)
  BY DEF RunTo
<1>2. 1 <= Len(v) /\ Len(v) \in Nat
  BY <1>1, RecsAre DEF RunOf
<1>3. f <= e
  BY <1>1, <1>2
<1>4. 1 \in Nat /\ f <= f /\ Len(v) <= Len(v)
  BY <1>2
<1> QED BY <1>1, <1>2, <1>3, <1>4 DEF OnDisk

\* The steps of the switch leave the copy as it is.
LEMMA StagePhase ==
    ASSUME TypeInv, StageInv, merge.phase \in Staging \ {"shadow"},
           NEW p \in Staging \ {"shadow"}, merge' = [merge EXCEPT !.phase = p],
           mem' = mem, hist' = hist, logs' = logs, dir'.base = dir.base
    PROVE  StageInv'
<1>1. PICK x, d, e, f, h, m, r, b, D :
         /\ x = hist /\ d = mem.delta /\ e = mem.epoch /\ f = merge.f /\ h = merge.header
         /\ m = merge.mark /\ r = StageRecs /\ b = dir.base[new_gen] /\ D = merge.data
  OBVIOUS
<1>2. Copies(x, merge.phase, d, e, f, h, m, r, b, D)
  BY <1>1 DEF StageInv
<1>3. Staging \subseteq Merging /\ p \notin {"started", "building"}
  BY DEF Staging, Merging
<1>4. Copies(x, p, d, e, f, h, m, r, b, D)
  BY <1>2, <1>3 DEF Copies
<1>5. /\ merge'.phase = p /\ merge'.f = f /\ merge'.header = h /\ merge'.mark = m /\ merge'.data = D
  BY <1>1 DEF TypeInv, Merge
<1>6. StageRecs' = r /\ dir'.base[new_gen'] = b
  BY <1>1 DEF StageRecs, stage, new_gen
<1> QED BY <1>1, <1>4, <1>5, <1>6, StageNext

LEMMA KillFlips ==
    ASSUME TypeInv, ReadInv, DirInv, KillInv, env' = env, Flip \/ FlipSync \/ Rename
    PROVE  KillInv'
<1>1. /\ mem.up /\ merge.phase \in Merging /\ merge.phase \in Staging \ {"shadow"}
      /\ merge.phase # "renamed"
      /\ mem' = mem /\ hist' = hist /\ acked' = acked /\ logs' = logs
  BY MergeIsUp DEF Flip, FlipSync, Rename, Merging, Staging
<1>2. /\ dir \in Dir /\ dir.wal = mem.wal /\ dir.wal # stage
      /\ stage' = stage /\ new_gen' = new_gen /\ stage \in {0, 1} /\ new_gen \in Gens
  BY <1>1, Apart, Parts DEF stage, new_gen
<1>3. PICK e, p, n, f \in Nat, w \in Seq(Rec) : HandleIs(e, p, n, f, w)
  BY <1>1, Handle
<1>4. /\ e = mem.epoch /\ Len(hist) = e + 1 + p /\ f = merge.f /\ Live = w /\ Kept = n
      /\ OnDisk(hist, w, n, Base, acked, e, f)
  BY <1>1, <1>3 DEF HandleIs
<1>5. PICK x, B, a : x = hist /\ B = Base /\ a = acked /\ Datasets(x)
  BY DEF KillInv
<1>6. dir.base[new_gen] = x[f + 1] /\ f <= e
  <2>1. dir.base[new_gen] = merge.data
    BY <1>1 DEF KillInv, StageInv, Copies
  <2>2. Frozen
    BY <1>1 DEF ReadInv
  <2> QED BY <1>4, <1>5, <2>1, <2>2 DEF Frozen
<1>7. hist' = x
  BY <1>1, <1>5
<1>8. ~mem.poisoned
  BY <1>1 DEF KillInv, UpInv
<1>9. CASE Flip
  <2>1. PICK d : d = [dir EXCEPT !.current = new_gen]
    OBVIOUS
  <2>2. merge' = [merge EXCEPT !.phase = "flipped"] /\ dirs' = Changed(d)
    BY <1>9, <2>1 DEF Flip
  <2>3. d \in Dir /\ d.current = new_gen /\ d.wal = dir.wal /\ d.base = dir.base
    BY <1>2, <2>1 DEF Dir
  <2>4. dir' = d
    BY <2>2, <2>3, DirIsNow
  <2>5. Base' = x[f + 1] /\ Live' = w /\ Kept' = n
    BY <1>1, <1>2, <1>4, <1>6, <2>3, <2>4 DEF Base, Live, Kept
  <2>6. merge'.phase = "flipped" /\ merge'.f = f
    BY <1>4, <2>2 DEF TypeInv, Merge
  <2>7. DiskInv'
    <3>1. PICK C : C = x[f + 1]
      OBVIOUS
    <3>2. OnDisk(x, w, n, B, a, e, f)
      BY <1>4, <1>5
    <3>3. OnDisk(x, w, n, C, a, e, f)
      BY <1>6, <3>1, <3>2, DiskFlip
    <3>4. /\ hist' = x /\ Live' = w /\ Kept' = n /\ Base' = C /\ acked' = a
          /\ mem'.epoch = e /\ merge'.f = f
      BY <1>1, <1>4, <1>5, <2>5, <2>6, <3>1
    <3> QED BY <3>3, <3>4, DiskNext
  <2>8. UpInv'
    BY <1>1, <1>2, <1>8, <2>3, <2>4, <2>6, UpNext
  <2>9. StageInv'
    <3>1. "flipped" \in Staging \ {"shadow"}
      BY DEF Staging
    <3> QED BY <1>1, <2>2, <2>3, <2>4, <3>1, StagePhase DEF KillInv
  <2> QED BY <1>5, <1>7, <2>7, <2>8, <2>9, KillNext
<1>10. CASE FlipSync
  <2>1. merge' = [merge EXCEPT !.phase = "pointed"] /\ dirs' = <<dir>>
    BY <1>10 DEF FlipSync
  <2>2. dir' = dir
    BY <1>2, <2>1, DirIsNow
  <2>3. Base' = Base /\ Live' = Live
    BY <1>1, <2>2 DEF Base, Live
  <2>4. merge'.phase = "pointed" /\ merge'.f = merge.f
    BY <2>1 DEF TypeInv, Merge
  <2>5. StageInv'
    <3>1. "pointed" \in Staging \ {"shadow"}
      BY DEF Staging
    <3> QED BY <1>1, <2>1, <2>2, <3>1, StagePhase DEF KillInv
  <2> QED BY <1>1, <2>2, <2>3, <2>4, <2>5, KillQuiet
<1>11. CASE Rename
  <2>1. PICK d : d = [dir EXCEPT !.wal = stage]
    OBVIOUS
  <2>2. merge' = [merge EXCEPT !.phase = "renamed"] /\ dirs' = Changed(d) /\ merge.phase = "pointed"
    BY <1>11, <2>1 DEF Rename
  <2>3. d \in Dir /\ d.current = dir.current /\ d.wal = stage /\ d.base = dir.base
    BY <1>2, <2>1 DEF Dir
  <2>4. dir' = d
    BY <2>2, <2>3, DirIsNow
  <2>5. dir.current = new_gen
    BY <2>2 DEF DirInv, Pointing
  <2>6. PICK v \in Seq(Rec) : v = StageRecs /\ RunTo(x, v, f, e)
    <3>1. StageRecs \in Seq(Rec)
      BY Parts DEF StageRecs, Log
    <3>2. merge.header /\ merge.mark = mem.epoch /\ Copied(hist, StageRecs, merge.header, merge.f, merge.mark)
      BY <1>1 DEF KillInv, StageInv, Copies
    <3> QED BY <1>4, <1>5, <3>1, <3>2 DEF Copied
  <2>7. Base' = x[f + 1] /\ Live' = v /\ Kept' = Len(v)
    <3>1. Base' = x[f + 1] /\ Live' = v
      BY <1>1, <1>2, <1>6, <2>3, <2>4, <2>5, <2>6 DEF Base, Live, StageRecs
    <3>2. dir'.wal # mem'.wal
      BY <1>1, <1>2, <2>3, <2>4
    <3> QED BY <3>1, <3>2 DEF Kept
  <2>8. merge'.phase = "renamed" /\ merge'.f = f
    BY <1>4, <2>2 DEF TypeInv, Merge
  <2>9. DiskInv'
    <3>1. PICK C, m : C = x[f + 1] /\ m = Len(v)
      OBVIOUS
    <3>2. a <= e /\ e < Len(x)
      <4>1. OnDisk(x, w, n, B, a, e, f)
        BY <1>4, <1>5
      <4> QED BY <4>1, DiskIs
    <3>3. OnDisk(x, v, m, C, a, e, f)
      BY <2>6, <3>1, <3>2, DiskRename
    <3>4. /\ hist' = x /\ Live' = v /\ Kept' = m /\ Base' = C /\ acked' = a
          /\ mem'.epoch = e /\ merge'.f = f
      BY <1>1, <1>4, <1>5, <2>7, <2>8, <3>1
    <3> QED BY <3>3, <3>4, DiskNext
  <2>10. UpInv'
    BY <1>1, <1>2, <1>8, <2>3, <2>4, <2>8, UpNext DEF stage
  <2>11. StageInv'
    <3>1. "renamed" \in Staging \ {"shadow"}
      BY DEF Staging
    <3> QED BY <1>1, <2>2, <2>3, <2>4, <3>1, StagePhase DEF KillInv
  <2> QED BY <1>5, <1>7, <2>9, <2>10, <2>11, KillNext
<1> QED BY <1>9, <1>10, <1>11

LEMMA KillActivates ==
    ASSUME TypeInv, ReadInv, DirInv, KillInv, env' = env, Activate
    PROVE  KillInv'
<1>1. /\ merge.phase = "renamed" /\ mem.up /\ logs' = logs /\ acked' = acked /\ dirs' = <<dir>>
      /\ hist' = Prefix(hist, mem.epoch + 1)
      /\ merge' = [IdleMerge EXCEPT !.phase = "drain"]
      /\ mem' = [mem EXCEPT !.wal = stage, !.written = Len(logs[stage].recs),
                            !.broken = FALSE, !.gen = new_gen, !.base = merge.data,
                            !.delta = After(@, merge.f), !.retired = @ \cup {mem.gen}]
  BY MergeIsUp DEF Activate
<1>2. PICK e, p, n, f \in Nat, w \in Seq(Rec) : HandleIs(e, p, n, f, w)
  BY <1>1, Handle
<1>3. /\ e = mem.epoch /\ Len(hist) = e + 1 + p /\ dir.wal = stage /\ Live = StageRecs
      /\ Kept = Len(Live) /\ OnDisk(hist, Live, Kept, Base, acked, e, f)
  BY <1>1, <1>2 DEF HandleIs
<1>4. PICK x, B, a : x = hist /\ B = Base /\ a = acked /\ Datasets(x)
  BY DEF KillInv
<1>5. PICK v \in Seq(Rec) : v = StageRecs
  BY Parts DEF StageRecs, Log
<1>6. PICK y : y = Prefix(x, e + 1) /\ hist' = y
  BY <1>1, <1>3, <1>4
<1>7. Agree(x, y, e) /\ Datasets(y)
  <2>1. e < Len(x)
    BY <1>3, <1>4
  <2> QED BY <1>4, <1>6, <2>1, HistoryCut
<1>8. /\ mem'.up = mem.up /\ mem'.wal = stage /\ mem'.written = Len(v) /\ mem'.epoch = e
      /\ mem'.poisoned = mem.poisoned
  BY <1>1, <1>3, <1>5 DEF TypeInv, Mem, StageRecs
<1>9. dir' = dir
  BY <1>1, Parts, DirIsNow
<1>10. Live' = v /\ Base' = B /\ Kept' = Len(v)
  BY <1>1, <1>3, <1>4, <1>5, <1>8, <1>9 DEF Live, Base, Kept
<1>11. merge'.phase = "drain" /\ "drain" \notin Merging
  BY <1>1 DEF IdleMerge, Merging
<1>12. DiskInv'
  <2>1. OnDisk(x, v, Len(v), B, a, e, f)
    BY <1>3, <1>4, <1>5
  <2>2. OnDisk(y, v, Len(v), B, a, e, f)
    BY <1>7, <2>1, DiskAgrees
  <2>3. PICK m : m = Len(v)
    OBVIOUS
  <2>4. hist' = y /\ Live' = v /\ Kept' = m /\ Base' = B /\ acked' = a /\ mem'.epoch = e
    BY <1>1, <1>4, <1>6, <1>8, <1>10, <2>3
  <2> QED BY <1>11, <2>2, <2>3, <2>4, DiskNext
<1>13. UpInv'
  <2>1. ~mem.poisoned
    BY <1>1 DEF KillInv, UpInv
  <2> QED BY <1>3, <1>8, <1>9, <1>11, <2>1, UpNext
<1>14. StageInv'
  BY <1>11, StageNone
<1> QED BY <1>6, <1>7, <1>12, <1>13, <1>14, KillNext

LEMMA KillKills ==
    ASSUME TypeInv, ReadInv, KillInv, env' = env, Kill
    PROVE  KillInv'
<1>1. PICK m \in mem.written .. Len(Written) :
         /\ mem.up /\ logs' = [logs EXCEPT ![mem.wal] = CutTo(mem.wal, m)]
         /\ mem' = ClosedMem /\ merge' = IdleMerge /\ UNCHANGED <<dirs, hist, acked>>
  BY DEF Kill, Written
<1>2. PICK e, p, n, f \in Nat, w \in Seq(Rec) : HandleIs(e, p, n, f, w)
  BY <1>1, Handle
<1>3. /\ e = mem.epoch /\ n = mem.written /\ w = Written
      /\ Len(w) = n + p /\ Len(hist) = e + 1 + p
      /\ OnDisk(hist, Live, Kept, Base, acked, e, f)
      /\ merge.phase # "renamed" => dir.wal = mem.wal /\ Live = w /\ Kept = n
      /\ merge.phase = "renamed" => dir.wal = stage /\ Kept = Len(Live)
  BY <1>2 DEF HandleIs
<1>4. PICK x, B, a : x = hist /\ B = Base /\ a = acked /\ Datasets(x)
  BY DEF KillInv
<1>5. /\ ~mem'.up /\ merge'.phase = "idle" /\ "idle" \notin Merging /\ hist' = x /\ acked' = a
      /\ dir' = dir /\ Base' = B /\ Kept' = Len(Live')
  BY <1>1, <1>4 DEF ClosedMem, IdleMerge, Merging, dir, Base, Kept
<1>6. stage # mem.wal /\ stage \in {0, 1} /\ mem.wal \in {0, 1}
  BY Parts
<1>7. logs'[mem.wal] = CutTo(mem.wal, m) /\ logs'[stage] = logs[stage]
  BY <1>1, <1>6 DEF TypeInv
<1>8. DiskInv'
  <2>1. CASE merge.phase = "renamed"
    <3>1. Live' = Live
      BY <1>3, <1>5, <1>7, <2>1 DEF Live
    <3>2. PICK l, k : l = Live /\ k = Kept
      OBVIOUS
    <3>3. OnDisk(x, l, k, B, a, e, f) /\ Live' = l /\ Kept' = k
      BY <1>3, <1>4, <1>5, <2>1, <3>1, <3>2
    <3> QED BY <1>5, <3>3, DiskNext
  <2>2. CASE merge.phase # "renamed"
    <3>1. m \in n .. n + p /\ m \in Nat /\ m <= Len(w)
      BY <1>1, <1>3
    <3>2. PICK u \in Seq(Rec) : u = Prefix(w, m) /\ Len(u) = m
      BY <3>1, PrefixOfLog
    <3>3. Live' = u /\ Kept' = m
      <4>1. Live' = u
        BY <1>3, <1>5, <1>7, <2>2, <3>2 DEF Live, CutTo, Written
      <4> QED BY <1>5, <3>2, <4>1
    <3>4. OnDisk(x, Prefix(w, m), m, B, a, e + (m - n), f)
      <4>1. a \in Nat
        BY <1>4 DEF TypeInv
      <4>2. OnDisk(x, w, n, B, a, e, f) /\ Len(x) = e + 1 + p /\ Len(w) = n + p
        BY <1>3, <1>4, <2>2
      <4> QED BY <3>1, <4>1, <4>2, DiskCut
    <3>5. PICK g \in Nat : g = e + (m - n)
      BY <3>1
    <3>6. OnDisk(x, u, m, B, a, g, f)
      BY <3>2, <3>4, <3>5
    <3> QED BY <1>5, <3>3, <3>6, DiskNext
  <2> QED BY <2>1, <2>2
<1>9. UpInv'
  BY <1>5, UpNext
<1>10. StageInv'
  BY <1>5, StageNone
<1> QED BY <1>4, <1>5, <1>8, <1>9, <1>10, KillNext

\* What a store reads when it opens again: its last epoch, of the history.
LEMMA OpenReads ==
    ASSUME TypeInv, KillInv, Open
    PROVE  \E e, f \in Nat :
             /\ OnDisk(hist, Live, Len(Live), Base, acked, e, f)
             /\ OpenEpoch = e /\ Data(Base, Delta) = hist[e + 1] /\ e < Len(hist) /\ acked <= e
<1>1. ~mem.up /\ Live \in Seq(Rec) /\ Kept = Len(Live)
  BY OpenIs DEF Kept
<1>2. PICK e, f \in Nat : OnDisk(hist, Live, Len(Live), Base, acked, e, f)
  BY <1>1 DEF KillInv, DiskInv
<1>3. PICK x : x = hist /\ Datasets(x)
  BY DEF KillInv
<1>4. PICK c, s, b \in Nat :
        /\ RunOf(x, Live, c, s) /\ c <= Len(Live) /\ e = s + (Len(Live) - c) /\ e < Len(x)
        /\ Base = x[b + 1] /\ s <= b /\ b <= e /\ acked <= e
  <2>1. PICK l, k, B, a : l = Live /\ k = Len(Live) /\ B = Base /\ a = acked
    OBVIOUS
  <2>2. OnDisk(x, l, k, B, a, e, f)
    BY <1>2, <1>3, <2>1
  <2>3. \E c, s, b \in Nat :
          /\ RunOf(x, l, c, s) /\ c <= k /\ k <= Len(l) /\ e = s + (k - c) /\ e < Len(x)
          /\ B = x[b + 1] /\ s <= b /\ b <= e /\ a <= e /\ s <= f
    BY <2>2, DiskIs
  <2> QED BY <2>1, <2>3
<1>5. OpenEpoch = e /\ Data(Base, Delta) = x[e + 1]
  BY <1>1, <1>3, <1>4, RunOpens
<1> QED BY <1>2, <1>3, <1>4, <1>5

LEMMA KillOpens ==
    ASSUME TypeInv, KillInv, env' = env, Open
    PROVE  KillInv'
<1>1. /\ ~mem.up /\ merge' = merge /\ acked' = acked /\ Live \in Seq(Rec) /\ Clean \in Dir
      /\ mem' = [ClosedMem EXCEPT !.up = TRUE, !.gen = dir.current, !.epoch = OpenEpoch,
                                  !.base = Base, !.delta = Delta, !.wal = dir.wal,
                                  !.written = Len(Live)]
      /\ dirs' = Changed(Clean)
      /\ logs' = [logs EXCEPT ![1 - dir.wal] =
                     IF \E d \in Range(dirs) : d.wal # dir.wal THEN @ ELSE EmptyLog]
      /\ hist' = Append(Prefix(hist, OpenEpoch), Data(Base, Delta))
  BY OpenIs
<1>2. PICK e, f \in Nat :
         /\ OnDisk(hist, Live, Len(Live), Base, acked, e, f)
         /\ OpenEpoch = e /\ Data(Base, Delta) = hist[e + 1] /\ e < Len(hist)
  BY OpenReads
<1>w. PICK w \in Seq(Rec) : w = Live
  BY <1>1
<1>x. PICK x, B, a : x = hist /\ B = Base /\ a = acked
  OBVIOUS
<1>3. x = hist /\ B = Base /\ a = acked /\ w = Live
  BY <1>w, <1>x
<1>4. Datasets(x)
  BY <1>3 DEF KillInv
<1>5. PICK y : y = Append(Prefix(x, e), x[e + 1]) /\ hist' = y
  BY <1>1, <1>2, <1>3
<1>6. Agree(x, y, e) /\ Datasets(y)
  <2>1. PICK z : z = Prefix(x, e) /\ IsSeq(z) /\ Len(z) = e /\ \A i \in 1 .. e : z[i] = x[i]
    BY SubSeqIsSeq
  <2>2. /\ Len(Append(z, x[e + 1])) = Len(z) + 1 /\ Append(z, x[e + 1])[Len(z) + 1] = x[e + 1]
        /\ \A i \in 1 .. Len(z) : Append(z, x[e + 1])[i] = z[i]
    BY ONLY <2>1, AppendIsSeq
  <2>3. Len(y) = e + 1 /\ y[e + 1] = x[e + 1] /\ \A i \in 1 .. e : y[i] = x[i]
    BY <1>5, <2>1, <2>2
  <2>4. \A i \in 1 .. e + 1 : i \in 1 .. e \/ i = e + 1
    OBVIOUS
  <2>5. \A i \in 1 .. e + 1 : y[i] = x[i]
    BY <2>3, <2>4
  <2>6. Len(x) \in Nat /\ e < Len(x) /\ \A i \in 1 .. e + 1 : i \in 1 .. Len(x)
    BY <1>2, <1>3, <1>4 DEF Datasets
  <2>7. Agree(x, y, e)
    BY <2>3, <2>5, <2>6 DEF Agree
  <2>8. Datasets(y)
    BY <1>4, <2>3, <2>5, <2>6 DEF Datasets
  <2> QED BY <2>7, <2>8
<1>7. mem'.up /\ mem'.epoch = e /\ mem'.wal = dir.wal /\ mem'.written = Len(w) /\ ~mem'.poisoned
  BY <1>1, <1>2, <1>3 DEF ClosedMem
<1>8. dir \in Dir /\ dir.wal \in {0, 1} /\ 1 - dir.wal \in {0, 1} /\ 1 - dir.wal # dir.wal
      /\ dir.current \in Gens
  BY Parts DEF Dir
<1>9. Clean.current = dir.current /\ Clean.wal = dir.wal /\ Clean.base[dir.current] = Base
  BY <1>8 DEF Clean, Dir
<1>10. dir' = Clean
  BY <1>1, DirIsNow
<1>11. Live' = w /\ Base' = B /\ Kept' = Len(w)
  <2>1. logs'[dir.wal] = logs[dir.wal]
    BY <1>1, <1>8 DEF TypeInv
  <2> QED BY <1>3, <1>7, <1>9, <1>10, <2>1 DEF Live, Base, Kept
<1>12. merge'.phase = "idle" /\ "idle" \notin Merging
  BY <1>1 DEF TypeInv, IdleMerge, Merging
<1>13. DiskInv'
  <2>1. PICK m : m = Len(w)
    OBVIOUS
  <2>2. OnDisk(x, w, Len(w), B, a, e, f)
    BY <1>2, <1>3
  <2>3. OnDisk(y, w, Len(w), B, a, e, f)
    BY <1>6, <2>2, DiskAgrees
  <2>4. hist' = y /\ Live' = w /\ Kept' = m /\ Base' = B /\ acked' = a /\ mem'.epoch = e
    BY <1>1, <1>3, <1>5, <1>7, <1>11, <2>1
  <2> QED BY <1>12, <2>1, <2>3, <2>4, DiskNext
<1>14. UpInv'
  BY <1>7, <1>9, <1>10, <1>12, UpNext
<1>15. StageInv'
  BY <1>12, StageNone
<1> QED BY <1>5, <1>6, <1>13, <1>14, <1>15, KillNext

LEMMA InitKill == Init => KillInv
<1> SUFFICES ASSUME Init PROVE KillInv
  OBVIOUS
<1>1. TypeInv
  BY InitTypes
<1>2. PICK B \in SUBSET Quads : \E d :
         /\ d = [current |-> 0, wal |-> 0, base |-> [g \in Gens |-> IF g = 0 THEN B ELSE Absent]]
         /\ dirs = <<d>> /\ hist = <<B>>
  BY DEF Init
<1>3. PICK d :
         /\ d = [current |-> 0, wal |-> 0, base |-> [g \in Gens |-> IF g = 0 THEN B ELSE Absent]]
         /\ dirs = <<d>> /\ hist = <<B>>
  BY <1>2
<1>4. /\ ~mem.up /\ merge.phase = "idle" /\ acked = 0
      /\ logs = [i \in {0, 1} |-> EmptyLog]
  BY DEF Init, ClosedMem, IdleMerge
<1>5. "idle" \notin Merging /\ Staging \subseteq Merging /\ {"started", "building"} \subseteq Merging
  BY DEF Merging, Staging
<1>6. dir = d /\ Len(hist) = 1 /\ hist[1] = B
  BY <1>3 DEF dir
<1>7. Base = B
  <2>1. 0 \in Gens
    BY <1>1, Parts DEF Gens
  <2> QED BY <1>3, <1>6, <2>1 DEF Base
<1>8. Live = <<>> /\ Kept = 0 /\ Len(Live) = 0
  <2>1. Live = <<>>
    BY <1>3, <1>4, <1>6 DEF Live, EmptyLog
  <2> QED BY <1>4, <2>1 DEF Kept
<1>9. Datasets(hist)
  BY <1>3, <1>6 DEF Datasets
<1>10. DiskInv
  <2>1. RunOf(hist, Live, 0, 0)
    BY <1>8 DEF RunOf
  <2>2. OnDisk(hist, Live, Kept, Base, acked, 0, 0)
    BY <1>4, <1>6, <1>7, <1>8, <2>1 DEF OnDisk
  <2> QED BY <1>4, <1>5, <2>2 DEF DiskInv
<1>11. UpInv /\ StageInv
  BY <1>4, <1>5 DEF UpInv, StageInv, Copies
<1> QED BY <1>9, <1>10, <1>11 DEF KillInv

LEMMA KillSteps == TypeInv /\ ReadInv /\ DirInv /\ KillInv /\ KillsOnly /\ [Next]_vars => KillInv'
<1>1. ASSUME TypeInv, ReadInv, DirInv, KillInv, KillsOnly, Next PROVE KillInv'
  <2>1. env' = env
    BY <1>1 DEF Next
  <2>2. ~PowerLoss /\ ~FlipFails /\ ~ActivateFails
    BY <1>1 DEF KillsOnly, PowerLoss, FlipFails, ActivateFails
  <2>3. CASE \E dels, adds \in SUBSET Quads : WriteTx(dels, adds)
    BY <1>1, <2>1, <2>3, KillWrite
  <2>4. CASE \E strict \in BOOLEAN : GroupDone(strict)
    BY <1>1, <2>1, <2>4, KillDone
  <2>5. CASE \E g \in Gens : Sweep(g)
    BY <1>1, <2>1, <2>5, KillSweep
  <2>6. CASE GroupFails \/ GroupStuck \/ EndDrain \/ MergeAbort
    BY <1>1, <2>1, <2>6, KillFails, KillStops
  <2>7. CASE MergeStart \/ BuildBegin \/ BuildDone \/ ShadowPass \/ SwapTail
    BY <1>1, <2>1, <2>7, KillStart, KillBuilds, KillCopies
  <2>8. CASE Flip \/ FlipSync \/ Rename \/ Activate
    BY <1>1, <2>1, <2>8, KillFlips, KillActivates
  <2>9. CASE Kill \/ Open
    BY <1>1, <2>1, <2>9, KillKills, KillOpens
  <2> QED BY <1>1, <2>2, <2>3, <2>4, <2>5, <2>6, <2>7, <2>8, <2>9 DEF Next
<1>2. ASSUME KillInv, UNCHANGED vars PROVE KillInv'
  <2>1. /\ dirs' = dirs /\ logs' = logs /\ mem' = mem /\ merge' = merge /\ hist' = hist
        /\ acked' = acked /\ env' = env
    BY <1>2 DEF vars
  <2>2. Quads' = Quads /\ dir' = dir /\ stage' = stage /\ new_gen' = new_gen
    BY <2>1 DEF Quads, dir, stage, new_gen
  <2>3. Live' = Live /\ Base' = Base /\ Kept' = Kept /\ StageRecs' = StageRecs
    BY <2>1, <2>2 DEF Live, Base, Kept, StageRecs
  <2>4. Datasets(hist)' /\ UpInv'
    BY <1>2, <2>1, <2>2 DEF KillInv, Datasets, UpInv
  <2>5. DiskInv'
    <3>1. PICK e, f \in Nat : /\ OnDisk(hist, Live, Kept, Base, acked, e, f)
                              /\ mem.up => e = mem.epoch
                              /\ merge.phase \in Merging => f = merge.f
      BY <1>2 DEF KillInv, DiskInv
    <3>2. PICK x, w, n, B, a :
            x = hist /\ w = Live /\ n = Kept /\ B = Base /\ a = acked
      OBVIOUS
    <3> QED BY <2>1, <2>3, <3>1, <3>2, DiskNext
  <2>6. StageInv'
    <3>1. PICK x, phase, d, e, f, h, m, r, b, D :
            /\ x = hist /\ phase = merge.phase /\ d = mem.delta /\ e = mem.epoch /\ f = merge.f
            /\ h = merge.header /\ m = merge.mark /\ r = StageRecs /\ b = dir.base[new_gen]
            /\ D = merge.data
      OBVIOUS
    <3>2. Copies(x, phase, d, e, f, h, m, r, b, D)
      BY <1>2, <3>1 DEF KillInv, StageInv
    <3> QED BY <2>1, <2>2, <2>3, <3>1, <3>2, StageNext
  <2> QED BY <2>4, <2>5, <2>6 DEF KillInv
<1> QED BY <1>1, <1>2

\* What the reopened handle serves, and the epoch it reports.
LEMMA KillRecovers ==
    ASSUME TypeInv, KillInv, Next, Recovers
    PROVE  /\ mem'.epoch \in Nat /\ mem'.epoch < Len(hist) /\ acked <= mem'.epoch
           /\ Recovered = hist[mem'.epoch + 1] /\ Recovered \in Range(hist)
<1>1. Open
  <2>1. ~mem.up /\ mem'.up
    BY DEF Recovers
  <2>2. ~Kill /\ ~PowerLoss
    BY <2>1 DEF Kill, PowerLoss, ClosedMem
  <2>3. CASE \E dels, adds \in SUBSET Quads : WriteTx(dels, adds)
    BY <2>1, <2>3 DEF WriteTx, CanCommit
  <2>4. CASE \E strict \in BOOLEAN : GroupDone(strict)
    BY <2>1, <2>4 DEF GroupDone, CanCommit
  <2>5. CASE \E g \in Gens : Sweep(g)
    BY <2>1, <2>5 DEF Sweep
  <2>6. CASE GroupFails \/ GroupStuck \/ MergeStart
    BY <2>1, <2>6 DEF GroupFails, GroupStuck, CanCommit, MergeStart
  <2>7. merge.phase = "idle"
    BY <2>1, MergeIsUp
  <2>8. CASE BuildBegin \/ BuildDone \/ ShadowPass \/ SwapTail \/ Flip \/ FlipSync \/ FlipFails
    BY <2>7, <2>8 DEF BuildBegin, BuildDone, ShadowPass, SwapTail, Flip, FlipSync, FlipFails
  <2>9. CASE Rename \/ Activate \/ ActivateFails \/ EndDrain \/ MergeAbort
    BY <2>7, <2>9 DEF Rename, Activate, ActivateFails, EndDrain, MergeAbort
  <2> QED BY <2>2, <2>3, <2>4, <2>5, <2>6, <2>8, <2>9 DEF Next
<1>2. PICK e, f \in Nat :
        /\ OpenEpoch = e /\ Data(Base, Delta) = hist[e + 1] /\ e < Len(hist) /\ acked <= e
  BY <1>1, OpenReads
<1>3. mem' = [ClosedMem EXCEPT !.up = TRUE, !.gen = dir.current, !.epoch = OpenEpoch,
                               !.base = Base, !.delta = Delta, !.wal = dir.wal,
                               !.written = Len(Live)]
  BY <1>1, OpenIs
<1>4. mem'.epoch = OpenEpoch /\ mem'.base = Base /\ mem'.delta = Delta
  BY <1>3 DEF ClosedMem
<1>5. Recovered = hist[e + 1]
  BY <1>2, <1>4 DEF Recovered
<1>6. hist[e + 1] \in Range(hist)
  <2>1. DOMAIN hist = 1 .. Len(hist) /\ Len(hist) \in Nat
    BY DEF TypeInv, IsSeq
  <2>2. e + 1 \in DOMAIN hist
    BY <1>2, <2>1
  <2> QED BY <2>2 DEF Range
<1> QED BY <1>2, <1>4, <1>5, <1>6

KillIInv == TypeInv /\ ReadInv /\ (KillsOnly => DirInv /\ KillInv)

LEMMA KillInduction == (Init => KillIInv) /\ (KillIInv /\ [Next]_vars => KillIInv')
<1>1. Init => KillIInv
  BY InitTypes, InitReads, InitDirs, InitKill DEF KillIInv
<1>2. ASSUME KillIInv, [Next]_vars PROVE KillIInv'
  <2>1. env' = env
    BY <1>2 DEF Next, vars
  <2>2. KillsOnly' = KillsOnly
    BY <2>1 DEF KillsOnly, Crashes, Faults
  <2>3. KillsOnly => "flip" \notin Faults
    BY DEF KillsOnly
  <2>4. TypeInv /\ ReadInv /\ (KillsOnly => DirInv /\ KillInv)
    BY <1>2 DEF KillIInv
  <2>5. TypeInv' /\ ReadInv'
    BY <1>2, <2>4, ReadSteps
  <2>6. KillsOnly => DirInv' /\ KillInv'
    BY <1>2, <2>3, <2>4, DirSteps, KillSteps
  <2> QED BY <2>2, <2>5, <2>6 DEF KillIInv
<1> QED BY <1>1, <1>2

\* When processes die and the machine stays up, the store that reopens serves
\* exactly the dataset of the epoch it reports, whatever the moment of the
\* death: within a group, while a log is staged, between the flip of CURRENT
\* and the rename of the log (open_with, replay, activate_rotated).
THEOREM KillsRecoverExactly == Spec /\ KillsOnly => RecoveryExact
<1>1. Init => KillIInv
  BY KillInduction
<1>2. KillIInv /\ [Next]_vars => KillIInv'
  BY KillInduction
<1>3. [Next]_vars => (KillsOnly' <=> KillsOnly)
  BY DEF Next, vars, KillsOnly, Crashes, Faults
<1>4. ASSUME KillIInv, KillsOnly, [Next]_vars
      PROVE  [Recovers => /\ Recovered \in Range(hist)
                          /\ KillsOnly => /\ mem'.epoch < Len(hist)
                                          /\ Recovered = hist[mem'.epoch + 1]]_vars
  <2>1. TypeInv /\ KillInv
    BY <1>4 DEF KillIInv
  <2> QED BY <1>4, <2>1, KillRecovers
<1> QED BY <1>1, <1>2, <1>3, <1>4, PTL DEF Spec, RecoveryExact

\* No kill takes back a commit acknowledged as Strict, whichever log holds it
\* by then: the one it was written to, or the one a rotation copied it into or
\* folded it behind (commit_group, shadow_pass, activate_rotated).
THEOREM KillsKeepStrict == Spec /\ KillsOnly => StrictKept
<1>1. Init => KillIInv
  BY KillInduction
<1>2. KillIInv /\ [Next]_vars => KillIInv'
  BY KillInduction
<1>3. [Next]_vars => (KillsOnly' <=> KillsOnly)
  BY DEF Next, vars, KillsOnly, Crashes, Faults
<1>4. ASSUME KillIInv, KillsOnly, [Next]_vars
      PROVE  [Recovers /\ (KillsOnly \/ (dir.wal = 0 /\ dir.current <= 1))
                => mem'.epoch >= acked]_vars
  <2>1. TypeInv /\ KillInv
    BY <1>4 DEF KillIInv
  <2>2. ASSUME Next, Recovers PROVE mem'.epoch >= acked
    <3>1. mem'.epoch \in Nat /\ acked <= mem'.epoch /\ acked \in Nat
      BY <2>1, <2>2, KillRecovers DEF TypeInv
    <3> QED BY <3>1
  <2> QED BY <1>4, <2>2
<1> QED BY <1>1, <1>2, <1>3, <1>4, PTL DEF Spec, StrictKept

=============================================================================
