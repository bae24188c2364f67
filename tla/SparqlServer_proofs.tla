------------------------ MODULE SparqlServer_proofs ------------------------
(***************************************************************************)
(* A cached plan fits the snapshot it runs on and a 304 is true, for any   *)
(* clients, requests and folds.                                            *)
(***************************************************************************)
EXTENDS SparqlServer, FunctionTheorems, SequenceTheorems, FiniteSetTheorems, TLAPS

-----------------------------------------------------------------------------
(* Dictionaries: sequences of names without repetition.                    *)

IsDict(s) == s \in Seq(Names(s)) /\ \A i, j \in 1..Len(s) : s[i] = s[j] => i = j
Extends(s, t) == Len(s) <= Len(t) /\ \A i \in 1..Len(s) : t[i] = s[i]

LEMMA DictSize == ASSUME NEW s, IsDict(s) PROVE IsFiniteSet(Names(s)) /\ Cardinality(Names(s)) = Len(s)
<1>1. Len(s) \in Nat /\ s \in [1..Len(s) -> Names(s)]
  BY LenProperties DEF IsDict
<1>2. s \in Injection(1..Len(s), Names(s)) /\ s \in Surjection(1..Len(s), Names(s))
  <2>1. \A n \in Names(s) : \E i \in 1..Len(s) : s[i] = n
    BY DEF Names
  <2> QED BY <1>1, <2>1, Fun_IsInj, Fun_IsSurj DEF IsDict
<1>3. IsFiniteSet(1..Len(s)) /\ Cardinality(1..Len(s)) = Len(s)
  BY <1>1, FS_Interval
<1> QED BY <1>2, <1>3, FS_Surjection

\* An order of a finite set is a dictionary of exactly its names.
LEMMA OrdersAreDicts ==
    ASSUME NEW S, IsFiniteSet(S), NEW s \in Orders(S)
    PROVE  IsDict(s) /\ Names(s) = S
<1> DEFINE n == Cardinality(S)
<1>1. n \in Nat /\ s \in [1..n -> S] /\ \A i, j \in DOMAIN s : s[i] = s[j] => i = j
  BY FS_CardinalityType DEF Orders
<1> HIDE DEF n
<1>2. s \in Seq(S) /\ Len(s) = n /\ DOMAIN s = 1..n
  <2>1. s \in Seq(S)
    BY <1>1, SeqDef
  <2> QED BY <1>1, <2>1, LenProperties
<1>3. s \in Injection(1..n, S)
  BY <1>1, <1>2, Fun_IsInj
<1>4. s \in Surjection(1..n, S)
  <2>1. IsFiniteSet(1..n) /\ Cardinality(1..n) = n
    BY <1>1, FS_Interval
  <2> QED BY <1>3, <2>1, FS_Injection DEF n
<1>5. Names(s) = S
  BY <1>1, <1>2, <1>4, Fun_SurjectionProperties DEF Names
<1> QED BY <1>1, <1>2, <1>5 DEF IsDict

\* A dictionary that starts with another and has its names extends it.
LEMMA StartsExtend ==
    ASSUME NEW s, NEW t, IsDict(s), IsDict(t), Names(s) \subseteq Names(t), SubSeq(t, 1, Len(s)) = s
    PROVE  Extends(s, t)
<1>1. Len(s) \in Nat /\ Len(t) \in Nat
  BY LenProperties DEF IsDict
<1>2. \A i \in 1..Len(s) : SubSeq(t, 1, Len(s))[i] = t[i]
  <2>1. SubSeq(t, 1, Len(s)) = [i \in 1..Len(s) |-> t[i]]
    BY <1>1
  <2> QED BY <2>1
<1>3. Len(s) <= Len(t)
  <2>1. Cardinality(Names(s)) <= Cardinality(Names(t))
    BY DictSize, FS_Subset
  <2> QED BY <2>1, DictSize
<1> QED BY <1>1, <1>2, <1>3 DEF Extends

\* A name's column is where it stands, and is kept by an extension.
LEMMA ColumnStands ==
    ASSUME NEW s, IsDict(s), NEW n
    PROVE  IF n \in Names(s) THEN Column(s, n) \in 1..Len(s) /\ s[Column(s, n)] = n ELSE Column(s, n) = 0
  BY DEF Column, Names

LEMMA ColumnKept ==
    ASSUME NEW s, NEW t, IsDict(s), IsDict(t), Extends(s, t), NEW n, Column(s, n) # 0
    PROVE  Column(t, n) = Column(s, n)
<1>1. Column(s, n) \in 1..Len(s) /\ s[Column(s, n)] = n
  BY ColumnStands
<1>2. Len(s) \in Nat /\ Len(t) \in Nat
  BY LenProperties DEF IsDict
<1>3. Column(s, n) \in 1..Len(t) /\ t[Column(s, n)] = n
  BY <1>1, <1>2 DEF Extends
<1>4. n \in Names(t)
  BY <1>3 DEF Names
<1>5. Column(t, n) \in 1..Len(t) /\ t[Column(t, n)] = n
  BY <1>4, ColumnStands
<1> QED BY <1>3, <1>5 DEF IsDict

LEMMA NamesKept ==
    ASSUME NEW s, NEW t, IsDict(s), IsDict(t), Extends(s, t)
    PROVE  Names(s) \subseteq Names(t)
<1>1. Len(s) \in Nat /\ Len(t) \in Nat
  BY LenProperties DEF IsDict
<1> QED BY <1>1 DEF Extends, Names

-----------------------------------------------------------------------------
(* The invariant.  Commits are numbered by epochs, so there is a history h *)
(* of datasets that every snapshot, cached plan and validator is about.    *)

StoreInv ==
    /\ delta \in Nat \ {0} /\ epoch \in Nat /\ base \in Nat
    /\ IsFiniteSet(quads)
    /\ dict \in Seq(Names(dict)) /\ Len(dict) = delta
    /\ \A d \in 1..delta : IsDict(dict[d])
    /\ GraphsIn(quads) \subseteq Names(dict[delta])

Fits(col, s, n, qs) == IF col = 0 THEN n \notin GraphsIn(qs) ELSE col = Column(s, n)

\* A snapshot is of its epoch, and its dictionary has its graphs.
ViewFits(h, v) ==
    /\ v.delta \in 1..delta /\ v.epoch \in 0..epoch
    /\ v.quads = h[v.epoch]
    /\ GraphsIn(v.quads) \subseteq Names(dict[v.delta])

\* The body a client keeps is the answer over the epoch of its validator.
Kept(h, k) ==
    /\ k.req.kind = "query"
    /\ \E g, s : \E n \in 0..epoch :
         /\ k.etag = <<g, n>>
         /\ IsDict(s) /\ GraphsIn(h[n]) \subseteq Names(s)
         /\ k.body = AnswerOf([quads |-> h[n], graphs |-> s], k.req)

Live(k) == k.pc \in {"plan", "eval"} \/ (k.pc = "done" /\ k.status = 304)
ClientFits(h, c, k) ==
    /\ DOMAIN k = DOMAIN Idle
    /\ k.pc \in {"idle", "snap", "plan", "eval", "read", "commit", "done"}
    /\ Live(k) => ViewFits(h, k.view)
    /\ k.pc # "idle" => k.req \in Request[c]
    /\ k.pc \in {"snap", "plan", "eval"} => k.req.kind = "query"
    /\ k.pc \in {"read", "commit"} => k.req.kind # "query"
    /\ k.pc = "commit" => /\ IsFiniteSet(k.plan.adds)
                          /\ k.req.kind # "update" => k.plan.status # 304
    /\ k.pc = "eval" => \A n \in k.req.names : Fits(k.plan[n], dict[k.view.delta], n, k.view.quads)
    /\ k.pc = "done" /\ k.status = 304 => k.etag = Etag(k.view)
    /\ k.etag # <<>> => Kept(h, k)

EntryFits(h, e) ==
    \E d \in 1..delta, n \in 0..epoch : \E g, id :
        /\ e.key = <<d, g, n, id>>
        /\ \A c \in Client : \A r \in Request[c] :
             r.kind = "query" /\ r.id = id =>
                 \A x \in r.names : Fits(e.columns[x], dict[d], x, h[n])

History(h) ==
    /\ h[epoch] = quads
    /\ \A e \in cache : EntryFits(h, e)
    /\ DOMAIN client = Client
    /\ \A c \in Client : ClientFits(h, c, client[c])

PlanInv == StoreInv /\ \E h : History(h)

-----------------------------------------------------------------------------
(* What a growing store keeps.                                             *)

\* Epochs and deltas only get more, dictionaries longer, and h is g so far.
Grown(h, g) ==
    /\ epoch' \in Nat /\ epoch <= epoch' /\ delta' \in Nat /\ delta <= delta'
    /\ \A d \in 1..delta : IsDict(dict'[d]) /\ Extends(dict[d], dict'[d])
    /\ \A n \in 0..epoch : g[n] = h[n]

LEMMA FitsKept ==
    ASSUME NEW s, NEW t, IsDict(s), IsDict(t), Extends(s, t), NEW col, NEW n, NEW qs, Fits(col, s, n, qs)
    PROVE  Fits(col, t, n, qs)
BY ColumnKept DEF Fits

LEMMA ViewKept ==
    ASSUME StoreInv, NEW h, NEW g, Grown(h, g), NEW v, ViewFits(h, v)
    PROVE  ViewFits(g, v)'
<1>1. v.delta \in 1..delta' /\ v.epoch \in 0..epoch' /\ g[v.epoch] = h[v.epoch]
  BY DEF StoreInv, Grown, ViewFits
<1>2. Names(dict[v.delta]) \subseteq Names(dict'[v.delta])
  BY NamesKept DEF StoreInv, Grown, ViewFits
<1> QED BY <1>1, <1>2 DEF ViewFits

LEMMA EntryKept ==
    ASSUME StoreInv, NEW h, NEW g, Grown(h, g), NEW e, EntryFits(h, e)
    PROVE  EntryFits(g, e)'
<1>1. PICK d \in 1..delta, n \in 0..epoch : \E i, id :
        /\ e.key = <<d, i, n, id>>
        /\ \A c \in Client : \A r \in Request[c] :
             r.kind = "query" /\ r.id = id =>
                 \A x \in r.names : Fits(e.columns[x], dict[d], x, h[n])
  BY DEF EntryFits
<1>2. d \in 1..delta' /\ n \in 0..epoch' /\ g[n] = h[n]
  BY DEF StoreInv, Grown
<1>3. IsDict(dict[d]) /\ IsDict(dict'[d]) /\ Extends(dict[d], dict'[d])
  BY DEF StoreInv, Grown
<1>4. \A x, col : Fits(col, dict[d], x, h[n]) => Fits(col, dict'[d], x, g[n])
  BY <1>2, <1>3, FitsKept
<1> QED BY <1>1, <1>2, <1>4 DEF EntryFits

LEMMA KeptKept ==
    ASSUME StoreInv, NEW h, NEW g, Grown(h, g), NEW k, Kept(h, k)
    PROVE  Kept(g, k)'
<1>1. \A n \in 0..epoch : n \in 0..epoch' /\ g[n] = h[n]
  BY DEF StoreInv, Grown
<1> QED BY <1>1 DEF Kept

LEMMA ClientKept ==
    ASSUME StoreInv, NEW h, NEW g, Grown(h, g), NEW c, NEW k, ClientFits(h, c, k)
    PROVE  ClientFits(g, c, k)'
<1>1. Live(k) => ViewFits(g, k.view)'
  BY ViewKept DEF ClientFits
<1>2. k.etag # <<>> => Kept(g, k)'
  BY KeptKept DEF ClientFits
<1>3. ASSUME k.pc = "eval", NEW n \in k.req.names
      PROVE  Fits(k.plan[n], dict'[k.view.delta], n, k.view.quads)
  <2>1. k.view.delta \in 1..delta
    BY <1>3 DEF ClientFits, Live, ViewFits
  <2>2. /\ IsDict(dict[k.view.delta]) /\ IsDict(dict'[k.view.delta])
        /\ Extends(dict[k.view.delta], dict'[k.view.delta])
    BY <2>1 DEF StoreInv, Grown
  <2> QED BY <1>3, <2>2, FitsKept DEF ClientFits
<1> QED BY <1>1, <1>2, <1>3 DEF ClientFits

-----------------------------------------------------------------------------
(* The steps of one client over an unchanged store.                        *)

Quiet == UNCHANGED <<quads, delta, epoch, dict, base>>

LEMMA QuietStore ==
    ASSUME StoreInv, Quiet
    PROVE  StoreInv' /\ \A h : Grown(h, h)
<1>1. StoreInv'
  BY DEF StoreInv, Quiet
<1>2. \A d \in 1..delta : Extends(dict[d], dict[d])
  BY LenProperties DEF StoreInv, IsDict, Extends
<1> QED BY <1>1, <1>2 DEF StoreInv, Quiet, Grown

\* A store that grows keeps what is said of everybody but the client that
\* stepped.
LEMMA OthersKept ==
    ASSUME StoreInv, NEW h, NEW g, History(h), Grown(h, g), g[epoch'] = quads',
           \A e \in cache' : e \in cache \/ EntryFits(g, e)',
           NEW c \in Client, NEW k, client' = [client EXCEPT ![c] = k], ClientFits(g, c, k)'
    PROVE  History(g)'
<1>1. DOMAIN client' = Client /\ client'[c] = k /\ \A d \in Client : d # c => client'[d] = client[d]
  BY DEF History
<1>2. \A e \in cache' : EntryFits(g, e)'
  BY EntryKept DEF History
<1>3. ASSUME NEW d \in Client PROVE ClientFits(g, d, client[d])'
  <2>1. CASE d = c
    BY <1>1, <2>1
  <2>2. CASE d # c
    <3>1. \A x : ClientFits(h, d, x) => ClientFits(g, d, x)'
      BY ClientKept
    <3>2. ClientFits(h, d, client[d]) /\ client'[d] = client[d]
      BY <1>1, <2>2 DEF History
    <3>3. \A x : x = client'[d] => ClientFits(g, d, x)'
      BY <3>1, <3>2
    <3> QED BY <3>3
  <2> QED BY <2>1, <2>2
<1> QED BY <1>1, <1>2, <1>3 DEF History

LEMMA OneClient ==
    ASSUME StoreInv, NEW h, History(h), Quiet, cache' = cache,
           NEW c \in Client, NEW k, client' = [client EXCEPT ![c] = k], ClientFits(h, c, k)
    PROVE  PlanInv'
<1>1. StoreInv' /\ Grown(h, h)
  BY QuietStore
<1>2. ClientFits(h, c, k)'
  BY <1>1, ClientKept
<1>3. h[epoch'] = quads'
  BY DEF History, Quiet
<1>4. History(h)'
  BY <1>1, <1>2, <1>3, OthersKept
<1> QED BY <1>1, <1>4 DEF PlanInv

\* What Reply leaves of a request.
LEMMA ReplyParts ==
    ASSUME NEW k, DOMAIN k = DOMAIN Idle, NEW c, NEW status, Reply(c, k, status)
    PROVE  \E f : /\ client' = [client EXCEPT ![c] = f]
                  /\ DOMAIN f = DOMAIN Idle
                  /\ f.pc = "done" /\ f.status = status
                  /\ f.req = k.req /\ f.etag = k.etag /\ f.body = k.body
                  /\ status = 304 => f.view = k.view
<1> DEFINE f == [k EXCEPT !.pc = "done", !.status = status, !.plan = NoPlan, !.seen = 0, !.ordinal = 0,
                          !.view = IF status = 304 THEN @ ELSE NoView]
<1>1. client' = [client EXCEPT ![c] = f]
  BY DEF Reply, Set
<1>2. /\ DOMAIN f = DOMAIN Idle /\ f.pc = "done" /\ f.status = status
      /\ f.req = k.req /\ f.etag = k.etag /\ f.body = k.body /\ (status = 304 => f.view = k.view)
  BY DEF Idle
<1> HIDE DEF f
<1> QED BY <1>1, <1>2

LEMMA KeptAlike ==
    ASSUME NEW h, NEW c, NEW k, NEW f, ClientFits(h, c, k), f.req = k.req, f.etag = k.etag, f.body = k.body
    PROVE  f.etag # <<>> => Kept(h, f)
<1>1. k.etag # <<>> => Kept(h, k)
  BY DEF ClientFits
<1>2. Kept(h, k) => Kept(h, f)
  BY DEF Kept
<1> QED BY <1>1, <1>2

LEMMA SendKeeps ==
    ASSUME StoreInv, NEW h, History(h), NEW c \in Client, NEW r \in Request[c], Send(c, r)
    PROVE  PlanInv'
<1>1. PICK k : k = client[c]
  OBVIOUS
<1>2. ClientFits(h, c, k)
  BY <1>1 DEF History
<1>3. PICK f : f = [k EXCEPT !.pc = IF r.kind = "query" THEN "snap" ELSE "read",
                             !.req = r, !.at = 1, !.status = 0, !.view = NoView,
                             !.etag = IF k.req = r THEN @ ELSE <<>>,
                             !.body = IF k.req = r THEN @ ELSE {}]
  OBVIOUS
<1>4. client' = [client EXCEPT ![c] = f]
  BY <1>1, <1>3 DEF Send, Set
<1>5. /\ DOMAIN f = DOMAIN Idle
      /\ f.pc = (IF r.kind = "query" THEN "snap" ELSE "read") /\ f.req = r
      /\ f.etag = (IF k.req = r THEN k.etag ELSE <<>>)
      /\ f.body = (IF k.req = r THEN k.body ELSE {})
  BY <1>2, <1>3 DEF ClientFits, Idle
<1>6. f.etag # <<>> => Kept(h, f)
  BY <1>2, <1>5 DEF ClientFits, Kept
<1>7. ClientFits(h, c, f)
  BY <1>5, <1>6 DEF ClientFits, Live
<1> QED BY <1>4, <1>7, OneClient DEF Send, Quiet

\* The published snapshot is the history's last.
LEMMA PublishedFits == ASSUME StoreInv, NEW h, History(h) PROVE ViewFits(h, Published)
BY DEF StoreInv, History, ViewFits, Published

LEMMA SnapKeeps ==
    ASSUME StoreInv, NEW h, History(h), NEW c \in Client, Snap(c)
    PROVE  PlanInv'
<1>1. PICK k : k = client[c]
  OBVIOUS
<1>2. ClientFits(h, c, k) /\ k.pc = "snap"
  BY <1>1 DEF History, Snap
<1>3. PICK p : p = Published
  OBVIOUS
<1>4. ViewFits(h, p)
  BY <1>3, PublishedFits
<1>5. CASE k.etag = Etag(p)
  <2> DEFINE q == [k EXCEPT !.view = p]
  <2>1. DOMAIN q = DOMAIN Idle /\ q.view = p /\ q.req = k.req /\ q.etag = k.etag /\ q.body = k.body
    BY <1>2 DEF ClientFits, Idle
  <2>2. Reply(c, q, 304)
    BY <1>1, <1>3, <1>5 DEF Snap
  <2> HIDE DEF q
  <2>3. PICK f : /\ client' = [client EXCEPT ![c] = f]
                 /\ DOMAIN f = DOMAIN Idle /\ f.pc = "done" /\ f.status = 304
                 /\ f.req = k.req /\ f.etag = k.etag /\ f.body = k.body /\ f.view = p
    BY <2>1, <2>2, ReplyParts
  <2>4. f.etag # <<>> => Kept(h, f)
    BY <1>2, <2>3, KeptAlike
  <2>5. ClientFits(h, c, f)
    BY <1>2, <1>4, <1>5, <2>3, <2>4 DEF ClientFits, Live
  <2> QED BY <2>3, <2>5, OneClient DEF Snap, Quiet
<1>6. CASE k.etag # Etag(p)
  <2>1. PICK f : f = [k EXCEPT !.pc = "plan", !.view = p]
    OBVIOUS
  <2>2. client' = [client EXCEPT ![c] = f]
    BY <1>1, <1>3, <1>6, <2>1 DEF Snap, Set
  <2>3. /\ DOMAIN f = DOMAIN Idle /\ f.pc = "plan" /\ f.view = p
        /\ f.req = k.req /\ f.etag = k.etag /\ f.body = k.body
    BY <1>2, <2>1 DEF ClientFits, Idle
  <2>4. f.etag # <<>> => Kept(h, f)
    BY <1>2, <2>3, KeptAlike
  <2>5. ClientFits(h, c, f)
    BY <1>2, <1>4, <2>3, <2>4 DEF ClientFits, Live
  <2> QED BY <2>2, <2>5, OneClient DEF Snap, Quiet
<1> QED BY <1>5, <1>6

-----------------------------------------------------------------------------
(* Planning and evaluating.                                                *)

\* The plan run fits the snapshot, whether it was cached or made now: the key
\* names the dictionary's delta and the epoch.
LEMMA PlanIsFit ==
    ASSUME StoreInv, NEW h, History(h), NEW c \in Client, NEW r \in Request[c], r.kind = "query",
           NEW v, ViewFits(h, v)
    PROVE  \A n \in r.names : Fits(CachedPlan(v, r)[n], dict[v.delta], n, v.quads)
<1> DEFINE hits == {e \in cache : e.key = key(v, r)}
<1>1. CASE hits = {}
  <2>1. CachedPlan(v, r) = [n \in r.names |-> Column(dict[v.delta], n)]
    BY <1>1 DEF CachedPlan, PlanColumns
  <2>2. \A n \in r.names : Fits(Column(dict[v.delta], n), dict[v.delta], n, v.quads)
    BY ColumnStands DEF StoreInv, ViewFits, Fits
  <2> QED BY <2>1, <2>2
<1>2. CASE hits # {}
  <2> DEFINE e == CHOOSE e \in hits : TRUE
  <2>1. e \in cache /\ e.key = key(v, r) /\ CachedPlan(v, r) = e.columns
    <3>1. e \in hits
      BY <1>2
    <3> QED BY <1>2, <3>1 DEF CachedPlan
  <2> HIDE DEF e
  <2>2. PICK d \in 1..delta, n \in 0..epoch : \E g, id :
          /\ e.key = <<d, g, n, id>>
          /\ \A b \in Client : \A s \in Request[b] :
               s.kind = "query" /\ s.id = id => \A x \in s.names : Fits(e.columns[x], dict[d], x, h[n])
    BY <2>1 DEF History, EntryFits
  <2>3. d = v.delta /\ n = v.epoch /\ h[n] = v.quads
    BY <2>1, <2>2 DEF key, ViewFits
  <2> QED BY <2>1, <2>2, <2>3 DEF key
<1> QED BY <1>1, <1>2

LEMMA PlanKeeps ==
    ASSUME StoreInv, NEW h, History(h), NEW c \in Client, plan_cached(c)
    PROVE  PlanInv'
<1>1. PICK k : k = client[c]
  OBVIOUS
<1>2. ClientFits(h, c, k) /\ k.pc = "plan" /\ k.req \in Request[c] /\ k.req.kind = "query" /\ ViewFits(h, k.view)
  BY <1>1 DEF History, plan_cached, ClientFits, Live
<1>3. PICK cols : cols = CachedPlan(k.view, k.req)
  OBVIOUS
<1>4. \A n \in k.req.names : Fits(cols[n], dict[k.view.delta], n, k.view.quads)
  BY <1>2, <1>3, PlanIsFit
<1>5. PICK f : f = [k EXCEPT !.pc = "eval", !.plan = cols]
  OBVIOUS
<1>6. client' = [client EXCEPT ![c] = f]
  BY <1>1, <1>3, <1>5 DEF plan_cached, Set
<1>7. /\ DOMAIN f = DOMAIN Idle /\ f.pc = "eval" /\ f.view = k.view /\ f.plan = cols
      /\ f.req = k.req /\ f.etag = k.etag /\ f.body = k.body
  BY <1>2, <1>5 DEF ClientFits, Idle
<1>8. ClientFits(h, c, f)
  <2>1. f.etag # <<>> => Kept(h, f)
    BY <1>2, <1>7, KeptAlike
  <2> QED BY <1>2, <1>4, <1>7, <2>1 DEF ClientFits, Live
<1>9. StoreInv' /\ Grown(h, h)
  BY QuietStore DEF plan_cached, Quiet
<1>10. PICK e : e = [key |-> key(k.view, k.req), columns |-> cols]
  OBVIOUS
<1>11. \A x \in cache' : x \in cache \/ x = e
  BY <1>1, <1>3, <1>10 DEF plan_cached
<1>12. EntryFits(h, e)'
  <2>1. e.key = <<k.view.delta, k.view.gen, k.view.epoch, k.req.id>> /\ e.columns = cols
    BY <1>10 DEF key
  <2>2. k.view.delta \in 1..delta /\ k.view.epoch \in 0..epoch /\ k.view.quads = h[k.view.epoch]
    BY <1>2 DEF ViewFits
  <2>3. \A b \in Client : \A s \in Request[b] :
          s.kind = "query" /\ s.id = k.req.id => s.names = k.req.names
    BY <1>2, RequestAssumption
  <2>4. EntryFits(h, e)
    BY <1>4, <2>1, <2>2, <2>3 DEF EntryFits
  <2> QED BY <1>9, <2>4, EntryKept
<1>13. \A x \in cache' : x \in cache \/ EntryFits(h, x)'
  <2>1. \A x : x = e => EntryFits(h, x)'
    BY <1>12
  <2> QED BY <1>11, <2>1
<1>14. ClientFits(h, c, f)'
  BY <1>8, <1>9, ClientKept
<1>15. h[epoch'] = quads'
  BY DEF History, plan_cached
<1>16. History(h)'
  BY <1>6, <1>9, <1>13, <1>14, <1>15, OthersKept
<1> QED BY <1>9, <1>16 DEF PlanInv

LEMMA EvaluateKeeps ==
    ASSUME StoreInv, NEW h, History(h), NEW c \in Client, Evaluate(c)
    PROVE  PlanInv'
<1>1. PICK k : k = client[c]
  OBVIOUS
<1>2. ClientFits(h, c, k) /\ k.pc = "eval" /\ k.req \in Request[c] /\ k.req.kind = "query" /\ ViewFits(h, k.view)
  BY <1>1 DEF History, Evaluate, ClientFits, Live
<1>3. PICK body : body = AnswerOf([quads |-> k.view.quads, graphs |-> dict[k.view.delta]], k.req)
  OBVIOUS
<1> DEFINE q == [k EXCEPT !.body = body, !.etag = Etag(k.view)]
<1>4. Reply(c, q, 200)
  BY <1>1, <1>3 DEF Evaluate
<1>5. DOMAIN q = DOMAIN Idle /\ q.req = k.req /\ q.etag = Etag(k.view) /\ q.body = body
  BY <1>2 DEF ClientFits, Idle
<1> HIDE DEF q
<1>6. PICK f : /\ client' = [client EXCEPT ![c] = f]
               /\ DOMAIN f = DOMAIN Idle /\ f.pc = "done" /\ f.status = 200
               /\ f.req = k.req /\ f.etag = Etag(k.view) /\ f.body = body
  BY <1>4, <1>5, ReplyParts
<1>7. Kept(h, f)
  <2>1. /\ k.view.epoch \in 0..epoch /\ k.view.quads = h[k.view.epoch] /\ IsDict(dict[k.view.delta])
        /\ GraphsIn(h[k.view.epoch]) \subseteq Names(dict[k.view.delta])
    BY <1>2 DEF ViewFits, StoreInv
  <2>2. f.etag = <<k.view.gen, k.view.epoch>>
    BY <1>6 DEF Etag
  <2>3. f.body = AnswerOf([quads |-> h[k.view.epoch], graphs |-> dict[k.view.delta]], f.req)
    BY <1>3, <1>6, <2>1
  <2> QED BY <1>2, <1>6, <2>1, <2>2, <2>3 DEF Kept
<1>8. ClientFits(h, c, f)
  BY <1>2, <1>6, <1>7 DEF ClientFits, Live
<1>9. Quiet /\ cache' = cache
  BY DEF Evaluate, Quiet
<1> QED BY <1>6, <1>8, <1>9, OneClient

-----------------------------------------------------------------------------
(* Writes.                                                                 *)

\* Whatever an operation plans over a finite dataset is finite.
PlansFinite ==
    \A qs, s, op, n : LET p == PlanOf([quads |-> qs, graphs |-> s], op, n) IN
        IsFiniteSet(qs) /\ IsDict(s) /\ p.ok => IsFiniteSet(p.adds)

LEMMA ReadKeeps ==
    ASSUME PlansFinite, StoreInv, NEW h, History(h), NEW c \in Client, Read(c)
    PROVE  PlanInv'
<1>1. PICK k : k = client[c]
  OBVIOUS
<1>2. ClientFits(h, c, k) /\ k.pc = "read" /\ k.req \in Request[c] /\ k.req.kind # "query"
  BY <1>1 DEF History, Read, ClientFits
<1>3. PICK v : v = Pinned(k)
  OBVIOUS
<1>4. IsFiniteSet(v.quads) /\ IsDict(dict[v.delta])
  BY <1>3 DEF StoreInv, Pinned, Published
<1>5. PICK next : next = [k EXCEPT !.view = v, !.ordinal = minted]
  OBVIOUS
<1>6. /\ DOMAIN next = DOMAIN Idle
      /\ next.req = k.req /\ next.etag = k.etag /\ next.body = k.body
  BY <1>2, <1>5 DEF ClientFits, Idle
<1>7. PICK p : p = IF k.req.kind = "update"
                   THEN PlanOf([quads |-> v.quads, graphs |-> dict[v.delta]], k.req.ops[k.at], minted)
                   ELSE gsp_plan(v, k.req)
  OBVIOUS
<1>8. k.req.kind # "update" => IsFiniteSet(p.adds) /\ p.status # 304
  <2> SUFFICES ASSUME k.req.kind # "update" PROVE IsFiniteSet(p.adds) /\ p.status # 304
    OBVIOUS
  <2>1. p = gsp_plan(v, k.req)
    BY <1>7
  <2>2. p.adds = k.req.body /\ p.status # 304
    BY <2>1 DEF gsp_plan
  <2> QED BY <1>2, <2>2, RequestAssumption
<1>9. k.req.kind = "update" /\ p.ok => IsFiniteSet(p.adds)
  BY <1>4, <1>7 DEF PlansFinite
<1>10. PICK q : q = [next EXCEPT !.plan = p]
  OBVIOUS
<1>11. DOMAIN q = DOMAIN Idle /\ q.req = k.req /\ q.etag = k.etag /\ q.body = k.body /\ q.plan = p
  BY <1>6, <1>10 DEF Idle
<1>12. \/ Reply(c, q, IF k.req.kind = "update" THEN 500 ELSE p.status)
       \/ /\ client' = [client EXCEPT ![c] = [next EXCEPT !.plan = p, !.pc = "commit"]]
          /\ k.req.kind = "update" => p.ok
  BY <1>1, <1>3, <1>5, <1>7, <1>10 DEF Read, Set
<1>13. CASE Reply(c, q, IF k.req.kind = "update" THEN 500 ELSE p.status)
  <2>1. PICK status : status = (IF k.req.kind = "update" THEN 500 ELSE p.status) /\ Reply(c, q, status)
    BY <1>13
  <2>2. status # 304
    BY <1>8, <2>1
  <2>3. PICK f : /\ client' = [client EXCEPT ![c] = f]
                 /\ DOMAIN f = DOMAIN Idle /\ f.pc = "done" /\ f.status = status
                 /\ f.req = k.req /\ f.etag = k.etag /\ f.body = k.body
    BY <1>11, <2>1, ReplyParts
  <2>4. f.etag # <<>> => Kept(h, f)
    BY <1>2, <2>3, KeptAlike
  <2>5. ClientFits(h, c, f)
    BY <1>2, <2>2, <2>3, <2>4 DEF ClientFits, Live
  <2> QED BY <2>3, <2>5, OneClient DEF Read, Quiet
<1>14. CASE /\ client' = [client EXCEPT ![c] = [next EXCEPT !.plan = p, !.pc = "commit"]]
            /\ k.req.kind = "update" => p.ok
  <2>1. PICK f : f = [next EXCEPT !.plan = p, !.pc = "commit"]
    OBVIOUS
  <2>2. /\ DOMAIN f = DOMAIN Idle /\ f.pc = "commit" /\ f.plan = p
        /\ f.req = k.req /\ f.etag = k.etag /\ f.body = k.body
    BY <1>6, <2>1 DEF Idle
  <2>3. f.etag # <<>> => Kept(h, f)
    BY <1>2, <2>2, KeptAlike
  <2>4. ClientFits(h, c, f)
    BY <1>2, <1>8, <1>9, <1>14, <2>2, <2>3 DEF ClientFits, Live
  <2> QED BY <1>14, <2>1, <2>4, OneClient DEF Read, Quiet
<1> QED BY <1>12, <1>13, <1>14

LEMMA GraphsFinite == ASSUME NEW qs, IsFiniteSet(qs) PROVE IsFiniteSet(GraphsIn(qs))
<1> DEFINE T == {GraphOf(q) : q \in qs}
           f == [q \in qs |-> GraphOf(q)]
<1>1. f \in Surjection(qs, T)
  <2>1. f \in [qs -> T] /\ \A t \in T : \E q \in qs : f[q] = t
    OBVIOUS
  <2> HIDE DEF f, T
  <2> QED BY <2>1, Fun_IsSurj
<1>2. IsFiniteSet(T)
  <2> HIDE DEF f, T
  <2> QED BY <1>1, FS_Surjection
<1>3. GraphsIn(qs) \in SUBSET T
  BY DEF GraphsIn
<1> HIDE DEF T
<1> QED BY <1>2, <1>3, FS_Subset

LEMMA SeqOfNames == ASSUME NEW n \in Nat, NEW s, s \in [1..n -> Names(s)] PROVE s \in Seq(Names(s)) /\ Len(s) = n
<1>1. s \in Seq(Names(s))
  BY SeqDef
<1> QED BY <1>1, LenProperties

LEMMA CommitKeeps ==
    ASSUME StoreInv, NEW h, History(h), NEW c \in Client, Commit(c)
    PROVE  PlanInv'
<1>1. PICK k : k = client[c]
  OBVIOUS
<1>2. /\ ClientFits(h, c, k) /\ k.pc = "commit" /\ k.req \in Request[c]
      /\ IsFiniteSet(k.plan.adds) /\ (k.req.kind # "update" => k.plan.status # 304)
  BY <1>1 DEF History, Commit, ClientFits
<1>3. PICK p : p = k.plan
  OBVIOUS
<1>4. /\ quads' = (quads \ p.dels) \cup p.adds
      /\ \/ epoch' = epoch /\ quads' = quads
         \/ epoch' = epoch + 1
      /\ UNCHANGED <<delta, base, cache>>
  BY <1>1, <1>3 DEF Commit, AfterApply, EpochAfter
<1>5. PICK s \in Interned(p) : dict' = [dict EXCEPT ![delta] = s]
  BY <1>1, <1>3 DEF Commit
<1>6. IsDict(s) /\ Extends(dict[delta], s) /\ Names(s) = Names(dict[delta]) \cup GraphsIn(p.adds)
  <2> DEFINE T == Names(dict[delta]) \cup GraphsIn(p.adds)
  <2>1. s \in Orders(T) /\ SubSeq(s, 1, Len(dict[delta])) = dict[delta]
    BY DEF Interned
  <2>2. IsDict(dict[delta])
    BY DEF StoreInv
  <2>3. IsFiniteSet(Names(dict[delta])) /\ IsFiniteSet(GraphsIn(p.adds))
    BY <1>2, <1>3, <2>2, DictSize, GraphsFinite
  <2>4. IsFiniteSet(T)
    BY <2>3, FS_Union
  <2> HIDE DEF T
  <2>5. IsDict(s) /\ Names(s) = T
    BY <2>1, <2>4, OrdersAreDicts
  <2>6. Extends(dict[delta], s)
    BY <2>1, <2>2, <2>5, StartsExtend DEF T
  <2> QED BY <2>5, <2>6 DEF T
<1>7. /\ DOMAIN dict = 1..delta /\ DOMAIN dict' = 1..delta
      /\ dict'[delta] = s /\ \A d \in 1..delta : d # delta => dict'[d] = dict[d]
  <2>1. DOMAIN dict = 1..delta
    BY LenProperties DEF StoreInv
  <2>2. delta \in 1..delta
    BY DEF StoreInv
  <2> QED BY <1>5, <2>1, <2>2
<1>8. \A d \in 1..delta : IsDict(dict'[d]) /\ Extends(dict[d], dict'[d])
  <2>1. \A d \in 1..delta : Extends(dict[d], dict[d])
    BY QuietStore, LenProperties DEF StoreInv, IsDict, Extends
  <2> QED BY <1>6, <1>7, <2>1 DEF StoreInv
<1>9. dict' \in Seq(Names(dict')) /\ Len(dict') = delta
  <2>1. dict' = [d \in 1..delta |-> dict'[d]]
    BY <1>5, <1>7
  <2>2. \A d \in 1..delta : dict'[d] \in {dict'[i] : i \in 1..delta}
    OBVIOUS
  <2>3. dict' \in Seq({dict'[i] : i \in 1..delta})
    <3>1. dict' \in [1..delta -> {dict'[i] : i \in 1..delta}]
      BY <2>1, <2>2
    <3> QED BY <3>1, SeqDef DEF StoreInv
  <2>4. Len(dict') = delta
    <3>1. Len(dict') \in Nat /\ DOMAIN dict' = 1..Len(dict')
      BY <2>3, LenProperties
    <3>2. \A x : x = Len(dict') => x = delta
      BY <1>7, <3>1 DEF StoreInv
    <3> QED BY <3>2
  <2> QED BY <2>3, <2>4 DEF Names
<1>10. GraphsIn(quads') \subseteq Names(dict'[delta])
  BY <1>4, <1>6, <1>7 DEF StoreInv, GraphsIn
<1>11. IsFiniteSet(quads')
  <2>1. IsFiniteSet(quads \cup p.adds)
    BY <1>2, <1>3, FS_Union DEF StoreInv
  <2>2. quads' \in SUBSET (quads \cup p.adds)
    BY <1>4
  <2> QED BY <2>1, <2>2, FS_Subset
<1>12. StoreInv'
  <2>1. epoch' \in Nat /\ delta' = delta /\ base' = base
    BY <1>4 DEF StoreInv
  <2>2. \A d \in 1..delta : IsDict(dict'[d])
    BY <1>8
  <2> QED BY <1>9, <1>10, <1>11, <2>1, <2>2 DEF StoreInv
<1>13. PICK g : g = [n \in Nat |-> IF n = epoch' THEN quads' ELSE h[n]]
  OBVIOUS
<1>14. Grown(h, g) /\ g[epoch'] = quads'
  <2>1. epoch' \in Nat /\ epoch <= epoch'
    BY <1>4 DEF StoreInv
  <2>2. \A n \in 0..epoch : g[n] = h[n]
    <3>1. h[epoch] = quads /\ epoch \in Nat
      BY DEF StoreInv, History
    <3> SUFFICES ASSUME NEW n \in 0..epoch PROVE g[n] = h[n]
      OBVIOUS
    <3>2. n \in Nat /\ (n = epoch' => n = epoch /\ quads' = quads)
      BY <1>4, <3>1
    <3>3. g[n] = IF n = epoch' THEN quads' ELSE h[n]
      BY <1>13, <3>2
    <3> QED BY <3>1, <3>2, <3>3
  <2>3. g[epoch'] = quads'
    BY <1>13, <2>1
  <2> QED BY <1>4, <1>8, <2>1, <2>2, <2>3 DEF Grown, StoreInv
<1>15. PICK next : next = [k EXCEPT !.at = @ + 1, !.seen = epoch']
  OBVIOUS
<1>16. /\ DOMAIN next = DOMAIN Idle
       /\ next.req = k.req /\ next.etag = k.etag /\ next.body = k.body
  BY <1>2, <1>15 DEF ClientFits, Idle
<1>17. \/ Reply(c, next, IF k.req.kind = "update" THEN 204 ELSE p.status)
       \/ client' = [client EXCEPT ![c] = [next EXCEPT !.pc = "read"]]
  BY <1>1, <1>3, <1>15 DEF Commit, Set
<1>18. \E f : client' = [client EXCEPT ![c] = f] /\ ClientFits(h, c, f)
  <2>1. CASE Reply(c, next, IF k.req.kind = "update" THEN 204 ELSE p.status)
    <3>1. PICK status : status = (IF k.req.kind = "update" THEN 204 ELSE p.status) /\ Reply(c, next, status)
      BY <2>1
    <3>2. status # 304
      BY <1>2, <1>3, <3>1
    <3>3. PICK f : /\ client' = [client EXCEPT ![c] = f]
                   /\ DOMAIN f = DOMAIN Idle /\ f.pc = "done" /\ f.status = status
                   /\ f.req = k.req /\ f.etag = k.etag /\ f.body = k.body
      BY <1>16, <3>1, ReplyParts
    <3>4. f.etag # <<>> => Kept(h, f)
      BY <1>2, <3>3, KeptAlike
    <3> QED BY <1>2, <3>2, <3>3, <3>4 DEF ClientFits, Live
  <2>2. CASE client' = [client EXCEPT ![c] = [next EXCEPT !.pc = "read"]]
    <3>1. PICK f : f = [next EXCEPT !.pc = "read"]
      OBVIOUS
    <3>2. /\ DOMAIN f = DOMAIN Idle /\ f.pc = "read"
          /\ f.req = k.req /\ f.etag = k.etag /\ f.body = k.body
      BY <1>16, <3>1 DEF Idle
    <3>3. f.etag # <<>> => Kept(h, f)
      BY <1>2, <3>2, KeptAlike
    <3>4. ClientFits(h, c, f)
      BY <1>2, <3>2, <3>3 DEF ClientFits, Live
    <3> QED BY <2>2, <3>1, <3>4
  <2> QED BY <1>17, <2>1, <2>2
<1>19. PICK f : client' = [client EXCEPT ![c] = f] /\ ClientFits(h, c, f)
  BY <1>18
<1>20. ClientFits(g, c, f)'
  BY <1>14, <1>19, ClientKept
<1>21. History(g)'
  BY <1>4, <1>14, <1>19, <1>20, OthersKept
<1> QED BY <1>12, <1>21 DEF PlanInv

-----------------------------------------------------------------------------
(* The folds.                                                              *)

LEMMA FoldKeeps ==
    ASSUME StoreInv, NEW h, History(h), NEW newGen, NEW kept, IsFiniteSet(Names(kept)), Fold(newGen, kept),
           base' \in Nat \/ base' = Len(dict'[delta'])
    PROVE  PlanInv'
<1>1. PICK s \in Orders(GraphsIn(quads) \cup Names(kept)) : dict' = Append(dict, s)
  BY DEF Fold
<1>2. IsDict(s) /\ Names(s) = GraphsIn(quads) \cup Names(kept)
  <2>1. IsFiniteSet(GraphsIn(quads) \cup Names(kept))
    BY GraphsFinite, FS_Union DEF StoreInv
  <2> QED BY <2>1, OrdersAreDicts
<1>3. /\ delta' = delta + 1 /\ UNCHANGED <<quads, epoch, cache, client>>
  BY DEF Fold
<1>4. /\ Len(dict') = delta + 1 /\ dict'[delta + 1] = s
      /\ \A d \in 1..delta : dict'[d] = dict[d]
      /\ dict' \in Seq(Names(dict) \cup {s})
  <2>1. dict \in Seq(Names(dict) \cup {s}) /\ Len(dict) = delta
    BY SeqMonotonic DEF StoreInv
  <2> QED BY <1>1, <2>1, AppendProperties
<1>5. dict' \in Seq(Names(dict'))
  <2>1. \A d \in 1..Len(dict') : dict'[d] \in Names(dict')
    BY DEF Names
  <2>2. dict' \in [1..Len(dict') -> Names(dict')] /\ Len(dict') \in Nat
    <3>1. dict' \in [1..Len(dict') -> Names(dict) \cup {s}] /\ Len(dict') \in Nat
      BY <1>4, LenProperties
    <3> QED BY <2>1, <3>1
  <2> QED BY <2>2, SeqDef
<1>6. \A d \in 1..(delta + 1) : d \in 1..delta \/ d = delta + 1
  BY DEF StoreInv
<1>7. \A d \in 1..(delta + 1) : IsDict(dict'[d])
  BY <1>2, <1>4, <1>6 DEF StoreInv
<1>8. base' \in Nat
  <2>1. Len(s) \in Nat
    BY <1>2, LenProperties DEF IsDict
  <2> QED BY <1>3, <1>4, <2>1
<1>9. StoreInv'
  BY <1>2, <1>3, <1>4, <1>5, <1>7, <1>8 DEF StoreInv
<1>10. Grown(h, h)
  <2>1. \A d \in 1..delta : Extends(dict[d], dict[d])
    BY LenProperties DEF StoreInv, IsDict, Extends
  <2>2. \A d \in 1..delta : d \in 1..(delta + 1)
    BY DEF StoreInv
  <2>3. \A d \in 1..delta : IsDict(dict'[d]) /\ Extends(dict[d], dict'[d])
    BY <1>4, <1>7, <2>1, <2>2
  <2> QED BY <1>3, <2>3 DEF Grown, StoreInv
<1>11. ASSUME NEW c \in Client PROVE ClientFits(h, c, client[c])'
  <2>1. \A x : ClientFits(h, c, x) => ClientFits(h, c, x)'
    BY <1>10, ClientKept
  <2>2. \A x : x = client'[c] => ClientFits(h, c, x)'
    BY <1>3, <2>1 DEF History
  <2> QED BY <2>2
<1>12. \A e \in cache' : EntryFits(h, e)'
  BY <1>3, <1>10, EntryKept DEF History
<1>13. History(h)'
  BY <1>3, <1>11, <1>12 DEF History
<1> QED BY <1>9, <1>13 DEF PlanInv

LEMMA MergeKeeps == ASSUME StoreInv, NEW h, History(h), Merge PROVE PlanInv'
<1>1. IsFiniteSet(Names(<<>>))
  <2>1. Names(<<>>) = {}
    BY DEF Names
  <2> QED BY <2>1, FS_EmptySet
<1> QED BY <1>1, FoldKeeps DEF Merge

LEMMA CompactKeeps == ASSUME StoreInv, NEW h, History(h), compact_ephemeral PROVE PlanInv'
<1> DEFINE kept == SubSeq(dict[delta], 1, base)
<1>1. IsFiniteSet(Names(kept))
  <2>1. kept = [i \in 1..base |-> dict[delta][i]]
    BY DEF StoreInv
  <2> HIDE DEF kept
  <2>2. Len(kept) = base /\ base \in Nat
    BY <2>1 DEF StoreInv
  <2>3. IsFiniteSet(1..base)
    BY <2>2, FS_Interval
  <2>4. kept \in Surjection(1..base, Names(kept))
    <3>1. kept \in [1..base -> Names(kept)] /\ \A n \in Names(kept) : \E i \in 1..base : kept[i] = n
      BY <2>1, <2>2 DEF Names
    <3> QED BY <3>1, Fun_IsSurj
  <2> QED BY <2>3, <2>4, FS_Surjection
<1>2. Fold(gen, kept) /\ base' \in Nat
  BY DEF compact_ephemeral, StoreInv
<1> HIDE DEF kept
<1> QED BY <1>1, <1>2, FoldKeeps

-----------------------------------------------------------------------------

LEMMA PlanInit == Init => PlanInv
<1> SUFFICES ASSUME Init PROVE PlanInv
  OBVIOUS
<1>1. PICK s \in Orders(GraphsIn(FirstQuads)) : dict = <<s>>
  BY DEF Init
<1>2. IsDict(s) /\ Names(s) = GraphsIn(FirstQuads)
  BY RequestAssumption, GraphsFinite, OrdersAreDicts
<1>3. dict \in Seq(Names(dict)) /\ Len(dict) = 1 /\ dict[1] = s
  BY <1>1 DEF Names
<1>4. Len(s) \in Nat
  BY <1>2, LenProperties DEF IsDict
<1>5. StoreInv
  <2>1. base \in Nat
    BY <1>3, <1>4 DEF Init
  <2> QED BY <1>2, <1>3, <2>1, RequestAssumption DEF Init, StoreInv
<1>6. PICK h : h = [n \in Nat |-> quads]
  OBVIOUS
<1>7. \A c \in Client : ClientFits(h, c, Idle)
  BY DEF ClientFits, Idle, Live
<1>8. History(h)
  BY <1>6, <1>7 DEF Init, History
<1> QED BY <1>5, <1>8 DEF PlanInv

LEMMA PlanStep == ASSUME PlansFinite, PlanInv, [Next]_vars PROVE PlanInv'
<1>1. PICK h : History(h)
  BY DEF PlanInv
<1>2. StoreInv
  BY DEF PlanInv
<1>3. CASE \E c \in Client : \E r \in Request[c] : Send(c, r)
  BY <1>1, <1>2, <1>3, SendKeeps
<1>4. CASE \E c \in Client : Snap(c)
  BY <1>1, <1>2, <1>4, SnapKeeps
<1>5. CASE \E c \in Client : plan_cached(c)
  BY <1>1, <1>2, <1>5, PlanKeeps
<1>6. CASE \E c \in Client : Evaluate(c)
  BY <1>1, <1>2, <1>6, EvaluateKeeps
<1>7. CASE \E c \in Client : Read(c)
  BY <1>1, <1>2, <1>7, ReadKeeps
<1>8. CASE \E c \in Client : Commit(c)
  BY <1>1, <1>2, <1>8, CommitKeeps
<1>9. CASE Merge
  BY <1>1, <1>2, <1>9, MergeKeeps
<1>10. CASE compact_ephemeral
  BY <1>1, <1>2, <1>10, CompactKeeps
<1>11. CASE UNCHANGED vars
  <2>1. StoreInv' /\ Grown(h, h)
    BY <1>2, <1>11, QuietStore DEF vars, Quiet
  <2>2. ASSUME NEW c \in Client PROVE ClientFits(h, c, client[c])'
    <3>1. \A x : ClientFits(h, c, x) => ClientFits(h, c, x)'
      BY <1>2, <2>1, ClientKept
    <3>2. \A x : x = client'[c] => ClientFits(h, c, x)'
      BY <1>1, <1>11, <3>1 DEF History, vars
    <3> QED BY <3>2
  <2>3. \A e \in cache' : EntryFits(h, e)'
    BY <1>1, <1>2, <1>11, <2>1, EntryKept DEF History, vars
  <2>4. History(h)'
    BY <1>1, <1>11, <2>2, <2>3 DEF History, vars
  <2> QED BY <2>1, <2>4 DEF PlanInv
<1> QED BY <1>3, <1>4, <1>5, <1>6, <1>7, <1>8, <1>9, <1>10, <1>11 DEF Next

LEMMA PlanAlways == ASSUME PlansFinite PROVE Spec => []PlanInv
<1>1. PlanInv /\ [Next]_vars => PlanInv'
  BY PlanStep
<1> QED BY <1>1, PlanInit, PTL DEF Spec

\* Whatever commits, merges and compactions come between planning and running
\* a query, and whoever cached the plan, its columns are those of the snapshot
\* it runs on (plan_cached's key).
THEOREM CachedPlansFit == ASSUME PlansFinite PROVE Spec => []PlanFits
<1>1. PlanInv => PlanFits
  BY DEF PlanInv, History, ClientFits, PlanFits, Fits
<1> QED BY <1>1, PlanAlways, PTL

\* The answers to the clients' queries depend on the dataset and not on what
\* else the dictionary lists: there is no GRAPH over a name that may be known
\* and empty, which GraphExists tells from an unknown one.
IgnoresDictionary ==
    \A c \in Client : \A r \in Request[c] : \A qs, s, t :
        /\ r.kind = "query" /\ IsDict(s) /\ IsDict(t)
        /\ GraphsIn(qs) \subseteq Names(s) /\ GraphsIn(qs) \subseteq Names(t)
        => AnswerOf([quads |-> qs, graphs |-> s], r) = AnswerOf([quads |-> qs, graphs |-> t], r)

\* A 304 answers what the query would, since generation and epoch name one
\* dataset (run_query's If-None-Match): the delta, which the validator leaves
\* out, changes the dictionary only.
THEOREM ValidatorsSound == ASSUME PlansFinite, IgnoresDictionary PROVE Spec => []NotModifiedSound
<1>1. ASSUME PlanInv PROVE NotModifiedSound
  <2> SUFFICES ASSUME NEW c \in Client, client[c].pc = "done", client[c].status = 304
               PROVE  client[c].body = AnswerOf(StoreOf(client[c].view), client[c].req)
    BY DEF NotModifiedSound
  <2>1. PICK h : History(h)
    BY <1>1 DEF PlanInv
  <2>2. PICK k : k = client[c]
    OBVIOUS
  <2>3. k.etag = Etag(k.view) /\ ViewFits(h, k.view) /\ Kept(h, k) /\ k.req \in Request[c]
    <3>1. ClientFits(h, c, k)
      BY <2>1, <2>2 DEF History
    <3>2. k.etag = Etag(k.view) /\ ViewFits(h, k.view) /\ k.req \in Request[c]
      BY <2>2, <3>1 DEF ClientFits, Live
    <3>3. k.etag # <<>>
      BY <3>2 DEF Etag
    <3> QED BY <3>1, <3>2, <3>3 DEF ClientFits
  <2>4. PICK s : /\ IsDict(s) /\ GraphsIn(k.view.quads) \subseteq Names(s)
                 /\ k.body = AnswerOf([quads |-> k.view.quads, graphs |-> s], k.req)
    BY <2>3 DEF Kept, ViewFits, Etag
  <2>5. IsDict(dict[k.view.delta]) /\ GraphsIn(k.view.quads) \subseteq Names(dict[k.view.delta])
    BY <1>1, <2>3 DEF PlanInv, StoreInv, ViewFits
  <2>6. k.req.kind = "query"
    BY <2>3 DEF Kept
  <2>7. k.body = AnswerOf([quads |-> k.view.quads, graphs |-> dict[k.view.delta]], k.req)
    BY <2>3, <2>4, <2>5, <2>6 DEF IgnoresDictionary
  <2> QED BY <2>2, <2>7 DEF StoreOf
<1>2. PlanInv => NotModifiedSound
  BY <1>1
<1> QED BY <1>2, PlanAlways, PTL

=============================================================================
