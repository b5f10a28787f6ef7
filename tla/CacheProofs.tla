---------------------------- MODULE CacheProofs ----------------------------
(***************************************************************************)
(* Proofs about Cache, for any set of keys, any bounds and any behaviour   *)
(* of the watch that the module has: responses of many revisions,          *)
(* transactions over many keys, DeletePrefix and interruptions.            *)
(***************************************************************************)
EXTENDS Cache, TLAPS

-----------------------------------------------------------------------------
(***************************************************************************)
(* The inductive invariant.  An entry that is ahead of the watch is right  *)
(* at its own revision; one that is not is right at the revision where the *)
(* watch stands, once the events of its key are handled, or where the      *)
(* response begins, as long as none of it is handled.                      *)
(***************************************************************************)

\* A key that no revision changes keeps its value.
Constant ==
    \A a, b \in 0 .. rev : \A k \in Key :
        a <= b /\ (\A r \in a + 1 .. b : k \notin Changed(r)) => hist[a][k] = hist[b][k]

\* A value is named by the revision that wrote it.
Named == \A r \in 1 .. rev : \A k \in Changed(r) : hist[r][k] \in {0, r}

\* What waits to be handled: events of one response, and with an event of a
\* key all later ones of that key.
Waiting ==
    /\ lastWatch <= wrev
    /\ \A e \in pending :
         /\ e.at \in e.from + 1 .. wrev
         /\ e.hdr = wrev
         /\ e.key \in Changed(e.at)
         /\ e.val = hist[e.at][e.key]
         /\ lastWatch = wrev \/ lastWatch <= e.from
         /\ \A r \in e.at .. wrev : e.key \in Changed(r) =>
              [key |-> e.key, at |-> r, val |-> hist[r][e.key], from |-> e.from, hdr |-> wrev] \in pending
    /\ \A e, g \in pending : e.from = g.from

Behind(k) == \E e \in pending : e.key = k

\* Nothing of the response is handled yet.
Unbegun == lastWatch < wrev

\* An operation carries what its keys hold at the revision of its answer; one
\* that will not be skipped is no older than what the watch has shown.
Current(op) ==
    /\ op.rev <= rev
    /\ \A k \in op.keys :
         /\ hist[op.rev][k] = op.val
         /\ lastWatch < op.rev /\ k \notin missed =>
              /\ ~Behind(k) /\ op.rev <= wrev => hist[wrev][k] = op.val
              /\ \A e \in pending : e.key = k /\ Unbegun /\ op.rev <= e.from =>
                   hist[e.from][k] = op.val

Outstanding == \A op \in inflight : Current(op)

\* An entry ahead of the watch, and what the cache was told.
Ahead(k) ==
    /\ items[k].rev <= rev
    /\ items[k].rev > wrev => items[k].val = hist[items[k].rev][k]
    /\ floor[k] <= MaxOf(items[k].rev, wrev)

\* All events of the key are handled.
Level(k) ==
    ~Behind(k) /\ k \notin missed /\ items[k].rev <= wrev => items[k].val = hist[wrev][k]

\* An event that waits: nothing of its response is handled, or it is the next
\* one of its key.
IsNext(e) == \A g \in pending : g.key = e.key => e.at <= g.at

Before(e) ==
    /\ Unbegun =>
         /\ floor[e.key] <= MaxOf(items[e.key].rev, e.from)
         /\ items[e.key].rev > e.from => items[e.key].val = hist[items[e.key].rev][e.key]
         /\ items[e.key].rev <= e.from /\ e.key \notin missed =>
              items[e.key].val = hist[e.from][e.key]
    /\ ~Unbegun /\ IsNext(e) /\ items[e.key].rev = wrev /\ e.val # 0 /\ ~Shadowed(e) =>
         items[e.key].val = hist[wrev][e.key]

Running ==
    /\ Waiting
    /\ Outstanding
    /\ \A k \in Key : Ahead(k) /\ Level(k)
    /\ \A e \in pending : Before(e)

IInv ==
    /\ TypeOK
    /\ Constant
    /\ Named
    /\ phase = "new" => pending = {} /\ inflight = {} /\ lastWatch = 0
    /\ phase = "running" => Running

LEMMA InitInv == Init => IInv
<1> SUFFICES ASSUME Init PROVE IInv
  OBVIOUS
<1>1. TypeOK
  BY MaxRevIsNat DEF Init, TypeOK, Entry, Missing
<1>2. Constant /\ Named
  BY DEF Init, Constant, Named
<1> QED  BY <1>1, <1>2 DEF Init, IInv

-----------------------------------------------------------------------------
(***************************************************************************)
(* The store only grows.                                                   *)
(***************************************************************************)

\* A commit keeps the past and appends one revision.
LEMMA CommitGrows ==
  ASSUME TypeOK, NEW s \in [Key -> Nat], Commit(s)
  PROVE  /\ rev' = rev + 1
         /\ rev' \in 0 .. MaxRev
         /\ hist' \in [0 .. rev' -> [Key -> Nat]]
         /\ \A r \in 0 .. rev : hist'[r] = hist[r]
         /\ hist'[rev + 1] = s
  BY MaxRevIsNat DEF TypeOK, Commit

\* A transaction writes the new revision, or 0.
LEMMA WrittenType ==
  ASSUME TypeOK, NEW P \in SUBSET Key, NEW D \in SUBSET Key
  PROVE  /\ Written(P, D) \in [Key -> Nat]
         /\ \A k \in Key : Written(P, D)[k] \in {0, rev + 1, hist[rev][k]}
  BY MaxRevIsNat DEF TypeOK, Written

\* What the past revisions have changed stays the same.
LEMMA ChangedKept ==
  ASSUME rev \in Nat, \A r \in 0 .. rev : hist'[r] = hist[r], NEW r \in 1 .. rev
  PROVE  Changed(r)' = Changed(r)
  BY DEF Changed

LEMMA CommitHistory ==
  ASSUME TypeOK, Constant, Named, NEW P \in SUBSET Key, NEW D \in SUBSET Key,
         Commit(Written(P, D))
  PROVE  Constant' /\ Named'
<1>0. rev \in Nat
  BY MaxRevIsNat DEF TypeOK
<1>1. /\ rev' = rev + 1
      /\ \A r \in 0 .. rev : hist'[r] = hist[r]
      /\ \A k \in Key : hist'[rev + 1][k] \in {0, rev + 1, hist[rev][k]}
  BY WrittenType, CommitGrows
<1>2. \A r \in 1 .. rev : Changed(r)' = Changed(r)
  BY <1>0, <1>1, ChangedKept
<1>3. ASSUME NEW r \in {rev + 1}, NEW k \in Key
      PROVE  k \in Changed(r)' <=> hist'[r][k] # hist[rev][k]
  BY <1>0, <1>1 DEF Changed
<1>4. Named'
  <2> SUFFICES ASSUME NEW r \in 1 .. rev', NEW k \in Changed(r)' PROVE hist'[r][k] \in {0, r}
    BY DEF Named
  <2>1. k \in Key
    BY DEF Changed
  <2>2. CASE r = rev + 1
    BY <1>1, <1>3, <2>1, <2>2
  <2>3. CASE r \in 1 .. rev
    BY <1>1, <1>2, <2>3 DEF Named
  <2> QED  BY <1>0, <1>1, <2>2, <2>3
<1>5. Constant'
  <2> SUFFICES ASSUME NEW a \in 0 .. rev', NEW b \in 0 .. rev', NEW k \in Key, a <= b,
                      \A r \in a + 1 .. b : k \notin Changed(r)'
               PROVE  hist'[a][k] = hist'[b][k]
    BY DEF Constant
  <2>1. CASE b \in 0 .. rev
    <3>1. \A r \in a + 1 .. b : k \notin Changed(r)
      BY <1>0, <1>2, <2>1
    <3> QED  BY <1>0, <1>1, <2>1, <3>1 DEF Constant
  <2>2. CASE b = rev + 1 /\ a \in 0 .. rev
    <3>1. hist'[b][k] = hist[rev][k]
      BY <1>0, <1>3, <2>2
    <3>2. \A r \in a + 1 .. rev : k \notin Changed(r)
      BY <1>0, <1>2, <2>2
    <3>3. hist[a][k] = hist[rev][k]
      BY <1>0, <2>2, <3>2 DEF Constant
    <3> QED  BY <1>1, <2>2, <3>1, <3>3
  <2> QED  BY <1>0, <1>1, <2>1, <2>2
<1> QED  BY <1>4, <1>5

\* Growth of the store disturbs nothing the cache knows.
LEMMA GrowthKeeps ==
  ASSUME TypeOK, rev' \in Nat, rev <= rev', \A r \in 0 .. rev : hist'[r] = hist[r],
         UNCHANGED <<items, lastWatch, wrev, pending, floor, missed>>,
         Running
  PROVE  /\ Waiting'
         /\ \A op \in inflight : Current(op)'
         /\ \A k \in Key : Ahead(k)' /\ Level(k)'
         /\ \A e \in pending : Before(e)'
<1>0. rev \in Nat /\ wrev \in 0 .. rev /\ lastWatch \in Nat
  BY MaxRevIsNat DEF TypeOK
<1>1. \A r \in 1 .. rev : Changed(r)' = Changed(r)
  BY <1>0, ChangedKept
<1>2. \A k : Behind(k)' = Behind(k)
  BY DEF Behind
<1>3. ASSUME NEW e \in pending
      PROVE  /\ e.key \in Key /\ e.at \in 1 .. rev /\ e.from \in 0 .. rev
             /\ hist'[e.at] = hist[e.at] /\ hist'[e.at - 1] = hist[e.at - 1]
             /\ hist'[e.from] = hist[e.from]
  <2>1. e.key \in Key /\ e.at \in Nat /\ e.from \in Nat /\ e.at \in e.from + 1 .. wrev
    BY DEF TypeOK, Event, Running, Waiting
  <2>2. e.at \in 0 .. rev /\ e.at - 1 \in 0 .. rev /\ e.from \in 0 .. rev /\ e.at \in 1 .. rev
    BY <1>0, <2>1
  <2> QED  BY <2>1, <2>2
<1>4. Waiting'
  <2>1. lastWatch' <= wrev' /\ \A e, g \in pending' : e.from = g.from
    BY DEF Running, Waiting
  <2>2. ASSUME NEW e \in pending
        PROVE  /\ e.at \in e.from + 1 .. wrev /\ e.hdr = wrev
               /\ e.key \in Changed(e.at)' /\ e.val = hist'[e.at][e.key]
               /\ lastWatch = wrev \/ lastWatch <= e.from
               /\ \A r \in e.at .. wrev : e.key \in Changed(r)' =>
                    [key |-> e.key, at |-> r, val |-> hist'[r][e.key], from |-> e.from, hdr |-> wrev] \in pending
    <3>1. \A r \in e.at .. wrev : Changed(r)' = Changed(r) /\ hist'[r] = hist[r]
      BY <1>0, <1>1, <1>3
    <3> QED  BY <1>1, <1>3, <3>1 DEF Running, Waiting
  <2> QED  BY <2>1, <2>2 DEF Waiting
<1>5. ASSUME NEW op \in inflight PROVE Current(op)'
  <2>1. op.rev \in 0 .. rev /\ hist'[op.rev] = hist[op.rev] /\ Current(op)
    BY <1>0 DEF TypeOK, Op, Running, Outstanding, Current
  <2>2. hist'[wrev] = hist[wrev]
    BY <1>0
  <2>3. op.rev <= rev'
    BY <1>0, <2>1
  <2> QED  BY <1>2, <1>3, <2>1, <2>2, <2>3 DEF Current, Unbegun
<1>6. ASSUME NEW k \in Key PROVE Ahead(k)' /\ Level(k)'
  <2>1. items[k].rev \in 0 .. rev /\ hist'[items[k].rev] = hist[items[k].rev]
    BY <1>0 DEF TypeOK, Entry, Running, Ahead
  <2>2. hist'[wrev] = hist[wrev]
    BY <1>0
  <2>3. Ahead(k)'
    BY <1>0, <2>1 DEF Running, Ahead
  <2>4. Level(k)'
    BY <1>2, <2>2 DEF Running, Level
  <2> QED  BY <2>3, <2>4
<1>7. ASSUME NEW e \in pending PROVE Before(e)'
  <2>1. items[e.key].rev \in 0 .. rev /\ hist'[items[e.key].rev] = hist[items[e.key].rev]
    BY <1>0, <1>3 DEF TypeOK, Entry, Running, Ahead
  <2>2. hist'[wrev] = hist[wrev] /\ Shadowed(e)' = Shadowed(e) /\ IsNext(e)' = IsNext(e)
    BY <1>0, <1>3 DEF Shadowed, IsNext
  <2>3. Unbegun' = Unbegun /\ Before(e)
    BY DEF Unbegun, Running
  <2> QED  BY <1>3, <2>1, <2>2, <2>3 DEF Before
<1> QED  BY <1>4, <1>5, <1>6, <1>7

-----------------------------------------------------------------------------
(***************************************************************************)
(* The steps, one lemma per kind.                                          *)
(***************************************************************************)

\* Writes of other processes.
LEMMA RemoteStep ==
  ASSUME IInv, NEW P \in SUBSET Key, NEW D \in SUBSET Key, RemoteTxn(P, D)
  PROVE  IInv'
<1>1. /\ Commit(Written(P, D))
      /\ UNCHANGED <<phase, items, lastWatch, tombstones, wrev, pending, inflight, floor, missed>>
  BY DEF RemoteTxn
<1>2. /\ rev \in Nat /\ rev' = rev + 1 /\ rev' \in 0 .. MaxRev
      /\ hist' \in [0 .. rev' -> [Key -> Nat]]
      /\ \A r \in 0 .. rev : hist'[r] = hist[r]
  <2>1. rev \in Nat /\ TypeOK
    BY MaxRevIsNat DEF IInv, TypeOK
  <2>2. Written(P, D) \in [Key -> Nat]
    BY <2>1, WrittenType
  <2> QED  BY <1>1, <2>1, <2>2, CommitGrows
<1>3. TypeOK'
  BY <1>1, <1>2 DEF IInv, TypeOK
<1>4. Constant' /\ Named'
  BY <1>1, CommitHistory DEF IInv
<1>5. phase = "running" => Running'
  BY <1>1, <1>2, GrowthKeeps DEF IInv, Running, Outstanding
<1> QED  BY <1>1, <1>3, <1>4, <1>5 DEF IInv

\* Operations of this process, until etcd has answered.
LEMMA IssueStep ==
  ASSUME IInv, NEW P \in SUBSET Key, NEW D \in SUBSET Key, NEW ops \in SUBSET Op, Issue(ops),
         \/ /\ Commit(Written(P, D))
            /\ \A op \in ops : op.rev = rev + 1 /\ \A k \in op.keys : hist'[rev + 1][k] = op.val
         \/ /\ UNCHANGED <<rev, hist>>
            /\ \A op \in ops : op.rev = rev /\ \A k \in op.keys : hist[rev][k] = op.val
  PROVE  IInv'
<1>1. /\ phase = "running" /\ inflight' = inflight \cup ops
      /\ UNCHANGED <<phase, items, lastWatch, tombstones, wrev, pending, floor, missed>>
  BY DEF Issue
<1>2. /\ rev \in Nat /\ wrev \in 0 .. rev /\ rev' \in 0 .. MaxRev /\ rev <= rev'
      /\ hist' \in [0 .. rev' -> [Key -> Nat]]
      /\ \A r \in 0 .. rev : hist'[r] = hist[r]
  <2>1. rev \in Nat /\ rev \in 0 .. MaxRev /\ wrev \in 0 .. rev
    BY MaxRevIsNat DEF IInv, TypeOK
  <2>2. CASE Commit(Written(P, D))
    <3>1. Written(P, D) \in [Key -> Nat] /\ TypeOK
      BY WrittenType DEF IInv
    <3>2. /\ rev' = rev + 1 /\ rev' \in 0 .. MaxRev
          /\ hist' \in [0 .. rev' -> [Key -> Nat]]
          /\ \A r \in 0 .. rev : hist'[r] = hist[r]
      BY <2>2, <3>1, CommitGrows
    <3>3. rev <= rev'
      BY <2>1, <3>2
    <3> QED  BY <2>1, <3>2, <3>3
  <2>3. CASE UNCHANGED <<rev, hist>>
    BY <2>1, <2>3 DEF IInv, TypeOK
  <2> QED  BY <2>2, <2>3
<1>3. TypeOK'
  BY <1>1, <1>2 DEF IInv, TypeOK
<1>4. Constant' /\ Named'
  <2>1. CASE Commit(Written(P, D))
    BY <2>1, CommitHistory DEF IInv
  <2>2. CASE UNCHANGED <<rev, hist>>
    BY <2>2 DEF IInv, Constant, Named, Changed
  <2> QED  BY <2>1, <2>2
<1>5. /\ Waiting'
      /\ \A op \in inflight : Current(op)'
      /\ \A k \in Key : Ahead(k)' /\ Level(k)'
      /\ \A e \in pending : Before(e)'
  BY <1>1, <1>2, GrowthKeeps DEF IInv
<1>6. ASSUME NEW op \in ops PROVE Current(op)'
  <2>1. CASE Commit(Written(P, D)) /\ op.rev = rev + 1 /\ \A k \in op.keys : hist'[rev + 1][k] = op.val
    <3>1. rev' = rev + 1
      BY <2>1 DEF Commit
    <3>2. ~(op.rev <= wrev) /\ \A e \in pending : ~(op.rev <= e.from)
      BY <1>1, <1>2, <2>1 DEF IInv, Running, Waiting, TypeOK, Event
    <3> QED  BY <1>1, <1>2, <2>1, <3>1, <3>2 DEF Current
  <2>2. CASE UNCHANGED <<rev, hist>> /\ op.rev = rev /\ \A k \in op.keys : hist[rev][k] = op.val
    <3>1. op.rev <= wrev => wrev = rev
      BY <1>2, <2>2
    <3>2. \A e \in pending : ~(op.rev <= e.from)
      BY <1>1, <1>2, <2>2 DEF IInv, Running, Waiting, TypeOK, Event
    <3> QED  BY <1>1, <1>2, <2>2, <3>1, <3>2 DEF Current
  <2> QED  BY <2>1, <2>2
<1> QED  BY <1>1, <1>3, <1>4, <1>5, <1>6 DEF IInv, Running, Outstanding

LEMMA LocalStep ==
  ASSUME IInv,
         \/ LocalDeletePrefix
         \/ \E P \in SUBSET Key : \E D \in SUBSET (Key \ P) : LocalTxn(P, D)
  PROVE  IInv'
<1>0. rev \in Nat /\ rev + 1 \in Nat /\ TypeOK
  BY MaxRevIsNat DEF IInv, TypeOK
<1>1. CASE LocalDeletePrefix
  <2> DEFINE o == [kind |-> "prefix", keys |-> Key, rev |-> rev + 1, val |-> 0]
  <2>1. Commit(Written({}, Key)) /\ Issue({o})
    BY <1>1 DEF LocalDeletePrefix
  <2>2. {o} \in SUBSET Op
    BY <1>0 DEF Op
  <2>3. Written({}, Key) \in [Key -> Nat] /\ {} \in SUBSET Key /\ Key \in SUBSET Key
    BY <1>0, WrittenType
  <2>4. hist'[rev + 1] = Written({}, Key)
    BY <1>0, <2>1, <2>3, CommitGrows
  <2>5. \A op \in {o} : op.rev = rev + 1 /\ \A k \in op.keys : hist'[rev + 1][k] = op.val
    BY <2>4 DEF Written
  <2> HIDE DEF o
  <2> QED  BY <2>1, <2>2, <2>3, <2>5, IssueStep
<1>2. ASSUME NEW P \in SUBSET Key, NEW D \in SUBSET (Key \ P), LocalTxn(P, D) PROVE IInv'
  <2>0. P \in SUBSET Key /\ D \in SUBSET Key
    OBVIOUS
  <2>1. ASSUME NEW r \in Nat PROVE KeyOps(P, D, r) \in SUBSET Op
    BY DEF KeyOps, Op
  <2>2. CASE Commit(Written(P, D)) /\ Issue(KeyOps(P, D, rev + 1))
    <3>1. hist'[rev + 1] = Written(P, D)
      BY <1>0, <2>0, <2>2, WrittenType, CommitGrows
    <3>2. ASSUME NEW op \in KeyOps(P, D, rev + 1)
          PROVE  op.rev = rev + 1 /\ \A k \in op.keys : hist'[rev + 1][k] = op.val
      <4>1. PICK k \in P \cup D : op = [kind |-> "key", keys |-> {k}, rev |-> rev + 1,
                                        val |-> IF k \in P THEN rev + 1 ELSE 0]
        BY DEF KeyOps
      <4>2. Written(P, D)[k] = IF k \in P THEN rev + 1 ELSE 0
        BY <2>0 DEF Written
      <4> QED  BY <3>1, <4>1, <4>2
    <3> QED  BY <1>0, <2>0, <2>1, <2>2, <3>2, IssueStep
  <2>3. CASE ~Writes(P, D) /\ UNCHANGED <<rev, hist>> /\ Issue(KeyOps(P, D, rev))
    <3>1. P = {} /\ \A k \in D : hist[rev][k] = 0
      BY <2>3 DEF Writes
    <3>2. ASSUME NEW op \in KeyOps(P, D, rev)
          PROVE  op.rev = rev /\ \A k \in op.keys : hist[rev][k] = op.val
      <4>1. PICK k \in D : op = [kind |-> "key", keys |-> {k}, rev |-> rev, val |-> 0]
        BY <3>1 DEF KeyOps
      <4> QED  BY <3>1, <4>1
    <3> QED  BY <1>0, <2>0, <2>1, <2>3, <3>2, IssueStep
  <2> QED  BY <1>2, <2>2, <2>3 DEF LocalTxn
<1> QED  BY <1>1, <1>2

\* The write-through of an operation, or its omission.
LEMMA UpdateCacheStep ==
  ASSUME IInv, NEW op \in inflight, UpdateCache(op)
  PROVE  IInv'
<1>1. /\ inflight' = inflight \ {op}
      /\ UNCHANGED <<rev, hist, phase, lastWatch, wrev, pending, missed>>
      /\ floor' = [k \in Key |-> IF k \in Visited(op) THEN MaxOf(floor[k], op.rev) ELSE floor[k]]
  BY DEF UpdateCache, Returned
<1>2. /\ op.rev \in Nat /\ op.val \in Nat /\ op.keys \subseteq Key
      /\ rev \in Nat /\ wrev \in 0 .. rev /\ lastWatch \in Nat
  BY MaxRevIsNat DEF IInv, TypeOK, Op
<1>3. ASSUME NEW k \in Key
      PROVE  \/ items'[k] = items[k] /\ (k \notin Visited(op) \/ op.rev <= lastWatch \/ op.rev <= items[k].rev)
             \/ /\ items'[k] = [rev |-> op.rev, val |-> op.val] /\ k \in Visited(op)
                /\ op.rev > lastWatch /\ items[k].rev < op.rev
  <2>1. items[k].rev \in Nat /\ items \in [Key -> Entry]
    BY DEF IInv, TypeOK, Entry
  <2>2. CASE op.rev <= lastWatch
    BY <2>2 DEF UpdateCache
  <2>3. CASE ~(op.rev <= lastWatch) /\ k \notin Visited(op)
    BY <2>3 DEF UpdateCache, Apply
  <2>4. CASE ~(op.rev <= lastWatch) /\ k \in Visited(op)
    <3>1. items'[k] = unlockedWrite(items, k, op.val, op.rev)[k]
      BY <2>4 DEF UpdateCache, Apply
    <3>2. CASE items[k].rev >= op.rev
      BY <1>2, <2>1, <3>1, <3>2 DEF unlockedWrite
    <3>3. CASE ~(items[k].rev >= op.rev)
      BY <1>2, <2>1, <2>4, <3>1, <3>3 DEF unlockedWrite
    <3> QED  BY <3>2, <3>3
  <2> QED  BY <2>2, <2>3, <2>4
<1>4. TypeOK'
  <2>1. items' \in [Key -> Entry]
    <3>1. CASE op.rev <= lastWatch
      BY <3>1 DEF UpdateCache, IInv, TypeOK
    <3>2. CASE ~(op.rev <= lastWatch)
      <4>1. items' = [k \in Key |-> items'[k]]
        BY <3>2 DEF UpdateCache, Apply
      <4>2. \A k \in Key : items'[k] \in Entry
        <5> SUFFICES ASSUME NEW k \in Key PROVE items'[k] \in Entry
          OBVIOUS
        <5>1. items[k] \in Entry /\ [rev |-> op.rev, val |-> op.val] \in Entry
          BY <1>2 DEF Entry, IInv, TypeOK
        <5> QED  BY <1>3, <5>1
      <4> QED  BY <4>1, <4>2
    <3> QED  BY <3>1, <3>2
  <2>2. tombstones' \in SUBSET Key
    BY <1>2 DEF UpdateCache, Apply, Visited, IInv, TypeOK
  <2>3. floor' \in [Key -> Nat]
    BY <1>1, <1>2 DEF MaxOf, IInv, TypeOK
  <2> QED  BY <1>1, <2>1, <2>2, <2>3 DEF IInv, TypeOK
<1>5. Constant' /\ Named'
  BY <1>1 DEF IInv, Constant, Named, Changed
<1>6. ASSUME phase = "running" PROVE Running'
  <2>1. Waiting /\ Outstanding /\ Current(op)
    BY <1>6 DEF IInv, Running, Outstanding
  <2>2. Waiting' /\ Outstanding'
    BY <1>1, <2>1 DEF Waiting, Outstanding, Current, Changed, Behind, Unbegun
  <2>3. ASSUME NEW k \in Key
        PROVE  /\ items[k].rev \in Nat /\ floor[k] \in Nat /\ items[k].rev <= rev
               /\ Ahead(k) /\ Level(k)
               /\ floor'[k] \in {floor[k], MaxOf(floor[k], op.rev)}
               /\ k \notin Visited(op) => floor'[k] = floor[k]
               /\ k \in Visited(op) => k \in op.keys
    BY <1>1, <1>6 DEF IInv, TypeOK, Entry, Running, Ahead, Visited
  <2>4. ASSUME NEW k \in Key PROVE Ahead(k)' /\ Level(k)'
    <3>1. CASE items'[k] = items[k] /\ (k \notin Visited(op) \/ op.rev <= lastWatch \/ op.rev <= items[k].rev)
      <4>1. floor'[k] <= MaxOf(items[k].rev, wrev)
        BY <1>2, <2>1, <2>3, <3>1 DEF Ahead, MaxOf, Waiting
      <4>2. Ahead(k)'
        BY <1>1, <2>3, <3>1, <4>1 DEF Ahead
      <4>3. Level(k)'
        BY <1>1, <2>3, <3>1 DEF Level, Behind
      <4> QED  BY <4>2, <4>3
    <3>2. CASE /\ items'[k] = [rev |-> op.rev, val |-> op.val] /\ k \in Visited(op)
               /\ op.rev > lastWatch /\ items[k].rev < op.rev
      <4>1. items'[k].rev = op.rev /\ items'[k].val = op.val /\ k \in op.keys
        BY <2>3, <3>2
      <4>2. op.rev <= rev /\ hist[op.rev][k] = op.val
        BY <2>1, <4>1 DEF Current
      <4>3. floor'[k] <= MaxOf(op.rev, wrev)
        BY <1>2, <2>3, <3>2 DEF Ahead, MaxOf
      <4>4. Ahead(k)'
        BY <1>1, <4>1, <4>2, <4>3 DEF Ahead
      <4>5. Level(k)'
        BY <1>1, <1>2, <2>1, <3>2, <4>1 DEF Level, Behind, Current
      <4> QED  BY <4>4, <4>5
    <3> QED  BY <1>3, <3>1, <3>2
  <2>5. ASSUME NEW e \in pending PROVE Before(e)'
    <3> DEFINE k == e.key
    <3>1. k \in Key /\ e.from \in Nat /\ e.from < wrev /\ (lastWatch = wrev \/ lastWatch <= e.from)
      BY <1>2, <2>1 DEF IInv, TypeOK, Event, Waiting
    <3>2. Before(e)
      BY <1>6 DEF IInv, Running
    <3>3. Unbegun' = Unbegun /\ IsNext(e)' = IsNext(e) /\ Shadowed(e)' = Shadowed(e)
      BY <1>1 DEF Unbegun, IsNext, Shadowed
    <3> HIDE DEF k
    <3>4. CASE items'[k] = items[k] /\ (k \notin Visited(op) \/ op.rev <= lastWatch \/ op.rev <= items[k].rev)
      <4>1. Unbegun => floor'[k] <= MaxOf(items[k].rev, e.from)
        BY <1>2, <2>3, <3>1, <3>2, <3>4 DEF Before, MaxOf, Unbegun, k
      <4> QED  BY <1>1, <3>2, <3>3, <3>4, <4>1 DEF Before, k
    <3>5. CASE /\ items'[k] = [rev |-> op.rev, val |-> op.val] /\ k \in Visited(op)
               /\ op.rev > lastWatch /\ items[k].rev < op.rev
      <4>1. items'[k].rev = op.rev /\ items'[k].val = op.val /\ k \in op.keys
        BY <2>3, <3>1, <3>5
      <4>2. hist[op.rev][k] = op.val
        BY <2>1, <4>1 DEF Current
      <4>3. Unbegun => floor'[k] <= MaxOf(op.rev, e.from)
        BY <1>2, <2>3, <3>1, <3>2, <3>5 DEF Before, MaxOf, k
      <4>4. Unbegun /\ op.rev <= e.from /\ k \notin missed => hist[e.from][k] = op.val
        BY <1>2, <2>1, <3>1, <3>5, <4>1 DEF Current, k
      <4>5. ~Unbegun => op.rev # wrev
        BY <1>2, <2>1, <3>5 DEF Unbegun, Waiting
      <4> QED  BY <1>1, <3>3, <4>1, <4>2, <4>3, <4>4, <4>5 DEF Before, k
    <3> QED  BY <1>3, <3>1, <3>4, <3>5
  <2> QED  BY <1>1, <2>2, <2>4, <2>5 DEF Running
<1> QED  BY <1>1, <1>4, <1>5, <1>6 DEF IInv

\* The watch moves on from wrev to h; what k holds is the same if nothing in
\* between has changed it.
LEMMA Unchanged ==
  ASSUME IInv, NEW a \in 0 .. rev, NEW h \in 0 .. rev, NEW k \in Key, a <= h,
         \A r \in wrev + 1 .. h : k \notin Changed(r), wrev <= a
  PROVE  hist[a][k] = hist[h][k]
<1>1. rev \in Nat /\ wrev \in 0 .. rev
  BY MaxRevIsNat DEF IInv, TypeOK
<1>2. \A r \in a + 1 .. h : k \notin Changed(r)
  BY <1>1
<1> QED  BY <1>2 DEF IInv, Constant

\* What is true of the keys that were not changed between wrev and h.
LEMMA UnchangedLevel ==
  ASSUME IInv, phase = "running", pending = {}, NEW h \in 0 .. rev, wrev <= h,
         NEW k \in Key \ missed, \A r \in wrev + 1 .. h : k \notin Changed(r)
  PROVE  /\ items[k].rev <= h => items[k].val = hist[h][k]
         /\ \A op \in inflight : k \in op.keys /\ lastWatch < op.rev /\ op.rev <= h =>
              hist[h][k] = op.val
<1>1. rev \in Nat /\ wrev \in 0 .. rev /\ items[k].rev \in Nat /\ Ahead(k) /\ Level(k) /\ ~Behind(k)
  BY MaxRevIsNat DEF IInv, TypeOK, Entry, Running, Behind
<1>2. hist[wrev][k] = hist[h][k]
  BY <1>1, Unchanged
<1>3. ASSUME items[k].rev <= h PROVE items[k].val = hist[h][k]
  <2>1. CASE items[k].rev <= wrev
    BY <1>1, <1>2, <2>1 DEF Level
  <2>2. CASE ~(items[k].rev <= wrev)
    <3>1. hist[items[k].rev][k] = hist[h][k]
      BY <1>1, <1>3, <2>2, Unchanged
    <3> QED  BY <1>1, <2>2, <3>1 DEF Ahead
  <2> QED  BY <2>1, <2>2
<1>4. ASSUME NEW op \in inflight, k \in op.keys, lastWatch < op.rev, op.rev <= h
      PROVE  hist[h][k] = op.val
  <2>1. op.rev \in Nat /\ Current(op)
    BY DEF IInv, TypeOK, Op, Running, Outstanding
  <2>2. CASE op.rev <= wrev
    BY <1>1, <1>2, <1>4, <2>1, <2>2 DEF Current
  <2>3. CASE ~(op.rev <= wrev)
    <3>1. hist[op.rev][k] = hist[h][k]
      BY <1>1, <1>4, <2>1, <2>3, Unchanged
    <3> QED  BY <1>4, <2>1, <3>1 DEF Current
  <2> QED  BY <2>2, <2>3
<1> QED  BY <1>3, <1>4

\* A response arrives: of the next revision or of all that is missing.
LEMMA ReceiveStep ==
  ASSUME IInv, Receive
  PROVE  IInv'
<1>1. /\ UNCHANGED <<rev, hist, phase, items, lastWatch, tombstones, inflight, floor, missed>>
      /\ phase = "running" /\ pending = {} /\ wrev < rev
  BY DEF Receive
<1>2. rev \in Nat /\ wrev \in 0 .. rev /\ lastWatch \in Nat /\ lastWatch <= wrev
  BY <1>1, MaxRevIsNat DEF IInv, TypeOK, Running, Waiting
<1>3. PICK h \in {wrev + 1, rev} :
         pending' = UNION {EventsOf(r, wrev, h) : r \in wrev + 1 .. h} /\ wrev' = h
  BY DEF Receive
<1>4. h \in wrev + 1 .. rev
  BY <1>1, <1>2
<1>5. ASSUME NEW e \in pending'
      PROVE  /\ e.at \in wrev + 1 .. h /\ e.key \in Changed(e.at) /\ e.key \in Key
             /\ e = [key |-> e.key, at |-> e.at, val |-> hist[e.at][e.key], from |-> wrev, hdr |-> h]
  <2>1. PICK r \in wrev + 1 .. h : e \in EventsOf(r, wrev, h)
    BY <1>3
  <2>2. PICK k \in Changed(r) : e = [key |-> k, at |-> r, val |-> hist[r][k], from |-> wrev, hdr |-> h]
    BY <2>1 DEF EventsOf
  <2> QED  BY <2>1, <2>2 DEF Changed
<1>6. ASSUME NEW r \in wrev + 1 .. h, NEW k \in Changed(r)
      PROVE  [key |-> k, at |-> r, val |-> hist[r][k], from |-> wrev, hdr |-> h] \in pending'
  BY <1>3 DEF EventsOf
<1>7. TypeOK'
  <2>1. \A e \in pending' : e \in Event
    <3> SUFFICES ASSUME NEW e \in pending' PROVE e \in Event
      OBVIOUS
    <3>1. e.at \in 0 .. rev /\ e.key \in Key /\ e.at \in Nat /\ h \in Nat /\ wrev \in Nat
      BY <1>2, <1>4, <1>5
    <3>2. hist[e.at][e.key] \in Nat
      BY <3>1 DEF IInv, TypeOK
    <3> QED  BY <1>5, <3>1, <3>2 DEF Event
  <2> QED  BY <1>1, <1>2, <1>3, <1>4, <2>1 DEF IInv, TypeOK
<1>8. Constant' /\ Named'
  BY <1>1 DEF IInv, Constant, Named, Changed
<1>9. \A r : Changed(r)' = Changed(r)
  BY <1>1 DEF Changed
<1>10. Waiting'
  <2>1. lastWatch' <= wrev' /\ \A e, g \in pending' : e.from = g.from
    BY <1>1, <1>2, <1>3, <1>4, <1>5
  <2>2. ASSUME NEW e \in pending'
        PROVE  /\ e.at \in e.from + 1 .. h /\ e.hdr = h /\ e.from = wrev
               /\ e.key \in Changed(e.at) /\ e.val = hist[e.at][e.key]
               /\ \A r \in e.at .. h : e.key \in Changed(r) =>
                    [key |-> e.key, at |-> r, val |-> hist[r][e.key], from |-> e.from, hdr |-> h] \in pending'
    <3>1. e.from = wrev /\ e.hdr = h /\ e.val = hist[e.at][e.key]
      BY <1>5
    <3>2. \A r \in e.at .. h : r \in wrev + 1 .. h
      BY <1>2, <1>4, <1>5
    <3> QED  BY <1>5, <1>6, <3>1, <3>2
  <2> QED  BY <1>1, <1>2, <1>3, <1>9, <2>1, <2>2 DEF Waiting
<1>11. ASSUME NEW k \in Key, ~Behind(k)' PROVE \A r \in wrev + 1 .. h : k \notin Changed(r)
  BY <1>6, <1>11 DEF Behind
<1>12. h \in 0 .. rev /\ wrev <= h /\ lastWatch < h
  BY <1>2, <1>4
<1>13. ASSUME NEW op \in inflight PROVE Current(op)'
  <2>1. Current(op) /\ op.rev \in Nat /\ op.keys \subseteq Key
    BY <1>1 DEF IInv, Running, Outstanding, TypeOK, Op
  <2>2. ASSUME NEW k \in op.keys, lastWatch < op.rev, k \notin missed
        PROVE  /\ ~Behind(k)' /\ op.rev <= h => hist[h][k] = op.val
               /\ \A e \in pending' : op.rev <= e.from => hist[e.from][k] = op.val
    <3>1. k \in Key
      BY <2>1
    <3>2. ~Behind(k)' /\ op.rev <= h => hist[h][k] = op.val
      BY <1>1, <1>11, <1>12, <2>2, <3>1, UnchangedLevel
    <3>3. op.rev <= wrev => hist[wrev][k] = op.val
      BY <1>1, <2>1, <2>2 DEF Current, Behind
    <3> QED  BY <1>5, <3>2, <3>3
  <2> QED  BY <1>1, <1>3, <2>1, <2>2 DEF Current
<1>14. ASSUME NEW k \in Key PROVE Ahead(k)' /\ Level(k)'
  <2>1. Ahead(k) /\ items[k].rev \in Nat /\ floor[k] \in Nat
    BY <1>1 DEF IInv, Running, TypeOK, Entry
  <2>2. Ahead(k)'
    BY <1>1, <1>2, <1>3, <1>4, <2>1 DEF Ahead, MaxOf
  <2>3. Level(k)'
    <3> SUFFICES ASSUME ~Behind(k)', k \notin missed, items[k].rev <= h
                 PROVE  items[k].val = hist[h][k]
      BY <1>1, <1>3 DEF Level
    <3> QED  BY <1>1, <1>11, <1>12, UnchangedLevel
  <2> QED  BY <2>2, <2>3
<1>15. ASSUME NEW e \in pending' PROVE Before(e)'
  <2>1. e.key \in Key /\ e.from = wrev /\ Unbegun'
    BY <1>1, <1>3, <1>5, <1>12 DEF Unbegun
  <2>2. Ahead(e.key) /\ Level(e.key) /\ ~Behind(e.key)
    BY <1>1, <2>1 DEF IInv, Running, Behind
  <2> QED  BY <1>1, <2>1, <2>2 DEF Before, Ahead, Level
<1>16. Running'
  BY <1>1, <1>10, <1>13, <1>14, <1>15 DEF Running, Outstanding
<1> QED  BY <1>1, <1>7, <1>8, <1>16 DEF IInv

\* The watch skips what it was not sent; those keys count as missed.
LEMMA InterruptStep ==
  ASSUME IInv, Interrupt
  PROVE  IInv'
<1>1. /\ UNCHANGED <<rev, hist, phase, items, lastWatch, tombstones, pending, inflight, floor>>
      /\ phase = "running" /\ pending = {} /\ wrev < rev /\ wrev' = rev
      /\ missed' = missed \cup UNION {Changed(r) : r \in wrev + 1 .. rev}
  BY DEF Interrupt
<1>2. rev \in Nat /\ wrev \in 0 .. rev /\ lastWatch \in Nat /\ lastWatch <= wrev
  BY <1>1, MaxRevIsNat DEF IInv, TypeOK, Running, Waiting
<1>3. TypeOK'
  <2>1. missed' \in SUBSET Key
    BY <1>1 DEF IInv, TypeOK, Changed
  <2> QED  BY <1>1, <1>2, <2>1 DEF IInv, TypeOK
<1>4. Constant' /\ Named'
  BY <1>1 DEF IInv, Constant, Named, Changed
<1>5. ASSUME NEW k \in Key, k \notin missed'
      PROVE  k \in Key \ missed /\ \A r \in wrev + 1 .. rev : k \notin Changed(r)
  BY <1>1, <1>5
<1>6. Waiting' /\ \A e \in pending' : Before(e)'
  BY <1>1, <1>2 DEF Waiting
<1>7. ASSUME NEW op \in inflight PROVE Current(op)'
  <2>1. Current(op) /\ op.rev \in Nat /\ op.keys \subseteq Key
    BY <1>1 DEF IInv, Running, Outstanding, TypeOK, Op
  <2>2. ASSUME NEW k \in op.keys, lastWatch < op.rev, k \notin missed', op.rev <= rev
        PROVE  hist[rev][k] = op.val
    <3>1. k \in Key
      BY <2>1
    <3> QED  BY <1>1, <1>2, <1>5, <2>2, <3>1, UnchangedLevel
  <2> QED  BY <1>1, <2>1, <2>2 DEF Current
<1>8. ASSUME NEW k \in Key PROVE Ahead(k)' /\ Level(k)'
  <2>1. Ahead(k) /\ items[k].rev \in Nat /\ floor[k] \in Nat
    BY <1>1 DEF IInv, Running, TypeOK, Entry
  <2>2. Ahead(k)'
    BY <1>1, <1>2, <2>1 DEF Ahead, MaxOf
  <2>3. k \notin missed' => items[k].val = hist[rev][k]
    BY <1>1, <1>2, <1>5, <2>1, UnchangedLevel DEF Ahead
  <2> QED  BY <1>1, <2>2, <2>3 DEF Level
<1> QED  BY <1>1, <1>3, <1>4, <1>6, <1>7, <1>8 DEF IInv, Running, Outstanding

\* The handler moves the entry of one key; the response is begun.
LEMMA HandleEventStep ==
  ASSUME IInv, NEW e \in pending, HandleEvent(e)
  PROVE  IInv'
<1>1. /\ UNCHANGED <<rev, hist, phase, wrev, inflight>>
      /\ phase = "running" /\ pending' = pending \ {e}
      /\ lastWatch' = MaxOf(lastWatch, e.hdr)
      /\ floor' = [floor EXCEPT ![e.key] = MaxOf(@, e.at)]
      /\ missed' = IF Shadowed(e) THEN missed \cup {e.key} ELSE missed \ {e.key}
      /\ \A f \in pending : e.at <= f.at
  BY DEF HandleEvent
<1>2. rev \in Nat /\ wrev \in 0 .. rev /\ lastWatch \in Nat /\ Running
  BY <1>1, MaxRevIsNat DEF IInv, TypeOK
<1>3. /\ e.key \in Key /\ e.from \in Nat /\ e.at \in e.from + 1 .. wrev /\ e.at \in 1 .. rev
      /\ e.hdr = wrev /\ e.val = hist[e.at][e.key] /\ e.val \in Nat /\ e.key \in Changed(e.at)
      /\ wrev > 0
  <2>1. e \in Event /\ e.at \in e.from + 1 .. wrev /\ e.hdr = wrev /\ e.val = hist[e.at][e.key]
        /\ e.key \in Changed(e.at)
    BY <1>2 DEF IInv, TypeOK, Running, Waiting
  <2>2. e.key \in Key /\ e.from \in Nat /\ e.at \in Nat /\ e.val \in Nat
    BY <2>1 DEF Event
  <2> QED  BY <1>2, <2>1, <2>2
<1>4. lastWatch' = wrev
  BY <1>1, <1>2, <1>3 DEF Running, Waiting, MaxOf
<1> DEFINE its == IF e.val # 0 THEN unlockedWrite(items, e.key, e.val, e.hdr)
                               ELSE unlockedDelete(items, e.key, e.hdr)
<1>5. items' = purgedItems(its, tombstones, wrev) /\ tombstones' = remainingTombstones(its, tombstones, wrev)
  BY <1>3 DEF HandleEvent
<1>19. /\ items \in [Key -> Entry] /\ items[e.key].rev \in Nat /\ Missing \in Entry
       /\ [rev |-> wrev, val |-> e.val] \in Entry /\ wrev \in Nat /\ e.hdr = wrev
  BY <1>2, <1>3 DEF IInv, TypeOK, Entry, Missing
<1>20. \/ e.val # 0 /\ items[e.key].rev >= wrev /\ its = items
       \/ /\ e.val # 0 /\ items[e.key].rev <= wrev
          /\ its = [items EXCEPT ![e.key] = [rev |-> wrev, val |-> e.val]]
       \/ e.val = 0 /\ items[e.key].rev > wrev /\ its = items
       \/ e.val = 0 /\ items[e.key].rev <= wrev /\ its = [items EXCEPT ![e.key] = Missing]
  <2>1. CASE e.val # 0
    BY <1>19, <2>1 DEF unlockedWrite
  <2>2. CASE e.val = 0
    BY <1>19, <2>2 DEF unlockedDelete
  <2> QED  BY <2>1, <2>2
<1> HIDE DEF its
<1>6. /\ its \in [Key -> Entry]
      /\ \A j \in Key : j # e.key => its[j] = items[j]
      /\ \/ its[e.key] = items[e.key] /\ items[e.key].rev > wrev
         \/ its[e.key] = items[e.key] /\ items[e.key].rev = wrev /\ e.val # 0
         \/ its[e.key] = [rev |-> wrev, val |-> e.val] /\ items[e.key].rev <= wrev /\ e.val # 0
         \/ its[e.key] = Missing /\ e.val = 0 /\ items[e.key].rev <= wrev
  <2>1. its \in [Key -> Entry] /\ \A j \in Key : j # e.key => its[j] = items[j]
    BY <1>3, <1>19, <1>20
  <2>2. \/ its[e.key] = items[e.key] /\ items[e.key].rev > wrev
        \/ its[e.key] = items[e.key] /\ items[e.key].rev = wrev /\ e.val # 0
        \/ its[e.key] = [rev |-> wrev, val |-> e.val] /\ items[e.key].rev <= wrev /\ e.val # 0
        \/ its[e.key] = Missing /\ e.val = 0 /\ items[e.key].rev <= wrev
    BY <1>3, <1>19, <1>20
  <2> QED  BY <2>1, <2>2
<1>7. /\ items' \in [Key -> Entry]
      /\ \A j \in Key : \/ items'[j] = its[j]
                        \/ items'[j] = Missing /\ its[j].rev <= wrev /\ its[j].val = 0
  BY <1>2, <1>5, <1>6 DEF purgedItems, Entry, Missing
<1>8. Missing.rev = 0 /\ Missing.val = 0
  BY DEF Missing
<1>9. TypeOK'
  <2>1. tombstones' \in SUBSET Key
    BY <1>5 DEF remainingTombstones, IInv, TypeOK
  <2>2. floor' \in [Key -> Nat] /\ missed' \in SUBSET Key
    BY <1>1, <1>2, <1>3 DEF IInv, TypeOK, MaxOf
  <2> QED  BY <1>1, <1>2, <1>4, <1>7, <2>1, <2>2 DEF IInv, TypeOK
<1>10. Constant' /\ Named' /\ \A r : Changed(r)' = Changed(r)
  BY <1>1 DEF IInv, Constant, Named, Changed
<1>18. ASSUME NEW g \in pending, g # e, g.key = e.key PROVE g.at > e.at
  <2>1. /\ e \in Event /\ g \in Event /\ g.hdr = wrev /\ g.from = e.from
        /\ g.val = hist[g.at][g.key]
    BY <1>2 DEF Running, Waiting, IInv, TypeOK
  <2>2. g.at # e.at
    BY <1>3, <1>18, <2>1 DEF Event
  <2>3. g.at \in Nat /\ e.at \in Nat /\ e.at <= g.at
    BY <1>1, <2>1 DEF Event
  <2> QED  BY <2>2, <2>3
<1>11. Waiting'
  <2> SUFFICES ASSUME NEW g \in pending, g # e
               PROVE  /\ g.at \in g.from + 1 .. wrev /\ g.hdr = wrev
                      /\ g.key \in Changed(g.at) /\ g.val = hist[g.at][g.key]
                      /\ \A r \in g.at .. wrev : g.key \in Changed(r) =>
                           [key |-> g.key, at |-> r, val |-> hist[r][g.key], from |-> g.from, hdr |-> wrev]
                             \in pending \ {e}
    BY <1>1, <1>2, <1>4, <1>10 DEF Waiting, Running
  <2>1. /\ g.at \in g.from + 1 .. wrev /\ g.hdr = wrev
        /\ g.key \in Changed(g.at) /\ g.val = hist[g.at][g.key] /\ g.from = e.from
        /\ \A r \in g.at .. wrev : g.key \in Changed(r) =>
             [key |-> g.key, at |-> r, val |-> hist[r][g.key], from |-> g.from, hdr |-> wrev] \in pending
        /\ g \in Event /\ e \in Event
    BY <1>2 DEF Running, Waiting, IInv, TypeOK
  <2>3. g.key = e.key => g.at > e.at
    BY <1>18
  <2>4. ASSUME NEW r \in g.at .. wrev, g.key = e.key PROVE r # e.at
    BY <1>3, <2>1, <2>3, <2>4 DEF Event
  <2> QED  BY <2>1, <2>4
<1>12. ASSUME NEW op \in inflight PROVE Current(op)'
  <2>1. Current(op) /\ op.rev \in Nat
    BY <1>2 DEF Running, Outstanding, IInv, TypeOK, Op
  <2>2. lastWatch' < op.rev => ~(op.rev <= wrev)
    BY <1>2, <1>4, <2>1
  <2>3. ~Unbegun'
    BY <1>1, <1>2, <1>4 DEF Unbegun
  <2> QED  BY <1>1, <2>1, <2>2, <2>3 DEF Current
<1>13. ASSUME NEW j \in Key
       PROVE  /\ items[j].rev \in Nat /\ items[j].rev <= rev /\ floor[j] \in Nat
              /\ Ahead(j) /\ Level(j) /\ its[j].rev \in Nat /\ items'[j].rev \in Nat
  BY <1>2, <1>6, <1>7 DEF Running, Ahead, IInv, TypeOK, Entry
<1>14. ASSUME NEW j \in Key PROVE Ahead(j)'
  <2>1. its[j] = items[j] \/ (items[j].rev <= wrev /\ its[j].rev <= wrev)
    BY <1>2, <1>6, <1>8
  <2>2. items'[j] = items[j] \/ (items[j].rev <= wrev /\ items'[j].rev <= wrev)
    BY <1>2, <1>7, <1>8, <2>1
  <2>3. floor'[j] = floor[j] \/ floor'[j] = MaxOf(floor[j], e.at)
    BY <1>1, <1>3 DEF IInv, TypeOK
  <2>4. floor'[j] <= MaxOf(items'[j].rev, wrev)
    BY <1>2, <1>3, <1>13, <2>2, <2>3 DEF Ahead, MaxOf
  <2>5. items'[j].rev <= rev
    BY <1>2, <1>13, <2>2
  <2>6. items'[j].rev > wrev => items'[j] = items[j]
    BY <1>2, <1>13, <2>2
  <2> QED  BY <1>1, <1>13, <2>4, <2>5, <2>6 DEF Ahead
\* A later event of the same key is in the response, or the key is level.
<1>15. ASSUME \A g \in pending : g.key = e.key => g = e PROVE hist[wrev][e.key] = e.val
  <2>1. ASSUME NEW r \in e.at + 1 .. wrev PROVE e.key \notin Changed(r)
    <3>1. r \in e.at .. wrev /\ r # e.at
      BY <1>2, <1>3
    <3>2. e.key \in Changed(r) =>
            [key |-> e.key, at |-> r, val |-> hist[r][e.key], from |-> e.from, hdr |-> wrev] \in pending
      BY <1>2, <3>1 DEF Running, Waiting
    <3> QED  BY <1>15, <3>1, <3>2
  <2> QED  BY <1>2, <1>3, <2>1 DEF IInv, Constant
<1>16. ASSUME NEW j \in Key PROVE Level(j)'
  <2> SUFFICES ASSUME ~Behind(j)', j \notin missed', items'[j].rev <= wrev
               PROVE  items'[j].val = hist[wrev][j]
    BY <1>1 DEF Level
  <2>1. CASE j # e.key
    <3>1. ~Behind(j) /\ j \notin missed
      BY <1>1, <2>1 DEF Behind
    <3>2. its[j] = items[j]
      BY <1>6, <2>1
    <3>3. items[j].rev <= wrev
      BY <1>7, <3>2
    <3>4. items[j].val = hist[wrev][j]
      BY <1>13, <3>1, <3>3 DEF Level
    <3> QED  BY <1>7, <1>8, <3>2, <3>4
  <2>2. CASE j = e.key
    <3>1. hist[wrev][e.key] = e.val
      BY <1>1, <1>15, <2>2 DEF Behind
    <3>2. ~Shadowed(e) /\ IsNext(e) /\ Before(e)
      BY <1>1, <1>2, <2>2 DEF IsNext, Running
    <3>3. items[e.key].rev = wrev /\ e.val # 0 => items[e.key].val = hist[wrev][e.key]
      BY <1>2, <1>3, <3>2 DEF Before, Unbegun
    <3>4. its[e.key].rev <= wrev => its[e.key].val = hist[wrev][e.key]
      <4>1. CASE its[e.key] = items[e.key] /\ items[e.key].rev > wrev
        BY <1>2, <1>3, <1>13, <4>1
      <4>2. CASE its[e.key] = items[e.key] /\ items[e.key].rev = wrev /\ e.val # 0
        BY <3>3, <4>2
      <4>3. CASE its[e.key] = [rev |-> wrev, val |-> e.val]
        BY <3>1, <4>3
      <4>4. CASE its[e.key] = Missing /\ e.val = 0
        BY <1>8, <3>1, <4>4
      <4> QED  BY <1>6, <4>1, <4>2, <4>3, <4>4
    <3> QED  BY <1>7, <1>8, <2>2, <3>4
  <2> QED  BY <2>1, <2>2
<1>17. ASSUME NEW g \in pending, g # e PROVE Before(g)'
  <2>0. ~Unbegun'
    BY <1>1, <1>2, <1>4 DEF Unbegun
  <2> SUFFICES ASSUME IsNext(g)', items'[g.key].rev = wrev, g.val # 0, ~Shadowed(g)
               PROVE  items'[g.key].val = hist[wrev][g.key]
    BY <1>1, <2>0 DEF Before, Shadowed
  <2>1. /\ g.key \in Key /\ g.at \in g.from + 1 .. wrev /\ g.from = e.from /\ g.at \in Nat
        /\ g.hdr = wrev /\ g.val = hist[g.at][g.key] /\ g \in Event /\ e \in Event
    BY <1>2 DEF Running, Waiting, IInv, TypeOK, Event
  <2>2. items'[g.key] = its[g.key]
    BY <1>2, <1>3, <1>7, <1>8, <2>1
  <2>3. CASE g.key # e.key
    <3>1. its[g.key] = items[g.key] /\ IsNext(g) /\ Before(g)
      BY <1>1, <1>2, <1>6, <2>1, <2>3 DEF IsNext, Running
    <3>2. CASE Unbegun
      <4>1. items[g.key].rev > g.from
        <5>1. items[g.key].rev = wrev /\ g.from \in Nat
          BY <2>1, <2>2, <3>1 DEF Event
        <5> QED  BY <1>2, <2>1, <5>1
      <4> QED  BY <2>2, <3>1, <3>2, <4>1 DEF Before
    <3>3. CASE ~Unbegun
      BY <2>2, <3>1, <3>3 DEF Before
    <3> QED  BY <3>2, <3>3
  <2>4. CASE g.key = e.key
    <3>2. g.at > e.at
      BY <1>17, <1>18, <2>4
    <3>3. ASSUME NEW r \in e.at + 1 .. g.at - 1 PROVE e.key \notin Changed(r)
      <4>1. r \in e.at .. wrev /\ r # e.at /\ r < g.at
        BY <1>2, <1>3, <2>1
      <4>2. e.key \in Changed(r) =>
              [key |-> e.key, at |-> r, val |-> hist[r][e.key], from |-> e.from, hdr |-> wrev] \in pending'
        BY <1>1, <1>2, <4>1 DEF Running, Waiting
      <4>3. \A f \in pending' : f.key = g.key => g.at <= f.at
        BY DEF IsNext
      <4> QED  BY <2>1, <2>4, <4>1, <4>2, <4>3
    <3>4. hist[g.at - 1][e.key] = e.val
      <4>1. e.at \in 0 .. rev /\ g.at - 1 \in 0 .. rev /\ e.at <= g.at - 1
        BY <1>2, <1>3, <2>1, <3>2
      <4> QED  BY <1>3, <3>3, <4>1 DEF IInv, Constant
    <3>5. e.val = 0
      <4>1. e.val \in {0, e.at}
        BY <1>3 DEF IInv, Named
      <4>2. ~(e.val > g.from)
        BY <2>4, <3>4 DEF Shadowed
      <4> QED  BY <1>3, <2>1, <4>1, <4>2
    <3>6. its[e.key] = Missing \/ its[e.key].rev > wrev
      BY <1>6, <3>5
    <3> QED  BY <1>2, <1>3, <1>8, <2>2, <2>4, <3>6
  <2> QED  BY <2>3, <2>4
<1> QED  BY <1>1, <1>9, <1>10, <1>11, <1>12, <1>14, <1>16, <1>17 DEF IInv, Running, Outstanding

\* Start reads one revision of the store into an idle cache.
LEMMA StartStep ==
  ASSUME IInv, Start
  PROVE  IInv'
<1>1. /\ phase = "new" /\ phase' = "running" /\ wrev' = rev
      /\ UNCHANGED <<rev, hist, tombstones, pending, inflight, missed>>
      /\ floor' = [k \in Key |-> rev]
  BY DEF Start
<1>2. pending = {} /\ inflight = {} /\ lastWatch = 0 /\ rev \in Nat /\ hist[rev] \in [Key -> Nat]
  BY <1>1, MaxRevIsNat DEF IInv, TypeOK
<1>3. items' \in [Key -> Entry] /\ lastWatch' \in {0, rev}
  BY <1>2 DEF Start, Entry, Missing
<1>4. TypeOK'
  BY <1>1, <1>2, <1>3 DEF IInv, TypeOK
<1>5. Constant' /\ Named'
  BY <1>1 DEF IInv, Constant, Named, Changed
<1>6. \A k \in Key : items'[k].rev \in {0, rev} /\ items'[k].val = hist[rev][k]
  BY <1>2 DEF Start, Missing
<1>7. Waiting' /\ Outstanding' /\ \A e \in pending' : Before(e)'
  BY <1>1, <1>2, <1>3 DEF Waiting, Outstanding
<1>8. \A k \in Key : Ahead(k)' /\ Level(k)'
  BY <1>1, <1>2, <1>6 DEF Ahead, Level, MaxOf
<1> QED  BY <1>1, <1>4, <1>5, <1>7, <1>8 DEF IInv, Running

\* Stop leaves nothing to be wrong about.
LEMMA StopStep ==
  ASSUME IInv, Stop
  PROVE  IInv'
<1>1. TypeOK' /\ phase' = "stopped"
  BY DEF Stop, IInv, TypeOK, Entry, Missing
<1>2. rev' = rev /\ hist' = hist
  BY DEF Stop
<1>3. Constant' /\ Named'
  BY <1>2 DEF IInv, Constant, Named, Changed
<1> QED  BY <1>1, <1>3 DEF IInv

-----------------------------------------------------------------------------
(***************************************************************************)
(* The theorems                                                            *)
(***************************************************************************)

LEMMA NextKeepsInv == IInv /\ [Next]_vars => IInv'
<1> SUFFICES ASSUME IInv, [Next]_vars PROVE IInv'
  OBVIOUS
<1>1. CASE UNCHANGED vars
  <2>1. TypeOK' /\ Constant' /\ Named' /\ \A r : Changed(r)' = Changed(r)
    BY <1>1 DEF vars, IInv, TypeOK, Constant, Named, Changed
  <2>2. phase = "running" => Running'
    <3>1. rev' \in Nat /\ rev <= rev' /\ \A r \in 0 .. rev : hist'[r] = hist[r]
      BY <1>1, MaxRevIsNat DEF vars, IInv, TypeOK
    <3> QED  BY <1>1, <3>1, GrowthKeeps DEF vars, IInv, Running, Outstanding
  <2> QED  BY <1>1, <2>1, <2>2 DEF IInv, vars
<1>2. CASE Next
  BY <1>2, RemoteStep, LocalStep, UpdateCacheStep, StartStep, ReceiveStep, InterruptStep, StopStep,
     HandleEventStep DEF Next
<1> QED  BY <1>1, <1>2

LEMMA AlwaysInv == Spec => []IInv
  BY InitInv, NextKeepsInv, PTL DEF Spec

\* The cache is well typed in every reachable state.
THEOREM CacheTypeCorrect == Spec => []TypeOK
<1>1. IInv => TypeOK
  BY DEF IInv
<1> QED  BY <1>1, AlwaysInv, PTL

\* Whatever the order in which write-through updates and watch events arrive,
\* and however many revisions a response has, a read shows etcd at a revision
\* no older than what the cache was told about the key, except in the middle of
\* a response and for keys whose last event was lost (cache.Start, UpdateCache).
THEOREM FreshReadsHold == Spec => []FreshReads
<1>1. ASSUME IInv, phase = "running", NEW k \in Key \ missed, ~Split(k) PROVE Fresh(k)
  <2>1. /\ rev \in Nat /\ wrev \in 0 .. rev /\ lastWatch \in Nat /\ items[k].rev \in Nat
        /\ floor[k] \in Nat /\ items[k].rev <= rev /\ Ahead(k) /\ Level(k)
    BY <1>1, MaxRevIsNat DEF IInv, TypeOK, Entry, Running, Ahead
  <2>2. CASE ~Behind(k)
    <3>1. MaxOf(items[k].rev, wrev) \in floor[k] .. rev
      BY <2>1 DEF Ahead, MaxOf
    <3>2. hist[MaxOf(items[k].rev, wrev)][k] = items[k].val
      BY <1>1, <2>1, <2>2 DEF Ahead, Level, MaxOf
    <3> QED  BY <3>1, <3>2 DEF Fresh, Visible
  <2>3. CASE Behind(k)
    <3>1. PICK e \in pending : e.key = k
      BY <2>3 DEF Behind
    <3>2. e.hdr = wrev /\ e.from \in Nat /\ e.from < wrev /\ Before(e)
      BY <1>1, <2>1 DEF IInv, TypeOK, Event, Running, Waiting
    <3>3. Unbegun
      BY <1>1, <2>1, <3>1, <3>2 DEF Split, Unbegun
    <3>4. MaxOf(items[k].rev, e.from) \in floor[k] .. rev
      BY <2>1, <3>1, <3>2, <3>3 DEF Before, MaxOf
    <3>5. hist[MaxOf(items[k].rev, e.from)][k] = items[k].val
      BY <1>1, <2>1, <3>1, <3>2, <3>3 DEF Before, MaxOf
    <3> QED  BY <3>4, <3>5 DEF Fresh, Visible
  <2> QED  BY <2>2, <2>3
<1>2. IInv => FreshReads
  BY <1>1 DEF FreshReads
<1> QED  BY <1>2, AlwaysInv, PTL

\* Once the watch has handled everything the cache equals the store, whatever
\* was delivered together, except for keys whose last event was lost.
THEOREM CaughtUpHolds == Spec => []CaughtUp
<1>1. ASSUME IInv, phase = "running", pending = {}, wrev = rev, NEW k \in Key \ missed
      PROVE  Visible(k) = hist[rev][k]
  <2>1. Level(k) /\ items[k].rev <= rev /\ ~Behind(k)
    BY <1>1 DEF IInv, Running, Ahead, Behind
  <2> QED  BY <1>1, <2>1 DEF Level, Visible
<1>2. IInv => CaughtUp
  BY <1>1 DEF CaughtUp
<1> QED  BY <1>2, AlwaysInv, PTL

=============================================================================
