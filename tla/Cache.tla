------------------------------- MODULE Cache -------------------------------
(***************************************************************************)
(* The write-through cache of one process (server/internal/storage/        *)
(* cache.go) and the watch that feeds it (storage/watch.go).               *)
(*                                                                         *)
(* etcd is the sequence of its store revisions.  A value is named by the   *)
(* revision that wrote it, 0 stands for "no value", so hist[r][k] is what  *)
(* key k holds at revision r.  An operation of this process is committed   *)
(* by etcd first and applied to the cache (UpdateCache) later; the watch   *)
(* delivers the same write, and those of the other processes, in between.  *)
(***************************************************************************)
EXTENDS Naturals, FiniteSets

CONSTANTS
    Key,        \* the keys under the prefix of the cache
    MaxRev,     \* bound: number of revisions of the store
    MaxOps      \* bound: local operations whose UpdateCache is outstanding

ASSUME KeyIsFinite == IsFiniteSet(Key)
ASSUME MaxRevIsNat == MaxRev \in Nat
ASSUME MaxOpsIsNat == MaxOps \in Nat

VARIABLES
    rev,         \* the current revision of the store
    hist,        \* the store at every revision up to rev
    phase,       \* "new", "running" or "stopped"
    items,       \* c.items: the revision and the value cached for a key
    lastWatch,   \* c.lastWatchRevision
    tombstones,  \* c.tombstones
    wrev,        \* the revision of the watch (watchOp.revision)
    pending,     \* events received by the watch and not handled yet
    inflight,    \* local operations committed by etcd, UpdateCache to come
    floor,       \* history: newest revision of a key the cache was told about
    missed       \* history: keys whose last event an interruption has left out,
                 \* or was put in the same response as the value it replaces

vars == <<rev, hist, phase, items, lastWatch, tombstones, wrev, pending,
          inflight, floor, missed>>

\* rev = 0: the key is not in the map; rev > 0 and val = 0: a cached delete.
Entry   == [rev : Nat, val : Nat]
Missing == [rev |-> 0, val |-> 0]

\* An event of revision at, delivered in a response that follows revision from
\* and whose header says hdr.
Event == [key : Key, at : Nat, val : Nat, from : Nat, hdr : Nat]

\* A local operation with the revision of its answer; a delete writes 0.
Op == [kind : {"key", "prefix"}, keys : SUBSET Key, rev : Nat, val : Nat]

TypeOK ==
    /\ rev \in 0 .. MaxRev
    /\ hist \in [0 .. rev -> [Key -> Nat]]
    /\ phase \in {"new", "running", "stopped"}
    /\ items \in [Key -> Entry]
    /\ lastWatch \in Nat
    /\ tombstones \in SUBSET Key
    /\ wrev \in 0 .. rev
    /\ pending \in SUBSET Event
    /\ inflight \in SUBSET Op
    /\ floor \in [Key -> Nat]
    /\ missed \in SUBSET Key

Init ==
    /\ rev = 0
    /\ hist = [r \in {0} |-> [k \in Key |-> 0]]
    /\ phase = "new"
    /\ items = [k \in Key |-> Missing]
    /\ lastWatch = 0
    /\ tombstones = {}
    /\ wrev = 0
    /\ pending = {}
    /\ inflight = {}
    /\ floor = [k \in Key |-> 0]
    /\ missed = {}

-----------------------------------------------------------------------------
(***************************************************************************)
(* Helpers on c.items; the callers hold c.mu                               *)
(***************************************************************************)

MaxOf(a, b) == IF a >= b THEN a ELSE b

\* What a Get of k returns, 0 for ErrNotFound.
Visible(k) == items[k].val

\* unlockedWrite and, with v = 0, unlockedWriteTombstone.
unlockedWrite(its, k, v, r) ==
    IF its[k].rev >= r THEN its ELSE [its EXCEPT ![k] = [rev |-> r, val |-> v]]

unlockedDelete(its, k, r) ==
    IF its[k].rev > r THEN its ELSE [its EXCEPT ![k] = Missing]

\* purgeTombstones: drop the cached deletes at or before r ...
purgedItems(its, ts, r) ==
    [k \in Key |-> IF k \in ts /\ its[k].rev <= r /\ its[k].val = 0
                   THEN Missing ELSE its[k]]

\* ... and keep the tombstones that the watch has not reached.
remainingTombstones(its, ts, r) == {k \in ts : its[k].rev > r}

\* The store moves on to a new revision with contents s.
Commit(s) ==
    /\ rev < MaxRev
    /\ rev' = rev + 1
    /\ hist' = [r \in 0 .. rev + 1 |-> IF r <= rev THEN hist[r] ELSE s]

\* The keys that revision r has changed.
Changed(r) == {k \in Key : hist[r][k] # hist[r - 1][k]}

\* Mutant of EventsOf: the watch is opened with a filter on deletes.
MutEventsOf(r, f, h) ==
    {[key |-> k, at |-> r, val |-> hist[r][k], from |-> f, hdr |-> h] :
        k \in {j \in Changed(r) : hist[r][j] # 0}}

\* The events of revision r, in the response that brings f + 1 .. h.
EventsOf(r, f, h) ==
    {[key |-> k, at |-> r, val |-> hist[r][k], from |-> f, hdr |-> h] : k \in Changed(r)}

\* The contents of the store after a transaction that puts the keys P and
\* deletes the keys D.
Written(P, D) ==
    [k \in Key |-> IF k \in P THEN rev + 1 ELSE IF k \in D THEN 0 ELSE hist[rev][k]]

\* Deleting keys that are absent is no revision.
Writes(P, D) == P # {} \/ \E k \in D : hist[rev][k] # 0

-----------------------------------------------------------------------------
(***************************************************************************)
(* Operations of other processes, one or several keys at a time; leases    *)
(* that expire delete keys as well                                         *)
(***************************************************************************)

RemoteTxn(P, D) ==
    /\ Writes(P, D)
    /\ Commit(Written(P, D))
    /\ UNCHANGED <<phase, items, lastWatch, tombstones, wrev, pending, inflight, floor, missed>>

-----------------------------------------------------------------------------
(***************************************************************************)
(* Operations of this process                                              *)
(***************************************************************************)

Issue(ops) ==
    /\ phase = "running"
    /\ Cardinality(inflight) < MaxOps
    /\ inflight' = inflight \cup ops
    /\ UNCHANGED <<phase, items, lastWatch, tombstones, wrev, pending, floor, missed>>

KeyOps(P, D, r) ==
    {[kind |-> "key", keys |-> {k}, rev |-> r, val |-> IF k \in P THEN r ELSE 0] : k \in P \cup D}

\* Put, Create, Update, DeleteByKey, DeleteValue and txn.Commit: the part of
\* Exec or Commit before UpdateCache.  The operations of a transaction share a
\* revision, and their UpdateCache calls follow one by one.  An answer without
\* a revision of its own carries the current one.
LocalTxn(P, D) ==
    /\ P \cup D # {}
    /\ \/ /\ Writes(P, D)
          /\ Commit(Written(P, D))
          /\ Issue(KeyOps(P, D, rev + 1))
       \/ /\ ~Writes(P, D)
          /\ rev > 0
          /\ UNCHANGED <<rev, hist>>
          /\ Issue(KeyOps(P, D, rev))

LocalDeletePrefix ==
    /\ Writes({}, Key)
    /\ Commit(Written({}, Key))
    /\ Issue({[kind |-> "prefix", keys |-> Key, rev |-> rev + 1, val |-> 0]})

\* The keys that an operation is about: deletePrefix only visits those that
\* are in the map.
Visited(op) == {k \in op.keys : op.kind = "key" \/ items[k].rev > 0}

\* The operation has returned.
Returned(op) ==
    /\ inflight' = inflight \ {op}
    /\ floor' = [k \in Key |-> IF k \in Visited(op) THEN MaxOf(floor[k], op.rev) ELSE floor[k]]
    /\ UNCHANGED <<rev, hist, phase, lastWatch, wrev, pending, missed>>

Apply(op) ==
    /\ items' = [k \in Key |-> IF k \in Visited(op)
                               THEN unlockedWrite(items, k, op.val, op.rev)[k]
                               ELSE items[k]]
    /\ tombstones' = IF op.val = 0
                     THEN tombstones \cup {k \in Visited(op) : items[k].rev < op.rev}
                     ELSE tombstones

\* Mutant of UpdateCache: does not ask whether the watch is ahead.
MutUpdateCache(op) == Apply(op) /\ Returned(op)

\* put, delete and deletePrefix: skipped when the watch is at or ahead of the
\* operation.
UpdateCache(op) ==
    /\ IF op.rev <= lastWatch THEN UNCHANGED <<items, tombstones>> ELSE Apply(op)
    /\ Returned(op)

-----------------------------------------------------------------------------
(***************************************************************************)
(* Start, the watch and Stop                                               *)
(***************************************************************************)

\* Mutant of Start: the watch begins one revision too late.
MutStart ==
    /\ phase = "new"
    /\ phase' = "running"
    /\ items' = [k \in Key |-> IF hist[rev][k] = 0 THEN Missing
                               ELSE [rev |-> rev, val |-> hist[rev][k]]]
    /\ lastWatch' = IF \E k \in Key : hist[rev][k] # 0 THEN rev ELSE lastWatch
    /\ wrev' = rev + 1
    /\ floor' = [k \in Key |-> rev]
    /\ UNCHANGED <<rev, hist, tombstones, pending, inflight, missed>>

\* Start: the watch loads the prefix (nobody uses the cache yet) and is set
\* up to follow the revision of that load.
Start ==
    /\ phase = "new"
    /\ phase' = "running"
    /\ items' = [k \in Key |-> IF hist[rev][k] = 0 THEN Missing
                               ELSE [rev |-> rev, val |-> hist[rev][k]]]
    /\ lastWatch' = IF \E k \in Key : hist[rev][k] # 0 THEN rev ELSE lastWatch
    /\ wrev' = rev
    /\ floor' = [k \in Key |-> rev]
    /\ UNCHANGED <<rev, hist, tombstones, pending, inflight, missed>>

\* A response of the watch.  etcd sends one revision per response to a watch
\* that keeps up; one that lags behind (after a reconnect) gets all it has
\* missed in one response, whose header carries the current revision.
Receive ==
    /\ phase = "running"
    /\ pending = {}
    /\ wrev < rev
    /\ \E h \in {wrev + 1, rev} :
         /\ pending' = UNION {EventsOf(r, wrev, h) : r \in wrev + 1 .. h}
         /\ wrev' = h
    /\ UNCHANGED <<rev, hist, phase, items, lastWatch, tombstones, inflight, floor, missed>>

\* A response with an error, such as a compaction: the watch moves on to the
\* revision in its header, "even in case of an error", and is opened again.
Interrupt ==
    /\ phase = "running"
    /\ pending = {}
    /\ wrev < rev
    /\ missed' = missed \cup UNION {Changed(r) : r \in wrev + 1 .. rev}
    /\ wrev' = rev
    /\ UNCHANGED <<rev, hist, phase, items, lastWatch, tombstones, pending, inflight, floor>>

\* A put whose predecessor was put in the same response.
Shadowed(e) == e.val # 0 /\ hist[e.at - 1][e.key] > e.from

\* The handler of the watch, for the next event of the response.
HandleEvent(e) ==
    /\ phase = "running"
    /\ \A f \in pending : e.at <= f.at
    /\ pending' = pending \ {e}
    /\ lastWatch' = MaxOf(lastWatch, e.hdr)
    /\ LET its == IF e.val # 0 THEN unlockedWrite(items, e.key, e.val, e.hdr)
                               ELSE unlockedDelete(items, e.key, e.hdr)
       IN  /\ items' = purgedItems(its, tombstones, e.hdr)
           /\ tombstones' = remainingTombstones(its, tombstones, e.hdr)
    /\ floor' = [floor EXCEPT ![e.key] = MaxOf(@, e.at)]
    /\ missed' = IF Shadowed(e) THEN missed \cup {e.key} ELSE missed \ {e.key}
    /\ UNCHANGED <<rev, hist, phase, wrev, inflight>>

Stop ==
    /\ phase = "running"
    /\ phase' = "stopped"
    /\ items' = [k \in Key |-> Missing]
    /\ lastWatch' = 0
    /\ tombstones' = {}
    /\ pending' = {}
    /\ UNCHANGED <<rev, hist, wrev, inflight, floor, missed>>

-----------------------------------------------------------------------------

Next ==
    \/ \E P \in SUBSET Key : \E D \in SUBSET (Key \ P) : RemoteTxn(P, D) \/ LocalTxn(P, D)
    \/ LocalDeletePrefix
    \/ \E op \in inflight : UpdateCache(op)
    \/ Start \/ Receive \/ Interrupt \/ Stop
    \/ \E e \in pending : HandleEvent(e)

Spec == Init /\ [][Next]_vars

\* etcd sends what the watch has not seen, and its goroutine handles it.
FairSpec ==
    /\ Spec
    /\ WF_vars(Receive)
    /\ WF_vars(\E e \in pending : HandleEvent(e))

-----------------------------------------------------------------------------
(***************************************************************************)
(* Properties                                                              *)
(***************************************************************************)

\* The watch is in the middle of a response that has an event of k to come:
\* lastWatch is ahead of what the cache shows for k.
Split(k) == \E e \in pending : e.key = k /\ lastWatch >= e.hdr

Fresh(k) == \E r \in floor[k] .. rev : hist[r][k] = Visible(k)

\* What the cache shows for a key is what etcd held at some revision that is
\* not older than anything the cache was told about that key, by the watch or
\* by an operation of this process that has returned, unless the watch is in
\* the middle of a response or has lost the last event of the key.  Late
\* write-through updates resurrect nothing, late events undo nothing
\* (cache_ordering_test).
FreshReads == phase = "running" => \A k \in Key \ missed : ~Split(k) => Fresh(k)

\* The same without exceptions.
FreshReadsAlways == phase = "running" => \A k \in Key : Fresh(k)

\* A cache whose watch has handled everything shows exactly what etcd holds,
\* however many revisions came in one response, except for the keys whose last
\* event was lost.
CaughtUp ==
    phase = "running" /\ pending = {} /\ wrev = rev =>
        \A k \in Key \ missed : Visible(k) = hist[rev][k]

\* The same without exception: a cache "uses Watch operations to stay
\* updated".
StaysUpdated ==
    phase = "running" /\ pending = {} /\ wrev = rev =>
        \A k \in Key : Visible(k) = hist[rev][k]

\* When etcd's contents stop changing, a running cache ends up showing them.
Converges ==
    \A k \in Key, v \in 0 .. MaxRev :
        <>[](phase = "running" /\ hist[rev][k] = v /\ k \notin missed) => <>[](Visible(k) = v)

=============================================================================
