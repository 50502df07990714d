------------------------ MODULE EntityRegistryProofs ------------------------
(***************************************************************************)
(* Proofs about EntityRegistry, for every cap, throttle, set of pids and   *)
(* set of /proc answers.  Each member function gets a lemma that says it   *)
(* keeps the registry well formed (Good) and only lets it evolve in the    *)
(* ways an entity may change (Evolves); Ingest is their composition.       *)
(*                                                                         *)
(* Who is reported and who is evicted needs more than that: Attributes     *)
(* says what one resolution does for the actor it is given, and TwoSteps   *)
(* that an Ingest is the resolution of the subject followed by nothing but *)
(* bookkeeping or the resolution of a child.  The context, the eviction    *)
(* order and the refinement of ProcessDirectory follow from it.            *)
(***************************************************************************)
EXTENDS EntityRegistry, FiniteSetTheorems, TLAPS

\* TypeOK and IndexExact, of a registry value.
Typed(r) ==
  /\ r.next \in Nat \ {0}
  /\ DOMAIN r.procs \subseteq 1 .. (r.next - 1)
  /\ r.procs \in [DOMAIN r.procs -> Entity]
  /\ r.index \in [Pids -> 0 .. (r.next - 1)]

Leads(r, k) == /\ r.index[k] \in DOMAIN r.procs
               /\ ~r.procs[r.index[k]].exited
               /\ Key(r.procs[r.index[k]]) = k

Found(r, i) == /\ Key(r.procs[i]) \in Pids
               /\ r.index[Key(r.procs[i])] = i

Exact(r) == /\ \A k \in Pids : r.index[k] # 0 => Leads(r, k)
            /\ \A i \in DOMAIN r.procs : ~r.procs[i].exited => Found(r, i)

Good(r) == Typed(r) /\ Exact(r)

\* What may become of one retained entity.
EntityEvolves(e, f) ==
  /\ e.exited => f = e
  /\ Key(f) = Key(e)
  /\ e.start # 0 => f.start = e.start
  /\ e.parent # 0 => f.parent = e.parent

\* What may become of the registry.
Evolves(r, s) ==
  /\ r.next <= s.next
  /\ \A i \in DOMAIN s.procs : i \in DOMAIN r.procs \/ i >= r.next
  /\ \A i \in DOMAIN r.procs \cap DOMAIN s.procs : EntityEvolves(r.procs[i], s.procs[i])

-----------------------------------------------------------------------------
(* Entities.                                                               *)

\* RefreshRich fills in /proc fields, and a start time only where none is known.
LEMMA RefreshRichEntity ==
  ASSUME NEW e \in Entity, NEW snap \in Snapshot
  PROVE  /\ RefreshRich(e, snap) \in Entity
         /\ RefreshRich(e, snap).exited = e.exited
         /\ Key(RefreshRich(e, snap)) = Key(e)
         /\ e.start # 0 => RefreshRich(e, snap).start = e.start
         /\ RefreshRich(e, snap).parent = e.parent
<1> DEFINE x == IF snap.exe # NoExe THEN snap.exe ELSE e.exe
           t == IF e.start = 0 THEN snap.start ELSE e.start
<1>1. x \in Exes \cup {NoExe} /\ t \in Ticks \cup {0} /\ (e.start # 0 => t = e.start)
  BY DEF Entity, Snapshot
<1>2. RefreshRich(e, snap) = [e EXCEPT !.exe = x, !.start = t]
  BY DEF RefreshRich
<1> HIDE DEF x, t
<1> QED
  BY <1>1, <1>2 DEF Entity, Key

\* Entity update functions yield entities and leave the identity fields alone.
LEMMA EntityUpdates ==
  ASSUME NEW e \in Entity, NEW a \in Actor, NEW now \in Times, NEW snap \in Snapshot,
         NEW rich \in BOOLEAN
  PROVE  /\ Checked(e, now) \in Entity
         /\ ~e.exited => EntityEvolves(e, Checked(e, now))
         /\ Checked(e, now).exited = e.exited
         /\ Refreshed(e, a, now, rich, snap) \in Entity
         /\ Refreshed(e, a, now, rich, snap).exited = e.exited
         /\ Key(Refreshed(e, a, now, rich, snap)) = Key(a)
         /\ (~e.exited /\ Key(e) = Key(a)) =>
              EntityEvolves(e, Refreshed(e, a, now, rich, snap))
<1> DEFINE c == Checked(e, now)
<1> DEFINE u == UpdateFast(c, a, now)
<1> DEFINE rr == RefreshRich(u, snap)
<1>1. /\ c \in Entity /\ c.exited = e.exited /\ Key(c) = Key(e)
      /\ c.start = e.start /\ c.parent = e.parent
  BY DEF Checked, Entity, Key
<1>2. /\ u \in Entity /\ u.exited = e.exited /\ Key(u) = Key(a)
      /\ u.start = e.start /\ u.parent = e.parent
  BY <1>1 DEF UpdateFast, Entity, Key, Actor
<1> HIDE DEF u
<1>3. /\ rr \in Entity /\ rr.exited = e.exited /\ Key(rr) = Key(a)
      /\ e.start # 0 => rr.start = e.start
      /\ rr.parent = e.parent
  BY <1>2, RefreshRichEntity
<1>4. /\ Refreshed(e, a, now, rich, snap) = u \/ Refreshed(e, a, now, rich, snap) = rr
  BY DEF Refreshed, u
<1> HIDE DEF c, rr
<1> QED
  BY <1>1, <1>2, <1>3, <1>4 DEF EntityEvolves, c, u, rr

\* The identity check only moves the time of the last check.
LEMMA CheckedEvolves ==
  ASSUME NEW e \in Entity, NEW now \in Times
  PROVE  /\ Checked(e, now) \in Entity
         /\ Checked(e, now).exited = e.exited
         /\ ~e.exited => EntityEvolves(e, Checked(e, now))
  BY DEF Checked, Entity, EntityEvolves, Key

\* A new entity is live and carries its actor's key.
LEMMA NewEntityLive ==
  ASSUME NEW a \in Actor, NEW now \in Times, NEW snap \in Snapshot
  PROVE  /\ NewEntity(a, now, snap) \in Entity
         /\ ~NewEntity(a, now, snap).exited
         /\ Key(NewEntity(a, now, snap)) = Key(a)
<1> DEFINE b == [pid |-> a.pid, tgid |-> a.tgid, exe |-> NoExe, start |-> 0, parent |-> 0,
                 last_seen |-> now, last_check |-> now, exited |-> FALSE, exit_code |-> 0]
<1>1. b \in Entity /\ ~b.exited /\ Key(b) = Key(a)
  BY DEF Entity, Actor, Key
<1>2. NewEntity(a, now, snap) = RefreshRich(b, snap)
  BY DEF NewEntity
<1> HIDE DEF b
<1> QED BY <1>1, <1>2, RefreshRichEntity

-----------------------------------------------------------------------------
(* The registry as it evolves.                                             *)

\* Evolution composes: what is retained at both ends was retained in between.
LEMMA EvolvesTransitive ==
  ASSUME NEW r, NEW s, NEW t, Typed(r), Typed(s), Typed(t), Evolves(r, s), Evolves(s, t)
  PROVE  Evolves(r, t)
<1>1. r.next \in Nat /\ s.next \in Nat /\ t.next \in Nat
  BY DEF Typed
<1>2. DOMAIN r.procs \subseteq 1 .. (r.next - 1) /\ DOMAIN t.procs \subseteq 1 .. (t.next - 1)
  BY DEF Typed
<1>3. \A i \in DOMAIN r.procs \cap DOMAIN t.procs : i \in DOMAIN s.procs
  BY <1>1, <1>2 DEF Evolves
<1>4. \A e, f, g : EntityEvolves(e, f) /\ EntityEvolves(f, g) => EntityEvolves(e, g)
  BY DEF EntityEvolves
<1>5. \A i \in DOMAIN r.procs \cap DOMAIN t.procs : EntityEvolves(r.procs[i], t.procs[i])
  BY <1>3, <1>4 DEF Evolves
<1>6. r.next <= t.next
  BY <1>1 DEF Evolves
<1>7. \A i \in DOMAIN t.procs : i \in DOMAIN r.procs \/ i >= r.next
  BY <1>1, <1>2 DEF Evolves
<1> QED
  BY <1>5, <1>6, <1>7 DEF Evolves

\* A registry that does not change evolves into itself.
LEMMA EvolvesReflexive == ASSUME NEW r, Typed(r) PROVE Evolves(r, r)
  BY DEF Typed, Evolves, EntityEvolves

\* Rewriting a live entity in place, its key kept.
LEMMA WithEntityGood ==
  ASSUME NEW r, Good(r), NEW id \in DOMAIN r.procs, ~r.procs[id].exited,
         NEW e \in Entity, ~e.exited, EntityEvolves(r.procs[id], e),
         NEW s, s = WithEntity(r, id, e)
  PROVE  /\ Good(s)
         /\ Evolves(r, s)
         /\ s.next = r.next
         /\ s.index = r.index
         /\ DOMAIN s.procs = DOMAIN r.procs
         /\ s.procs[id] = e
<1>1. /\ s.next = r.next /\ s.index = r.index
      /\ s.procs = Put(r.procs, id, e)
  BY DEF WithEntity
<1>2. /\ DOMAIN s.procs = DOMAIN r.procs
      /\ s.procs[id] = e
      /\ \A i \in DOMAIN r.procs : i # id => s.procs[i] = r.procs[i]
      /\ s.procs = [i \in DOMAIN r.procs |-> s.procs[i]]
  BY <1>1 DEF Put
<1>3. Typed(s)
  BY <1>1, <1>2 DEF Good, Typed
<1>4. Key(e) = Key(r.procs[id])
  BY DEF EntityEvolves
<1>5. ASSUME NEW k \in Pids, s.index[k] # 0 PROVE Leads(s, k)
  <2>1. Leads(r, k)
    BY <1>1, <1>5 DEF Good, Exact
  <2>2. CASE r.index[k] = id
    BY <1>1, <1>2, <1>4, <2>1, <2>2 DEF Leads
  <2>3. CASE r.index[k] # id
    BY <1>1, <1>2, <2>1, <2>3 DEF Leads
  <2> QED BY <2>2, <2>3
<1>6. ASSUME NEW i \in DOMAIN s.procs, ~s.procs[i].exited PROVE Found(s, i)
  <2>1. i \in DOMAIN r.procs /\ Key(s.procs[i]) = Key(r.procs[i])
    BY <1>2, <1>4
  <2>2. ~r.procs[i].exited
    BY <1>2, <1>6
  <2>3. Found(r, i)
    BY <2>1, <2>2 DEF Good, Exact
  <2> QED BY <1>1, <2>1, <2>3 DEF Found
<1>7. Evolves(r, s)
  <2>1. \A i \in DOMAIN r.procs : EntityEvolves(r.procs[i], s.procs[i])
    BY <1>2 DEF EntityEvolves
  <2> QED BY <1>1, <1>2, <2>1 DEF Evolves, Good, Typed
<1> QED
  BY <1>1, <1>2, <1>3, <1>5, <1>6, <1>7 DEF Good, Exact

\* Removing index entry k of entity id, and making id exited or absent, keeps
\* the two tables exact.  Shared by MarkExited and EvictIfNeeded.
LEMMA RetireExact ==
  ASSUME NEW r, Good(r), NEW id \in DOMAIN r.procs,
         NEW s, s.index = RetireIndex(r.index, Key(r.procs[id]), id),
         DOMAIN s.procs \subseteq DOMAIN r.procs,
         DOMAIN r.procs \ {id} \subseteq DOMAIN s.procs,
         \A i \in DOMAIN s.procs : i # id => s.procs[i] = r.procs[i],
         id \in DOMAIN s.procs => s.procs[id].exited
  PROVE  /\ Exact(s)
         /\ s.index \in [Pids -> 0 .. (r.next - 1)]
         /\ \A k \in Pids : s.index[k] # 0 => s.index[k] = r.index[k] /\ s.index[k] # id
         /\ \A k \in Pids : r.index[k] \notin {0, id} => s.index[k] = r.index[k]
<1> DEFINE e == r.procs[id]
<1>1. r.index \in [Pids -> 0 .. (r.next - 1)] /\ r.next \in Nat \ {0}
  BY DEF Good, Typed
<1>2. \A k \in Pids : r.index[k] = id => k = Key(e)
  <2>1. id # 0
    BY DEF Good, Typed
  <2> QED BY <2>1 DEF Good, Exact, Leads
<1> HIDE DEF e
<1>3. s.index = IF r.index[Key(e)] = id THEN [r.index EXCEPT ![Key(e)] = 0] ELSE r.index
  BY DEF RetireIndex, e
<1>4. /\ s.index \in [Pids -> 0 .. (r.next - 1)]
      /\ \A k \in Pids : r.index[k] # id => s.index[k] = r.index[k]
      /\ \A k \in Pids : r.index[k] = id => s.index[k] = 0
  <2>1. CASE r.index[Key(e)] = id
    <3>1. s.index = [k \in Pids |-> IF k = Key(e) THEN 0 ELSE r.index[k]]
      BY <1>1, <1>3, <2>1
    <3>2. 0 \in 0 .. (r.next - 1) /\ \A k \in Pids : r.index[k] \in 0 .. (r.next - 1)
      BY <1>1
    <3>3. s.index \in [Pids -> 0 .. (r.next - 1)]
      BY <3>1, <3>2
    <3> QED BY <1>2, <2>1, <3>1, <3>3
  <2>2. CASE r.index[Key(e)] # id
    BY <1>1, <1>2, <1>3, <2>2
  <2> QED BY <2>1, <2>2
<1>5. ASSUME NEW k \in Pids, s.index[k] # 0 PROVE Leads(s, k)
  <2>1. r.index[k] # id /\ s.index[k] = r.index[k]
    BY <1>4, <1>5
  <2>2. Leads(r, k)
    BY <1>5, <2>1 DEF Good, Exact
  <2>3. r.index[k] \in DOMAIN s.procs /\ s.procs[r.index[k]] = r.procs[r.index[k]]
    BY <2>1, <2>2 DEF Leads
  <2> QED BY <2>1, <2>2, <2>3 DEF Leads
<1>6. ASSUME NEW i \in DOMAIN s.procs, ~s.procs[i].exited PROVE Found(s, i)
  <2>1. i # id
    BY <1>6
  <2>2. s.procs[i] = r.procs[i] /\ i \in DOMAIN r.procs
    BY <2>1
  <2>3. Found(r, i)
    BY <1>6, <2>2 DEF Good, Exact
  <2>4. r.index[Key(r.procs[i])] # id
    BY <2>1, <2>3 DEF Found
  <2> QED BY <1>4, <2>2, <2>3, <2>4 DEF Found
<1> QED
  BY <1>4, <1>5, <1>6 DEF Exact

\* Marking a live entity exited takes exactly its index entry away.
LEMMA MarkExitedGood ==
  ASSUME NEW r, Good(r), NEW id, NEW code \in Int,
         id \in DOMAIN r.procs => ~r.procs[id].exited,
         NEW s, s = MarkExited(r, id, code)
  PROVE  /\ Good(s)
         /\ Evolves(r, s)
         /\ s.next = r.next
         /\ DOMAIN s.procs = DOMAIN r.procs
         /\ id \in DOMAIN r.procs => s.index[Key(r.procs[id])] = 0
<1>1. CASE id \notin DOMAIN r.procs
  BY <1>1, EvolvesReflexive DEF MarkExited, Good
<1>2. CASE id \in DOMAIN r.procs
  <2> DEFINE e == r.procs[id]
             f == [e EXCEPT !.exited = TRUE, !.exit_code = code]
  <2>1. /\ s.next = r.next
        /\ s.index = RetireIndex(r.index, Key(e), id)
        /\ s.procs = Put(r.procs, id, f)
    BY <1>2 DEF MarkExited
  <2>2. e \in Entity /\ ~e.exited
    BY <1>2 DEF Good, Typed
  <2>3. Key(e) \in Pids /\ r.index[Key(e)] = id
    BY <1>2, <2>2 DEF Good, Exact, Found
  <2> HIDE DEF e
  <2>4. f \in Entity /\ f.exited /\ Key(f) = Key(e) /\ EntityEvolves(e, f)
    BY <2>2 DEF Entity, Key, EntityEvolves
  <2>6. /\ DOMAIN s.procs = DOMAIN r.procs
        /\ s.procs[id] = f
        /\ \A i \in DOMAIN r.procs : i # id => s.procs[i] = r.procs[i]
        /\ s.procs = [i \in DOMAIN r.procs |-> s.procs[i]]
    BY <1>2, <2>1 DEF Put
  <2> HIDE DEF f
  <2>7. /\ Exact(s)
        /\ s.index \in [Pids -> 0 .. (r.next - 1)]
        /\ s.index[Key(e)] = 0
    <3>1. s.procs[id].exited
      BY <2>4, <2>6
    <3>2. s.index = RetireIndex(r.index, Key(r.procs[id]), id)
      BY <2>1 DEF e
    <3>4. /\ DOMAIN s.procs \subseteq DOMAIN r.procs
          /\ DOMAIN r.procs \ {id} \subseteq DOMAIN s.procs
      BY <2>6
    <3>5. /\ \A i \in DOMAIN s.procs : i # id => s.procs[i] = r.procs[i]
          /\ id \in DOMAIN s.procs => s.procs[id].exited
      BY <2>6, <3>1
    <3>6. /\ Exact(s)
          /\ s.index \in [Pids -> 0 .. (r.next - 1)]
          /\ \A k \in Pids : s.index[k] # 0 => s.index[k] = r.index[k] /\ s.index[k] # id
      BY ONLY Good(r), <1>2, <3>2, <3>4, <3>5, RetireExact
    <3> QED BY <2>3, <3>6
  <2>8. Typed(s)
    BY <2>1, <2>4, <2>6, <2>7 DEF Good, Typed
  <2>9. Evolves(r, s)
    <3>1. \A i \in DOMAIN r.procs : EntityEvolves(r.procs[i], s.procs[i])
      BY <2>4, <2>6 DEF EntityEvolves, e
    <3> QED BY <2>1, <2>6, <3>1 DEF Evolves, Good, Typed
  <2> QED
    BY <2>1, <2>6, <2>7, <2>8, <2>9 DEF Good, e
<1> QED
  BY <1>1, <1>2

\* The cap.
Fits(r) == Cardinality(DOMAIN r.procs) <= kMaxEntries

\* The table holds finitely many entities: its ids lie below next_id.
LEMMA TypedFinite == ASSUME NEW r, Typed(r)
                     PROVE  IsFiniteSet(DOMAIN r.procs) /\ Cardinality(DOMAIN r.procs) \in Nat
<1>1. IsFiniteSet(1 .. (r.next - 1))
  BY FS_Interval DEF Typed
<1>2. IsFiniteSet(DOMAIN r.procs)
  BY <1>1, FS_Subset DEF Typed
<1> QED BY <1>2, FS_CardinalityType

\* Eviction keeps the tables exact, touches nothing but the victim, and brings
\* a registry that is one over the cap back under it.
LEMMA EvictGood ==
  ASSUME NEW r, Good(r), NEW s \in EvictIfNeeded(r),
         Cardinality(DOMAIN r.procs) <= kMaxEntries + 1
  PROVE  /\ Good(s)
         /\ Evolves(r, s)
         /\ s.next = r.next
         /\ DOMAIN s.procs \subseteq DOMAIN r.procs
         /\ \A i \in DOMAIN s.procs : s.procs[i] = r.procs[i]
         /\ Fits(s)
<1>1. CASE Cardinality(DOMAIN r.procs) <= kMaxEntries
  <2>1. s = r
    BY <1>1 DEF EvictIfNeeded
  <2> QED BY <1>1, <2>1, EvolvesReflexive DEF Good, Fits
<1>2. CASE ~(Cardinality(DOMAIN r.procs) <= kMaxEntries)
  <2>1. PICK v \in LeastRecentlySeen(r.procs) : s = Evict(r, v)
    BY <1>2 DEF EvictIfNeeded
  <2>2. v \in DOMAIN r.procs
    BY DEF LeastRecentlySeen
  <2>3. /\ s.next = r.next
        /\ s.index = RetireIndex(r.index, Key(r.procs[v]), v)
        /\ s.procs = Drop(r.procs, v)
    BY <2>1 DEF Evict
  <2>4. /\ DOMAIN s.procs = DOMAIN r.procs \ {v}
        /\ \A i \in DOMAIN s.procs : s.procs[i] = r.procs[i]
        /\ s.procs = [i \in DOMAIN s.procs |-> s.procs[i]]
    BY <2>3 DEF Drop
  <2>5. /\ DOMAIN s.procs \subseteq DOMAIN r.procs
        /\ DOMAIN r.procs \ {v} \subseteq DOMAIN s.procs
        /\ v \notin DOMAIN s.procs
    BY <2>4
  <2>6. Exact(s) /\ s.index \in [Pids -> 0 .. (r.next - 1)]
    BY ONLY Good(r), <2>2, <2>3, <2>4, <2>5, RetireExact
  <2>7. Typed(s)
    BY <2>3, <2>4, <2>6 DEF Good, Typed
  <2>8. Evolves(r, s)
    BY <2>3, <2>4 DEF Evolves, EntityEvolves, Good, Typed
  <2>9. Fits(s)
    <3>1. IsFiniteSet(DOMAIN r.procs) /\ Cardinality(DOMAIN r.procs) \in Nat
      BY TypedFinite DEF Good
    <3>2. Cardinality(DOMAIN r.procs \ {v}) = Cardinality(DOMAIN r.procs) - 1
      BY <2>2, <3>1, FS_RemoveElement
    <3> QED BY <2>4, <3>1, <3>2, BoundsAssumption DEF Fits
  <2> QED BY <2>3, <2>4, <2>6, <2>7, <2>8, <2>9 DEF Good
<1> QED BY <1>1, <1>2

\* The registry with one more entity, before EvictIfNeeded.
Inserted(r, a, now, snap) ==
  [procs |-> Put(r.procs, r.next, NewEntity(a, now, snap)),
   index |-> [r.index EXCEPT ![Key(a)] = r.next],
   next  |-> r.next + 1]

\* A new entity enters both tables under a fresh id.
LEMMA InsertGood ==
  ASSUME NEW r, Good(r), Fits(r), NEW a \in Actor, Key(a) \in Pids, r.index[Key(a)] = 0,
         NEW now \in Times, NEW snap \in Snapshot,
         NEW m, m = Inserted(r, a, now, snap)
  PROVE  /\ Good(m)
         /\ Evolves(r, m)
         /\ m.next = r.next + 1
         /\ Cardinality(DOMAIN m.procs) = Cardinality(DOMAIN r.procs) + 1
         /\ Cardinality(DOMAIN m.procs) <= kMaxEntries + 1
         /\ r.next \in Nat \ {0} /\ r.next \notin DOMAIN r.procs
         /\ DOMAIN m.procs = DOMAIN r.procs \cup {r.next}
         /\ m.procs[r.next] = NewEntity(a, now, snap)
         /\ \A i \in DOMAIN r.procs : m.procs[i] = r.procs[i]
         /\ m.index[Key(a)] = r.next
         /\ \A k \in Pids : k # Key(a) => m.index[k] = r.index[k]
<1> DEFINE e == NewEntity(a, now, snap)
<1>1. /\ m.procs = Put(r.procs, r.next, e)
      /\ m.index = [r.index EXCEPT ![Key(a)] = r.next]
      /\ m.next = r.next + 1
  BY DEF Inserted
<1>2. e \in Entity /\ ~e.exited /\ Key(e) = Key(a)
  BY NewEntityLive
<1> HIDE DEF e
<1>3. r.next \in Nat \ {0} /\ r.next \notin DOMAIN r.procs
  BY DEF Good, Typed
<1>4. /\ DOMAIN m.procs = DOMAIN r.procs \cup {r.next}
      /\ m.procs[r.next] = e
      /\ \A i \in DOMAIN r.procs : m.procs[i] = r.procs[i]
      /\ m.procs = [i \in DOMAIN m.procs |-> m.procs[i]]
  BY <1>1, <1>3 DEF Put
<1>5. /\ DOMAIN m.index = Pids
      /\ m.index[Key(a)] = r.next
      /\ \A k \in Pids : k # Key(a) => m.index[k] = r.index[k]
      /\ m.index \in [Pids -> 0 .. r.next]
  BY <1>1, <1>3 DEF Good, Typed
<1>6. Typed(m)
  <2>1. \A i \in DOMAIN m.procs : m.procs[i] \in Entity
    BY <1>2, <1>4 DEF Good, Typed
  <2>2. DOMAIN m.procs \subseteq 1 .. (m.next - 1)
    BY <1>1, <1>3, <1>4 DEF Good, Typed
  <2>3. m.next \in Nat \ {0} /\ m.next - 1 = r.next
    BY <1>1, <1>3
  <2>4. m.procs \in [DOMAIN m.procs -> Entity]
    BY <1>4, <2>1
  <2> QED BY <1>5, <2>2, <2>3, <2>4 DEF Typed
<1>7. ASSUME NEW k \in Pids, m.index[k] # 0 PROVE Leads(m, k)
  <2>1. CASE k = Key(a)
    BY <1>2, <1>4, <1>5, <2>1 DEF Leads
  <2>2. CASE k # Key(a)
    <3>1. m.index[k] = r.index[k] /\ Leads(r, k)
      BY <1>5, <1>7, <2>2 DEF Good, Exact
    <3> QED BY <1>4, <3>1 DEF Leads
  <2> QED BY <2>1, <2>2
<1>8. ASSUME NEW i \in DOMAIN m.procs, ~m.procs[i].exited PROVE Found(m, i)
  <2>1. CASE i = r.next
    BY <1>2, <1>4, <1>5, <2>1 DEF Found
  <2>2. CASE i # r.next
    <3>1. i \in DOMAIN r.procs /\ m.procs[i] = r.procs[i]
      BY <1>4, <2>2
    <3>2. Found(r, i)
      BY <1>8, <3>1 DEF Good, Exact
    <3>3. Key(r.procs[i]) # Key(a)
      <4>1. i # 0
        BY <3>1 DEF Good, Typed
      <4> QED BY <3>2, <4>1 DEF Found
    <3> QED BY <1>5, <3>1, <3>2, <3>3 DEF Found
  <2> QED BY <2>1, <2>2
<1>9. Good(m)
  BY <1>6, <1>7, <1>8 DEF Good, Exact
<1>10. /\ Cardinality(DOMAIN m.procs) = Cardinality(DOMAIN r.procs) + 1
       /\ Cardinality(DOMAIN m.procs) <= kMaxEntries + 1
  <2>1. IsFiniteSet(DOMAIN r.procs) /\ Cardinality(DOMAIN r.procs) \in Nat
    BY TypedFinite DEF Good
  <2>2. Cardinality(DOMAIN m.procs) = Cardinality(DOMAIN r.procs) + 1
    <3>1. Cardinality(DOMAIN r.procs \cup {r.next}) = Cardinality(DOMAIN r.procs) + 1
      BY <1>3, <2>1, FS_AddElement
    <3> QED BY <1>4, <3>1
  <2> QED BY <2>1, <2>2, BoundsAssumption DEF Fits
<1>11. Evolves(r, m)
  <2>1. \A x : EntityEvolves(x, x)
    BY DEF EntityEvolves
  <2> QED BY <1>1, <1>3, <1>4, <2>1 DEF Evolves
<1> QED
  BY <1>1, <1>3, <1>4, <1>5, <1>9, <1>10, <1>11 DEF e

\* CreateProcess inserts the entity and evicts one when the cap is passed.
LEMMA CreateGood ==
  ASSUME NEW r, Good(r), Fits(r), NEW a \in Actor, Key(a) \in Pids, r.index[Key(a)] = 0,
         NEW now \in Times, NEW snap \in Snapshot,
         NEW t \in CreateProcess(r, a, now, snap)
  PROVE  /\ Good(t.reg)
         /\ Fits(t.reg)
         /\ Evolves(r, t.reg)
         /\ t.id = r.next
         /\ t.reg.next = r.next + 1
         /\ t.id \in DOMAIN t.reg.procs => ~t.reg.procs[t.id].exited
<1> DEFINE m == Inserted(r, a, now, snap)
<1>1. PICK s \in EvictIfNeeded(m) : t = [reg |-> s, id |-> r.next]
  BY DEF CreateProcess, Inserted
<1> HIDE DEF m
<1>2. /\ Good(m) /\ Evolves(r, m) /\ m.next = r.next + 1
      /\ Cardinality(DOMAIN m.procs) <= kMaxEntries + 1
      /\ m.procs[r.next] = NewEntity(a, now, snap)
  BY InsertGood DEF m
<1>3. /\ Good(s) /\ Evolves(m, s) /\ s.next = m.next /\ Fits(s)
      /\ DOMAIN s.procs \subseteq DOMAIN m.procs
      /\ \A i \in DOMAIN s.procs : s.procs[i] = m.procs[i]
  BY <1>1, <1>2, EvictGood
<1>4. Evolves(r, s)
  BY <1>2, <1>3, EvolvesTransitive DEF Good
<1>5. ~NewEntity(a, now, snap).exited
  BY NewEntityLive
<1> QED
  BY <1>1, <1>2, <1>3, <1>4, <1>5

\* Retiring the entity of a key whose process has been replaced.
LEMMA RetiredGood ==
  ASSUME NEW r, Good(r), Fits(r), NEW key \in Pids, r.index[key] # 0, NEW now \in Times,
         NEW q, q = Retired(r, r.index[key], now)
  PROVE  /\ Good(q)
         /\ Fits(q)
         /\ Evolves(r, q)
         /\ q.next = r.next
         /\ q.index[key] = 0
         /\ \A k \in Pids \ {key} : q.index[k] = r.index[k]
         /\ DOMAIN q.procs = DOMAIN r.procs
         /\ \A i \in DOMAIN r.procs : i # r.index[key] => q.procs[i] = r.procs[i]
         /\ \A i \in DOMAIN r.procs : q.procs[i].last_seen = r.procs[i].last_seen
<1> DEFINE id == r.index[key]
           c == Checked(r.procs[id], now)
           w == WithEntity(r, id, c)
<1>1. id \in DOMAIN r.procs /\ ~r.procs[id].exited /\ Key(r.procs[id]) = key
  BY DEF Good, Exact, Leads
<1>2. r.procs[id] \in Entity
  BY <1>1 DEF Good, Typed
<1>3. c \in Entity /\ ~c.exited /\ EntityEvolves(r.procs[id], c)
  BY <1>1, <1>2, CheckedEvolves
<1>4. c.last_seen = r.procs[id].last_seen
  BY <1>2 DEF Checked, Entity
<1> HIDE DEF c
<1>5. /\ Good(w) /\ Evolves(r, w) /\ DOMAIN w.procs = DOMAIN r.procs
      /\ w.procs[id] = c /\ w.next = r.next /\ w.index = r.index
  BY <1>1, <1>3, WithEntityGood
<1>6. \A i \in DOMAIN r.procs : i # id => w.procs[i] = r.procs[i]
  BY DEF WithEntity, Put
<1>7. q = MarkExited(w, id, 0)
  BY DEF Retired, c
<1> HIDE DEF w
<1>8. Key(c) = key
  BY <1>1, <1>3 DEF EntityEvolves
<1>9. /\ Good(q) /\ Evolves(w, q) /\ DOMAIN q.procs = DOMAIN w.procs
      /\ q.index[Key(w.procs[id])] = 0 /\ q.next = w.next
  BY <1>1, <1>3, <1>5, <1>7, MarkExitedGood
<1>10. Evolves(r, q)
  BY <1>5, <1>9, EvolvesTransitive DEF Good
<1>11. /\ q.procs = Put(w.procs, id, [c EXCEPT !.exited = TRUE, !.exit_code = 0])
       /\ q.index = RetireIndex(w.index, key, id)
  BY <1>1, <1>5, <1>7, <1>8 DEF MarkExited
<1>12. /\ \A i \in DOMAIN r.procs : i # id => q.procs[i] = r.procs[i]
       /\ q.procs[id].last_seen = r.procs[id].last_seen
  <2>1. q.procs[id] = [c EXCEPT !.exited = TRUE, !.exit_code = 0]
    BY <1>1, <1>5, <1>11 DEF Put
  <2>2. q.procs[id].last_seen = c.last_seen
    BY <1>3, <2>1 DEF Entity
  <2> QED BY <1>4, <1>5, <1>6, <1>11, <2>2 DEF Put
<1>13. \A k \in Pids \ {key} : q.index[k] = r.index[k]
  BY <1>5, <1>11 DEF RetireIndex, Good, Typed
<1> QED
  BY <1>5, <1>8, <1>9, <1>10, <1>12, <1>13 DEF Fits

\* What every resolution yields: a well-formed registry that evolved from r, and
\* an id that was handed out and that, if retained, is live.
Resolved(r, t) ==
  /\ Good(t.reg)
  /\ Fits(t.reg)
  /\ Evolves(r, t.reg)
  /\ t.id \in 0 .. (t.reg.next - 1)
  /\ t.id \in DOMAIN t.reg.procs => ~t.reg.procs[t.id].exited

\* ResolveProcess returns a well-formed registry under the cap, and an id that
\* was handed out: in each of its five branches.
LEMMA ResolveGood ==
  ASSUME NEW r, Good(r), Fits(r), NEW a \in Actor, NEW now \in Times, NEW rich \in BOOLEAN,
         NEW snaps, Key(a) # 0 => snaps[Key(a)] \in Snapshot,
         NEW t \in ResolveProcess(r, a, now, rich, snaps)
  PROVE  Resolved(r, t)
<1> DEFINE key == Key(a)
           id == r.index[key]
           snap == snaps[key]
<1>1. key \in Pids \cup {0} /\ 0 \notin Pids
  BY PidsAssumption DEF Key, Actor
<1>2. r.next \in Nat \ {0} /\ Typed(r) /\ 0 \notin DOMAIN r.procs
  BY DEF Good, Typed
<1>3. ASSUME NEW q, Good(q), Fits(q), Evolves(r, q), q.index[key] = 0, key # 0,
             t \in CreateProcess(q, a, now, snap)
      PROVE  Resolved(r, t)
  <2>1. /\ Good(t.reg) /\ Fits(t.reg) /\ Evolves(q, t.reg)
        /\ t.id = q.next /\ t.reg.next = q.next + 1
        /\ t.id \in DOMAIN t.reg.procs => ~t.reg.procs[t.id].exited
    BY <1>1, <1>3, CreateGood
  <2>2. Evolves(r, t.reg)
    BY <1>2, <1>3, <2>1, EvolvesTransitive DEF Good
  <2>3. q.next \in Nat
    BY <1>3 DEF Good, Typed
  <2> QED BY <2>1, <2>2, <2>3 DEF Resolved
<1>4. CASE key = 0
  <2>1. t = [reg |-> r, id |-> 0]
    BY <1>4 DEF ResolveProcess
  <2> QED BY <1>2, <2>1, EvolvesReflexive DEF Resolved
<1>5. CASE key # 0 /\ id = 0
  <2>1. t \in CreateProcess(r, a, now, snap)
    BY <1>5 DEF ResolveProcess
  <2> QED BY <1>2, <1>3, <1>5, <2>1, EvolvesReflexive
<1>6. ASSUME key # 0, id # 0 PROVE Resolved(r, t)
  <2>1. id \in DOMAIN r.procs /\ ~r.procs[id].exited /\ Key(r.procs[id]) = key
    BY <1>1, <1>6 DEF Good, Exact, Leads
  <2>2. r.procs[id] \in Entity
    BY <2>1 DEF Good, Typed
  <2>3. CASE IsReused(r.procs[id], now, snap)
    <3> DEFINE q == Retired(r, id, now)
    <3>1. t \in CreateProcess(q, a, now, snap)
      BY <1>6, <2>1, <2>3 DEF ResolveProcess
    <3>2. Good(q) /\ Fits(q) /\ Evolves(r, q) /\ q.index[key] = 0
      BY <1>1, <1>6, RetiredGood
    <3> HIDE DEF q
    <3> QED BY <1>3, <1>6, <3>1, <3>2
  <2>4. CASE ~IsReused(r.procs[id], now, snap)
    <3> DEFINE f == Refreshed(r.procs[id], a, now, rich, snap)
               w == WithEntity(r, id, f)
    <3>1. t = [reg |-> w, id |-> id]
      BY <1>6, <2>1, <2>4 DEF ResolveProcess
    <3>2. f \in Entity /\ ~f.exited /\ EntityEvolves(r.procs[id], f)
      BY <2>1, <2>2, <1>6, EntityUpdates
    <3> HIDE DEF f
    <3>3. /\ Good(w) /\ Evolves(r, w) /\ DOMAIN w.procs = DOMAIN r.procs
          /\ w.procs[id] = f /\ w.next = r.next
      BY <2>1, <3>2, WithEntityGood
    <3> HIDE DEF w
    <3>4. id \in 0 .. (r.next - 1)
      BY <1>1, <1>6 DEF Good, Typed
    <3> QED BY <3>1, <3>2, <3>3, <3>4 DEF Resolved, Fits
  <2> QED BY <2>3, <2>4
<1> QED
  BY <1>4, <1>5, <1>6

\* ResolveChild does the same, and gives a parent only to a child that has none.
LEMMA ChildGood ==
  ASSUME NEW r, Good(r), Fits(r), NEW child \in Pids, NEW parentId \in Nat,
         NEW now \in Times, NEW snaps, snaps[child] \in Snapshot,
         NEW t \in ResolveChild(r, child, parentId, now, snaps)
  PROVE  Resolved(r, t)
<1> DEFINE a == [pid |-> child, tgid |-> child]
<1>1. a \in Actor /\ Key(a) = child
  BY PidsAssumption DEF Actor, Key
<1> HIDE DEF a
<1>2. PICK s \in ResolveProcess(r, a, now, TRUE, snaps) :
        t = [reg |-> SetParent(s.reg, s.id, parentId), id |-> s.id]
  BY DEF ResolveChild, a
<1>3. Resolved(r, s)
  BY <1>1, <1>2, ResolveGood
<1>4. CASE SetParent(s.reg, s.id, parentId) = s.reg
  BY <1>2, <1>3, <1>4 DEF Resolved
<1>5. CASE s.id \in DOMAIN s.reg.procs /\ s.reg.procs[s.id].parent = 0
  <2> DEFINE e == s.reg.procs[s.id]
             f == [e EXCEPT !.parent = parentId]
             w == WithEntity(s.reg, s.id, f)
  <2>1. t = [reg |-> w, id |-> s.id]
    BY <1>2, <1>5 DEF SetParent
  <2>2. e \in Entity /\ ~e.exited /\ e.parent = 0
    BY <1>3, <1>5 DEF Resolved, Good, Typed
  <2> HIDE DEF e
  <2>3. f \in Entity /\ ~f.exited /\ EntityEvolves(e, f)
    BY <2>2 DEF Entity, EntityEvolves, Key
  <2> HIDE DEF f
  <2>4. EntityEvolves(s.reg.procs[s.id], f) /\ Good(s.reg) /\ ~s.reg.procs[s.id].exited
    BY <1>3, <2>2, <2>3 DEF e, Resolved
  <2>5. /\ Good(w) /\ Evolves(s.reg, w) /\ DOMAIN w.procs = DOMAIN s.reg.procs
        /\ w.procs[s.id] = f /\ w.next = s.reg.next
    BY <1>5, <2>3, <2>4, WithEntityGood
  <2> HIDE DEF w
  <2>6. Evolves(r, w)
    BY <1>3, <2>5, EvolvesTransitive DEF Good, Resolved
  <2> QED BY <1>3, <2>1, <2>3, <2>5, <2>6 DEF Resolved, Fits
<1> QED
  BY <1>4, <1>5 DEF SetParent

\* ApplyHint touches the exec path of one entity and nothing else.
LEMMA HintGood ==
  ASSUME NEW r, Good(r), Fits(r), NEW id, NEW hint \in Exes \cup {NoExe},
         hint # NoExe /\ id \in DOMAIN r.procs => ~r.procs[id].exited,
         NEW s, s = ApplyHint(r, id, hint)
  PROVE  Good(s) /\ Fits(s) /\ Evolves(r, s) /\ s.next = r.next
<1>1. CASE s = r
  BY <1>1, EvolvesReflexive DEF Good
<1>2. CASE hint # NoExe /\ id \in DOMAIN r.procs
  <2> DEFINE e == r.procs[id]
             f == [e EXCEPT !.exe = hint]
  <2>1. s = r \/ s = WithEntity(r, id, f)
    BY DEF ApplyHint
  <2>2. e \in Entity /\ ~e.exited
    BY <1>2 DEF Good, Typed
  <2> HIDE DEF e
  <2>3. f \in Entity /\ ~f.exited /\ EntityEvolves(e, f)
    BY <2>2 DEF Entity, EntityEvolves, Key
  <2> HIDE DEF f
  <2>4. EntityEvolves(r.procs[id], f) /\ ~r.procs[id].exited
    BY <2>2, <2>3 DEF e
  <2>5. ASSUME s = WithEntity(r, id, f)
        PROVE  Good(s) /\ Evolves(r, s) /\ DOMAIN s.procs = DOMAIN r.procs /\ s.next = r.next
    BY <1>2, <2>3, <2>4, <2>5, WithEntityGood
  <2> QED BY <1>1, <2>1, <2>5 DEF Fits
<1> QED
  BY <1>1, <1>2 DEF ApplyHint

-----------------------------------------------------------------------------
(* What one resolution of an actor does to the two tables.                 *)

\* The id that is given: the one the key has, or the next one.
GivesId(r, key, t) ==
  /\ t.id # 0
  /\ \/ t.id = r.index[key] /\ t.reg.next = r.next
     \/ t.id = r.next /\ t.reg.next = r.next + 1
  /\ key \in Pids => t.reg.index[key] \in {0, t.id}
  /\ \A k \in Pids \ {key} : t.reg.index[k] \in {0, r.index[k]}

\* The entities that are rewritten: only the actor's own is made to carry the
\* actor's fields and the event's time.
RewritesOwn(r, a, now, t) ==
  /\ DOMAIN t.reg.procs \subseteq DOMAIN r.procs \cup {t.id}
  /\ \A i \in DOMAIN t.reg.procs : i \in DOMAIN r.procs /\ Key(r.procs[i]) # Key(a) =>
       t.reg.procs[i].pid = r.procs[i].pid /\ t.reg.procs[i].tgid = r.procs[i].tgid
  /\ \A i \in DOMAIN t.reg.procs : i # t.id => t.reg.procs[i].last_seen = r.procs[i].last_seen
  /\ t.id \in DOMAIN t.reg.procs =>
       /\ t.reg.procs[t.id].pid = a.pid
       /\ t.reg.procs[t.id].tgid = a.tgid
       /\ t.reg.procs[t.id].last_seen = now

\* The entities that are evicted, if any: at the cap, and none seen after the
\* event or after an entity that stays.
EvictsOldest(r, now, t) ==
  /\ Cardinality(DOMAIN r.procs) <= Cardinality(DOMAIN t.reg.procs)
  /\ \A i \in DOMAIN r.procs \ DOMAIN t.reg.procs :
       /\ Cardinality(DOMAIN t.reg.procs) = kMaxEntries
       /\ r.procs[i].last_seen <= now
       /\ \A j \in DOMAIN t.reg.procs : r.procs[i].last_seen <= t.reg.procs[j].last_seen

Attributes(r, a, now, t) ==
  /\ GivesId(r, Key(a), t)
  /\ RewritesOwn(r, a, now, t)
  /\ EvictsOldest(r, now, t)

\* UpdateFast and NewEntity copy the actor's fields and the event's time.
LEMMA EntityFields ==
  ASSUME NEW e \in Entity, NEW a \in Actor, NEW now \in Times, NEW snap \in Snapshot,
         NEW rich \in BOOLEAN
  PROVE  /\ NewEntity(a, now, snap).pid = a.pid
         /\ NewEntity(a, now, snap).tgid = a.tgid
         /\ NewEntity(a, now, snap).last_seen = now
         /\ Refreshed(e, a, now, rich, snap).pid = a.pid
         /\ Refreshed(e, a, now, rich, snap).tgid = a.tgid
         /\ Refreshed(e, a, now, rich, snap).last_seen = now
         /\ Checked(e, now).last_seen = e.last_seen
<1>1. \A f \in Entity : /\ RefreshRich(f, snap).pid = f.pid
                        /\ RefreshRich(f, snap).tgid = f.tgid
                        /\ RefreshRich(f, snap).last_seen = f.last_seen
  BY DEF RefreshRich, Entity
<1> DEFINE b == [pid |-> a.pid, tgid |-> a.tgid, exe |-> NoExe, start |-> 0, parent |-> 0,
                 last_seen |-> now, last_check |-> now, exited |-> FALSE, exit_code |-> 0]
           c == Checked(e, now)
           u == UpdateFast(c, a, now)
<1>2. b \in Entity /\ b.pid = a.pid /\ b.tgid = a.tgid /\ b.last_seen = now
  BY DEF Entity, Actor
<1>3. NewEntity(a, now, snap) = RefreshRich(b, snap)
  BY DEF NewEntity
<1> HIDE DEF b
<1>4. c \in Entity /\ c.last_seen = e.last_seen
  BY DEF Checked, Entity
<1> HIDE DEF c
<1>5. u \in Entity /\ u.pid = a.pid /\ u.tgid = a.tgid /\ u.last_seen = now
  BY <1>4 DEF UpdateFast, Entity, Actor
<1>6. Refreshed(e, a, now, rich, snap) = u \/ Refreshed(e, a, now, rich, snap) = RefreshRich(u, snap)
  BY DEF Refreshed, u, c
<1> HIDE DEF u
<1> QED
  BY <1>1, <1>2, <1>3, <1>4, <1>5, <1>6 DEF c

\* Eviction removes one entity and its index entry, or nothing.
LEMMA EvictEffect ==
  ASSUME NEW r, Good(r), NEW s \in EvictIfNeeded(r),
         Cardinality(DOMAIN r.procs) <= kMaxEntries + 1
  PROVE  \/ s = r
         \/ \E v \in DOMAIN r.procs :
              /\ DOMAIN s.procs = DOMAIN r.procs \ {v}
              /\ \A i \in DOMAIN s.procs : s.procs[i] = r.procs[i]
              /\ \A k \in Pids : s.index[k] \in {0, r.index[k]}
              /\ Cardinality(DOMAIN s.procs) = kMaxEntries
              /\ \A i \in DOMAIN r.procs : r.procs[v].last_seen <= r.procs[i].last_seen
<1>1. CASE Cardinality(DOMAIN r.procs) <= kMaxEntries
  BY <1>1 DEF EvictIfNeeded
<1>2. CASE ~(Cardinality(DOMAIN r.procs) <= kMaxEntries)
  <2>1. PICK v \in LeastRecentlySeen(r.procs) : s = Evict(r, v)
    BY <1>2 DEF EvictIfNeeded
  <2>2. /\ v \in DOMAIN r.procs
        /\ \A i \in DOMAIN r.procs : r.procs[v].last_seen <= r.procs[i].last_seen
    BY DEF LeastRecentlySeen
  <2>3. s.index = RetireIndex(r.index, Key(r.procs[v]), v) /\ s.procs = Drop(r.procs, v)
    BY <2>1 DEF Evict
  <2>4. /\ DOMAIN s.procs = DOMAIN r.procs \ {v}
        /\ \A i \in DOMAIN s.procs : s.procs[i] = r.procs[i]
    BY <2>3 DEF Drop
  <2>5. \A k \in Pids : s.index[k] \in {0, r.index[k]}
    BY <2>3 DEF RetireIndex, Good, Typed
  <2>6. Cardinality(DOMAIN s.procs) = kMaxEntries
    <3>1. IsFiniteSet(DOMAIN r.procs) /\ Cardinality(DOMAIN r.procs) \in Nat
      BY TypedFinite DEF Good
    <3>2. Cardinality(DOMAIN r.procs \ {v}) = Cardinality(DOMAIN r.procs) - 1
      BY <2>2, <3>1, FS_RemoveElement
    <3> QED BY <1>2, <2>4, <3>1, <3>2, BoundsAssumption
  <2> QED BY <2>2, <2>4, <2>5, <2>6
<1> QED BY <1>1, <1>2

\* CreateProcess gives the next id, rewrites no entity and evicts at most one, the
\* least recently seen of all, the new one included.
LEMMA CreateAttributes ==
  ASSUME NEW r, Good(r), Fits(r), NEW a \in Actor, Key(a) \in Pids, r.index[Key(a)] = 0,
         NEW now \in Times, NEW snap \in Snapshot,
         NEW t \in CreateProcess(r, a, now, snap)
  PROVE  /\ Attributes(r, a, now, t)
         /\ t.id = r.next
         /\ \A i \in DOMAIN t.reg.procs : i \in DOMAIN r.procs => t.reg.procs[i] = r.procs[i]
<1> DEFINE m == Inserted(r, a, now, snap)
           e == NewEntity(a, now, snap)
<1>1. PICK s \in EvictIfNeeded(m) : t = [reg |-> s, id |-> r.next]
  BY DEF CreateProcess, Inserted
<1> HIDE DEF m, e
<1>2. /\ Good(m) /\ m.next = r.next + 1
      /\ Cardinality(DOMAIN m.procs) = Cardinality(DOMAIN r.procs) + 1
      /\ Cardinality(DOMAIN m.procs) <= kMaxEntries + 1
      /\ r.next \in Nat \ {0} /\ r.next \notin DOMAIN r.procs
      /\ DOMAIN m.procs = DOMAIN r.procs \cup {r.next}
      /\ m.procs[r.next] = e
      /\ \A i \in DOMAIN r.procs : m.procs[i] = r.procs[i]
      /\ m.index[Key(a)] = r.next
      /\ \A k \in Pids : k # Key(a) => m.index[k] = r.index[k]
  BY InsertGood DEF m, e
<1>3. e.pid = a.pid /\ e.tgid = a.tgid /\ e.last_seen = now
  <2>1. NewEntity(a, now, snap) \in Entity /\ TRUE \in BOOLEAN
    BY NewEntityLive
  <2> QED BY <2>1, EntityFields DEF e
<1>4. /\ DOMAIN s.procs \subseteq DOMAIN m.procs
      /\ \A i \in DOMAIN s.procs : s.procs[i] = m.procs[i]
      /\ s.next = m.next
  <2>1. Good(m) /\ Cardinality(DOMAIN m.procs) <= kMaxEntries + 1
    BY <1>2
  <2> QED BY ONLY <1>1, <2>1, EvictGood
<1>5. \A k \in Pids : s.index[k] \in {0, m.index[k]}
  BY <1>1, <1>2, EvictEffect
<1>6. GivesId(r, Key(a), t)
  BY <1>1, <1>2, <1>4, <1>5 DEF GivesId
<1>7. RewritesOwn(r, a, now, t)
  <2>1. \A i \in DOMAIN s.procs : i # r.next => i \in DOMAIN r.procs /\ s.procs[i] = r.procs[i]
    BY <1>2, <1>4
  <2>2. r.next \in DOMAIN s.procs => s.procs[r.next] = e
    BY <1>2, <1>4
  <2> QED BY <1>1, <1>2, <1>3, <2>1, <2>2 DEF RewritesOwn
<1>8. EvictsOldest(r, now, t)
  <2>1. Cardinality(DOMAIN r.procs) \in Nat
    BY TypedFinite DEF Good
  <2>2. CASE s = m
    <3>1. DOMAIN r.procs \ DOMAIN t.reg.procs = {}
      BY <1>1, <1>2, <2>2
    <3>2. Cardinality(DOMAIN r.procs) <= Cardinality(DOMAIN t.reg.procs)
      BY <1>1, <1>2, <2>1, <2>2
    <3> QED BY ONLY <3>1, <3>2 DEF EvictsOldest
  <2>3. CASE \E v \in DOMAIN m.procs :
               /\ DOMAIN s.procs = DOMAIN m.procs \ {v}
               /\ \A i \in DOMAIN s.procs : s.procs[i] = m.procs[i]
               /\ \A k \in Pids : s.index[k] \in {0, m.index[k]}
               /\ Cardinality(DOMAIN s.procs) = kMaxEntries
               /\ \A i \in DOMAIN m.procs : m.procs[v].last_seen <= m.procs[i].last_seen
    <3>1. PICK v \in DOMAIN m.procs :
               /\ DOMAIN s.procs = DOMAIN m.procs \ {v}
               /\ \A i \in DOMAIN s.procs : s.procs[i] = m.procs[i]
               /\ Cardinality(DOMAIN s.procs) = kMaxEntries
               /\ \A i \in DOMAIN m.procs : m.procs[v].last_seen <= m.procs[i].last_seen
      BY <2>3
    <3>2. Cardinality(DOMAIN r.procs) <= Cardinality(DOMAIN s.procs)
      BY <3>1 DEF Fits
    <3>3. ASSUME NEW i \in DOMAIN r.procs \ DOMAIN s.procs
          PROVE  /\ r.procs[i].last_seen <= now
                 /\ \A j \in DOMAIN s.procs : r.procs[i].last_seen <= s.procs[j].last_seen
      <4>1. i = v /\ m.procs[i] = r.procs[i]
        BY <1>2, <3>1, <3>3
      <4>2. r.procs[i].last_seen <= now
        BY <1>2, <1>3, <3>1, <4>1
      <4>3. \A j \in DOMAIN s.procs : r.procs[i].last_seen <= s.procs[j].last_seen
        BY <3>1, <4>1
      <4> QED BY <4>2, <4>3
    <3> QED BY <1>1, <3>1, <3>2, <3>3 DEF EvictsOldest
  <2> QED BY <1>1, <1>2, <2>2, <2>3, EvictEffect
<1>9. \A i \in DOMAIN t.reg.procs : i \in DOMAIN r.procs => t.reg.procs[i] = r.procs[i]
  BY <1>1, <1>2, <1>4
<1> QED
  BY <1>1, <1>6, <1>7, <1>8, <1>9 DEF Attributes

\* ResolveProcess of an actor that has a key, in each of its branches.
LEMMA ResolveAttributes ==
  ASSUME NEW r, Good(r), Fits(r), NEW a \in Actor, Key(a) \in Pids, NEW now \in Times,
         NEW rich \in BOOLEAN, NEW snaps, snaps[Key(a)] \in Snapshot,
         NEW t \in ResolveProcess(r, a, now, rich, snaps)
  PROVE  Attributes(r, a, now, t)
<1> DEFINE key == Key(a)
           id == r.index[key]
           snap == snaps[key]
<1>1. key \in Pids /\ key # 0
  BY PidsAssumption
<1>2. CASE id = 0
  <2>1. t \in CreateProcess(r, a, now, snap)
    BY <1>1, <1>2 DEF ResolveProcess
  <2> QED BY <1>2, <2>1, CreateAttributes
<1>3. ASSUME id # 0 PROVE Attributes(r, a, now, t)
  <2>1. id \in DOMAIN r.procs /\ ~r.procs[id].exited /\ Key(r.procs[id]) = key
    BY <1>1, <1>3 DEF Good, Exact, Leads
  <2>2. r.procs[id] \in Entity
    BY <2>1 DEF Good, Typed
  <2>3. CASE IsReused(r.procs[id], now, snap)
    <3> DEFINE q == Retired(r, id, now)
    <3>1. t \in CreateProcess(q, a, now, snap)
      BY <1>1, <1>3, <2>1, <2>3 DEF ResolveProcess
    <3>2. /\ Good(q) /\ Fits(q) /\ q.index[key] = 0 /\ q.next = r.next
          /\ \A k \in Pids \ {key} : q.index[k] = r.index[k]
          /\ DOMAIN q.procs = DOMAIN r.procs
          /\ \A i \in DOMAIN r.procs : i # id => q.procs[i] = r.procs[i]
          /\ \A i \in DOMAIN r.procs : q.procs[i].last_seen = r.procs[i].last_seen
      BY <1>1, <1>3, RetiredGood
    <3> HIDE DEF q
    <3>3. /\ Attributes(q, a, now, t) /\ t.id = q.next
          /\ \A i \in DOMAIN t.reg.procs : i \in DOMAIN q.procs => t.reg.procs[i] = q.procs[i]
      BY <3>1, <3>2, CreateAttributes
    <3>4. GivesId(r, key, t)
      <4>1. r.next \in Nat \ {0}
        BY DEF Good, Typed
      <4>2. GivesId(q, key, t)
        BY <3>3 DEF Attributes
      <4>3. t.reg.next = r.next + 1
        BY <3>2, <3>3, <4>1, <4>2 DEF GivesId
      <4> HIDE DEF key
      <4> QED BY <3>2, <3>3, <4>1, <4>2, <4>3 DEF GivesId
    <3>5. RewritesOwn(r, a, now, t)
      <4>1. RewritesOwn(q, a, now, t)
        BY <3>3 DEF Attributes
      <4>2. \A i \in DOMAIN t.reg.procs : i \in DOMAIN r.procs /\ Key(r.procs[i]) # Key(a) =>
              t.reg.procs[i].pid = r.procs[i].pid /\ t.reg.procs[i].tgid = r.procs[i].tgid
        BY <2>1, <3>2, <3>3
      <4>3. ASSUME NEW i \in DOMAIN t.reg.procs, i # t.id
            PROVE  t.reg.procs[i].last_seen = r.procs[i].last_seen
        <5>1. i \in DOMAIN q.procs
          BY <4>1, <4>3 DEF RewritesOwn
        <5> QED BY <3>2, <3>3, <5>1
      <4> QED BY ONLY <3>2, <4>1, <4>2, <4>3 DEF RewritesOwn
    <3>6. EvictsOldest(r, now, t)
      BY <3>2, <3>3 DEF Attributes, EvictsOldest
    <3> QED BY <3>4, <3>5, <3>6 DEF Attributes
  <2>4. CASE ~IsReused(r.procs[id], now, snap)
    <3> DEFINE f == Refreshed(r.procs[id], a, now, rich, snap)
               w == WithEntity(r, id, f)
    <3>1. t = [reg |-> w, id |-> id]
      BY <1>1, <1>3, <2>1, <2>4 DEF ResolveProcess
    <3>2. f.pid = a.pid /\ f.tgid = a.tgid /\ f.last_seen = now
      BY <2>2, EntityFields
    <3> HIDE DEF f
    <3>3. /\ w.next = r.next /\ w.index = r.index /\ DOMAIN w.procs = DOMAIN r.procs
          /\ w.procs[id] = f
          /\ \A i \in DOMAIN r.procs : i # id => w.procs[i] = r.procs[i]
      BY <2>1 DEF WithEntity, Put
    <3> HIDE DEF w
    <3>4. GivesId(r, key, t)
      BY <1>3, <3>1, <3>3 DEF GivesId
    <3>5. RewritesOwn(r, a, now, t)
      BY <2>1, <3>1, <3>2, <3>3 DEF RewritesOwn
    <3>6. EvictsOldest(r, now, t)
      <4>1. Cardinality(DOMAIN r.procs) \in Nat
        BY TypedFinite DEF Good
      <4> QED BY <3>1, <3>3, <4>1 DEF EvictsOldest
    <3> QED BY <3>4, <3>5, <3>6 DEF Attributes
  <2> QED BY <2>3, <2>4
<1> QED
  BY <1>2, <1>3

\* A change that gives no id, moves no entity and evicts none.
Keeps(r, s) ==
  /\ s.next = r.next
  /\ \A k \in Pids : s.index[k] \in {0, r.index[k]}
  /\ DOMAIN s.procs = DOMAIN r.procs
  /\ \A i \in DOMAIN r.procs : /\ s.procs[i].pid = r.procs[i].pid
                               /\ s.procs[i].tgid = r.procs[i].tgid
                               /\ s.procs[i].last_seen = r.procs[i].last_seen

\* MarkExited, SetParent and ApplyHint are such changes.
LEMMA UpdatesKeep ==
  ASSUME NEW r, Typed(r), NEW id, NEW code \in Int, NEW parentId, NEW hint
  PROVE  /\ Keeps(r, r)
         /\ Keeps(r, MarkExited(r, id, code))
         /\ Keeps(r, SetParent(r, id, parentId))
         /\ Keeps(r, ApplyHint(r, id, hint))
<1>1. Keeps(r, r)
  BY DEF Keeps
<1>2. ASSUME NEW e, NEW s, id \in DOMAIN r.procs, s.procs = Put(r.procs, id, e), s.next = r.next,
             \A k \in Pids : s.index[k] \in {0, r.index[k]},
             e.pid = r.procs[id].pid, e.tgid = r.procs[id].tgid,
             e.last_seen = r.procs[id].last_seen
      PROVE  Keeps(r, s)
  <2>1. DOMAIN s.procs = DOMAIN r.procs
    BY <1>2 DEF Put
  <2>2. \A i \in DOMAIN r.procs : s.procs[i] = IF i = id THEN e ELSE r.procs[i]
    BY <1>2 DEF Put
  <2> QED BY <1>2, <2>1, <2>2 DEF Keeps
<1>3. id \in DOMAIN r.procs => r.procs[id] \in Entity
  BY DEF Typed
<1>4. Keeps(r, MarkExited(r, id, code))
  <2> DEFINE s == MarkExited(r, id, code)
             e == [r.procs[id] EXCEPT !.exited = TRUE, !.exit_code = code]
  <2>1. ASSUME id \in DOMAIN r.procs PROVE Keeps(r, s)
    <3>1. /\ s.procs = Put(r.procs, id, e) /\ s.next = r.next
          /\ s.index = RetireIndex(r.index, Key(r.procs[id]), id)
      BY <2>1 DEF MarkExited
    <3>2. \A k \in Pids : s.index[k] \in {0, r.index[k]}
      BY <3>1 DEF RetireIndex, Typed
    <3>3. e.pid = r.procs[id].pid /\ e.tgid = r.procs[id].tgid /\ e.last_seen = r.procs[id].last_seen
      BY <1>3, <2>1 DEF Entity
    <3> HIDE DEF s, e
    <3> QED BY <1>2, <2>1, <3>1, <3>2, <3>3
  <2> QED BY <1>1, <2>1 DEF MarkExited
<1>5. Keeps(r, SetParent(r, id, parentId))
  <2> DEFINE e == [r.procs[id] EXCEPT !.parent = parentId]
             s == WithEntity(r, id, e)
  <2>1. ASSUME id \in DOMAIN r.procs PROVE Keeps(r, s)
    <3>1. s.procs = Put(r.procs, id, e) /\ s.next = r.next /\ s.index = r.index
      BY DEF WithEntity
    <3>2. e.pid = r.procs[id].pid /\ e.tgid = r.procs[id].tgid /\ e.last_seen = r.procs[id].last_seen
      BY <1>3, <2>1 DEF Entity
    <3> HIDE DEF s, e
    <3> QED BY <1>2, <2>1, <3>1, <3>2
  <2> QED BY <1>1, <2>1 DEF SetParent
<1>6. Keeps(r, ApplyHint(r, id, hint))
  <2> DEFINE e == [r.procs[id] EXCEPT !.exe = hint]
             s == WithEntity(r, id, e)
  <2>1. ASSUME id \in DOMAIN r.procs PROVE Keeps(r, s)
    <3>1. s.procs = Put(r.procs, id, e) /\ s.next = r.next /\ s.index = r.index
      BY DEF WithEntity
    <3>2. e.pid = r.procs[id].pid /\ e.tgid = r.procs[id].tgid /\ e.last_seen = r.procs[id].last_seen
      BY <1>3, <2>1 DEF Entity
    <3> HIDE DEF s, e
    <3> QED BY <1>2, <2>1, <3>1, <3>2
  <2> QED BY <1>1, <2>1 DEF ApplyHint
<1> QED
  BY <1>1, <1>4, <1>5, <1>6

\* Such changes compose, and a resolution followed by one is still a resolution.
LEMMA KeepsComposes ==
  ASSUME NEW r, NEW s, NEW q, Keeps(s, q)
  PROVE  /\ Keeps(r, s) => Keeps(r, q)
         /\ \A a, now, id : Attributes(r, a, now, [reg |-> s, id |-> id]) =>
                              Attributes(r, a, now, [reg |-> q, id |-> id])
<1>1. ASSUME Keeps(r, s) PROVE Keeps(r, q)
  BY <1>1 DEF Keeps
<1>2. ASSUME NEW a, NEW now, NEW id, Attributes(r, a, now, [reg |-> s, id |-> id])
      PROVE  Attributes(r, a, now, [reg |-> q, id |-> id])
  <2> DEFINE t == [reg |-> s, id |-> id]
             u == [reg |-> q, id |-> id]
  <2>1. /\ GivesId(r, Key(a), t) /\ RewritesOwn(r, a, now, t) /\ EvictsOldest(r, now, t)
    BY <1>2 DEF Attributes
  <2>2. t.reg = s /\ t.id = id /\ u.reg = q /\ u.id = id
    OBVIOUS
  <2> HIDE DEF t, u
  <2>3. GivesId(r, Key(a), u)
    <3>1. id # 0 /\ ( \/ id = r.index[Key(a)] /\ q.next = r.next
                      \/ id = r.next /\ q.next = r.next + 1)
      BY <2>1, <2>2 DEF GivesId, Keeps
    <3>2. Key(a) \in Pids => q.index[Key(a)] \in {0, id}
      BY <2>1, <2>2 DEF GivesId, Keeps
    <3>3. \A k \in Pids \ {Key(a)} : q.index[k] \in {0, r.index[k]}
      BY <2>1, <2>2 DEF GivesId, Keeps
    <3> QED BY <2>2, <3>1, <3>2, <3>3 DEF GivesId
  <2>4. RewritesOwn(r, a, now, u)
    BY <2>1, <2>2 DEF RewritesOwn, Keeps
  <2>5. EvictsOldest(r, now, u)
    BY <2>1, <2>2 DEF EvictsOldest, Keeps
  <2> QED BY <2>3, <2>4, <2>5 DEF Attributes, u
<1> QED
  BY <1>1, <1>2

-----------------------------------------------------------------------------
(* The specification.                                                      *)

Inv == TypeOK /\ IndexExact /\ BoundedSize

\* The invariant, read as a statement about the registry record.
LEMMA InvIsGood == Inv => Good(Registry) /\ Fits(Registry)
  BY DEF Inv, TypeOK, IndexExact, BoundedSize, Good, Typed, Exact, Leads, Found, Fits, Registry

\* The empty registry satisfies the invariant.
LEMMA InitInv == Init => Inv
<1> SUFFICES ASSUME Init PROVE Inv
  OBVIOUS
<1>1. DOMAIN processes_by_id = {} /\ processes_by_id = [i \in {} |-> {}]
  BY DEF Init
<1>2. TypeOK
  <2>1. processes_by_id \in [DOMAIN processes_by_id -> Entity]
    BY <1>1
  <2>2. refs.actor \in Actor
    BY DEF Init, Actor
  <2> QED BY <1>1, <2>1, <2>2 DEF Init, TypeOK
<1>3. IndexExact
  BY <1>1 DEF Init, IndexExact
<1>4. BoundedSize
  BY <1>1, FS_EmptySet, BoundsAssumption DEF BoundedSize
<1> QED
  BY <1>2, <1>3, <1>4 DEF Inv

\* An Ingest in two steps, the second of which may be about a child: from the
\* registry over the actor's resolution s to the registry r.
TwoSteps(ev, s, r) ==
  /\ Resolved(Registry, s)
  /\ Key(ev.actor) = 0 => s.reg = Registry /\ s.id = 0
  /\ Key(ev.actor) # 0 => Attributes(Registry, ev.actor, ev.ts, s)
  /\ \/ Keeps(s.reg, r)
     \/ /\ ev.child \in Pids \ {Key(ev.actor)}
        /\ \E c : Attributes(s.reg, [pid |-> ev.child, tgid |-> ev.child], ev.ts,
                             [reg |-> r, id |-> c])

\* What Ingest takes for granted about an event and about /proc.
Admissible(ev, snaps) ==
  /\ ev.actor \in Actor /\ ev.ts \in Times /\ ev.child \in Pids \cup {0}
  /\ ev.outcome \in Int /\ ev.hint \in Exes \cup {NoExe}
  /\ ev.hint # NoExe => ev.action = "execed"
  /\ ev.child # 0 => ev.action = "started" /\ ev.child # Key(ev.actor)
  /\ \A k \in {Key(ev.actor), ev.child} : k # 0 => snaps[k] \in Snapshot

LEMMA EventsAdmissible ==
  ASSUME NEW ev \in Events, NEW snaps \in [{Key(ev.actor), ev.child} \ {0} -> Snapshots]
  PROVE  Admissible(ev, snaps)
<1>1. /\ ev.actor \in Actor /\ ev.ts \in Times /\ ev.child \in Pids \cup {0}
      /\ ev.outcome \in Int /\ ev.hint \in Exes \cup {NoExe}
      /\ ev.hint # NoExe => ev.action = "execed"
      /\ ev.child # 0 => ev.action = "started" /\ ev.child # Key(ev.actor)
  BY ActorsAssumption DEF Events, Event
<1>2. \A k \in {Key(ev.actor), ev.child} : k # 0 => snaps[k] \in Snapshot
  BY SnapshotsAssumption
<1> QED
  BY <1>1, <1>2 DEF Admissible

\* One Ingest: the registry evolves into a well-formed one under the cap.
LEMMA IngestGood ==
  ASSUME Good(Registry), Fits(Registry), NEW ev, NEW snaps, Admissible(ev, snaps),
         Ingest(ev, snaps)
  PROVE  \E r : /\ Good(r) /\ Fits(r) /\ Evolves(Registry, r)
                /\ processes_by_id' = r.procs /\ tgid_index' = r.index /\ next_id' = r.next
                /\ refs' \in [actor : Actor, subject : 0 .. (r.next - 1)]
                /\ \E s : refs' = [actor |-> ev.actor, subject |-> s.id] /\ TwoSteps(ev, s, r)
<1>1. PICK s \in ResolveProcess(Registry, ev.actor, ev.ts, ev.action = "execed", snaps) :
      \E t \in Effects(s, ev, snaps) :
        LET r == ApplyHint(t.reg, s.id, ev.hint)
        IN  /\ processes_by_id' = r.procs
            /\ tgid_index' = r.index
            /\ next_id' = r.next
            /\ refs' = [actor |-> ev.actor, subject |-> s.id]
  BY DEF Ingest
<1>2. PICK t \in Effects(s, ev, snaps) :
        LET r == ApplyHint(t.reg, s.id, ev.hint)
        IN  /\ processes_by_id' = r.procs
            /\ tgid_index' = r.index
            /\ next_id' = r.next
            /\ refs' = [actor |-> ev.actor, subject |-> s.id]
  BY <1>1
<1> DEFINE r == ApplyHint(t.reg, s.id, ev.hint)
<1>3. /\ ev.actor \in Actor /\ ev.ts \in Times /\ ev.child \in Pids \cup {0}
      /\ ev.outcome \in Int /\ ev.hint \in Exes \cup {NoExe}
      /\ ev.hint # NoExe => ev.action = "execed"
  BY DEF Admissible
<1>4. /\ \A k \in {Key(ev.actor), ev.child} : k # 0 => snaps[k] \in Snapshot
      /\ Key(ev.actor) \in Pids \cup {0}
  BY <1>3 DEF Admissible, Actor, Key
<1>5. Resolved(Registry, s)
  BY <1>3, <1>4, ResolveGood
<1>6. s.id \in Nat /\ s.reg.next \in Nat /\ Good(s.reg) /\ Fits(s.reg)
  BY <1>5 DEF Resolved, Good, Typed
<1>7. /\ Good(t.reg) /\ Fits(t.reg) /\ Evolves(s.reg, t.reg)
      /\ ev.hint # NoExe /\ s.id \in DOMAIN t.reg.procs => ~t.reg.procs[s.id].exited
  <2>1. CASE ev.action = "exited"
    <3>1. t.reg = MarkExited(s.reg, s.id, ev.outcome)
      BY <1>2, <2>1 DEF Effects
    <3>2. /\ Good(t.reg) /\ Evolves(s.reg, t.reg) /\ DOMAIN t.reg.procs = DOMAIN s.reg.procs
      BY <1>3, <1>5, <1>6, <3>1, MarkExitedGood DEF Resolved
    <3> QED BY <1>3, <1>6, <2>1, <3>2 DEF Fits
  <2>2. CASE ev.action = "started" /\ ev.child # 0
    <3>1. t \in ResolveChild(s.reg, ev.child, s.id, ev.ts, snaps)
      BY <1>2, <2>2 DEF Effects
    <3>2. Resolved(s.reg, t)
      BY <1>3, <1>4, <1>6, <2>2, <3>1, ChildGood
    <3> QED BY <1>3, <2>2, <3>2 DEF Resolved
  <2>3. CASE ~(ev.action = "exited") /\ ~(ev.action = "started" /\ ev.child # 0)
    <3>1. t.reg = s.reg
      BY <1>2, <2>3 DEF Effects
    <3> QED BY <1>5, <1>6, <3>1, EvolvesReflexive DEF Resolved, Good
  <2> QED BY <2>1, <2>2, <2>3
<1>8. Good(r) /\ Fits(r) /\ Evolves(t.reg, r) /\ r.next = t.reg.next
  BY <1>3, <1>7, HintGood
<1> HIDE DEF r
<1>9. Evolves(Registry, t.reg)
  BY <1>5, <1>7, EvolvesTransitive DEF Resolved, Good
<1>10. Evolves(Registry, r)
  BY <1>7, <1>8, <1>9, EvolvesTransitive DEF Good
<1>11. s.id \in 0 .. (r.next - 1)
  <2>1. s.reg.next <= r.next /\ r.next \in Nat
    BY <1>7, <1>8 DEF Evolves, Good, Typed
  <2> QED BY <1>5, <1>6, <2>1 DEF Resolved
<1>12. Keeps(t.reg, r)
  BY <1>7, UpdatesKeep, 0 \in Int DEF Good, r
<1>13. TwoSteps(ev, s, r)
  <2>1. Key(ev.actor) = 0 => s.reg = Registry /\ s.id = 0
    BY <1>1 DEF ResolveProcess
  <2>2. Key(ev.actor) # 0 => Attributes(Registry, ev.actor, ev.ts, s)
    BY <1>3, <1>4, ResolveAttributes
  <2>3. CASE ev.action = "exited"
    <3>1. t.reg = MarkExited(s.reg, s.id, ev.outcome)
      BY <1>2, <2>3 DEF Effects
    <3>2. Keeps(s.reg, r)
      BY <1>3, <1>6, <1>12, <3>1, UpdatesKeep, KeepsComposes DEF Good
    <3> QED BY <1>5, <2>1, <2>2, <3>2 DEF TwoSteps
  <2>4. CASE ev.action = "started" /\ ev.child # 0
    <3> DEFINE a == [pid |-> ev.child, tgid |-> ev.child]
    <3>1. PICK u \in ResolveProcess(s.reg, a, ev.ts, TRUE, snaps) :
            t = [reg |-> SetParent(u.reg, u.id, s.id), id |-> u.id]
      BY <1>2, <2>4 DEF Effects, ResolveChild
    <3>2. ev.child \in Pids \ {Key(ev.actor)} /\ a \in Actor /\ Key(a) = ev.child
      BY <1>3, <2>4, PidsAssumption DEF Admissible, Actor, Key
    <3> HIDE DEF a
    <3>3. snaps[Key(a)] \in Snapshot /\ Key(a) \in Pids /\ TRUE \in BOOLEAN
      BY <1>4, <2>4, <3>2
    <3>4. Attributes(s.reg, a, ev.ts, u) /\ Typed(u.reg)
      BY <1>3, <1>6, <3>1, <3>2, <3>3, ResolveAttributes, ResolveGood DEF Resolved, Good
    <3>5. Keeps(u.reg, t.reg)
      BY <3>1, <3>4, UpdatesKeep, 0 \in Int
    <3>6. Keeps(u.reg, r)
      BY <1>12, <3>5, KeepsComposes
    <3>7. Attributes(s.reg, a, ev.ts, [reg |-> u.reg, id |-> u.id])
      BY <3>4 DEF Attributes, GivesId, RewritesOwn, EvictsOldest
    <3>8. Attributes(s.reg, a, ev.ts, [reg |-> r, id |-> u.id])
      BY <3>6, <3>7, KeepsComposes
    <3> QED BY <1>5, <2>1, <2>2, <3>2, <3>8 DEF TwoSteps, a
  <2>5. CASE ~(ev.action = "exited") /\ ~(ev.action = "started" /\ ev.child # 0)
    <3>1. t.reg = s.reg
      BY <1>2, <2>5 DEF Effects
    <3> QED BY <1>5, <1>12, <2>1, <2>2, <3>1 DEF TwoSteps
  <2> QED BY <2>3, <2>4, <2>5
<1>14. /\ processes_by_id' = r.procs /\ tgid_index' = r.index /\ next_id' = r.next
       /\ refs' = [actor |-> ev.actor, subject |-> s.id]
  BY <1>2 DEF r
<1>15. refs' \in [actor : Actor, subject : 0 .. (r.next - 1)]
  BY <1>3, <1>11, <1>14
<1> QED
  BY <1>8, <1>10, <1>13, <1>14, <1>15

\* The invariant is inductive, and every step is an evolution.
LEMMA StepInv ==
  ASSUME Inv, [Next]_vars
  PROVE  /\ Inv'
         /\ \/ UNCHANGED vars
            \/ \E r : /\ Evolves(Registry, r) /\ Typed(Registry) /\ Typed(r)
                      /\ processes_by_id' = r.procs /\ next_id' = r.next
<1>1. CASE UNCHANGED vars
  BY <1>1 DEF Inv, TypeOK, IndexExact, BoundedSize, vars
<1>2. CASE Next
  <2>1. Good(Registry) /\ Fits(Registry)
    BY InvIsGood
  <2>2. PICK ev \in Events : \E snaps \in [{Key(ev.actor), ev.child} \ {0} -> Snapshots] :
          Ingest(ev, snaps)
    BY <1>2 DEF Next
  <2>3. PICK r : /\ Good(r) /\ Fits(r) /\ Evolves(Registry, r)
                 /\ processes_by_id' = r.procs /\ tgid_index' = r.index /\ next_id' = r.next
                 /\ refs' \in [actor : Actor, subject : 0 .. (r.next - 1)]
    BY <2>1, <2>2, IngestGood, EventsAdmissible
  <2>4. Inv'
    BY <2>3 DEF Inv, TypeOK, IndexExact, BoundedSize, Good, Typed, Exact, Leads, Found, Fits
  <2> QED BY <2>1, <2>3, <2>4 DEF Good
<1> QED
  BY <1>1, <1>2

\* For every cap, pid set and stream of events, in any timestamp order and with
\* any answers from /proc: the registry is well typed, its two tables agree
\* exactly, and it holds at most kMaxEntries entities.
THEOREM RegistryInvariant == Spec => [](TypeOK /\ IndexExact /\ BoundedSize)
<1>1. Inv /\ [Next]_vars => Inv'
  BY StepInv
<1> QED
  BY <1>1, InitInv, PTL DEF Spec, Inv

\* No event ever changes an entity that has exited.
THEOREM RegistryFrozen == Spec => FrozenAfterExit
<1> DEFINE A == \A i \in DOMAIN processes_by_id \cap DOMAIN processes_by_id' :
                  processes_by_id[i].exited => processes_by_id'[i] = processes_by_id[i]
<1>1. Inv /\ [Next]_vars => [A]_vars
  <2> SUFFICES ASSUME Inv, [Next]_vars PROVE [A]_vars
    OBVIOUS
  <2> USE StepInv
  <2>1. CASE UNCHANGED vars
    BY <2>1
  <2>2. CASE \E r : /\ Evolves(Registry, r) /\ Typed(Registry) /\ Typed(r)
                    /\ processes_by_id' = r.procs /\ next_id' = r.next
    BY <2>2 DEF Evolves, EntityEvolves, Registry
  <2> QED BY <2>1, <2>2
<1>2. Spec => []Inv
  BY RegistryInvariant DEF Inv
<1> QED
  BY <1>1, <1>2, PTL DEF Spec, FrozenAfterExit

\* An id keeps its tgid, its start time and its parent once they are known, and
\* is never handed out twice.
THEOREM RegistryStable == Spec => StableIdentity
<1> DEFINE A == /\ \A i \in DOMAIN processes_by_id \cap DOMAIN processes_by_id' :
                      LET e == processes_by_id[i]
                          f == processes_by_id'[i]
                      IN  /\ Key(f) = Key(e)
                          /\ e.start # 0 => f.start = e.start
                          /\ e.parent # 0 => f.parent = e.parent
                /\ \A i \in DOMAIN processes_by_id' :
                      i \in DOMAIN processes_by_id \/ i >= next_id
<1>1. Inv /\ [Next]_vars => [A]_vars
  <2> SUFFICES ASSUME Inv, [Next]_vars PROVE [A]_vars
    OBVIOUS
  <2> USE StepInv
  <2>1. CASE UNCHANGED vars
    BY <2>1
  <2>2. CASE \E r : /\ Evolves(Registry, r) /\ Typed(Registry) /\ Typed(r)
                    /\ processes_by_id' = r.procs /\ next_id' = r.next
    BY <2>2 DEF Evolves, EntityEvolves, Registry
  <2> QED BY <2>1, <2>2
<1>2. Spec => []Inv
  BY RegistryInvariant DEF Inv
<1> QED
  BY <1>1, <1>2, PTL DEF Spec, StableIdentity

\* The cap on the entities the registry retains holds whatever it is, although a
\* start event creates two entities and each creation evicts at most one.
THEOREM RegistryBounded == Spec => []BoundedSize
  BY RegistryInvariant, PTL

-----------------------------------------------------------------------------
(* Whose id an event is given, and what is evicted for it.                 *)

\* A step of the specification, as the two steps of its Ingest.
LEMMA StepInTwo ==
  ASSUME Inv, Next
  PROVE  \E ev, s, r :
           /\ Good(Registry) /\ Good(r) /\ Fits(r) /\ Evolves(Registry, r)
           /\ processes_by_id' = r.procs /\ tgid_index' = r.index /\ next_id' = r.next
           /\ refs' = [actor |-> ev.actor, subject |-> s.id]
           /\ ev.actor \in Actor /\ ev.ts \in Times
           /\ TwoSteps(ev, s, r)
<1>1. Good(Registry) /\ Fits(Registry)
  BY InvIsGood
<1>2. PICK ev \in Events : \E snaps \in [{Key(ev.actor), ev.child} \ {0} -> Snapshots] :
        Ingest(ev, snaps)
  BY DEF Next
<1>3. ev.actor \in Actor /\ ev.ts \in Times
  BY ActorsAssumption DEF Events, Event
<1>4. PICK r : /\ Good(r) /\ Fits(r) /\ Evolves(Registry, r)
               /\ processes_by_id' = r.procs /\ tgid_index' = r.index /\ next_id' = r.next
               /\ \E s : refs' = [actor |-> ev.actor, subject |-> s.id] /\ TwoSteps(ev, s, r)
  BY <1>1, <1>2, IngestGood, EventsAdmissible
<1> QED
  BY <1>1, <1>3, <1>4

\* The entity of the event's subject is not the child's, and the child's
\* resolution leaves its fields alone.
LEMMA TwoStepsContext ==
  ASSUME NEW ev, NEW s, NEW r, TwoSteps(ev, s, r), Key(ev.actor) # 0, s.id \in DOMAIN r.procs
  PROVE  r.procs[s.id].pid = ev.actor.pid /\ r.procs[s.id].tgid = ev.actor.tgid
<1> DEFINE a == ev.actor
<1>1. Good(s.reg) /\ s.id \in 0 .. (s.reg.next - 1)
  BY DEF TwoSteps, Resolved
<1>2. GivesId(Registry, Key(a), s) /\ RewritesOwn(Registry, a, ev.ts, s)
  BY DEF TwoSteps, Attributes
<1>3. s.id # 0
  BY <1>2 DEF GivesId
<1>4. s.id \in DOMAIN s.reg.procs =>
        s.reg.procs[s.id].pid = a.pid /\ s.reg.procs[s.id].tgid = a.tgid
  BY <1>2 DEF RewritesOwn
<1>5. CASE Keeps(s.reg, r)
  BY <1>4, <1>5 DEF Keeps
<1>6. ASSUME NEW c, ev.child \in Pids \ {Key(a)},
             Attributes(s.reg, [pid |-> ev.child, tgid |-> ev.child], ev.ts,
                        [reg |-> r, id |-> c])
      PROVE  r.procs[s.id].pid = a.pid /\ r.procs[s.id].tgid = a.tgid
  <2> DEFINE b == [pid |-> ev.child, tgid |-> ev.child]
             u == [reg |-> r, id |-> c]
  <2>1. Key(b) = ev.child /\ u.reg = r /\ u.id = c
    BY DEF Key
  <2>2. GivesId(s.reg, Key(b), u) /\ RewritesOwn(s.reg, b, ev.ts, u)
    BY <1>6 DEF Attributes
  <2> HIDE DEF b, u
  <2>3. s.id # c
    <3> SUFFICES ASSUME s.id = c PROVE FALSE
      OBVIOUS
    <3>1. c = s.reg.index[ev.child]
      BY <1>1, <2>1, <2>2 DEF GivesId, Good, Typed
    <3>2. c \in DOMAIN s.reg.procs /\ Key(s.reg.procs[c]) = ev.child
      BY <1>1, <1>3, <1>6, <3>1 DEF Good, Exact, Leads
    <3>3. Key(s.reg.procs[c]) = Key(a)
      BY <1>4, <3>2 DEF Key
    <3> QED BY <1>6, <3>2, <3>3
  <2>4. s.id \in DOMAIN s.reg.procs
    BY <2>1, <2>2, <2>3 DEF RewritesOwn
  <2>5. Key(s.reg.procs[s.id]) = Key(a)
    BY <1>4, <2>4 DEF Key
  <2>6. Key(s.reg.procs[s.id]) # Key(b)
    BY <1>6, <2>1, <2>5
  <2>7. /\ r.procs[s.id].pid = s.reg.procs[s.id].pid
        /\ r.procs[s.id].tgid = s.reg.procs[s.id].tgid
    BY <2>1, <2>2, <2>4, <2>6 DEF RewritesOwn
  <2> QED BY <1>4, <2>4, <2>7
<1> QED BY <1>5, <1>6 DEF TwoSteps

\* So the context of an event is that of its actor.
LEMMA StepContext == Inv /\ Next => ContextIsActors'
<1> SUFFICES ASSUME Inv, Next PROVE ContextIsActors'
  OBVIOUS
<1>1. PICK ev, s, r :
           /\ Good(Registry) /\ Good(r) /\ Fits(r) /\ Evolves(Registry, r)
           /\ processes_by_id' = r.procs /\ tgid_index' = r.index /\ next_id' = r.next
           /\ refs' = [actor |-> ev.actor, subject |-> s.id]
           /\ ev.actor \in Actor /\ ev.ts \in Times
           /\ TwoSteps(ev, s, r)
  BY StepInTwo
<1>2. CASE Key(ev.actor) = 0
  <2>1. s.id = 0 /\ 0 \notin DOMAIN r.procs
    BY <1>1, <1>2 DEF TwoSteps, Good, Typed
  <2> QED BY <1>1, <1>2, <2>1 DEF ContextIsActors
<1>3. CASE Key(ev.actor) # 0
  <2>1. s.id # 0
    BY <1>1, <1>3 DEF TwoSteps, Attributes, GivesId
  <2>2. s.id \in DOMAIN r.procs =>
          r.procs[s.id].pid = ev.actor.pid /\ r.procs[s.id].tgid = ev.actor.tgid
    BY <1>1, <1>3, TwoStepsContext
  <2> QED BY <1>1, <1>3, <2>1, <2>2 DEF ContextIsActors
<1> QED
  BY <1>2, <1>3

\* The context the sink prints with an event is the context of that event's own
\* process: no resolution of a child rewrites it before it is read.
THEOREM RegistryContext == Spec => []ContextIsActors
<1>1. Init => ContextIsActors
  BY DEF Init, ContextIsActors, Key
<1>2. Inv /\ ContextIsActors /\ [Next]_vars => ContextIsActors'
  <2>1. ContextIsActors /\ UNCHANGED vars => ContextIsActors'
    BY DEF ContextIsActors, vars
  <2> QED BY <2>1, StepContext
<1>3. Spec => []Inv
  BY RegistryInvariant DEF Inv
<1> QED
  BY <1>1, <1>2, <1>3, PTL DEF Spec

\* What leaves the table in a step: at the cap, and not seen after what stays.
LEMMA StepEvicts ==
  ASSUME Inv, Next, NEW i \in DOMAIN processes_by_id \ DOMAIN processes_by_id'
  PROVE  /\ Cardinality(DOMAIN processes_by_id') = kMaxEntries
         /\ i # refs'.subject =>
              \A j \in DOMAIN processes_by_id' :
                processes_by_id[i].last_seen <= processes_by_id'[j].last_seen
<1>1. PICK ev, s, r :
           /\ Good(Registry) /\ Good(r) /\ Fits(r) /\ Evolves(Registry, r)
           /\ processes_by_id' = r.procs /\ tgid_index' = r.index /\ next_id' = r.next
           /\ refs' = [actor |-> ev.actor, subject |-> s.id]
           /\ ev.actor \in Actor /\ ev.ts \in Times
           /\ TwoSteps(ev, s, r)
  BY StepInTwo
<1> DEFINE q == Registry
<1>2. q.procs = processes_by_id
  BY DEF Registry
<1>3. Good(s.reg) /\ Fits(s.reg)
  BY <1>1 DEF TwoSteps, Resolved
<1>4. Cardinality(DOMAIN s.reg.procs) \in Nat /\ Cardinality(DOMAIN r.procs) \in Nat
  BY <1>1, <1>3, TypedFinite DEF Good
<1> HIDE DEF q
<1>5. /\ i \notin DOMAIN s.reg.procs =>
           /\ Cardinality(DOMAIN s.reg.procs) = kMaxEntries
           /\ q.procs[i].last_seen <= ev.ts
           /\ \A j \in DOMAIN s.reg.procs : q.procs[i].last_seen <= s.reg.procs[j].last_seen
      /\ i \in DOMAIN s.reg.procs /\ i # s.id => s.reg.procs[i].last_seen = q.procs[i].last_seen
  <2>1. CASE Key(ev.actor) = 0
    BY <1>1, <1>2, <2>1 DEF TwoSteps, q
  <2>2. CASE Key(ev.actor) # 0
    <3>1. RewritesOwn(q, ev.actor, ev.ts, s) /\ EvictsOldest(q, ev.ts, s)
      BY <1>1, <2>2 DEF TwoSteps, Attributes, q
    <3> QED BY <1>2, <3>1 DEF RewritesOwn, EvictsOldest
  <2> QED BY <2>1, <2>2
<1>6. CASE Keeps(s.reg, r)
  <2>1. DOMAIN r.procs = DOMAIN s.reg.procs /\ i \notin DOMAIN s.reg.procs
    BY <1>1, <1>6 DEF Keeps
  <2>2. \A j \in DOMAIN r.procs : r.procs[j].last_seen = s.reg.procs[j].last_seen
    BY <1>6 DEF Keeps
  <2> QED BY <1>1, <1>2, <1>5, <2>1, <2>2
<1>7. ASSUME NEW b, NEW c, Attributes(s.reg, b, ev.ts, [reg |-> r, id |-> c])
      PROVE  /\ Cardinality(DOMAIN r.procs) = kMaxEntries
             /\ i # s.id => \A j \in DOMAIN r.procs : q.procs[i].last_seen <= r.procs[j].last_seen
  <2> DEFINE u == [reg |-> r, id |-> c]
  <2>1. u.reg = r /\ u.id = c
    OBVIOUS
  <2>2. RewritesOwn(s.reg, b, ev.ts, u) /\ EvictsOldest(s.reg, ev.ts, u)
    BY <1>7 DEF Attributes
  <2> HIDE DEF u
  <2>3. Cardinality(DOMAIN s.reg.procs) <= Cardinality(DOMAIN r.procs)
    BY <2>1, <2>2 DEF EvictsOldest
  <2>4. CASE i \notin DOMAIN s.reg.procs
    <3>1. Cardinality(DOMAIN r.procs) = kMaxEntries
      BY <1>1, <1>4, <1>5, <2>3, <2>4, BoundsAssumption DEF Fits
    <3>2. ASSUME NEW j \in DOMAIN r.procs PROVE q.procs[i].last_seen <= r.procs[j].last_seen
      <4>1. CASE j = c
        BY <1>5, <2>1, <2>2, <2>4, <3>2, <4>1 DEF RewritesOwn
      <4>2. CASE j # c
        <5>1. j \in DOMAIN s.reg.procs /\ r.procs[j].last_seen = s.reg.procs[j].last_seen
          BY <2>1, <2>2, <3>2, <4>2 DEF RewritesOwn
        <5> QED BY <1>5, <2>4, <5>1
      <4> QED BY <4>1, <4>2
    <3> QED BY <3>1, <3>2
  <2>5. CASE i \in DOMAIN s.reg.procs
    <3>1. i \notin DOMAIN r.procs
      BY <1>1
    <3>2. /\ Cardinality(DOMAIN r.procs) = kMaxEntries
          /\ \A j \in DOMAIN r.procs : s.reg.procs[i].last_seen <= r.procs[j].last_seen
      BY <2>1, <2>2, <2>5, <3>1 DEF EvictsOldest
    <3> QED BY <1>5, <2>5, <3>2
  <2> QED BY <2>4, <2>5
<1> QED
  BY <1>1, <1>2, <1>6, <1>7 DEF TwoSteps

\* For every cap and every order of timestamps, what an event pushes out of the
\* table was the least recently seen, also when it pushes out two.
THEOREM RegistryEvictsOldest == Spec => EvictionIsLRU
<1> DEFINE A == \A i \in DOMAIN processes_by_id \ DOMAIN processes_by_id' :
                  /\ Cardinality(DOMAIN processes_by_id') = kMaxEntries
                  /\ i # refs'.subject =>
                       \A j \in DOMAIN processes_by_id' :
                         processes_by_id[i].last_seen <= processes_by_id'[j].last_seen
<1>1. Inv /\ [Next]_vars => [A]_vars
  BY StepEvicts
<1>2. Spec => []Inv
  BY RegistryInvariant DEF Inv
<1> QED
  BY <1>1, <1>2, PTL DEF Spec, EvictionIsLRU

-----------------------------------------------------------------------------
(* The registry implements ProcessDirectory.                               *)

\* What one or two resolutions do to the index.
LEMMA TwoStepsIndex ==
  ASSUME NEW ev, NEW s, NEW r, Good(Registry), Good(r), ev.actor \in Actor,
         TwoSteps(ev, s, r)
  PROVE  /\ r.next \in next_id .. (next_id + 2)
         /\ \A k \in Pids : r.index[k] \in {0, tgid_index[k]} \cup next_id .. (r.next - 1)
         /\ Key(ev.actor) # 0 =>
              /\ Key(ev.actor) \in Pids
              /\ s.id \in ({tgid_index[Key(ev.actor)]} \cup next_id .. (r.next - 1)) \ {0}
              /\ r.index[Key(ev.actor)] \in {0, s.id}
         /\ Key(ev.actor) = 0 => s.id = 0
<1> DEFINE key == Key(ev.actor)
<1>1. Registry.next = next_id /\ Registry.index = tgid_index /\ next_id \in Nat
  BY DEF Registry, Good, Typed
<1>2. key \in Pids \cup {0} /\ 0 \notin Pids
  BY PidsAssumption DEF Key, Actor
<1>3. s.reg.next \in Nat /\ r.next \in Nat
  BY DEF TwoSteps, Resolved, Good, Typed
<1>4. /\ s.reg.next \in {next_id, next_id + 1}
      /\ \A k \in Pids : s.reg.index[k] \in {0, tgid_index[k]} \cup next_id .. (s.reg.next - 1)
      /\ key # 0 => /\ s.id \in ({tgid_index[key]} \cup next_id .. (s.reg.next - 1)) \ {0}
                    /\ s.reg.index[key] \in {0, s.id}
      /\ key = 0 => s.id = 0
  <2>1. CASE key = 0
    BY <1>1, <2>1 DEF TwoSteps
  <2>2. CASE key # 0
    <3>1. GivesId(Registry, key, s)
      BY <2>2 DEF TwoSteps, Attributes
    <3> HIDE DEF key
    <3>2. s.reg.next \in {next_id, next_id + 1} /\ s.id # 0
      BY <1>1, <3>1 DEF GivesId
    <3>3. s.id \in {tgid_index[key]} \cup next_id .. (s.reg.next - 1)
      BY <1>1, <1>3, <3>1 DEF GivesId
    <3>4. s.reg.index[key] \in {0, s.id} /\ \A k \in Pids \ {key} : s.reg.index[k] \in {0, tgid_index[k]}
      BY <1>1, <1>2, <2>2, <3>1 DEF GivesId
    <3> QED BY <2>2, <3>2, <3>3, <3>4
  <2> QED BY <2>1, <2>2
<1>5. /\ r.next \in {s.reg.next, s.reg.next + 1}
      /\ \A k \in Pids : r.index[k] \in {0, s.reg.index[k]} \cup s.reg.next .. (r.next - 1)
      /\ key # 0 => r.index[key] \in {0, s.reg.index[key]}
  <2>1. CASE Keeps(s.reg, r)
    BY <1>2, <2>1 DEF Keeps
  <2>2. ASSUME NEW c, ev.child \in Pids \ {key},
               Attributes(s.reg, [pid |-> ev.child, tgid |-> ev.child], ev.ts,
                          [reg |-> r, id |-> c])
        PROVE  /\ r.next \in {s.reg.next, s.reg.next + 1}
               /\ \A k \in Pids : r.index[k] \in {0, s.reg.index[k]} \cup s.reg.next .. (r.next - 1)
               /\ key # 0 => r.index[key] \in {0, s.reg.index[key]}
    <3> DEFINE b == [pid |-> ev.child, tgid |-> ev.child]
               u == [reg |-> r, id |-> c]
    <3>1. Key(b) = ev.child /\ u.reg = r /\ u.id = c
      BY DEF Key
    <3>2. GivesId(s.reg, Key(b), u)
      BY <2>2 DEF Attributes
    <3> HIDE DEF b, u, key
    <3>3. r.next \in {s.reg.next, s.reg.next + 1}
      BY <3>1, <3>2 DEF GivesId
    <3>4. c \in {s.reg.index[ev.child]} \cup s.reg.next .. (r.next - 1)
      BY <1>3, <3>1, <3>2 DEF GivesId
    <3>5. /\ r.index[ev.child] \in {0, c}
          /\ \A k \in Pids \ {ev.child} : r.index[k] \in {0, s.reg.index[k]}
      BY <2>2, <3>1, <3>2 DEF GivesId
    <3> QED BY <1>2, <2>2, <3>3, <3>4, <3>5
  <2> QED BY <2>1, <2>2 DEF TwoSteps
<1> HIDE DEF key
<1>6. r.next \in next_id .. (next_id + 2)
  BY <1>1, <1>3, <1>4, <1>5
<1>7. ASSUME NEW k \in Pids PROVE r.index[k] \in {0, tgid_index[k]} \cup next_id .. (r.next - 1)
  BY <1>1, <1>3, <1>4, <1>5
<1>8. key # 0 => /\ key \in Pids
                 /\ s.id \in ({tgid_index[key]} \cup next_id .. (r.next - 1)) \ {0}
                 /\ r.index[key] \in {0, s.id}
  BY <1>1, <1>2, <1>3, <1>4, <1>5
<1> QED
  BY <1>4, <1>6, <1>7, <1>8 DEF key

\* Every step of the registry is a step of the directory.
LEMMA StepDirectory == Inv /\ Next => Directory!Next
<1> SUFFICES ASSUME Inv, Next PROVE Directory!Next
  OBVIOUS
<1>1. PICK ev, s, r :
           /\ Good(Registry) /\ Good(r) /\ Fits(r) /\ Evolves(Registry, r)
           /\ processes_by_id' = r.procs /\ tgid_index' = r.index /\ next_id' = r.next
           /\ refs' = [actor |-> ev.actor, subject |-> s.id]
           /\ ev.actor \in Actor /\ ev.ts \in Times
           /\ TwoSteps(ev, s, r)
  BY StepInTwo
<1> DEFINE key == Key(ev.actor)
<1>2. /\ next_id' \in next_id .. (next_id + 2)
      /\ \A k \in Pids : tgid_index'[k] \in {0, tgid_index[k]} \cup next_id .. (next_id' - 1)
      /\ key # 0 => /\ key \in Pids
                    /\ s.id \in ({tgid_index[key]} \cup next_id .. (next_id' - 1)) \ {0}
                    /\ tgid_index'[key] \in {0, s.id}
      /\ key = 0 => s.id = 0
  BY <1>1, TwoStepsIndex
<1>3. next_id \in Nat \ {0}
  BY <1>1 DEF Good, Typed, Registry
<1>4. [key |-> Key(refs.actor), id |-> refs.subject]' = [key |-> key, id |-> s.id]
  BY <1>1
<1>5. Directory!Fresh = next_id .. (next_id' - 1)
  BY <1>3 DEF Directory!Fresh
<1> HIDE DEF key
<1>6. Directory!Step
  <2>1. next_id' - 1 \in (next_id - 1) .. ((next_id - 1) + 2)
    <3>1. \A m, n \in Int : m \in n .. (n + 2) => m - 1 \in (n - 1) .. ((n - 1) + 2)
      OBVIOUS
    <3>2. next_id' \in Int /\ next_id \in Int
      BY <1>2, <1>3
    <3> QED BY <1>2, <3>1, <3>2, Zenon
  <2>2. ASSUME NEW j \in Pids, NEW k \in Pids, j # k, tgid_index'[j] # 0
        PROVE  tgid_index'[j] # tgid_index'[k]
    <3>1. Key(r.procs[tgid_index'[j]]) = j
      BY <1>1, <2>2 DEF Good, Exact, Leads
    <3>2. tgid_index'[k] # 0 => Key(r.procs[tgid_index'[k]]) = k
      BY <1>1 DEF Good, Exact, Leads
    <3> QED BY <2>2, <3>1, <3>2
  <2> QED BY <1>2, <1>5, <2>1, <2>2 DEF Directory!Step
<1>7. CASE key = 0
  BY <1>2, <1>4, <1>6, <1>7 DEF Directory!Next, Directory!Anonymous
<1>8. CASE key # 0
  <2>1. Directory!Attribute(key)
    BY <1>2, <1>4, <1>5, <1>6, <1>8 DEF Directory!Attribute
  <2> QED BY <1>2, <1>8, <2>1 DEF Directory!Next
<1> QED
  BY <1>7, <1>8

\* The registry implements the directory, for every cap and set of pids: ids are
\* issued once, a tgid never gets an id back, and an event carries the id of its
\* own process, through reuse, retirement, eviction and double creation.
THEOREM RegistryImplementsDirectory == Spec => ImplementsDirectory
<1>1. Init => Directory!Init
  BY DEF Init, Directory!Init, Key
<1>2. Inv /\ [Next]_vars => [Directory!Next]_(Directory!dirVars)
  <2>1. UNCHANGED vars => UNCHANGED Directory!dirVars
    BY DEF vars, Directory!dirVars
  <2> QED BY <2>1, StepDirectory
<1>3. Spec => []Inv
  BY RegistryInvariant DEF Inv
<1> QED
  BY <1>1, <1>2, <1>3, PTL DEF Spec, ImplementsDirectory, Directory!Spec
=============================================================================
