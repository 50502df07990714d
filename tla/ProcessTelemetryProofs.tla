----------------------- MODULE ProcessTelemetryProofs -----------------------
(***************************************************************************)
(* Proofs about ProcessTelemetry, for every number of pids, ring size, cap *)
(* and throttle, and every interleaving of tasks with user space.          *)
(*                                                                         *)
(* BaseInv holds whatever goes wrong: tasks, events and the registry are   *)
(* well formed, and the ids that were reported stay with their tgid.       *)
(*                                                                         *)
(* CalmInv is about undisturbed behaviours.  The registry lags behind the  *)
(* kernel by the contents of the ring, so what it believes about a tgid    *)
(* may be about a process that is gone.  That is harmless because of       *)
(* Tracked: unless the process still lives, its exit is among the events   *)
(* to come, and before any event of a later owner of the tgid.             *)
(*                                                                         *)
(* LifeInv adds that, while nothing was evicted, the registry has a living *)
(* process under its present id and with its true start time, so that no   *)
(* check against /proc takes it for another.  LineInv adds that a fork and *)
(* a clone event name a pair of processes that really are child and        *)
(* parent.                                                                 *)
(***************************************************************************)
EXTENDS ProcessTelemetry, EntityRegistryProofs, SequenceTheorems

Names == Pids \X Ticks

TaskRec == [tgid : Pids, birth : Ticks, exe : Exes, state : {"running", "zombie"},
            clone : Names \cup {NoProcess}]

TaskOK(t) ==
  /\ task[task[t].tgid] # Free
  /\ task[task[t].tgid].tgid = task[t].tgid
  /\ task[t].state = "zombie" => task[t].tgid = t
  /\ task[t].clone # NoProcess => task[t].clone[1] # task[t].tgid /\ task[t].clone[2] <= clock
  /\ task[t].birth <= clock

TaskInv ==
  /\ clock \in 1 .. MaxClock
  /\ task \in [Pids -> TaskRec \cup {Free}]
  /\ \A t \in Pids : task[t] # Free => TaskOK(t)

EventRec == [action : {"started", "execed", "exited", "other"},
             actor : [pid : Pids, tgid : Pids], child : Pids \cup {0}, ts : Times,
             outcome : {0, 1}, hint : Exes \cup {NoExe},
             process : Names, child_process : Names \cup {NoProcess}]

EventOK(e, now) ==
  /\ e.process[1] = e.actor.tgid /\ e.process[2] <= now
  /\ e.child = e.child_process[1] /\ e.child_process[2] <= now
  /\ e.child # 0 => e.action = "started" /\ e.child # e.actor.tgid
  /\ e.hint # NoExe => e.action = "execed"

RingInv == ring \in Seq(EventRec) /\ \A i \in DOMAIN ring : EventOK(ring[i], clock)

\* Ids stay with their tgid, also when their entity is no longer retained.
AttribInv ==
  /\ \A a \in attrib : a \in Names \X (1 .. (next_id - 1)) /\ a[1][2] <= clock
  /\ \A a \in attrib : a[2] \in DOMAIN processes_by_id => Key(processes_by_id[a[2]]) = a[1][1]
  /\ \A i \in DOMAIN processes_by_id : \E a \in attrib : a[2] = i
  /\ DistinctTgids

BaseInv == Inv /\ TaskInv /\ RingInv /\ AttribInv

-----------------------------------------------------------------------------
(* Undisturbed behaviours.                                                 *)

\* The processes an event is about, and the event that ends one.
Mentioned(e) == {e.process} \cup (IF e.child = 0 THEN {} ELSE {e.child_process})
ExitOf(e, p) == e.action = "exited" /\ e.process = p

\* Process p, known from position i of the ring on, still lives or its exit is to
\* come; and its exit comes before any event of another owner of the tgid.
Tracked(i, p) ==
  /\ Living(p) \/ \E m \in DOMAIN ring : m >= i /\ ExitOf(ring[m], p)
  /\ \A j \in DOMAIN ring : \A q \in Mentioned(ring[j]) :
       j >= i /\ q[1] = p[1] /\ q # p =>
         \E m \in DOMAIN ring : m >= i /\ m < j /\ ExitOf(ring[m], p)

\* The id of attribution a is the one its tgid has now.
Current(a) == tgid_index[a[1][1]] = a[2]

CalmInv ==
  upsets = {} =>
    /\ \A t \in Pids : task[t] # Free => task[t].tgid = t
    /\ \A i \in DOMAIN ring : \A p \in Mentioned(ring[i]) : Tracked(i, p)
    /\ \A a \in attrib : Current(a) => Tracked(1, a[1])
    /\ \A a, b \in attrib : ~Shared(a, b)

\* While nothing was evicted, the registry knows the living by the right id and
\* the right start time.
LifeInv ==
  upsets = {} =>
    /\ \A i \in DOMAIN ring : ring[i].action = "exited" => ~Living(ring[i].process)
    /\ Roomy => \A a \in attrib : Living(a[1]) =>
                  Current(a) /\ processes_by_id[a[2]].start = a[1][2]

LineInv ==
  upsets = {} =>
    /\ \A t \in Pids : task[t] # Free /\ task[t].clone # NoProcess =>
         <<task[t].clone, Process(t)>> \in lineage
    /\ \A i \in DOMAIN ring : ring[i].child # 0 =>
         <<ring[i].child_process, ring[i].process>> \in lineage
    /\ LineageTrue

-----------------------------------------------------------------------------
(* The registry, in what matters here beyond EntityRegistryProofs: start   *)
(* times, parents, and what is certain as long as nothing is evicted.      *)

LEMMA EntityMore ==
  ASSUME NEW e \in Entity, NEW a \in Actor, NEW now \in Times, NEW snap \in Snapshot,
         NEW rich \in BOOLEAN
  PROVE  /\ NewEntity(a, now, snap).start = snap.start
         /\ NewEntity(a, now, snap).parent = 0
         /\ Refreshed(e, a, now, rich, snap).parent = e.parent
         /\ Checked(e, now).parent = e.parent
<1> DEFINE n == [pid |-> a.pid, tgid |-> a.tgid, exe |-> NoExe, start |-> 0, parent |-> 0,
                 last_seen |-> now, last_check |-> now, exited |-> FALSE, exit_code |-> 0]
           c == Checked(e, now)
           f == UpdateFast(c, a, now)
<1>1. NewEntity(a, now, snap) = RefreshRich(n, snap)  BY DEF NewEntity
<1>2. RefreshRich(n, snap).start = snap.start /\ RefreshRich(n, snap).parent = 0
  BY DEF RefreshRich
<1>3. c \in Entity /\ c.parent = e.parent  BY DEF Checked, Entity
<1> HIDE DEF c
<1>4. f \in Entity /\ f.parent = e.parent  BY <1>3 DEF UpdateFast, Entity, Actor
<1> HIDE DEF f
<1>5. RefreshRich(f, snap).parent = e.parent  BY <1>4, RefreshRichEntity
<1>6. Refreshed(e, a, now, rich, snap) \in {f, RefreshRich(f, snap)}  BY DEF Refreshed, f, c
<1> QED  BY <1>1, <1>2, <1>3, <1>4, <1>5, <1>6 DEF c

\* No resolution gives or takes a parent.
ParentsKept(r, s) ==
  \A i \in DOMAIN s.procs :
    s.procs[i].parent = IF i \in DOMAIN r.procs THEN r.procs[i].parent ELSE 0

LEMMA MarkExitedParents ==
  ASSUME NEW r, Typed(r), NEW id, NEW code \in Int
  PROVE  ParentsKept(r, MarkExited(r, id, code))
<1> DEFINE s == MarkExited(r, id, code)
<1>1. CASE id \notin DOMAIN r.procs  BY <1>1 DEF MarkExited, ParentsKept
<1>2. CASE id \in DOMAIN r.procs
  <2> DEFINE f == [r.procs[id] EXCEPT !.exited = TRUE, !.exit_code = code]
  <2>1. r.procs[id] \in Entity  BY <1>2 DEF Typed
  <2>2. f.parent = r.procs[id].parent  BY <2>1 DEF Entity
  <2>3. s.procs = Put(r.procs, id, f)  BY <1>2 DEF MarkExited
  <2> HIDE DEF f, s
  <2> QED  BY <1>2, <2>2, <2>3 DEF Put, ParentsKept, s
<1> QED  BY <1>1, <1>2

LEMMA RetiredParents ==
  ASSUME NEW r, Good(r), NEW key \in Pids, r.index[key] # 0, NEW now \in Times,
         NEW q, q = Retired(r, r.index[key], now)
  PROVE  ParentsKept(r, q) /\ DOMAIN q.procs = DOMAIN r.procs
<1> DEFINE id == r.index[key]
           e == Checked(r.procs[id], now)
           w == WithEntity(r, id, e)
<1>1. id \in DOMAIN r.procs /\ ~r.procs[id].exited  BY DEF Good, Exact, Leads
<1>2. r.procs[id] \in Entity  BY <1>1 DEF Good, Typed
<1>3. /\ e \in Entity /\ e.exited = r.procs[id].exited
      /\ EntityEvolves(r.procs[id], e)
      /\ e.parent = r.procs[id].parent
  BY <1>1, <1>2, CheckedEvolves DEF Checked, Entity
<1> HIDE DEF e
<1>4. Good(w) /\ DOMAIN w.procs = DOMAIN r.procs  BY <1>1, <1>3, WithEntityGood
<1>5. ParentsKept(r, w)  BY <1>1, <1>3 DEF ParentsKept, WithEntity, Put
<1>6. q = MarkExited(w, id, 0)  BY DEF Retired, e
<1> HIDE DEF w
<1>7. PICK z \in Int : z = 0  OBVIOUS
<1>8. ParentsKept(w, q)  BY <1>4, <1>6, <1>7, MarkExitedParents DEF Good
<1>9. DOMAIN q.procs = DOMAIN w.procs  BY <1>6 DEF MarkExited, Put
<1> QED  BY <1>4, <1>5, <1>8, <1>9 DEF ParentsKept

\* What a resolution is certain to do while the ids fit under the cap.
WithRoom(r, key, snap, t) ==
  t.reg.next - 1 <= kMaxEntries =>
    /\ t.id \in DOMAIN t.reg.procs
    /\ t.reg.index[key] = t.id
    /\ \A k \in Pids \ {key} : t.reg.index[k] = r.index[k]
    /\ r.index[key] = 0 => t.reg.procs[t.id].start = snap.start
    /\ r.index[key] # 0 /\ snap.check = r.procs[r.index[key]].start => t.id = r.index[key]

LEMMA CreateMore ==
  ASSUME NEW r, Good(r), Fits(r), NEW a \in Actor, Key(a) \in Pids, r.index[Key(a)] = 0,
         NEW now \in Times, NEW snap \in Snapshot,
         NEW t \in CreateProcess(r, a, now, snap)
  PROVE  ParentsKept(r, t.reg) /\ WithRoom(r, Key(a), snap, t)
<1> DEFINE m == Inserted(r, a, now, snap)
           e == NewEntity(a, now, snap)
<1>1. PICK s \in EvictIfNeeded(m) : t = [reg |-> s, id |-> r.next]
  BY DEF CreateProcess, Inserted
<1> HIDE DEF m, e
<1>2. /\ Good(m) /\ m.next = r.next + 1
      /\ Cardinality(DOMAIN m.procs) <= kMaxEntries + 1
      /\ r.next \in Nat \ {0} /\ r.next \notin DOMAIN r.procs
      /\ DOMAIN m.procs = DOMAIN r.procs \cup {r.next}
      /\ m.procs[r.next] = e
      /\ \A i \in DOMAIN r.procs : m.procs[i] = r.procs[i]
      /\ m.index[Key(a)] = r.next
      /\ \A k \in Pids : k # Key(a) => m.index[k] = r.index[k]
  BY InsertGood DEF m, e
<1>3. e.start = snap.start /\ e.parent = 0
  <2>1. NewEntity(a, now, snap) \in Entity /\ TRUE \in BOOLEAN  BY NewEntityLive
  <2> QED  BY <2>1, EntityMore DEF e
<1>4. /\ DOMAIN s.procs \subseteq DOMAIN m.procs
      /\ \A i \in DOMAIN s.procs : s.procs[i] = m.procs[i]
      /\ s.next = m.next
  <2>1. Good(m) /\ Cardinality(DOMAIN m.procs) <= kMaxEntries + 1  BY <1>2
  <2> QED  BY ONLY <1>1, <2>1, EvictGood
<1>5. ParentsKept(r, s)  BY <1>2, <1>3, <1>4 DEF ParentsKept
<1>6. m.next - 1 <= kMaxEntries => s = m
  <2> SUFFICES ASSUME m.next - 1 <= kMaxEntries PROVE s = m  OBVIOUS
  <2>1. m.next \in Nat \ {0} /\ DOMAIN m.procs \subseteq 1 .. (m.next - 1)
    BY <1>2 DEF Good, Typed
  <2>2. m.next - 1 \in Nat  BY <2>1
  <2>3. IsFiniteSet(1 .. (m.next - 1)) /\ Cardinality(1 .. (m.next - 1)) = m.next - 1
    BY <2>2, FS_Interval
  <2>4. Cardinality(DOMAIN m.procs) <= m.next - 1 /\ Cardinality(DOMAIN m.procs) \in Nat
    BY <2>1, <2>3, FS_Subset, FS_CardinalityType
  <2>5. Cardinality(DOMAIN m.procs) <= kMaxEntries  BY <2>2, <2>4, BoundsAssumption
  <2> QED  BY <1>1, <2>5 DEF EvictIfNeeded
<1>7. WithRoom(r, Key(a), snap, t)
  <2> SUFFICES ASSUME s = m PROVE WithRoom(r, Key(a), snap, t)
    BY <1>1, <1>4, <1>6 DEF WithRoom
  <2>1. t.reg = m /\ t.id = r.next  BY <1>1
  <2> QED  BY <1>2, <1>3, <2>1 DEF WithRoom
<1> QED  BY <1>1, <1>5, <1>7

LEMMA ResolveMore ==
  ASSUME NEW r, Good(r), Fits(r), NEW a \in Actor, Key(a) \in Pids, NEW now \in Times,
         NEW rich \in BOOLEAN, NEW snaps, snaps[Key(a)] \in Snapshot,
         NEW t \in ResolveProcess(r, a, now, rich, snaps)
  PROVE  ParentsKept(r, t.reg) /\ WithRoom(r, Key(a), snaps[Key(a)], t)
<1> DEFINE key == Key(a)
           id == r.index[key]
           snap == snaps[key]
<1>0. key # 0  BY PidsAssumption
<1>1. CASE id = 0
  <2>1. t \in CreateProcess(r, a, now, snap)  BY <1>0, <1>1 DEF ResolveProcess
  <2> QED  BY <1>1, <2>1, CreateMore
<1>2. CASE id # 0
  <2>1. id \in DOMAIN r.procs /\ ~r.procs[id].exited /\ Key(r.procs[id]) = key
    BY <1>2 DEF Good, Exact, Leads
  <2>2. r.procs[id] \in Entity  BY <2>1 DEF Good, Typed
  <2>3. CASE IsReused(r.procs[id], now, snap)
    <3> DEFINE q == Retired(r, id, now)
    <3>1. t \in CreateProcess(q, a, now, snap)  BY <1>0, <1>2, <2>1, <2>3 DEF ResolveProcess
    <3>2. /\ Good(q) /\ Fits(q) /\ q.index[key] = 0
          /\ \A k \in Pids \ {key} : q.index[k] = r.index[k]
      BY <1>2, RetiredGood
    <3>3. ParentsKept(r, q) /\ DOMAIN q.procs = DOMAIN r.procs  BY <1>2, RetiredParents
    <3> HIDE DEF q
    <3>4. ParentsKept(q, t.reg) /\ WithRoom(q, key, snap, t)  BY <3>1, <3>2, CreateMore
    <3>5. snap.check # r.procs[id].start  BY <2>3 DEF IsReused
    <3> HIDE DEF key, id, snap
    <3>6. ParentsKept(r, t.reg)  BY <3>3, <3>4 DEF ParentsKept
    <3>7. WithRoom(r, key, snap, t)  BY <1>2, <3>2, <3>4, <3>5 DEF WithRoom, id
    <3> QED  BY <3>6, <3>7 DEF key, snap
  <2>4. CASE ~IsReused(r.procs[id], now, snap)
    <3> DEFINE f == Refreshed(r.procs[id], a, now, rich, snap)
               w == WithEntity(r, id, f)
    <3>1. t = [reg |-> w, id |-> id]  BY <1>0, <1>2, <2>1, <2>4 DEF ResolveProcess
    <3>2. f.parent = r.procs[id].parent  BY <2>2, EntityMore
    <3> HIDE DEF f
    <3>3. ParentsKept(r, w)  BY <2>1, <3>2 DEF ParentsKept, WithEntity, Put
    <3>4. w.index = r.index /\ id \in DOMAIN w.procs  BY DEF WithEntity, Put
    <3> HIDE DEF w
    <3>5. t.reg = w /\ t.id = id  BY <3>1
    <3>6. WithRoom(r, key, snap, t)  BY <1>2, <3>4, <3>5 DEF WithRoom
    <3> QED  BY <3>3, <3>5, <3>6
  <2> QED  BY <2>3, <2>4
<1> QED  BY <1>1, <1>2

\* SetParent and ApplyHint change a parent and a path, and nothing else.
LEMMA SetParentMore ==
  ASSUME NEW r, Typed(r), NEW id, NEW parentId, NEW s, s = SetParent(r, id, parentId)
  PROVE  /\ s.index = r.index /\ s.next = r.next /\ DOMAIN s.procs = DOMAIN r.procs
         /\ \A i \in DOMAIN r.procs :
              /\ s.procs[i].start = r.procs[i].start
              /\ i # id => s.procs[i].parent = r.procs[i].parent
              /\ s.procs[i].parent \in {r.procs[i].parent, parentId}
<1>1. CASE s = r  BY <1>1
<1>2. CASE s # r
  <2> DEFINE f == [r.procs[id] EXCEPT !.parent = parentId]
  <2>1. id \in DOMAIN r.procs /\ s = WithEntity(r, id, f)  BY <1>2 DEF SetParent
  <2>2. r.procs[id] \in Entity  BY <2>1 DEF Typed
  <2>3. f.start = r.procs[id].start /\ f.parent = parentId  BY <2>2 DEF Entity
  <2> HIDE DEF f
  <2> QED  BY <2>1, <2>3 DEF WithEntity, Put
<1> QED  BY <1>1, <1>2

LEMMA HintMore ==
  ASSUME NEW r, Typed(r), NEW id, NEW hint, NEW s, s = ApplyHint(r, id, hint)
  PROVE  /\ s.index = r.index /\ s.next = r.next /\ DOMAIN s.procs = DOMAIN r.procs
         /\ \A i \in DOMAIN r.procs : /\ s.procs[i].start = r.procs[i].start
                                      /\ s.procs[i].parent = r.procs[i].parent
         /\ hint = NoExe => s = r
<1>1. CASE s = r  BY <1>1
<1>2. CASE s # r
  <2> DEFINE f == [r.procs[id] EXCEPT !.exe = hint]
  <2>1. hint # NoExe /\ id \in DOMAIN r.procs /\ s = WithEntity(r, id, f)
    BY <1>2 DEF ApplyHint
  <2>2. r.procs[id] \in Entity  BY <2>1 DEF Typed
  <2>3. f.start = r.procs[id].start /\ f.parent = r.procs[id].parent  BY <2>2 DEF Entity
  <2> HIDE DEF f
  <2> QED  BY <2>1, <2>3 DEF WithEntity, Put
<1> QED  BY <1>1, <1>2

\* The parents after an event: those there were, and the actor as parent of the
\* child the event is about.
ParentOK(ev, sid, r, i) ==
  \/ r.procs[i].parent = 0
  \/ i \in DOMAIN processes_by_id /\ r.procs[i].parent = processes_by_id[i].parent
  \/ ev.child # 0 /\ r.index[ev.child] = i /\ r.procs[i].parent = sid

\* The owner of key k found by an event, while the ids fit under the cap.
Finds(k, snap, id, r) ==
  /\ id \in DOMAIN r.procs
  /\ tgid_index[k] = 0 /\ snap.start # 0 => r.procs[id].start = snap.start
  /\ tgid_index[k] # 0 /\ snap.check # 0 /\ snap.check = processes_by_id[tgid_index[k]].start =>
       id = tgid_index[k]

RoomOK(ev, snaps, sid, r) ==
  r.next - 1 <= kMaxEntries =>
    /\ \A j \in Pids \ {Key(ev.actor), ev.child} : r.index[j] = tgid_index[j]
    /\ Finds(Key(ev.actor), snaps[Key(ev.actor)], sid, r)
    /\ ev.action # "exited" => r.index[Key(ev.actor)] = sid
    /\ ev.child # 0 => Finds(ev.child, snaps[ev.child], r.index[ev.child], r)

Effect(ev, snaps, sid, r) ==
  /\ ev.action = "exited" => r.index[Key(ev.actor)] = 0
  /\ \A i \in DOMAIN r.procs \ DOMAIN processes_by_id :
       i = sid \/ (ev.child # 0 /\ r.index[ev.child] = i)
  /\ \A i \in DOMAIN r.procs : ParentOK(ev, sid, r, i)
  /\ RoomOK(ev, snaps, sid, r)

\* The actor's part of an Ingest.
LEMMA SubjectEffect ==
  ASSUME Good(Registry), Fits(Registry), NEW ev, NEW snaps, Admissible(ev, snaps),
         Key(ev.actor) \in Pids,
         NEW s \in ResolveProcess(Registry, ev.actor, ev.ts, ev.action = "execed", snaps)
  PROVE  /\ Resolved(Registry, s)
         /\ GivesId(Registry, Key(ev.actor), s)
         /\ RewritesOwn(Registry, ev.actor, ev.ts, s)
         /\ ParentsKept(Registry, s.reg)
         /\ WithRoom(Registry, Key(ev.actor), snaps[Key(ev.actor)], s)
         /\ s.id \in DOMAIN s.reg.procs => Key(s.reg.procs[s.id]) = Key(ev.actor)
         /\ s.reg.index[Key(ev.actor)] # 0 => s.id \in DOMAIN s.reg.procs
<1>1. /\ ev.actor \in Actor /\ ev.ts \in Times /\ snaps[Key(ev.actor)] \in Snapshot
      /\ (ev.action = "execed") \in BOOLEAN
  BY PidsAssumption DEF Admissible
<1>2. Resolved(Registry, s)  BY <1>1, ResolveGood
<1>3. Attributes(Registry, ev.actor, ev.ts, s)  BY <1>1, ResolveAttributes
<1>4. /\ ParentsKept(Registry, s.reg)
      /\ WithRoom(Registry, Key(ev.actor), snaps[Key(ev.actor)], s)
  BY <1>1, ResolveMore
<1>5. GivesId(Registry, Key(ev.actor), s) /\ RewritesOwn(Registry, ev.actor, ev.ts, s)
  BY <1>3 DEF Attributes
<1>6. s.id \in DOMAIN s.reg.procs => Key(s.reg.procs[s.id]) = Key(ev.actor)
  BY <1>5 DEF RewritesOwn, Key
<1>7. s.reg.index[Key(ev.actor)] # 0 => s.id \in DOMAIN s.reg.procs
  BY <1>2, <1>5 DEF Resolved, Good, Exact, Leads, GivesId
<1> QED  BY <1>2, <1>4, <1>5, <1>6, <1>7

\* After an exit, the tgid has no entity any more.
LEMMA ExitEffect ==
  ASSUME Good(Registry), Fits(Registry), NEW ev, NEW snaps, Admissible(ev, snaps),
         Key(ev.actor) \in Pids, ev.action = "exited",
         NEW s \in ResolveProcess(Registry, ev.actor, ev.ts, ev.action = "execed", snaps),
         NEW r, r = MarkExited(s.reg, s.id, ev.outcome)
  PROVE  Effect(ev, snaps, s.id, r)
<1> DEFINE key == Key(ev.actor)
<1>1. /\ Resolved(Registry, s) /\ GivesId(Registry, key, s)
      /\ RewritesOwn(Registry, ev.actor, ev.ts, s)
      /\ ParentsKept(Registry, s.reg) /\ WithRoom(Registry, key, snaps[key], s)
      /\ s.id \in DOMAIN s.reg.procs => Key(s.reg.procs[s.id]) = key
      /\ s.reg.index[key] # 0 => s.id \in DOMAIN s.reg.procs
  BY SubjectEffect
<1>2. Good(s.reg) /\ Typed(s.reg) /\ ev.outcome \in Int /\ ev.child = 0
      /\ (s.id \in DOMAIN s.reg.procs => ~s.reg.procs[s.id].exited)
  BY <1>1 DEF Resolved, Good, Admissible
<1>3. /\ r.next = s.reg.next /\ DOMAIN r.procs = DOMAIN s.reg.procs
      /\ s.id \in DOMAIN s.reg.procs => r.index[Key(s.reg.procs[s.id])] = 0
      /\ Evolves(s.reg, r)
  BY <1>2, MarkExitedGood
<1>4. ParentsKept(s.reg, r)  BY <1>2, MarkExitedParents
<1>5. s.id \notin DOMAIN s.reg.procs => r = s.reg  BY DEF MarkExited
<1>6. r.index[key] = 0  BY <1>1, <1>3, <1>5
<1>7. \A j \in Pids \ {key} : r.index[j] = s.reg.index[j]
  <2>1. s.reg.index \in [Pids -> 0 .. (s.reg.next - 1)]  BY <1>2 DEF Typed
  <2> QED  BY <1>1, <1>5, <2>1 DEF MarkExited, RetireIndex
<1>8. \A i \in DOMAIN r.procs \ DOMAIN processes_by_id : i = s.id
  BY <1>1, <1>3 DEF RewritesOwn, Registry
<1>9. \A i \in DOMAIN r.procs : ParentOK(ev, s.id, r, i)
  BY <1>1, <1>3, <1>4 DEF ParentsKept, ParentOK, Registry
<1>10. RoomOK(ev, snaps, s.id, r)
  <2> SUFFICES ASSUME r.next - 1 <= kMaxEntries
               PROVE  /\ \A j \in Pids \ {key, ev.child} : r.index[j] = tgid_index[j]
                      /\ Finds(key, snaps[key], s.id, r)
    BY <1>2 DEF RoomOK
  <2>1. /\ s.id \in DOMAIN s.reg.procs
        /\ \A k \in Pids \ {key} : s.reg.index[k] = tgid_index[k]
        /\ tgid_index[key] = 0 => s.reg.procs[s.id].start = snaps[key].start
        /\ tgid_index[key] # 0 /\ snaps[key].check = processes_by_id[tgid_index[key]].start =>
             s.id = tgid_index[key]
    BY <1>1, <1>3 DEF WithRoom, Registry
  <2>2. s.reg.procs[s.id].start # 0 => r.procs[s.id].start = s.reg.procs[s.id].start
    BY <1>3, <2>1 DEF Evolves, EntityEvolves
  <2>3. Finds(key, snaps[key], s.id, r)  BY <1>3, <2>1, <2>2 DEF Finds
  <2> QED  BY <1>7, <2>1, <2>3
<1> QED  BY <1>6, <1>8, <1>9, <1>10 DEF Effect

\* A start that names a child resolves both.
LEMMA StartEffect ==
  ASSUME Good(Registry), Fits(Registry), NEW ev, NEW snaps, Admissible(ev, snaps),
         Key(ev.actor) \in Pids, ev.action = "started", ev.child # 0,
         NEW s \in ResolveProcess(Registry, ev.actor, ev.ts, ev.action = "execed", snaps),
         NEW t \in ResolveChild(s.reg, ev.child, s.id, ev.ts, snaps)
  PROVE  Effect(ev, snaps, s.id, t.reg)
<1> DEFINE key == Key(ev.actor)
           a == [pid |-> ev.child, tgid |-> ev.child]
           child == ev.child
           r == t.reg
<1>1. /\ Resolved(Registry, s) /\ GivesId(Registry, key, s)
      /\ RewritesOwn(Registry, ev.actor, ev.ts, s)
      /\ ParentsKept(Registry, s.reg) /\ WithRoom(Registry, key, snaps[key], s)
  BY SubjectEffect
<1>2. Good(s.reg) /\ Fits(s.reg) /\ Evolves(Registry, s.reg)  BY <1>1 DEF Resolved
<1>3. /\ child \in Pids /\ child # key /\ a \in Actor /\ Key(a) = child
      /\ snaps[child] \in Snapshot /\ ev.ts \in Times /\ TRUE \in BOOLEAN
  BY PidsAssumption DEF Admissible, Actor, Key
<1>4. PICK u \in ResolveProcess(s.reg, a, ev.ts, TRUE, snaps) :
        t = [reg |-> SetParent(u.reg, u.id, s.id), id |-> u.id]
  BY DEF ResolveChild
<1> HIDE DEF a, key, child, r
<1>5. Resolved(s.reg, u)  BY <1>2, <1>3, <1>4, ResolveGood
<1>6. Attributes(s.reg, a, ev.ts, u)  BY <1>2, <1>3, <1>4, ResolveAttributes
<1>7. ParentsKept(s.reg, u.reg) /\ WithRoom(s.reg, child, snaps[child], u)
  BY <1>2, <1>3, <1>4, ResolveMore
<1>8. Good(u.reg) /\ Typed(u.reg) /\ Evolves(s.reg, u.reg)  BY <1>5 DEF Resolved, Good
<1>9. r = SetParent(u.reg, u.id, s.id)  BY <1>4 DEF r
<1>10. /\ r.index = u.reg.index /\ r.next = u.reg.next /\ DOMAIN r.procs = DOMAIN u.reg.procs
       /\ \A i \in DOMAIN u.reg.procs :
            /\ r.procs[i].start = u.reg.procs[i].start
            /\ i # u.id => r.procs[i].parent = u.reg.procs[i].parent
            /\ r.procs[i].parent \in {u.reg.procs[i].parent, s.id}
  BY <1>8, <1>9, SetParentMore
<1>11. u.id \in DOMAIN r.procs => r.index[child] = u.id
  <2> SUFFICES ASSUME u.id \in DOMAIN u.reg.procs PROVE u.reg.index[child] = u.id
    BY <1>10
  <2>1. Key(u.reg.procs[u.id]) = child
    BY <1>3, <1>6 DEF Attributes, RewritesOwn, Key
  <2>2. ~u.reg.procs[u.id].exited  BY <1>5 DEF Resolved
  <2> QED  BY <1>8, <2>1, <2>2 DEF Good, Exact, Found
<1>12. \A i \in DOMAIN r.procs \ DOMAIN processes_by_id : i = s.id \/ r.index[child] = i
  <2>1. DOMAIN u.reg.procs \subseteq DOMAIN s.reg.procs \cup {u.id}
    BY <1>6 DEF Attributes, RewritesOwn
  <2>2. DOMAIN s.reg.procs \subseteq DOMAIN processes_by_id \cup {s.id}
    BY <1>1 DEF RewritesOwn, Registry
  <2> QED  BY <1>10, <1>11, <2>1, <2>2
<1>13. ASSUME NEW i \in DOMAIN r.procs PROVE ParentOK(ev, s.id, r, i)
  <2>1. \/ u.reg.procs[i].parent = 0
        \/ i \in DOMAIN processes_by_id /\ u.reg.procs[i].parent = processes_by_id[i].parent
    BY <1>1, <1>7, <1>10 DEF ParentsKept, Registry
  <2>2. CASE i # u.id  BY <1>10, <2>1, <2>2 DEF ParentOK
  <2>3. CASE i = u.id
    <3>1. ev.child # 0 /\ r.index[ev.child] = i  BY <1>11, <2>3 DEF child
    <3> QED  BY <1>10, <2>1, <3>1 DEF ParentOK
  <2> QED  BY <2>2, <2>3
<1>14. RoomOK(ev, snaps, s.id, r)
  <2> SUFFICES ASSUME r.next - 1 <= kMaxEntries
               PROVE  /\ \A j \in Pids \ {key, child} : r.index[j] = tgid_index[j]
                      /\ Finds(key, snaps[key], s.id, r)
                      /\ r.index[key] = s.id
                      /\ Finds(child, snaps[child], r.index[child], r)
    BY DEF RoomOK, key, child
  <2>1. s.reg.next \in Nat /\ u.reg.next \in Nat /\ s.reg.next <= u.reg.next
    BY <1>2, <1>8 DEF Good, Typed, Evolves
  <2>2. s.reg.next - 1 <= kMaxEntries /\ u.reg.next - 1 <= kMaxEntries
    BY <1>10, <2>1, BoundsAssumption
  <2>3. /\ s.id \in DOMAIN s.reg.procs /\ s.reg.index[key] = s.id
        /\ \A k \in Pids \ {key} : s.reg.index[k] = tgid_index[k]
        /\ tgid_index[key] = 0 => s.reg.procs[s.id].start = snaps[key].start
        /\ tgid_index[key] # 0 /\ snaps[key].check = processes_by_id[tgid_index[key]].start =>
             s.id = tgid_index[key]
    BY <1>1, <2>2 DEF WithRoom, Registry
  <2>4. /\ u.id \in DOMAIN u.reg.procs /\ u.reg.index[child] = u.id
        /\ \A k \in Pids \ {child} : u.reg.index[k] = s.reg.index[k]
        /\ s.reg.index[child] = 0 => u.reg.procs[u.id].start = snaps[child].start
        /\ s.reg.index[child] # 0 /\ snaps[child].check = s.reg.procs[s.reg.index[child]].start =>
             u.id = s.reg.index[child]
    BY <1>7, <2>2 DEF WithRoom
  <2>5. key \in Pids  BY DEF key
  <2>6. s.id # 0  BY <1>1 DEF GivesId
  <2>7. r.index[key] = s.id /\ s.id \in DOMAIN u.reg.procs
    <3>1. u.reg.index[key] = s.id  BY <1>3, <2>3, <2>4, <2>5
    <3> QED  BY <1>8, <1>10, <2>5, <2>6, <3>1 DEF Good, Exact, Leads
  <2>8. Finds(key, snaps[key], s.id, r)
    <3>1. s.reg.procs[s.id].start # 0 => u.reg.procs[s.id].start = s.reg.procs[s.id].start
      BY <1>8, <2>3, <2>7 DEF Evolves, EntityEvolves
    <3> QED  BY <1>10, <2>3, <2>7, <3>1 DEF Finds
  <2>9. Finds(child, snaps[child], r.index[child], r)
    <3> DEFINE id == tgid_index[child]
    <3>1. s.reg.index[child] = id  BY <1>3, <2>3
    <3>2. id # 0 => id \in DOMAIN processes_by_id /\ id \in DOMAIN s.reg.procs
      <4>1. id # 0 => id \in DOMAIN s.reg.procs  BY <1>2, <1>3, <3>1 DEF Good, Exact, Leads
      <4>2. id # 0 => id \in DOMAIN processes_by_id
        BY <1>3 DEF Good, Exact, Leads, Registry
      <4> QED  BY <4>1, <4>2
    <3>3. id # 0 /\ processes_by_id[id].start # 0 =>
            s.reg.procs[id].start = processes_by_id[id].start
      BY <1>2, <3>2 DEF Evolves, EntityEvolves, Registry
    <3> HIDE DEF id
    <3>4. r.index[child] = u.id  BY <1>10, <2>4
    <3>5. id = 0 => r.procs[u.id].start = snaps[child].start  BY <1>10, <2>4, <3>1
    <3>6. id # 0 /\ snaps[child].check # 0 /\ snaps[child].check = processes_by_id[id].start =>
            u.id = id
      BY <2>4, <3>1, <3>3
    <3> QED  BY <1>10, <2>4, <3>4, <3>5, <3>6 DEF Finds, id
  <2> QED  BY <1>3, <1>10, <2>3, <2>4, <2>7, <2>8, <2>9
<1> QED  BY <1>12, <1>13, <1>14 DEF Effect, r, child

\* Any other event is about its actor only.
LEMMA OtherEffect ==
  ASSUME Good(Registry), Fits(Registry), NEW ev, NEW snaps, Admissible(ev, snaps),
         Key(ev.actor) \in Pids, ev.action # "exited", ev.child = 0,
         NEW s \in ResolveProcess(Registry, ev.actor, ev.ts, ev.action = "execed", snaps),
         NEW r, r = ApplyHint(s.reg, s.id, ev.hint)
  PROVE  Effect(ev, snaps, s.id, r)
<1> DEFINE key == Key(ev.actor)
<1>1. /\ Resolved(Registry, s)
      /\ RewritesOwn(Registry, ev.actor, ev.ts, s)
      /\ ParentsKept(Registry, s.reg) /\ WithRoom(Registry, key, snaps[key], s)
  BY SubjectEffect
<1>2. Typed(s.reg)  BY <1>1 DEF Resolved, Good
<1>3. /\ r.index = s.reg.index /\ r.next = s.reg.next /\ DOMAIN r.procs = DOMAIN s.reg.procs
      /\ \A i \in DOMAIN s.reg.procs : /\ r.procs[i].start = s.reg.procs[i].start
                                       /\ r.procs[i].parent = s.reg.procs[i].parent
  BY <1>2, HintMore
<1>4. \A i \in DOMAIN r.procs \ DOMAIN processes_by_id : i = s.id
  BY <1>1, <1>3 DEF RewritesOwn, Registry
<1>5. \A i \in DOMAIN r.procs : ParentOK(ev, s.id, r, i)
  BY <1>1, <1>3 DEF ParentsKept, ParentOK, Registry
<1>6. RoomOK(ev, snaps, s.id, r)
  BY <1>1, <1>3 DEF WithRoom, RoomOK, Finds, Registry
<1> QED  BY <1>4, <1>5, <1>6 DEF Effect

After == [procs |-> processes_by_id', index |-> tgid_index', next |-> next_id']

\* What the whole of an Ingest does, for an actor that has a key.
LEMMA IngestEffect ==
  ASSUME Inv, NEW ev, NEW snaps, Admissible(ev, snaps), Key(ev.actor) \in Pids, Ingest(ev, snaps)
  PROVE  /\ Inv'
         /\ Evolves(Registry, After)
         /\ next_id \in Nat \ {0} /\ next_id' \in Nat \ {0} /\ next_id <= next_id'
         /\ \A j \in Pids : tgid_index'[j] \in {0, tgid_index[j]} \cup next_id .. (next_id' - 1)
         /\ refs'.subject \in ({tgid_index[Key(ev.actor)]} \cup next_id .. (next_id' - 1)) \ {0}
         /\ tgid_index'[Key(ev.actor)] \in {0, refs'.subject}
         /\ refs'.subject \in DOMAIN processes_by_id' =>
              Key(processes_by_id'[refs'.subject]) = Key(ev.actor)
         /\ Effect(ev, snaps, refs'.subject, After)
<1>1. Good(Registry) /\ Fits(Registry)  BY InvIsGood
<1>2. PICK r : /\ Good(r) /\ Fits(r) /\ Evolves(Registry, r)
               /\ processes_by_id' = r.procs /\ tgid_index' = r.index /\ next_id' = r.next
               /\ refs' \in [actor : Actor, subject : 0 .. (r.next - 1)]
               /\ \E s : refs' = [actor |-> ev.actor, subject |-> s.id] /\ TwoSteps(ev, s, r)
  BY <1>1, IngestGood
<1>3. PICK s : refs' = [actor |-> ev.actor, subject |-> s.id] /\ TwoSteps(ev, s, r)  BY <1>2
<1>4. Inv'
  BY <1>2 DEF Inv, TypeOK, IndexExact, BoundedSize, Good, Typed, Exact, Leads, Found, Fits
<1>5. Evolves(Registry, After)
  <2>1. After.procs = r.procs /\ After.next = r.next  BY <1>2 DEF After
  <2> QED  BY <1>2, <2>1 DEF Evolves
<1>6. ev.actor \in Actor /\ Key(ev.actor) # 0  BY PidsAssumption DEF Admissible
<1>7. /\ \A j \in Pids : r.index[j] \in {0, tgid_index[j]} \cup next_id .. (r.next - 1)
      /\ s.id \in ({tgid_index[Key(ev.actor)]} \cup next_id .. (r.next - 1)) \ {0}
      /\ r.index[Key(ev.actor)] \in {0, s.id}
  BY <1>1, <1>2, <1>3, <1>6, TwoStepsIndex
<1>8. s.id \in DOMAIN r.procs => Key(r.procs[s.id]) = Key(ev.actor)
  BY <1>3, <1>6, TwoStepsContext DEF Key
<1>9. next_id \in Nat \ {0} /\ r.next \in Nat \ {0} /\ next_id <= r.next
  BY <1>1, <1>2 DEF Good, Typed, Evolves, Registry
<1>10. Effect(ev, snaps, refs'.subject, After)
  <2>1. PICK v \in ResolveProcess(Registry, ev.actor, ev.ts, ev.action = "execed", snaps) :
          \E t \in Effects(v, ev, snaps) :
            LET q == ApplyHint(t.reg, v.id, ev.hint)
            IN  /\ processes_by_id' = q.procs
                /\ tgid_index' = q.index
                /\ next_id' = q.next
                /\ refs' = [actor |-> ev.actor, subject |-> v.id]
    BY DEF Ingest
  <2>2. PICK t \in Effects(v, ev, snaps) :
          LET q == ApplyHint(t.reg, v.id, ev.hint)
          IN  /\ processes_by_id' = q.procs
              /\ tgid_index' = q.index
              /\ next_id' = q.next
              /\ refs' = [actor |-> ev.actor, subject |-> v.id]
    BY <2>1
  <2> DEFINE q == ApplyHint(t.reg, v.id, ev.hint)
  <2>3. /\ After.procs = q.procs /\ After.index = q.index /\ After.next = q.next
        /\ refs'.subject = v.id
    BY <2>2 DEF After
  <2>4. /\ ev.hint # NoExe => ev.action = "execed"
        /\ ev.child # 0 => ev.action = "started"
    BY DEF Admissible
  <2>5. ev.hint = NoExe => q = t.reg  BY DEF ApplyHint
  <2>6. Effect(ev, snaps, v.id, q)
    <3>1. CASE ev.action = "exited"
      <4>1. t.reg = MarkExited(v.reg, v.id, ev.outcome)  BY <2>2, <3>1 DEF Effects
      <4>2. q = t.reg  BY <2>4, <2>5, <3>1
      <4> HIDE DEF q
      <4> QED  BY <1>1, <2>1, <3>1, <4>1, <4>2, ExitEffect
    <3>2. CASE ev.child # 0
      <4>1. ev.action = "started"  BY <2>4, <3>2
      <4>2. t \in ResolveChild(v.reg, ev.child, v.id, ev.ts, snaps)
        BY <2>2, <3>2, <4>1 DEF Effects
      <4>3. q = t.reg  BY <2>4, <2>5, <4>1
      <4> HIDE DEF q
      <4> QED  BY <1>1, <2>1, <3>2, <4>1, <4>2, <4>3, StartEffect
    <3>3. CASE ev.action # "exited" /\ ev.child = 0
      <4>1. t.reg = v.reg  BY <2>2, <3>3 DEF Effects
      <4>2. q = ApplyHint(v.reg, v.id, ev.hint)  BY <4>1
      <4> HIDE DEF q
      <4> QED  BY <1>1, <2>1, <3>3, <4>2, OtherEffect
    <3> QED  BY <3>1, <3>2, <3>3
  <2> HIDE DEF q
  <2> QED  BY <2>3, <2>6 DEF Effect, ParentOK, RoomOK, Finds
<1>11. refs'.subject = s.id  BY <1>3
<1> QED  BY <1>2, <1>4, <1>5, <1>7, <1>8, <1>9, <1>10, <1>11

-----------------------------------------------------------------------------
(* BaseInv, for the steps of tasks.                                        *)

\* A task is not Free, and 0 is no pid.
LEMMA TaskFacts ==
  /\ 0 \notin Pids
  /\ \A x \in TaskRec : x # Free
  /\ \A n \in Names : n # NoProcess /\ n[1] \in Pids /\ n[2] \in Ticks /\ n[2] \in Nat \ {0}
  /\ NoProcess[1] = 0 /\ NoProcess[2] = 0
<1>1. 0 \notin Pids  BY PidsAssumption
<1>2. \A x \in TaskRec : x.tgid \in Pids  BY DEF TaskRec
<1>3. Free.tgid = 0  BY DEF Free
<1>4. \A n \in Names : n[1] \in Pids /\ n[2] \in Ticks  BY DEF Names
<1>5. NoProcess[1] = 0 /\ NoProcess[2] = 0  BY DEF NoProcess
<1>6. \A n \in Names : n[2] \in Nat \ {0}  BY <1>4, TicksAssumption
<1>7. \A x \in TaskRec : x # Free  BY <1>1, <1>2, <1>3
<1>8. \A n \in Names : n # NoProcess  BY <1>1, <1>4, <1>5
<1> QED  BY <1>1, <1>4, <1>5, <1>6, <1>7, <1>8

LEMMA TickFacts ==
  ASSUME TaskInv, Tick
  PROVE  /\ clock \in Nat \ {0} /\ clock' = clock + 1 /\ clock' \in 1 .. MaxClock
         /\ clock' \in Ticks /\ clock' \in Times /\ clock' \in Nat
BY TelemetryAssumption DEF TaskInv, Tick

\* The task t, and the process it belongs to.
LEMMA TaskTyped ==
  ASSUME TaskInv, NEW t \in Pids, task[t] # Free
  PROVE  /\ task[t] \in TaskRec /\ task[task[t].tgid] \in TaskRec
         /\ Process(t) \in Names /\ Process(t)[1] = task[t].tgid
         /\ task[t].tgid \in Pids
         /\ Process(t)[2] <= clock
<1>1. task[t] \in TaskRec  BY DEF TaskInv
<1>2. task[t].tgid \in Pids  BY <1>1 DEF TaskRec
<1>3. task[task[t].tgid] \in TaskRec  BY <1>2 DEF TaskInv, TaskOK
<1>4. task[task[t].tgid].birth \in Ticks  BY <1>3 DEF TaskRec
<1>5. task[task[t].tgid].birth <= clock  BY <1>2 DEF TaskInv, TaskOK
<1> QED  BY <1>1, <1>2, <1>3, <1>4, <1>5 DEF Process, Names

\* The records the probes make.
LEMMA EventsMade ==
  ASSUME TaskInv, Tick, NEW t \in Pids, task[t] # Free
  PROVE  /\ Blank(t) \in EventRec /\ EventOK(Blank(t), clock')
         /\ Blank(t).process = Process(t) /\ Blank(t).child = 0 /\ Blank(t).action = "other"
         /\ \A x \in Exes :
              /\ ExecEvent(t, x) \in EventRec /\ EventOK(ExecEvent(t, x), clock')
              /\ ExecEvent(t, x).process = Process(t) /\ ExecEvent(t, x).child = 0
              /\ ExecEvent(t, x).action = "execed"
         /\ ExitEvent(t) \in EventRec /\ EventOK(ExitEvent(t), clock')
         /\ ExitEvent(t).process = Process(t) /\ ExitEvent(t).child = 0
         /\ ExitEvent(t).action = "exited"
         /\ \A c \in Names : c[1] # task[t].tgid /\ c[2] <= clock' =>
              /\ StartEvent(t, c) \in EventRec /\ EventOK(StartEvent(t, c), clock')
              /\ StartEvent(t, c).process = Process(t) /\ StartEvent(t, c).child = c[1]
              /\ StartEvent(t, c).child_process = c /\ StartEvent(t, c).action = "started"
<1> DEFINE p == Process(t)
           now == clock'
           g == task[t].tgid
<1>1. p \in Names /\ p[1] = g /\ g \in Pids /\ p[2] <= clock  BY TaskTyped
<1>2. now \in Times /\ now \in Nat /\ clock \in Nat /\ clock <= now  BY TickFacts
<1>3. p[2] <= now
  <2>1. p[2] \in Nat  BY <1>1, TaskFacts
  <2> QED  BY <1>1, <1>2, <2>1
<1>4. Blank(t) = [action |-> "other", actor |-> [pid |-> t, tgid |-> g], child |-> 0,
                  ts |-> now, outcome |-> 0, hint |-> NoExe,
                  process |-> p, child_process |-> NoProcess]
  BY DEF Blank
<1> DEFINE b == Blank(t)
<1> HIDE DEF p, now, g
<1>5. /\ b \in EventRec /\ b.action = "other" /\ b.actor.tgid = g /\ b.child = 0
      /\ b.hint = NoExe /\ b.process = p /\ b.child_process = NoProcess
  BY <1>1, <1>2, <1>4 DEF EventRec
<1>6. /\ ExitEvent(t) = [b EXCEPT !.action = "exited", !.outcome = 1]
      /\ \A x : ExecEvent(t, x) = [b EXCEPT !.action = "execed", !.hint = x]
  BY DEF ExitEvent, ExecEvent
<1>7. ASSUME NEW c
      PROVE  StartEvent(t, c) = [b EXCEPT !.action = "started", !.child = c[1], !.child_process = c]
  BY DEF StartEvent
<1> HIDE DEF b
<1>8. NoProcess[1] = 0 /\ NoProcess[2] <= now  BY <1>2, TaskFacts
<1>9. EventOK(b, now)  BY <1>1, <1>3, <1>5, <1>8 DEF EventOK
<1>10. ASSUME NEW x \in Exes
       PROVE  /\ ExecEvent(t, x) \in EventRec /\ EventOK(ExecEvent(t, x), now)
              /\ ExecEvent(t, x).process = p /\ ExecEvent(t, x).child = 0
              /\ ExecEvent(t, x).action = "execed"
  <2> DEFINE e == ExecEvent(t, x)
  <2>1. e = [b EXCEPT !.action = "execed", !.hint = x]  BY <1>6
  <2> HIDE DEF e
  <2>2. /\ e \in EventRec /\ e.action = "execed" /\ e.actor = b.actor /\ e.child = b.child
        /\ e.process = b.process /\ e.child_process = b.child_process
    BY <1>5, <2>1 DEF EventRec
  <2>3. EventOK(e, now)  BY <1>1, <1>3, <1>5, <1>8, <2>2 DEF EventOK
  <2> QED  BY <1>5, <2>2, <2>3 DEF e
<1>11. /\ ExitEvent(t) \in EventRec /\ EventOK(ExitEvent(t), now)
       /\ ExitEvent(t).process = p /\ ExitEvent(t).child = 0 /\ ExitEvent(t).action = "exited"
  <2> DEFINE e == ExitEvent(t)
  <2>2. e = [b EXCEPT !.action = "exited", !.outcome = 1]  BY <1>6
  <2> HIDE DEF e
  <2>3. /\ e \in EventRec /\ e.action = "exited" /\ e.actor = b.actor /\ e.child = b.child
        /\ e.process = b.process /\ e.child_process = b.child_process /\ e.hint = b.hint
    BY <1>5, <2>2 DEF EventRec
  <2>4. EventOK(e, now)  BY <1>1, <1>3, <1>5, <1>8, <2>3 DEF EventOK
  <2> QED  BY <1>5, <2>3, <2>4 DEF e
<1>12. ASSUME NEW c \in Names, c[1] # g, c[2] <= now
       PROVE  /\ StartEvent(t, c) \in EventRec /\ EventOK(StartEvent(t, c), now)
              /\ StartEvent(t, c).process = p /\ StartEvent(t, c).child = c[1]
              /\ StartEvent(t, c).child_process = c /\ StartEvent(t, c).action = "started"
  <2> DEFINE e == StartEvent(t, c)
             k == c[1]
  <2>2. k \in Pids  BY TaskFacts
  <2>3. e = [b EXCEPT !.action = "started", !.child = k, !.child_process = c]  BY <1>7
  <2> HIDE DEF e, k
  <2>4. /\ e \in EventRec /\ e.action = "started" /\ e.actor = b.actor /\ e.child = k
        /\ e.process = b.process /\ e.child_process = c /\ e.hint = b.hint
    BY <1>5, <2>2, <2>3 DEF EventRec
  <2>5. EventOK(e, now)  BY <1>1, <1>3, <1>5, <1>12, <2>4 DEF EventOK, k
  <2> QED  BY <1>5, <2>4, <2>5 DEF e, k
<1> QED  BY <1>5, <1>9, <1>10, <1>11, <1>12 DEF b, p, now, g

\* The ring after a step: as it was, or longer by the event.
LEMMA EmitRing ==
  ASSUME RingInv, clock \in Nat, clock' \in Nat, clock <= clock',
         NEW kind, NEW ev, NEW upset, Emit(kind, ev, upset), ev \in EventRec, EventOK(ev, clock')
  PROVE  RingInv'
<1>1. ring' = ring \/ ring' = Append(ring, ev)  BY DEF Emit
<1>2. \A e \in EventRec : EventOK(e, clock) => EventOK(e, clock')
  <2>1. \A e \in EventRec : e.process \in Names /\ e.child_process \in Names \cup {NoProcess}
    BY DEF EventRec
  <2>2. \A e \in EventRec : e.process[2] \in Nat /\ e.child_process[2] \in Nat
    BY <2>1, TaskFacts
  <2> QED  BY <2>2 DEF EventOK
<1>3. ring \in Seq(EventRec) /\ \A i \in DOMAIN ring : ring[i] \in EventRec /\ EventOK(ring[i], clock)
  BY DEF RingInv
<1>4. CASE ring' = ring  BY <1>2, <1>3, <1>4 DEF RingInv
<1>5. CASE ring' = Append(ring, ev)
  <2>1. /\ ring' \in Seq(EventRec) /\ DOMAIN ring' = DOMAIN ring \cup {Len(ring) + 1}
        /\ \A i \in DOMAIN ring : ring'[i] = ring[i]
        /\ ring'[Len(ring) + 1] = ev
    BY <1>3, <1>5
  <2> QED  BY <1>2, <1>3, <2>1 DEF RingInv
<1> QED  BY <1>1, <1>4, <1>5

\* Steps of tasks leave the registry and the attributions alone.
LEMMA BaseKept ==
  ASSUME BaseInv, UNCHANGED <<vars, attrib>>, clock <= clock', TaskInv', RingInv'
  PROVE  BaseInv'
<1>1. Inv'  BY DEF BaseInv, Inv, TypeOK, IndexExact, BoundedSize, vars
<1>2. AttribInv'
  <2>1. /\ processes_by_id' = processes_by_id /\ next_id' = next_id /\ attrib' = attrib
    BY DEF vars
  <2>2. clock \in Nat /\ clock' \in Nat  BY DEF BaseInv, TaskInv
  <2>3. ASSUME NEW a \in attrib
        PROVE  a \in Names \X (1 .. (next_id' - 1)) /\ a[1][2] <= clock'
    <3>1. a \in Names \X (1 .. (next_id - 1)) /\ a[1][2] <= clock
      BY DEF BaseInv, AttribInv
    <3>2. a[1] \in Names  BY <3>1
    <3>3. a[1][2] \in Nat  BY <3>2, TaskFacts
    <3> QED  BY <2>1, <2>2, <3>1, <3>3
  <2> QED  BY <2>1, <2>3 DEF BaseInv, AttribInv, DistinctTgids
<1> QED  BY <1>1, <1>2 DEF BaseInv

\* Task k is not born, does not end and does not change its process.
SameLife(k) ==
  /\ task'[k] # Free <=> task[k] # Free
  /\ task[k] # Free => /\ task'[k].tgid = task[k].tgid /\ task'[k].birth = task[k].birth
                       /\ task'[k].state = task[k].state

LEMMA CloneSet ==
  ASSUME NEW x \in TaskRec, NEW v \in Names \cup {NoProcess}, NEW y, y = [x EXCEPT !.clone = v]
  PROVE  /\ y \in TaskRec /\ y.clone = v
         /\ y.tgid = x.tgid /\ y.birth = x.birth /\ y.state = x.state
BY DEF TaskRec

\* TaskOK of a task whose process and whose clone are as they were.
LEMMA TaskOKKept ==
  ASSUME TaskInv, clock' \in Nat, clock <= clock', NEW k \in Pids, task[k] # Free,
         SameLife(k), SameLife(task[k].tgid), task'[k].clone \in {NoProcess, task[k].clone}
  PROVE  TaskOK(k)'
<1>1. task[k] \in TaskRec /\ TaskOK(k) /\ clock \in Nat  BY DEF TaskInv
<1>2. task[k].birth \in Nat /\ task[k].clone \in Names \cup {NoProcess}
  BY <1>1, TicksAssumption DEF TaskRec
<1>3. task[k].clone[2] \in Nat  BY <1>2, TaskFacts
<1> QED  BY <1>1, <1>2, <1>3 DEF TaskOK, SameLife

LEMMA NewTaskStep ==
  ASSUME TaskInv, NEW t \in Pids, NEW c \in Pids, NEW g, g = c \/ g = task[t].tgid,
         NEW probed \in BOOLEAN, NEW upset, NewTask(t, c, g, probed, upset)
  PROVE  /\ TaskInv' /\ task[t] # Free /\ c # t /\ c # task[t].tgid
         /\ <<c, clock'>> \in Names
         /\ \A k \in Pids \ {c} : SameLife(k)
         /\ task'[c].tgid = g /\ task'[c].birth = clock' /\ task'[c].state = "running"
         /\ task'[c].clone = NoProcess
         /\ task'[t].clone \in {NoProcess, <<c, clock'>>}
         /\ \A k \in Pids \ {c, t} : task'[k] = task[k]
<1> DEFINE now == clock'
           n == [tgid |-> g, birth |-> now, exe |-> task[t].exe,
                 state |-> "running", clone |-> NoProcess]
           v == IF probed THEN <<c, now>> ELSE NoProcess
<1>1. /\ Tick /\ task[t] # Free /\ task[t].state = "running" /\ task[c] = Free
      /\ task' = [task EXCEPT ![c] = n, ![t].clone = v]
  BY DEF NewTask, Ready, Alive
<1>2. /\ clock \in Nat \ {0} /\ now = clock + 1 /\ now \in 1 .. MaxClock
      /\ now \in Ticks /\ now \in Nat
  BY <1>1, TickFacts
<1>3. task[t] \in TaskRec /\ TaskOK(t) /\ task \in [Pids -> TaskRec \cup {Free}]
  BY <1>1 DEF TaskInv
<1>4. c # t /\ c # task[t].tgid /\ g \in Pids  BY <1>1, <1>3 DEF TaskOK, TaskRec
<1>5. <<c, now>> \in Names  BY <1>2 DEF Names
<1> HIDE DEF now
<1>6. v \in Names \cup {NoProcess} /\ v \in {NoProcess, <<c, now>>}  BY <1>5
<1> HIDE DEF v
<1>7. n \in TaskRec /\ n.clone = NoProcess /\ n.tgid = g /\ n.birth = now /\ n.state = "running"
  BY <1>2, <1>3, <1>4 DEF TaskRec
<1> HIDE DEF n
<1>8. /\ task'[c] = n /\ task'[t] = [task[t] EXCEPT !.clone = v]
      /\ \A k \in Pids \ {c, t} : task'[k] = task[k]
      /\ DOMAIN task' = Pids /\ task' = [k \in Pids |-> task'[k]]
  BY <1>1, <1>3, <1>4
<1> DEFINE y == task'[t]
<1>9. /\ y \in TaskRec /\ y.clone = v
      /\ y.tgid = task[t].tgid /\ y.birth = task[t].birth /\ y.state = task[t].state
  BY <1>3, <1>6, <1>8, CloneSet
<1>10. \A k \in Pids \ {c} : SameLife(k)  BY <1>1, <1>8, <1>9, TaskFacts DEF SameLife
<1>11. task' \in [Pids -> TaskRec \cup {Free}]
  <2>1. \A k \in Pids : task'[k] \in TaskRec \cup {Free}  BY <1>3, <1>7, <1>8, <1>9
  <2> QED  BY <1>8, <2>1
<1>12. ASSUME NEW k \in Pids, task'[k] # Free PROVE TaskOK(k)'
  <2>1. CASE k = c
    <3>1. n # Free  BY <1>7, TaskFacts
    <3>2. task'[g] # Free /\ task'[g].tgid = g
      <4>1. CASE g = c  BY <1>7, <1>8, <3>1, <4>1
      <4>2. CASE g # c
        <5>1. g = task[t].tgid /\ task[g] # Free /\ task[g].tgid = g  BY <1>3, <4>2 DEF TaskOK
        <5> QED  BY <1>4, <1>10, <4>2, <5>1 DEF SameLife
      <4> QED  BY <4>1, <4>2
    <3> QED  BY <1>2, <1>7, <1>8, <2>1, <3>2 DEF TaskOK, now
  <2>2. CASE k # c
    <3>1. SameLife(k) /\ task[k] # Free  BY <1>10, <2>2, <1>12 DEF SameLife
    <3>2. TaskOK(k) /\ task[k] \in TaskRec  BY <3>1 DEF TaskInv
    <3>3. task[k].tgid \in Pids \ {c}  BY <1>1, <3>2 DEF TaskOK, TaskRec
    <3>4. SameLife(task[k].tgid)  BY <1>10, <3>3
    <3>5. CASE k # t
      <4>1. task'[k].clone = task[k].clone  BY <1>8, <2>2, <3>5
      <4> QED  BY <1>2, <3>1, <3>4, <4>1, TaskOKKept DEF now
    <3>6. CASE k = t
      <4>1. /\ task'[k].tgid = task[k].tgid /\ task'[k].birth = task[k].birth
            /\ task'[k].state = task[k].state /\ task'[k].clone \in {NoProcess, <<c, now>>}
        BY <1>6, <1>9, <3>6
      <4>2. task'[task[k].tgid] # Free /\ task'[task[k].tgid].tgid = task[k].tgid
        BY <3>2, <3>4 DEF SameLife, TaskOK
      <4>3. task'[k].clone # NoProcess =>
              task'[k].clone[1] # task[k].tgid /\ task'[k].clone[2] <= now
        BY <1>2, <1>4, <3>6, <4>1
      <4>4. task[k].birth <= now
        <5>1. task[k].birth \in Nat /\ task[k].birth <= clock
          BY <3>2, TicksAssumption DEF TaskRec, TaskOK
        <5> QED  BY <1>2, <5>1
      <4> QED  BY <3>2, <4>1, <4>2, <4>3, <4>4 DEF TaskOK, now
    <3> QED  BY <3>5, <3>6
  <2> QED  BY <2>1, <2>2
<1>13. TaskInv'  BY <1>2, <1>11, <1>12 DEF TaskInv, now
<1> QED  BY <1>1, <1>4, <1>5, <1>6, <1>7, <1>8, <1>9, <1>10, <1>13 DEF now

\* A step of task t that neither starts nor ends a task.
LEMMA QuietStep ==
  ASSUME TaskInv, Tick, NEW t \in Pids, task[t] # Free, NEW y \in TaskRec,
         task' = [task EXCEPT ![t] = y],
         y.tgid = task[t].tgid, y.birth = task[t].birth, y.state = task[t].state,
         y.clone \in {NoProcess, task[t].clone}
  PROVE  /\ TaskInv' /\ \A k \in Pids : SameLife(k)
         /\ \A k \in Pids : task[k] # Free => task'[k].clone \in {NoProcess, task[k].clone}
<1>1. clock \in Nat /\ clock' \in 1 .. MaxClock /\ clock' \in Nat /\ clock <= clock'  BY TickFacts
<1>2. task \in [Pids -> TaskRec \cup {Free}]  BY DEF TaskInv
<1>3. task' \in [Pids -> TaskRec \cup {Free}] /\ task'[t] = y
  BY <1>2
<1>4. \A k \in Pids \ {t} : task'[k] = task[k]  BY <1>2
<1>5. \A k \in Pids : SameLife(k)  BY <1>3, <1>4, TaskFacts DEF SameLife
<1>6. ASSUME NEW k \in Pids, task[k] # Free PROVE task'[k].clone \in {NoProcess, task[k].clone}
  BY <1>3, <1>4
<1>7. ASSUME NEW k \in Pids, task'[k] # Free PROVE TaskOK(k)'
  <2>1. task[k] # Free /\ SameLife(k)  BY <1>5, <1>7 DEF SameLife
  <2>2. task[k].tgid \in Pids  BY <2>1, TaskTyped
  <2>3. SameLife(task[k].tgid)  BY <1>5, <2>2
  <2> QED  BY <1>1, <1>6, <2>1, <2>3, TaskOKKept
<1>8. TaskInv'  BY <1>1, <1>3, <1>7 DEF TaskInv
<1> QED  BY <1>5, <1>6, <1>8

LEMMA CloneReturnStep ==
  ASSUME TaskInv, NEW t \in Pids, CloneReturn(t)
  PROVE  /\ TaskInv' /\ \A k \in Pids : SameLife(k)
         /\ \A k \in Pids : task[k] # Free => task'[k].clone \in {NoProcess, task[k].clone}
         /\ task[t] # Free /\ task[t].clone \in Names
         /\ task[t].clone[1] # task[t].tgid /\ task[t].clone[2] <= clock'
<1> DEFINE y == [task[t] EXCEPT !.clone = NoProcess]
<1>1. Tick /\ task[t] # Free /\ task[t].clone # NoProcess /\ task' = [task EXCEPT ![t].clone = NoProcess]
  BY DEF CloneReturn, Alive
<1>2. task[t] \in TaskRec /\ TaskOK(t) /\ task \in [Pids -> TaskRec \cup {Free}]
  BY <1>1 DEF TaskInv
<1>3. task' = [task EXCEPT ![t] = y]  BY <1>1
<1>4. /\ y \in TaskRec /\ y.clone = NoProcess
      /\ y.tgid = task[t].tgid /\ y.birth = task[t].birth /\ y.state = task[t].state
  BY <1>2, CloneSet
<1> HIDE DEF y
<1>5. /\ TaskInv' /\ \A k \in Pids : SameLife(k)
      /\ \A k \in Pids : task[k] # Free => task'[k].clone \in {NoProcess, task[k].clone}
  BY <1>1, <1>3, <1>4, QuietStep
<1>6. task[t].clone \in Names  BY <1>1, <1>2 DEF TaskRec
<1>7. task[t].clone[1] # task[t].tgid /\ task[t].clone[2] <= clock'
  <2>1. task[t].clone[1] # task[t].tgid /\ task[t].clone[2] <= clock  BY <1>1, <1>2 DEF TaskOK
  <2>2. task[t].clone[2] \in Nat /\ clock \in Nat /\ clock' = clock + 1
    BY <1>1, <1>6, TaskFacts, TickFacts
  <2> QED  BY <2>1, <2>2
<1> QED  BY <1>1, <1>5, <1>6, <1>7

LEMMA ExecStep ==
  ASSUME TaskInv, NEW t \in Pids, NEW x \in Exes, Exec(t, x)
  PROVE  /\ TaskInv' /\ task[t] # Free /\ \A k \in Pids : SameLife(k)
         /\ \A k \in Pids : task[k] # Free => task'[k].clone \in {NoProcess, task[k].clone}
<1> DEFINE y == [task[t] EXCEPT !.exe = x]
<1>1. Tick /\ task[t] # Free /\ task' = [task EXCEPT ![t].exe = x]  BY DEF Exec, Ready, Alive
<1>2. task[t] \in TaskRec /\ task \in [Pids -> TaskRec \cup {Free}]  BY <1>1 DEF TaskInv
<1>3. task' = [task EXCEPT ![t] = y]  BY <1>1
<1>4. /\ y \in TaskRec /\ y.clone = task[t].clone
      /\ y.tgid = task[t].tgid /\ y.birth = task[t].birth /\ y.state = task[t].state
  BY <1>2 DEF TaskRec
<1> HIDE DEF y
<1> QED  BY <1>1, <1>3, <1>4, QuietStep

\* The end of task t: a leader is a zombie, another thread is gone.
LEMMA ExitStep ==
  ASSUME TaskInv, NEW t \in Pids, Exit(t)
  PROVE  /\ TaskInv' /\ task[t] # Free /\ task[t].state = "running"
         /\ \A k \in Pids \ {t} : task'[k] = task[k]
         /\ task'[t] # Free => /\ task'[t].state = "zombie" /\ task'[t].tgid = task[t].tgid
                               /\ task'[t].birth = task[t].birth /\ task'[t].clone = task[t].clone
<1> DEFINE z == [task[t] EXCEPT !.state = "zombie"]
<1>1. /\ Tick /\ task[t] # Free /\ task[t].state = "running"
      /\ task' = [task EXCEPT ![t] = IF @.tgid = t THEN [@ EXCEPT !.state = "zombie"] ELSE Free]
  BY DEF Exit, Ready, Alive
<1>2. task[t] \in TaskRec /\ task \in [Pids -> TaskRec \cup {Free}]  BY <1>1 DEF TaskInv
<1>3. /\ z \in TaskRec /\ z.state = "zombie" /\ z.tgid = task[t].tgid
      /\ z.birth = task[t].birth /\ z.clone = task[t].clone
  BY <1>2 DEF TaskRec
<1>4. /\ task'[t] = IF task[t].tgid = t THEN z ELSE Free
      /\ \A k \in Pids \ {t} : task'[k] = task[k]
      /\ task' = [k \in Pids |-> task'[k]]
  BY <1>1, <1>2
<1> HIDE DEF z
<1>5. clock \in Nat /\ clock' \in 1 .. MaxClock /\ clock' \in Nat /\ clock <= clock'
  BY <1>1, TickFacts
<1>6. task' \in [Pids -> TaskRec \cup {Free}]
  <2>1. \A k \in Pids : task'[k] \in TaskRec \cup {Free}  BY <1>2, <1>3, <1>4
  <2> QED  BY <1>4, <2>1
<1>7. ASSUME NEW k \in Pids, task'[k] # Free PROVE TaskOK(k)'
  <2>1. /\ task[k] # Free /\ task'[k].tgid = task[k].tgid /\ task'[k].birth = task[k].birth
        /\ task'[k].clone = task[k].clone
        /\ task'[k].state = "zombie" => task[k].state = "zombie" \/ k = t
    BY <1>1, <1>3, <1>4, <1>7
  <2>2. TaskOK(k) /\ task[k] \in TaskRec /\ task[k].tgid \in Pids  BY <2>1 DEF TaskInv, TaskRec
  <2>3. task'[task[k].tgid] # Free /\ task'[task[k].tgid].tgid = task[k].tgid
    <3>1. CASE task[k].tgid # t  BY <1>4, <2>2, <3>1 DEF TaskOK
    <3>2. CASE task[k].tgid = t
      <4>1. task[t].tgid = t  BY <2>2, <3>2 DEF TaskOK
      <4> QED  BY <1>3, <1>4, <3>2, <4>1, TaskFacts
    <3> QED  BY <3>1, <3>2
  <2>4. task'[k].state = "zombie" => task[k].tgid = k
    <3>1. task'[t] # Free => task[t].tgid = t  BY <1>4
    <3> QED  BY <1>7, <2>1, <2>2, <3>1 DEF TaskOK
  <2>5. task[k].birth \in Nat /\ task[k].clone[2] \in Nat
    <3>1. task[k].birth \in Nat /\ task[k].clone \in Names \cup {NoProcess}
      BY <2>2, TicksAssumption DEF TaskRec
    <3> QED  BY <3>1, TaskFacts
  <2> QED  BY <1>5, <2>1, <2>2, <2>3, <2>4, <2>5 DEF TaskOK
<1>8. TaskInv'  BY <1>5, <1>6, <1>7 DEF TaskInv
<1> QED  BY <1>1, <1>3, <1>4, <1>8

LEMMA ReapStep ==
  ASSUME TaskInv, NEW t \in Pids, Reap(t)
  PROVE  /\ TaskInv' /\ task[t] # Free /\ task[t].state = "zombie" /\ task'[t] = Free
         /\ \A k \in Pids \ {t} : task'[k] = task[k]
<1>1. /\ task[t] # Free /\ task[t].state = "zombie" /\ Threads(t) = {}
      /\ task' = [task EXCEPT ![t] = Free] /\ clock' = clock
  BY DEF Reap
<1>2. task[t] \in TaskRec /\ task \in [Pids -> TaskRec \cup {Free}]  BY <1>1 DEF TaskInv
<1>3. /\ task'[t] = Free /\ \A k \in Pids \ {t} : task'[k] = task[k]
      /\ task' \in [Pids -> TaskRec \cup {Free}]
  BY <1>1, <1>2
<1>4. ASSUME NEW k \in Pids, task'[k] # Free PROVE TaskOK(k)'
  <2>1. k # t /\ task'[k] = task[k]  BY <1>3, <1>4
  <2>2. TaskOK(k) /\ task[k] \in TaskRec  BY <1>4, <2>1 DEF TaskInv
  <2>3. task[k].tgid \in Pids /\ task[k].state \in {"running", "zombie"}  BY <2>2 DEF TaskRec
  <2>4. task[k].tgid # t
    <3>1. CASE task[k].state = "zombie"  BY <2>1, <2>2, <3>1 DEF TaskOK
    <3>2. CASE task[k].state = "running"
      <4>1. Alive(k)  BY <1>4, <2>1, <3>2 DEF Alive
      <4> QED  BY <1>1, <4>1 DEF Threads
    <3> QED  BY <2>3, <3>1, <3>2
  <2>5. task'[task[k].tgid] = task[task[k].tgid]  BY <1>3, <2>3, <2>4
  <2> QED  BY <1>1, <2>1, <2>2, <2>5 DEF TaskOK
<1>5. TaskInv'  BY <1>1, <1>3, <1>4 DEF TaskInv
<1> QED  BY <1>1, <1>3, <1>5

-----------------------------------------------------------------------------
(* BaseInv, for user space.                                                *)

ProcAll == [k \in Pids |-> ProcNow(k)]

\* What user space reports of an event.
Reported(ev) ==
  {<<ev.process, refs'.subject>>} \cup
  (IF ev.child = 0 \/ tgid_index'[ev.child] = 0 THEN {}
   ELSE {<<ev.child_process, tgid_index'[ev.child]>>})

LEMMA ProcTyped ==
  ASSUME TaskInv, NEW k \in Pids
  PROVE  ProcAll[k] = ProcNow(k) /\ ProcAll[k] \in Snapshot
<1>1. CASE task[k] = Free  BY <1>1 DEF ProcAll, ProcNow, Snapshot
<1>2. CASE task[k] # Free
  <2>1. task[k] \in TaskRec  BY <1>2 DEF TaskInv
  <2>2. task[k].birth \in Ticks /\ task[k].exe \in Exes  BY <2>1 DEF TaskRec
  <2> QED  BY <1>2, <2>2 DEF ProcAll, ProcNow, Snapshot
<1> QED  BY <1>1, <1>2

\* The event at the head of the ring.
LEMMA HeadFacts ==
  ASSUME BaseInv, Consume, NEW ev, ev = Head(ring)
  PROVE  /\ ring # <<>> /\ ev = ring[1] /\ ev \in EventRec /\ EventOK(ev, clock)
         /\ ev.process \in Names /\ ev.process[1] \in Pids /\ ev.process[1] = Key(ev.actor)
         /\ ev.child \in Pids \cup {0}
         /\ ev.child # 0 => /\ ev.child_process \in Names /\ ev.child_process[1] = ev.child
                            /\ ev.child # ev.process[1] /\ ev.action = "started"
         /\ Admissible(ev, ProcAll)
         /\ Ingest(ev, ProcAll)
         /\ attrib' = attrib \cup Reported(ev)
         /\ ring' = Tail(ring) /\ clock' = clock /\ task' = task /\ lineage' = lineage
         /\ upsets' = upsets
<1>1. ring \in Seq(EventRec) /\ ring # <<>> /\ RingInv /\ TaskInv  BY DEF BaseInv, RingInv, Consume
<1>2. ev = ring[1] /\ 1 \in DOMAIN ring  BY <1>1
<1>3. ev \in EventRec /\ EventOK(ev, clock)  BY <1>1, <1>2 DEF RingInv
<1>4. /\ ev.actor \in [pid : Pids, tgid : Pids] /\ ev.ts \in Times /\ ev.child \in Pids \cup {0}
      /\ ev.outcome \in {0, 1} /\ ev.hint \in Exes \cup {NoExe}
      /\ ev.process \in Names /\ ev.child_process \in Names \cup {NoProcess}
  BY <1>3 DEF EventRec
<1>5. ev.actor.tgid \in Pids /\ ev.actor.tgid # 0 /\ ev.actor \in Actor
  BY <1>4, TaskFacts DEF Actor
<1>6. Key(ev.actor) = ev.actor.tgid  BY <1>5 DEF Key
<1>7. ev.process[1] = Key(ev.actor)  BY <1>3, <1>6 DEF EventOK
<1>8. ev.child # 0 => /\ ev.child_process \in Names /\ ev.child_process[1] = ev.child
                      /\ ev.child # ev.process[1] /\ ev.action = "started"
  BY <1>3, <1>4, <1>6, <1>7, TaskFacts DEF EventOK
<1>9. \A k \in {Key(ev.actor), ev.child} : k # 0 => ProcAll[k] \in Snapshot
  BY <1>1, <1>4, <1>5, <1>6, ProcTyped
<1>10. Admissible(ev, ProcAll)
  BY <1>3, <1>4, <1>5, <1>7, <1>8, <1>9 DEF Admissible, EventOK
<1>11. /\ Ingest(ev, ProcAll) /\ attrib' = attrib \cup Reported(ev)
       /\ ring' = Tail(ring) /\ clock' = clock /\ task' = task /\ lineage' = lineage
       /\ upsets' = upsets
  BY DEF Consume, ProcAll, Reported
<1> QED  BY <1>1, <1>2, <1>3, <1>4, <1>5, <1>6, <1>7, <1>8, <1>10, <1>11

LEMMA ReportedFacts ==
  ASSUME BaseInv, Consume, NEW ev, ev = Head(ring)
  PROVE  /\ \A a \in Reported(ev) :
              /\ a \in Names \X (1 .. (next_id' - 1)) /\ a[1][2] <= clock
              /\ a[1] \in Mentioned(ev)
              /\ a[2] = tgid_index[a[1][1]] \/ a[2] >= next_id
              /\ a[2] \in DOMAIN processes_by_id' => Key(processes_by_id'[a[2]]) = a[1][1]
              /\ tgid_index'[a[1][1]] \in {0, a[2]}
         /\ \A a, b \in Reported(ev) : a[2] = b[2] => a = b
         /\ Inv' /\ Evolves(Registry, After) /\ Effect(ev, ProcAll, refs'.subject, After)
         /\ next_id \in Nat \ {0} /\ next_id' \in Nat \ {0} /\ next_id <= next_id'
         /\ \A j \in Pids : tgid_index'[j] \in {0, tgid_index[j]} \cup next_id .. (next_id' - 1)
         /\ refs'.subject \in ({tgid_index[ev.process[1]]} \cup next_id .. (next_id' - 1)) \ {0}
<1> DEFINE s == refs'.subject
           k == ev.process[1]
           c == ev.child
           d == tgid_index'[c]
<1>1. /\ ev \in EventRec /\ EventOK(ev, clock)
      /\ ev.process \in Names /\ k \in Pids /\ k = Key(ev.actor) /\ c \in Pids \cup {0}
      /\ c # 0 => /\ ev.child_process \in Names /\ ev.child_process[1] = c /\ c # k
      /\ Admissible(ev, ProcAll) /\ Ingest(ev, ProcAll)
  BY HeadFacts
<1>2. Inv  BY DEF BaseInv
<1>3. /\ Inv' /\ Evolves(Registry, After)
      /\ next_id \in Nat \ {0} /\ next_id' \in Nat \ {0} /\ next_id <= next_id'
      /\ \A j \in Pids : tgid_index'[j] \in {0, tgid_index[j]} \cup next_id .. (next_id' - 1)
      /\ s \in ({tgid_index[k]} \cup next_id .. (next_id' - 1)) \ {0}
      /\ tgid_index'[k] \in {0, s}
      /\ s \in DOMAIN processes_by_id' => Key(processes_by_id'[s]) = k
      /\ Effect(ev, ProcAll, s, After)
  BY <1>1, <1>2, IngestEffect
<1>4. \A j \in Pids : tgid_index[j] \in 0 .. (next_id - 1)  BY <1>2 DEF Inv, TypeOK
<1>5. \A j \in Pids : tgid_index'[j] # 0 =>
        /\ tgid_index'[j] \in DOMAIN processes_by_id'
        /\ Key(processes_by_id'[tgid_index'[j]]) = j
        /\ tgid_index'[j] \in 1 .. (next_id' - 1)
        /\ tgid_index'[j] = tgid_index[j] \/ tgid_index'[j] >= next_id
  <2>1. \A j \in Pids : tgid_index'[j] # 0 =>
          /\ tgid_index'[j] \in DOMAIN processes_by_id'
          /\ Key(processes_by_id'[tgid_index'[j]]) = j
    BY <1>3 DEF Inv, IndexExact
  <2>2. \A j \in Pids : tgid_index'[j] \in 0 .. (next_id' - 1)  BY <1>3 DEF Inv, TypeOK
  <2>3. \A j \in Pids : tgid_index'[j] # 0 =>
          tgid_index'[j] = tgid_index[j] \/ tgid_index'[j] >= next_id
    BY <1>3
  <2> QED  BY <1>3, <2>1, <2>2, <2>3
<1>6. s \in 1 .. (next_id' - 1) /\ (s = tgid_index[k] \/ s >= next_id)
  BY <1>1, <1>3, <1>4
<1>7. ev.process[2] <= clock /\ ev.child_process[2] <= clock  BY <1>1 DEF EventOK
<1>8. ev.process \in Mentioned(ev) /\ (c # 0 => ev.child_process \in Mentioned(ev))
  BY DEF Mentioned
<1>9. \A a \in Reported(ev) : \/ a = <<ev.process, s>>
                              \/ c # 0 /\ d # 0 /\ a = <<ev.child_process, d>>
  BY DEF Reported
<1> HIDE DEF s, k, c, d
<1>10. ASSUME NEW a \in Reported(ev)
       PROVE  /\ a \in Names \X (1 .. (next_id' - 1)) /\ a[1][2] <= clock
              /\ a[1] \in Mentioned(ev)
              /\ a[2] = tgid_index[a[1][1]] \/ a[2] >= next_id
              /\ a[2] \in DOMAIN processes_by_id' => Key(processes_by_id'[a[2]]) = a[1][1]
              /\ tgid_index'[a[1][1]] \in {0, a[2]}
  <2>1. CASE a = <<ev.process, s>>
    <3>1. a[1] = ev.process /\ a[2] = s /\ a[1][1] = k  BY <2>1 DEF k
    <3> QED  BY <1>1, <1>3, <1>6, <1>7, <1>8, <2>1, <3>1
  <2>2. CASE c # 0 /\ d # 0 /\ a = <<ev.child_process, d>>
    <3>1. a[1] = ev.child_process /\ a[2] = d /\ a[1][1] = c /\ c \in Pids  BY <1>1, <2>2
    <3>2. d \in 1 .. (next_id' - 1) /\ d \in DOMAIN processes_by_id' /\ Key(processes_by_id'[d]) = c
      BY <1>5, <2>2, <3>1 DEF d
    <3>3. d = tgid_index[c] \/ d >= next_id  BY <1>5, <2>2, <3>1 DEF d
    <3>4. tgid_index'[c] = d  BY DEF d
    <3> QED  BY <1>1, <1>7, <1>8, <2>2, <3>1, <3>2, <3>3, <3>4
  <2> QED  BY <1>9, <2>1, <2>2
<1>11. ASSUME NEW a \in Reported(ev), NEW b \in Reported(ev), a[2] = b[2] PROVE a = b
  <2>1. ~(c # 0 /\ d # 0 /\ s = d)
    <3>1. c # 0 /\ d # 0 => c \in Pids /\ d \in DOMAIN processes_by_id' /\ Key(processes_by_id'[d]) = c
      BY <1>1, <1>5 DEF d
    <3> QED  BY <1>1, <1>3, <3>1
  <2> QED  BY <1>9, <1>11, <2>1
<1> QED  BY <1>3, <1>10, <1>11 DEF s, k

LEMMA ConsumeBase ==
  ASSUME BaseInv, Consume
  PROVE  BaseInv'
<1> DEFINE ev == Head(ring)
<1>1. /\ ring # <<>> /\ attrib' = attrib \cup Reported(ev) /\ ring' = Tail(ring)
      /\ clock' = clock /\ task' = task
      /\ ev.process \in Names /\ ev.process[1] \in Pids /\ ev.child \in Pids \cup {0}
  BY HeadFacts
<1>2. /\ \A a \in Reported(ev) :
           /\ a \in Names \X (1 .. (next_id' - 1)) /\ a[1][2] <= clock
           /\ a[2] = tgid_index[a[1][1]] \/ a[2] >= next_id
           /\ a[2] \in DOMAIN processes_by_id' => Key(processes_by_id'[a[2]]) = a[1][1]
      /\ \A a, b \in Reported(ev) : a[2] = b[2] => a = b
      /\ Inv' /\ Evolves(Registry, After) /\ Effect(ev, ProcAll, refs'.subject, After)
      /\ next_id \in Nat \ {0} /\ next_id' \in Nat \ {0} /\ next_id <= next_id'
  BY ReportedFacts
<1>3. TaskInv'  BY <1>1 DEF BaseInv, TaskInv, TaskOK
<1>4. RingInv'
  <2>1. ring \in Seq(EventRec) /\ \A i \in DOMAIN ring : EventOK(ring[i], clock)
    BY DEF BaseInv, RingInv
  <2>2. /\ ring' \in Seq(EventRec)
        /\ \A i \in DOMAIN ring' : i + 1 \in DOMAIN ring /\ ring'[i] = ring[i + 1]
    BY <1>1, <2>1
  <2> QED  BY <1>1, <2>1, <2>2 DEF RingInv
<1>5. /\ \A a \in attrib : a \in Names \X (1 .. (next_id - 1)) /\ a[1][2] <= clock
      /\ \A a \in attrib : a[2] \in DOMAIN processes_by_id => Key(processes_by_id[a[2]]) = a[1][1]
      /\ \A i \in DOMAIN processes_by_id : \E a \in attrib : a[2] = i
      /\ \A a, b \in attrib : a[2] = b[2] => a[1][1] = b[1][1]
  BY DEF BaseInv, AttribInv, DistinctTgids
<1>6. /\ \A i \in DOMAIN processes_by_id' : i \in DOMAIN processes_by_id \/ i >= next_id
      /\ \A i \in DOMAIN processes_by_id \cap DOMAIN processes_by_id' :
           Key(processes_by_id'[i]) = Key(processes_by_id[i])
  BY <1>2 DEF Evolves, EntityEvolves, After, Registry
<1>7. \A k \in Pids : tgid_index[k] # 0 =>
        /\ tgid_index[k] \in DOMAIN processes_by_id
        /\ Key(processes_by_id[tgid_index[k]]) = k
  BY DEF BaseInv, Inv, IndexExact
<1>8. \A i \in DOMAIN processes_by_id' : \E a \in attrib' : a[2] = i
  <2> SUFFICES ASSUME NEW i \in DOMAIN processes_by_id' PROVE \E a \in attrib' : a[2] = i
    OBVIOUS
  <2>1. CASE i \in DOMAIN processes_by_id  BY <1>1, <1>5, <2>1
  <2>2. CASE i \notin DOMAIN processes_by_id
    <3>1. i = refs'.subject \/ (ev.child # 0 /\ tgid_index'[ev.child] = i)
      BY <1>2, <2>2 DEF Effect, After
    <3>2. CASE i = refs'.subject
      <4>1. <<ev.process, i>> \in Reported(ev)  BY <3>2 DEF Reported
      <4>2. <<ev.process, i>>[2] = i  OBVIOUS
      <4> QED  BY <1>1, <4>1, <4>2
    <3>3. CASE ev.child # 0 /\ tgid_index'[ev.child] = i
      <4>1. i \in 1 .. (next_id' - 1)  BY <1>2 DEF Inv, TypeOK
      <4>2. i # 0  BY <1>2, <4>1
      <4>3. Reported(ev) = {<<ev.process, refs'.subject>>, <<ev.child_process, i>>}
        BY <3>3, <4>2 DEF Reported
      <4>4. <<ev.child_process, i>>[2] = i  OBVIOUS
      <4> QED  BY <1>1, <4>3, <4>4
    <3> QED  BY <3>1, <3>2, <3>3
  <2> QED  BY <2>1, <2>2
<1> HIDE DEF ev
<1>9. \A a \in attrib : a[1] \in Names /\ a[2] \in 1 .. (next_id - 1) /\ a[1][1] \in Pids
  <2>1. \A a \in attrib : a[1] \in Names /\ a[2] \in 1 .. (next_id - 1)  BY <1>5
  <2> QED  BY <2>1, TaskFacts
<1>10. \A a \in Reported(ev) : a[1] \in Names /\ a[2] \in 1 .. (next_id' - 1) /\ a[1][1] \in Pids
  <2>1. \A a \in Reported(ev) : a[1] \in Names /\ a[2] \in 1 .. (next_id' - 1)  BY <1>2
  <2> QED  BY <2>1, TaskFacts
<1>11. \A a \in attrib' : a \in Names \X (1 .. (next_id' - 1)) /\ a[1][2] <= clock'
  <2>0. \A x, y \in Nat : x <= y => \A n \in 1 .. (x - 1) : n \in 1 .. (y - 1)  OBVIOUS
  <2>1. \A n \in 1 .. (next_id - 1) : n \in 1 .. (next_id' - 1)
    <3>1. next_id \in Nat /\ next_id' \in Nat /\ next_id <= next_id'  BY <1>2
    <3> QED  BY ONLY <2>0, <3>1, Zenon
  <2>2. \A a \in attrib : a \in Names \X (1 .. (next_id' - 1))  BY <1>5, <2>1
  <2> QED  BY <1>1, <1>2, <1>5, <2>2
<1>12. \A a \in attrib' : a[2] \in DOMAIN processes_by_id' => Key(processes_by_id'[a[2]]) = a[1][1]
  <2>1. \A a \in attrib : ~(a[2] >= next_id)  BY <1>2, <1>9
  <2> QED  BY <1>1, <1>2, <1>5, <1>6, <2>1
<1>13. \A a \in attrib : \A b \in Reported(ev) : a[2] = b[2] => a[1][1] = b[1][1]
  <2> SUFFICES ASSUME NEW a \in attrib, NEW b \in Reported(ev), a[2] = b[2]
               PROVE  a[1][1] = b[1][1]
    OBVIOUS
  <2>1. b[2] # 0 /\ ~(b[2] >= next_id)  BY <1>2, <1>9
  <2>2. b[2] = tgid_index[b[1][1]] /\ b[1][1] \in Pids  BY <1>2, <1>10, <2>1
  <2>3. b[2] \in DOMAIN processes_by_id /\ Key(processes_by_id[b[2]]) = b[1][1]
    BY <1>7, <2>1, <2>2
  <2> QED  BY <1>5, <2>3
<1>14. DistinctTgids'  BY <1>1, <1>2, <1>5, <1>13 DEF DistinctTgids
<1> QED  BY <1>2, <1>3, <1>4, <1>8, <1>11, <1>12, <1>14 DEF BaseInv, AttribInv

-----------------------------------------------------------------------------
(* BaseInv is inductive.                                                   *)

TaskNext ==
  \E t \in Pids : \/ \E c \in Pids : Fork(t, c) \/ NewThread(t, c)
                  \/ \E x \in Exes : Exec(t, x)
                  \/ CloneReturn(t) \/ Exit(t) \/ Reap(t) \/ Activity(t)

LEMMA NextCases == TelemetryNext <=> TaskNext \/ Consume
BY DEF TelemetryNext, TaskNext

LEMMA NewTaskBase ==
  ASSUME BaseInv, NEW t \in Pids, NEW c \in Pids, NEW g, g = c \/ g = task[t].tgid,
         NEW probed \in BOOLEAN, NEW upset, NewTask(t, c, g, probed, upset)
  PROVE  BaseInv'
<1> DEFINE ev == StartEvent(t, <<c, clock'>>)
<1>1. TaskInv /\ RingInv  BY DEF BaseInv
<1>2. /\ TaskInv' /\ task[t] # Free /\ c # task[t].tgid /\ <<c, clock'>> \in Names
  BY <1>1, NewTaskStep
<1>3. Tick /\ Emit("fork", ev, upset) /\ UNCHANGED <<vars, attrib>>  BY DEF NewTask
<1>4. clock \in Nat /\ clock' \in Nat /\ clock <= clock'  BY <1>1, <1>3, TickFacts
<1>5. ev \in EventRec /\ EventOK(ev, clock')
  <2>1. PICK q \in Names : q = <<c, clock'>>  BY <1>2
  <2>2. q[1] = c /\ q[2] = clock' /\ q[2] <= clock'  BY <1>4, <2>1
  <2> QED  BY <1>1, <1>2, <1>3, <2>1, <2>2, EventsMade
<1> HIDE DEF ev
<1>6. RingInv'  BY <1>1, <1>3, <1>4, <1>5, EmitRing
<1> QED  BY <1>2, <1>3, <1>4, <1>6, BaseKept

LEMMA TaskBase ==
  ASSUME BaseInv, TaskNext
  PROVE  BaseInv'
<1>1. TaskInv /\ RingInv /\ clock \in Nat  BY DEF BaseInv, TaskInv
<1>2. PICK t \in Pids : \/ \E c \in Pids : Fork(t, c) \/ NewThread(t, c)
                        \/ \E x \in Exes : Exec(t, x)
                        \/ CloneReturn(t) \/ Exit(t) \/ Reap(t) \/ Activity(t)
  BY DEF TaskNext
<1>3. ASSUME NEW c \in Pids, Fork(t, c) PROVE BaseInv'
  <2>1. PICK probed \in BOOLEAN : NewTask(t, c, c, probed, {})  BY <1>3 DEF Fork
  <2> QED  BY <2>1, NewTaskBase
<1>4. ASSUME NEW c \in Pids, NewThread(t, c) PROVE BaseInv'
  <2>1. PICK probed \in BOOLEAN : NewTask(t, c, task[t].tgid, probed, {"thread"})
    BY <1>4 DEF NewThread
  <2> QED  BY <2>1, NewTaskBase
<1>5. ASSUME NEW x \in Exes, Exec(t, x) PROVE BaseInv'
  <2> DEFINE ev == ExecEvent(t, x)
  <2>1. TaskInv' /\ task[t] # Free  BY <1>1, <1>5, ExecStep
  <2>2. Tick /\ Emit("exec", ev, {}) /\ UNCHANGED <<vars, attrib>>  BY <1>5 DEF Exec
  <2>3. ev \in EventRec /\ EventOK(ev, clock')  BY <1>1, <2>1, <2>2, EventsMade
  <2>4. clock' \in Nat /\ clock <= clock'  BY <1>1, <2>2, TickFacts
  <2> HIDE DEF ev
  <2>5. RingInv'  BY <1>1, <2>2, <2>3, <2>4, EmitRing
  <2> QED  BY <2>1, <2>2, <2>4, <2>5, BaseKept
<1>6. CASE CloneReturn(t)
  <2> DEFINE u == IF Alive(task[t].clone[1]) /\ task[task[t].clone[1]].birth = task[t].clone[2]
                  THEN {} ELSE {"late"}
             ev == StartEvent(t, task[t].clone)
  <2>1. /\ TaskInv' /\ task[t] # Free /\ task[t].clone \in Names
        /\ task[t].clone[1] # task[t].tgid /\ task[t].clone[2] <= clock'
    BY <1>1, <1>6, CloneReturnStep
  <2>2. Tick /\ Emit("clone", ev, u) /\ UNCHANGED <<vars, attrib>>  BY <1>6 DEF CloneReturn
  <2>3. ev \in EventRec /\ EventOK(ev, clock')  BY <1>1, <2>1, <2>2, EventsMade
  <2>4. clock' \in Nat /\ clock <= clock'  BY <1>1, <2>2, TickFacts
  <2> HIDE DEF ev, u
  <2>5. RingInv'  BY <1>1, <2>2, <2>3, <2>4, EmitRing
  <2> QED  BY <2>1, <2>2, <2>4, <2>5, BaseKept
<1>7. CASE Exit(t)
  <2> DEFINE ev == ExitEvent(t)
  <2>1. TaskInv' /\ task[t] # Free  BY <1>1, <1>7, ExitStep
  <2>2. Tick /\ Emit("exit", ev, {}) /\ UNCHANGED <<vars, attrib>>  BY <1>7 DEF Exit
  <2>3. ev \in EventRec /\ EventOK(ev, clock')  BY <1>1, <2>1, <2>2, EventsMade
  <2>4. clock' \in Nat /\ clock <= clock'  BY <1>1, <2>2, TickFacts
  <2> HIDE DEF ev
  <2>5. RingInv'  BY <1>1, <2>2, <2>3, <2>4, EmitRing
  <2> QED  BY <2>1, <2>2, <2>4, <2>5, BaseKept
<1>8. CASE Reap(t)
  <2>1. TaskInv'  BY <1>1, <1>8, ReapStep
  <2>2. UNCHANGED <<vars, attrib>> /\ clock' = clock /\ ring' = ring  BY <1>8 DEF Reap
  <2>3. RingInv' /\ clock <= clock'  BY <1>1, <2>2 DEF RingInv
  <2> QED  BY <2>1, <2>2, <2>3, BaseKept
<1>9. CASE Activity(t)
  <2> DEFINE ev == Blank(t)
  <2>1. /\ Tick /\ Emit("activity", ev, {}) /\ UNCHANGED <<vars, attrib>> /\ task' = task
        /\ task[t] # Free
    BY <1>9 DEF Activity, Ready, Alive
  <2>2. ev \in EventRec /\ EventOK(ev, clock')  BY <1>1, <2>1, EventsMade
  <2>3. clock' \in Nat /\ clock <= clock' /\ clock' \in 1 .. MaxClock  BY <1>1, <2>1, TickFacts
  <2> HIDE DEF ev
  <2>4. RingInv'  BY <1>1, <2>1, <2>2, <2>3, EmitRing
  <2>5. TaskInv'
    <3>1. \A k \in Pids : SameLife(k) /\ task'[k].clone = task[k].clone  BY <2>1 DEF SameLife
    <3>2. ASSUME NEW k \in Pids, task'[k] # Free PROVE TaskOK(k)'
      <4>1. task[k] # Free  BY <2>1, <3>2
      <4>2. task[k].tgid \in Pids  BY <1>1, <4>1, TaskTyped
      <4>3. SameLife(k) /\ SameLife(task[k].tgid)  BY <3>1, <4>2
      <4>4. task'[k].clone \in {NoProcess, task[k].clone}  BY <3>1
      <4> QED  BY <1>1, <2>3, <4>1, <4>3, <4>4, TaskOKKept
    <3> QED  BY <1>1, <2>1, <2>3, <3>2 DEF TaskInv
  <2> QED  BY <2>1, <2>3, <2>4, <2>5, BaseKept
<1> QED  BY <1>2, <1>3, <1>4, <1>5, <1>6, <1>7, <1>8, <1>9

LEMMA BaseInit == TelemetryInit => BaseInv
<1> SUFFICES ASSUME TelemetryInit PROVE BaseInv  OBVIOUS
<1>1. Inv  BY InitInv DEF TelemetryInit
<1>2. /\ clock = 1 /\ ring = <<>> /\ attrib = {}
      /\ task = [t \in Pids |-> IF t = 1 THEN [tgid |-> 1, birth |-> 1, exe |-> "sh",
                                               state |-> "running", clone |-> NoProcess]
                                ELSE Free]
  BY DEF TelemetryInit
<1>3. clock \in 1 .. MaxClock /\ 1 \in Ticks  BY <1>2, TelemetryAssumption
<1>4. \A t \in Pids : task[t] # Free => t = 1 /\ task[t] \in TaskRec /\ TaskOK(t)
  <2> SUFFICES ASSUME NEW t \in Pids, task[t] # Free
               PROVE  t = 1 /\ task[t] \in TaskRec /\ TaskOK(t)
    OBVIOUS
  <2>1. t = 1  BY <1>2
  <2> DEFINE n == [tgid |-> 1, birth |-> 1, exe |-> "sh", state |-> "running", clone |-> NoProcess]
  <2>2. task[1] = n /\ 1 \in Pids  BY <1>2, <2>1
  <2>3. n \in TaskRec /\ n.tgid = 1 /\ n.birth = 1 /\ n.state = "running" /\ n.clone = NoProcess
    BY <1>3, <2>2, TelemetryAssumption DEF TaskRec
  <2>4. task[1] # Free  BY <2>1
  <2> HIDE DEF n
  <2> QED  BY <1>2, <2>1, <2>2, <2>3, <2>4 DEF TaskOK
<1>5. TaskInv
  <2>1. task \in [Pids -> TaskRec \cup {Free}]
    <3>1. task = [t \in Pids |-> task[t]]  BY <1>2
    <3>2. \A t \in Pids : task[t] \in TaskRec \cup {Free}  BY <1>4
    <3> QED  BY ONLY <3>1, <3>2
  <2> QED  BY <1>3, <1>4, <2>1 DEF TaskInv
<1>6. RingInv  BY <1>2 DEF RingInv
<1>7. processes_by_id = [i \in {} |-> {}]  BY DEF TelemetryInit, Init
<1>8. AttribInv  BY <1>2, <1>7 DEF AttribInv, DistinctTgids
<1> QED  BY <1>1, <1>5, <1>6, <1>8 DEF BaseInv

LEMMA BaseStep ==
  ASSUME BaseInv, [TelemetryNext]_allVars
  PROVE  BaseInv'
<1>1. CASE TelemetryNext  BY <1>1, NextCases, TaskBase, ConsumeBase
<1>2. CASE UNCHANGED allVars
  <2>1. UNCHANGED <<vars, attrib>> /\ clock' = clock /\ task' = task /\ ring' = ring
    BY <1>2 DEF allVars, osVars
  <2>2. TaskInv' /\ RingInv'  BY <2>1 DEF BaseInv, TaskInv, RingInv, TaskOK
  <2>3. clock <= clock'  BY <2>1 DEF BaseInv, TaskInv
  <2> QED  BY <2>1, <2>2, <2>3, BaseKept
<1> QED  BY <1>1, <1>2

\* However threads, losses and late clone returns confuse it, the registry never
\* reports two tgids under one id.
THEOREM TelemetryDistinctTgids == TelemetrySpec => []DistinctTgids
<1>1. BaseInv /\ [TelemetryNext]_allVars => BaseInv'  BY BaseStep
<1>2. BaseInv => DistinctTgids  BY DEF BaseInv, AttribInv
<1> QED  BY <1>1, <1>2, BaseInit, PTL DEF TelemetrySpec

-----------------------------------------------------------------------------
(* CalmInv, for the steps of tasks.                                        *)

\* A process stays tracked while the ring grows by an event ev (or by none): it
\* lives on unless ev is its exit, and another process with its tgid can have an
\* event only when it no longer lives.
LEMMA TrackedKept ==
  ASSUME ring \in Seq(EventRec), NEW ev, ring' = ring \/ ring' = Append(ring, ev),
         NEW i \in Nat, i <= Len(ring) + 1, NEW p, Tracked(i, p),
         Living(p) => Living(p)' \/ (ring' = Append(ring, ev) /\ ExitOf(ev, p)),
         ring' = Append(ring, ev) => \A q \in Mentioned(ev) : q[1] = p[1] /\ q # p => ~Living(p)
  PROVE  Tracked(i, p)'
<1>1. CASE ring' = ring
  <2>1. \A x \in Nat : x # x + 1  OBVIOUS
  <2>2. Len(ring) \in Nat /\ Len(Append(ring, ev)) = Len(ring) + 1  OBVIOUS
  <2>3. ring # Append(ring, ev)  BY <2>1, <2>2
  <2> QED  BY <1>1, <2>3 DEF Tracked, ExitOf, Mentioned
<1>2. CASE ring' = Append(ring, ev)
  <2> DEFINE n == Len(ring) + 1
  <2>1. /\ DOMAIN ring' = DOMAIN ring \cup {n} /\ ring'[n] = ev
        /\ \A j \in DOMAIN ring : ring'[j] = ring[j] /\ j < n /\ j \in Nat
        /\ n \in Nat /\ n >= i
    BY <1>2
  <2>2. Living(p)' \/ \E m \in DOMAIN ring' : m >= i /\ ExitOf(ring'[m], p)
    BY <1>2, <2>1 DEF Tracked
  <2>3. ASSUME NEW j \in DOMAIN ring', NEW q \in Mentioned(ring'[j]),
               j >= i, q[1] = p[1], q # p
        PROVE  \E m \in DOMAIN ring' : m >= i /\ m < j /\ ExitOf(ring'[m], p)
    <3>1. CASE j \in DOMAIN ring
      <4>1. \E m \in DOMAIN ring : m >= i /\ m < j /\ ExitOf(ring[m], p)
        BY <2>1, <2>3, <3>1 DEF Tracked
      <4> QED  BY <2>1, <4>1
    <3>2. CASE j = n
      <4>1. \E m \in DOMAIN ring : m >= i /\ ExitOf(ring[m], p)
        BY <1>2, <2>1, <2>3, <3>2 DEF Tracked
      <4> QED  BY <2>1, <3>2, <4>1
    <3> QED  BY <2>1, <3>1, <3>2
  <2> HIDE DEF n
  <2> QED  BY <2>2, <2>3 DEF Tracked, ExitOf, Mentioned
<1> QED  BY <1>1, <1>2

\* The processes of a new event are tracked from it on.
LEMMA TrackedNew ==
  ASSUME ring \in Seq(EventRec), NEW ev \in EventRec, EventOK(ev, clock'),
         ring' = Append(ring, ev), NEW p \in Mentioned(ev), Living(p)' \/ ExitOf(ev, p),
         NEW n, n = Len(ring) + 1
  PROVE  Tracked(n, p)'
<1>1. n \in Nat /\ DOMAIN ring' = 1 .. n /\ ring'[n] = ev  OBVIOUS
<1>2. n \in DOMAIN ring' /\ n >= n /\ \A j \in DOMAIN ring' : j >= n => j = n  BY <1>1
<1>3. ev.child # 0 => ev.child_process[1] # ev.process[1]  BY DEF EventOK
<1>4. \A q \in Mentioned(ev) : q[1] = p[1] => q = p  BY <1>3 DEF Mentioned
<1>5. Living(p)' \/ \E m \in DOMAIN ring' : m >= n /\ ExitOf(ring'[m], p)  BY <1>1, <1>2
<1>6. \A j \in DOMAIN ring' : \A q \in Mentioned(ring'[j]) :
        j >= n /\ q[1] = p[1] /\ q # p =>
          \E m \in DOMAIN ring' : m >= n /\ m < j /\ ExitOf(ring'[m], p)
  BY <1>1, <1>2, <1>4
<1> QED  BY <1>5, <1>6 DEF Tracked, ExitOf, Mentioned

\* In an undisturbed step the event enters the ring, if its probe is enabled.
LEMMA EmitCalm ==
  ASSUME NEW kind, NEW ev, NEW upset, Emit(kind, ev, upset), upsets' = {}
  PROVE  /\ upsets = {} /\ upset = {}
         /\ ring' = ring \/ ring' = Append(ring, ev)
         /\ kind \in Probes => ring' = Append(ring, ev)
BY DEF Emit

\* Event ev is about processes that own their tgid when it is made, or whose tgid
\* was free, and that live or end with it.
Adds(ev) ==
  /\ ring' = Append(ring, ev) /\ ev \in EventRec /\ EventOK(ev, clock')
  /\ \A q \in Mentioned(ev) : /\ \A p \in Names : q[1] = p[1] /\ q # p => ~Living(p)
                              /\ Living(q)' \/ ExitOf(ev, q)
                              /\ ExitOf(ev, q) => ~Living(q)'

\* An undisturbed step of a task: no life ends without the exit event ev, and what
\* was not alive is now only if it was born in this step.
CalmStep(ev) ==
  /\ upsets = {} /\ UNCHANGED <<vars, attrib>> /\ clock <= clock'
  /\ ring' = ring \/ Adds(ev)
  /\ \A k \in Pids : task'[k] # Free => task'[k].tgid = k
  /\ \A p \in Names : Living(p) => Living(p)' \/ (Adds(ev) /\ ExitOf(ev, p))
  /\ \A p \in Names : Living(p)' => Living(p) \/ p[2] > clock

LEMMA CalmTask ==
  ASSUME BaseInv, CalmInv, NEW ev, CalmStep(ev)
  PROVE  CalmInv'
<1>0. /\ upsets = {} /\ UNCHANGED <<vars, attrib>>
      /\ ring' = ring \/ ring' = Append(ring, ev)
      /\ ring' = Append(ring, ev) => Adds(ev)
      /\ \A k \in Pids : task'[k] # Free => task'[k].tgid = k
      /\ \A p \in Names :
           Living(p) => Living(p)' \/ (ring' = Append(ring, ev) /\ ExitOf(ev, p))
  <2>1. ring \in Seq(EventRec)  BY DEF BaseInv, RingInv
  <2>2. Len(Append(ring, ev)) # Len(ring)  BY <2>1
  <2>3. Append(ring, ev) # ring  BY <2>2
  <2> QED  BY <2>3 DEF CalmStep, Adds
<1>1. /\ \A i \in DOMAIN ring : \A p \in Mentioned(ring[i]) : Tracked(i, p)
      /\ \A a \in attrib : Current(a) => Tracked(1, a[1])
      /\ \A a, b \in attrib : ~Shared(a, b)
  BY <1>0 DEF CalmInv
<1>2. ring \in Seq(EventRec) /\ \A i \in DOMAIN ring : ring[i] \in EventRec /\ EventOK(ring[i], clock)
  BY DEF BaseInv, RingInv
<1>3. \A e \in EventRec : EventOK(e, clock) => Mentioned(e) \subseteq Names
  <2>1. \A e \in EventRec : /\ e.process \in Names /\ e.child_process \in Names \cup {NoProcess}
    BY DEF EventRec
  <2>2. \A e \in EventRec : EventOK(e, clock) /\ e.child # 0 => e.child_process \in Names
    BY <2>1, TaskFacts DEF EventOK
  <2> QED  BY <2>1, <2>2 DEF Mentioned
<1>4. attrib' = attrib /\ tgid_index' = tgid_index /\ \A a \in attrib : a[1] \in Names
  BY <1>0 DEF vars, BaseInv, AttribInv
<1>5. ASSUME NEW i \in Nat, i <= Len(ring) + 1, NEW p \in Names, Tracked(i, p)
      PROVE  Tracked(i, p)'
  BY <1>0, <1>2, <1>5, TrackedKept DEF Adds
<1>6. ASSUME NEW i \in DOMAIN ring', NEW p \in Mentioned(ring'[i]) PROVE Tracked(i, p)'
  <2>1. CASE i \in DOMAIN ring
    <3>1. ring'[i] = ring[i] /\ i \in Nat /\ i <= Len(ring) + 1  BY <1>0, <1>2, <2>1
    <3>2. p \in Names /\ Tracked(i, p)  BY <1>1, <1>2, <1>3, <1>6, <2>1, <3>1
    <3> QED  BY <1>5, <3>1, <3>2
  <2>2. CASE i \notin DOMAIN ring
    <3>1. ring' = Append(ring, ev) /\ i = Len(ring) + 1 /\ ring'[i] = ev  BY <1>0, <1>2, <2>2
    <3>2. ev \in EventRec /\ EventOK(ev, clock') /\ (Living(p)' \/ ExitOf(ev, p))
      BY <1>0, <1>6, <3>1 DEF Adds
    <3> QED  BY <1>2, <1>6, <3>1, <3>2, TrackedNew
  <2> QED  BY <2>1, <2>2
<1>7. ASSUME NEW a \in attrib, Current(a) PROVE Tracked(1, a[1])'
  <2>1. PICK p \in Names : p = a[1]  BY <1>4
  <2>2. 1 \in Nat /\ 1 <= Len(ring) + 1  BY <1>2
  <2>3. Tracked(1, p)  BY <1>1, <1>7, <2>1
  <2>4. Tracked(1, p)'  BY <1>5, <2>2, <2>3
  <2> QED  BY <2>1, <2>4
<1>8. \A i \in DOMAIN ring' : \A p \in Mentioned(ring'[i]) : Tracked(i, p)'  BY <1>6
<1>9. \A a \in attrib' : Current(a)' => Tracked(1, a[1])'  BY <1>4, <1>7 DEF Current
<1>10. \A a, b \in attrib' : ~Shared(a, b)  BY <1>1, <1>4
<1> QED  BY <1>0, <1>8, <1>9, <1>10 DEF CalmInv, Mentioned, Shared

LEMMA SameLiving ==
  ASSUME NEW p, SameLife(p[1])
  PROVE  Living(p)' <=> Living(p)
BY DEF SameLife, Living

\* A running leader is the one living process with its tgid.
LEMMA Leader ==
  ASSUME TaskInv, NEW t \in Pids, task[t] # Free, task[t].state = "running", task[t].tgid = t
  PROVE  /\ Process(t) \in Names /\ Process(t)[1] = t /\ Living(Process(t))
         /\ \A p \in Names : p[1] = t /\ Living(p) => p = Process(t)
<1>1. Process(t) = <<t, task[t].birth>>  BY DEF Process
<1>2. Process(t) \in Names  BY TaskTyped
<1>3. Process(t)[1] = t /\ Process(t)[2] = task[t].birth  BY <1>1
<1>4. \A p \in Names : p = <<p[1], p[2]>>  BY DEF Names
<1> QED  BY <1>1, <1>2, <1>3, <1>4 DEF Living

\* The event is about the task's own process only.
LEMMA OwnEvent ==
  ASSUME TaskInv, NEW t \in Pids, task[t] # Free, task[t].state = "running", task[t].tgid = t,
         NEW ev \in EventRec, ev.process = Process(t), ev.child = 0,
         NEW q \in Mentioned(ev)
  PROVE  /\ q = Process(t) /\ q \in Names /\ q[1] = t /\ Living(q)
         /\ \A p \in Names : q[1] = p[1] /\ q # p => ~Living(p)
<1>1. q = Process(t)  BY DEF Mentioned
<1> QED  BY <1>1, Leader

LEMMA UndisturbedFork ==
  ASSUME BaseInv, CalmInv, NEW t \in Pids, NEW c \in Pids, Fork(t, c), upsets' = {}
  PROVE  \E ev : CalmStep(ev)
<1>1. PICK probed \in BOOLEAN : NewTask(t, c, c, probed, {})  BY DEF Fork
<1> DEFINE now == clock'
           ev == StartEvent(t, <<c, now>>)
<1>2. TaskInv /\ RingInv  BY DEF BaseInv
<1>3. /\ task[t] # Free /\ c # t /\ c # task[t].tgid /\ <<c, now>> \in Names
      /\ \A k \in Pids \ {c} : SameLife(k)
      /\ task'[c].tgid = c /\ task'[c].birth = now /\ task'[c].state = "running"
      /\ TaskInv'
  BY <1>1, <1>2, NewTaskStep
<1>4. /\ Tick /\ Emit("fork", ev, {}) /\ UNCHANGED <<vars, attrib>> /\ task[c] = Free
      /\ task[t].state = "running"
  BY <1>1 DEF NewTask, Ready, Alive
<1>5. upsets = {} /\ (ring' = ring \/ ring' = Append(ring, ev))  BY <1>4, EmitCalm
<1>6. clock \in Nat /\ now \in Nat /\ now = clock + 1  BY <1>2, <1>4, TickFacts
<1>7. \A k \in Pids : task[k] # Free => task[k].tgid = k  BY <1>5 DEF CalmInv
<1>8. PICK q \in Names : q = <<c, now>>  BY <1>3
<1>9. q[1] = c /\ q[2] = now /\ q[2] <= now  BY <1>6, <1>8
<1>10. /\ ev \in EventRec /\ EventOK(ev, now) /\ ev.process = Process(t) /\ ev.child = c
       /\ ev.child_process = q /\ ev.action = "started"
  BY <1>2, <1>3, <1>4, <1>8, <1>9, EventsMade
<1>11. task[t].tgid = t /\ Process(t) \in Names /\ Process(t)[1] = t /\ Living(Process(t))
       /\ \A p \in Names : p[1] = t /\ Living(p) => p = Process(t)
  BY <1>2, <1>3, <1>4, <1>7, Leader
<1>12. \A p \in Names : p[1] \in Pids /\ p[2] \in Nat  BY TaskFacts
<1>13. \A p \in Names : p[1] # c => (Living(p)' <=> Living(p))  BY <1>3, <1>12, SameLiving
<1>14. \A p \in Names : p[1] = c => ~Living(p)  BY <1>4 DEF Living
<1>15. Living(q)'
  <2>1. task'[c] # Free
    <3>1. task'[c] \in TaskRec \cup {Free}  BY <1>3 DEF TaskInv
    <3>2. Free.tgid = 0 /\ c # 0  BY TaskFacts DEF Free
    <3> QED  BY <1>3, <3>2
  <2> QED  BY <1>3, <1>9, <2>1 DEF Living
<1>16. \A p \in Names : Living(p)' /\ p[1] = c => p[2] = now  BY <1>3 DEF Living
<1>17. PICK r \in Names : r = Process(t)  BY <1>11
<1> HIDE DEF ev, now
<1>18. Mentioned(ev) = {r, q}  BY <1>3, <1>10, <1>17, TaskFacts DEF Mentioned
<1>19. Living(r)' /\ \A p \in Names : r[1] = p[1] /\ r # p => ~Living(p)
  BY <1>3, <1>11, <1>13, <1>17
<1>20. \A p : ~ExitOf(ev, p)  BY <1>10 DEF ExitOf
<1>21. ring' = Append(ring, ev) => Adds(ev)
  BY <1>9, <1>10, <1>14, <1>15, <1>18, <1>19, <1>20 DEF Adds, now
<1>22. \A p \in Names : Living(p) => Living(p)'  BY <1>13, <1>14
<1>23. \A p \in Names : Living(p)' => Living(p) \/ p[2] > clock  BY <1>6, <1>13, <1>16
<1>24. \A k \in Pids : task'[k] # Free => task'[k].tgid = k  BY <1>3, <1>7 DEF SameLife
<1>25. CalmStep(ev)
  BY <1>4, <1>5, <1>6, <1>21, <1>22, <1>23, <1>24 DEF CalmStep, now
<1> QED  BY <1>25

\* Steps that neither start nor end a task.
LEMMA UndisturbedQuiet ==
  ASSUME BaseInv, CalmInv, upsets = {}, UNCHANGED <<vars, attrib>>, clock <= clock',
         \A k \in Pids : SameLife(k), NEW ev, ev \in EventRec, EventOK(ev, clock'),
         ring' = ring \/ ring' = Append(ring, ev), ev.action # "exited",
         \A q \in Mentioned(ev) :
           q \in Names /\ Living(q) /\ \A p \in Names : q[1] = p[1] /\ q # p => ~Living(p)
  PROVE  CalmStep(ev)
<1>1. \A p \in Names : Living(p)' <=> Living(p)  BY TaskFacts, SameLiving
<1>2. \A k \in Pids : task'[k] # Free => task'[k].tgid = k  BY DEF CalmInv, SameLife
<1>3. \A p : ~ExitOf(ev, p)  BY DEF ExitOf
<1>4. ring' = Append(ring, ev) => Adds(ev)  BY <1>1, <1>3 DEF Adds
<1> QED  BY <1>1, <1>2, <1>4 DEF CalmStep

LEMMA UndisturbedReturn ==
  ASSUME BaseInv, CalmInv, NEW t \in Pids, CloneReturn(t), upsets' = {}
  PROVE  \E ev : CalmStep(ev)
<1> DEFINE q == task[t].clone
           u == IF Alive(q[1]) /\ task[q[1]].birth = q[2] THEN {} ELSE {"late"}
           ev == StartEvent(t, q)
<1>1. TaskInv /\ RingInv  BY DEF BaseInv
<1>2. /\ task[t] # Free /\ q \in Names /\ q[1] # task[t].tgid /\ q[2] <= clock'
      /\ \A k \in Pids : SameLife(k)
  BY <1>1, CloneReturnStep
<1>3. /\ Tick /\ Emit("clone", ev, u) /\ UNCHANGED <<vars, attrib>> /\ task[t].state = "running"
  BY DEF CloneReturn, Alive
<1>4. upsets = {} /\ u = {} /\ (ring' = ring \/ ring' = Append(ring, ev))
  <2> HIDE DEF u, ev
  <2> QED  BY <1>3, EmitCalm
<1>5. \A k \in Pids : task[k] # Free => task[k].tgid = k  BY <1>4 DEF CalmInv
<1>6. task[q[1]] # Free /\ task[q[1]].state = "running" /\ task[q[1]].birth = q[2]
  BY <1>4 DEF Alive
<1>7. q[1] \in Pids /\ task[q[1]].tgid = q[1]  BY <1>2, <1>5, <1>6, TaskFacts
<1>8. Living(q)  BY <1>6, <1>7 DEF Living
<1>9. /\ ev \in EventRec /\ EventOK(ev, clock') /\ ev.process = Process(t) /\ ev.child = q[1]
      /\ ev.child_process = q /\ ev.action = "started"
  BY <1>1, <1>2, <1>3, EventsMade
<1>10. clock <= clock'  BY <1>1, <1>3, TickFacts
<1>11. /\ Process(t) \in Names /\ Process(t)[1] = t /\ Living(Process(t))
       /\ \A p \in Names : p[1] = t /\ Living(p) => p = Process(t)
  BY <1>1, <1>2, <1>3, <1>5, Leader
<1>12. \A p \in Names : p[1] = q[1] /\ Living(p) => p = Process(q[1])
  BY <1>1, <1>6, <1>7, Leader
<1>13. \A p \in Names : p[1] = q[1] /\ Living(p) => p = q  BY <1>2, <1>8, <1>12
<1>14. \A x \in Mentioned(ev) : x = Process(t) \/ x = q  BY <1>9 DEF Mentioned
<1> HIDE DEF ev, u, q
<1>15. CalmStep(ev)
  <2>1. ev.action # "exited"  BY <1>9
  <2>2. \A x \in Mentioned(ev) :
          x \in Names /\ Living(x) /\ \A p \in Names : x[1] = p[1] /\ x # p => ~Living(p)
    BY <1>2, <1>8, <1>11, <1>13, <1>14
  <2> QED  BY <1>2, <1>3, <1>4, <1>9, <1>10, <2>1, <2>2, UndisturbedQuiet
<1> QED  BY <1>15

\* An exit makes the process no longer live, and its event is in the ring.
LEMMA UndisturbedExit ==
  ASSUME "exit" \in Probes, BaseInv, CalmInv, NEW t \in Pids, Exit(t), upsets' = {}
  PROVE  \E ev : CalmStep(ev)
<1> DEFINE ev == ExitEvent(t)
<1>1. TaskInv /\ RingInv  BY DEF BaseInv
<1>2. /\ task[t] # Free /\ task[t].state = "running"
      /\ \A k \in Pids \ {t} : task'[k] = task[k]
      /\ task'[t] # Free => task'[t].state = "zombie" /\ task'[t].tgid = task[t].tgid
  BY <1>1, ExitStep
<1>3. Tick /\ Emit("exit", ev, {}) /\ UNCHANGED <<vars, attrib>>  BY DEF Exit
<1>4. upsets = {} /\ ring' = Append(ring, ev)
  <2> HIDE DEF ev
  <2> QED  BY <1>3, EmitCalm
<1>5. \A k \in Pids : task[k] # Free => task[k].tgid = k  BY <1>4 DEF CalmInv
<1>6. /\ ev \in EventRec /\ EventOK(ev, clock') /\ ev.process = Process(t) /\ ev.child = 0
      /\ ev.action = "exited"
  BY <1>1, <1>2, <1>3, EventsMade
<1>7. clock <= clock'  BY <1>1, <1>3, TickFacts
<1>8. /\ Process(t) \in Names /\ Process(t)[1] = t
      /\ \A p \in Names : p[1] = t /\ Living(p) => p = Process(t)
  BY <1>1, <1>2, <1>5, Leader
<1>9. PICK r \in Names : r = Process(t)  BY <1>8
<1> HIDE DEF ev
<1>10. Mentioned(ev) = {r}  BY <1>6, <1>9 DEF Mentioned
<1>11. \A p \in Names : p[1] = t => ~Living(p)'  BY <1>2 DEF Living
<1>12. \A p \in Names : p[1] \in Pids  BY TaskFacts
<1>13. \A p \in Names : p[1] # t => (Living(p)' <=> Living(p))  BY <1>2, <1>12 DEF Living
<1>14. ExitOf(ev, r)  BY <1>6, <1>9 DEF ExitOf
<1>15. Adds(ev)  BY <1>4, <1>6, <1>8, <1>9, <1>10, <1>11, <1>14 DEF Adds
<1>16. \A p \in Names : Living(p) => Living(p)' \/ ExitOf(ev, p)
  BY <1>8, <1>9, <1>13, <1>14
<1>17. \A p \in Names : Living(p)' => Living(p)  BY <1>11, <1>13
<1>18. \A k \in Pids : task'[k] # Free => task'[k].tgid = k  BY <1>2, <1>5
<1>19. CalmStep(ev)  BY <1>3, <1>4, <1>7, <1>15, <1>16, <1>17, <1>18 DEF CalmStep
<1> QED  BY <1>19

LEMMA UndisturbedReap ==
  ASSUME BaseInv, CalmInv, NEW t \in Pids, Reap(t), upsets' = {}
  PROVE  \E ev : CalmStep(ev)
<1>1. TaskInv  BY DEF BaseInv
<1>2. /\ task[t] # Free /\ task[t].state = "zombie" /\ task'[t] = Free
      /\ \A k \in Pids \ {t} : task'[k] = task[k]
  BY <1>1, ReapStep
<1>3. /\ UNCHANGED <<vars, attrib>> /\ clock' = clock /\ ring' = ring /\ upsets = {}
      /\ clock <= clock'
  BY <1>1 DEF Reap, TaskInv
<1>4. \A p \in Names : p[1] \in Pids  BY TaskFacts
<1>5. \A p \in Names : Living(p)' <=> Living(p)  BY <1>2, <1>4 DEF Living
<1>6. \A k \in Pids : task'[k] # Free => task'[k].tgid = k  BY <1>2, <1>3 DEF CalmInv
<1>7. PICK ev : ev = 0  OBVIOUS
<1>8. CalmStep(ev)  BY <1>3, <1>5, <1>6 DEF CalmStep
<1> QED  BY <1>8

LEMMA UndisturbedTask ==
  ASSUME "exit" \in Probes, BaseInv, CalmInv, TaskNext, upsets' = {}
  PROVE  \E ev : CalmStep(ev)
<1>1. PICK t \in Pids : \/ \E c \in Pids : Fork(t, c) \/ NewThread(t, c)
                        \/ \E x \in Exes : Exec(t, x)
                        \/ CloneReturn(t) \/ Exit(t) \/ Reap(t) \/ Activity(t)
  BY DEF TaskNext
<1>2. TaskInv  BY DEF BaseInv
<1>3. ASSUME NEW c \in Pids, NewThread(t, c) PROVE FALSE
  <2>1. PICK probed \in BOOLEAN : NewTask(t, c, task[t].tgid, probed, {"thread"})
    BY <1>3 DEF NewThread
  <2>2. Emit("fork", StartEvent(t, <<c, clock'>>), {"thread"})  BY <2>1 DEF NewTask
  <2> QED  BY <2>2 DEF Emit
<1>4. ASSUME NEW x \in Exes, Exec(t, x) PROVE \E ev : CalmStep(ev)
  <2> DEFINE ev == ExecEvent(t, x)
  <2>1. task[t] # Free /\ \A k \in Pids : SameLife(k)  BY <1>2, <1>4, ExecStep
  <2>2. /\ Tick /\ Emit("exec", ev, {}) /\ UNCHANGED <<vars, attrib>>
        /\ task[t].state = "running"
    BY <1>4 DEF Exec, Ready, Alive
  <2>3. /\ ev \in EventRec /\ EventOK(ev, clock') /\ ev.process = Process(t) /\ ev.child = 0
        /\ ev.action = "execed"
    BY <1>2, <2>1, <2>2, EventsMade
  <2>4. clock <= clock'  BY <1>2, <2>2, TickFacts
  <2> HIDE DEF ev
  <2>5. upsets = {} /\ (ring' = ring \/ ring' = Append(ring, ev))  BY <2>2, EmitCalm
  <2>6. task[t].tgid = t  BY <2>1, <2>5 DEF CalmInv
  <2>7. \A q \in Mentioned(ev) :
          q \in Names /\ Living(q) /\ \A p \in Names : q[1] = p[1] /\ q # p => ~Living(p)
    BY <1>2, <2>1, <2>2, <2>3, <2>6, OwnEvent
  <2>8. CalmStep(ev)  BY <2>1, <2>2, <2>3, <2>4, <2>5, <2>7, UndisturbedQuiet
  <2> QED  BY <2>8
<1>5. ASSUME Activity(t) PROVE \E ev : CalmStep(ev)
  <2> DEFINE ev == Blank(t)
  <2>1. /\ Tick /\ Emit("activity", ev, {}) /\ UNCHANGED <<vars, attrib>> /\ task' = task
        /\ task[t] # Free /\ task[t].state = "running"
    BY <1>5 DEF Activity, Ready, Alive
  <2>2. \A k \in Pids : SameLife(k)  BY <2>1 DEF SameLife
  <2>3. /\ ev \in EventRec /\ EventOK(ev, clock') /\ ev.process = Process(t) /\ ev.child = 0
        /\ ev.action = "other"
    BY <1>2, <2>1, EventsMade
  <2>4. clock <= clock'  BY <1>2, <2>1, TickFacts
  <2> HIDE DEF ev
  <2>5. upsets = {} /\ (ring' = ring \/ ring' = Append(ring, ev))  BY <2>1, EmitCalm
  <2>6. task[t].tgid = t  BY <2>1, <2>5 DEF CalmInv
  <2>7. \A q \in Mentioned(ev) :
          q \in Names /\ Living(q) /\ \A p \in Names : q[1] = p[1] /\ q # p => ~Living(p)
    BY <1>2, <2>1, <2>3, <2>6, OwnEvent
  <2>8. CalmStep(ev)  BY <2>1, <2>2, <2>3, <2>4, <2>5, <2>7, UndisturbedQuiet
  <2> QED  BY <2>8
<1> QED  BY <1>1, <1>3, <1>4, <1>5, UndisturbedFork, UndisturbedReturn, UndisturbedExit,
            UndisturbedReap

-----------------------------------------------------------------------------
(* CalmInv, for user space.                                                *)

\* The ring after its head is consumed.
LEMMA TailRing ==
  ASSUME BaseInv, Consume
  PROVE  /\ 1 \in DOMAIN ring /\ ring[1] = Head(ring)
         /\ DOMAIN ring \subseteq Nat \ {0} /\ DOMAIN ring' \subseteq Nat \ {0}
         /\ \A i \in DOMAIN ring' : i + 1 \in DOMAIN ring /\ ring'[i] = ring[i + 1]
         /\ \A i \in DOMAIN ring : i # 1 => i - 1 \in DOMAIN ring' /\ ring'[i - 1] = ring[i]
<1>1. ring \in Seq(EventRec) /\ ring # <<>> /\ ring' = Tail(ring)  BY DEF BaseInv, RingInv, Consume
<1> QED  BY <1>1

\* A process known from position i > 1 on, or from position 1 on unless its exit is
\* consumed, stays tracked.
LEMMA TrackedShift ==
  ASSUME BaseInv, Consume, NEW i \in Nat \ {0}, NEW h \in Nat \ {0}, NEW p, Tracked(i, p),
         \/ i = h + 1
         \/ i = 1 /\ h = 1 /\ ~ExitOf(Head(ring), p)
  PROVE  Tracked(h, p)'
<1>1. /\ 1 \in DOMAIN ring /\ ring[1] = Head(ring)
      /\ DOMAIN ring \subseteq Nat \ {0} /\ DOMAIN ring' \subseteq Nat \ {0}
      /\ \A j \in DOMAIN ring' : j + 1 \in DOMAIN ring /\ ring'[j] = ring[j + 1]
      /\ \A j \in DOMAIN ring : j # 1 => j - 1 \in DOMAIN ring' /\ ring'[j - 1] = ring[j]
  BY TailRing
<1>2. task' = task  BY DEF Consume
<1>3. ASSUME NEW m \in DOMAIN ring, m >= i, ExitOf(ring[m], p)
      PROVE  m - 1 \in DOMAIN ring' /\ m - 1 >= h /\ ExitOf(ring'[m - 1], p)
  <2>1. m # 1  BY <1>1, <1>3
  <2> QED  BY <1>1, <1>3, <2>1
<1>4. Living(p)' \/ \E m \in DOMAIN ring' : m >= h /\ ExitOf(ring'[m], p)
  BY <1>2, <1>3 DEF Tracked, Living
<1>5. ASSUME NEW j \in DOMAIN ring', NEW q \in Mentioned(ring'[j]), j >= h, q[1] = p[1], q # p
      PROVE  \E m \in DOMAIN ring' : m >= h /\ m < j /\ ExitOf(ring'[m], p)
  <2>1. j + 1 \in DOMAIN ring /\ ring'[j] = ring[j + 1] /\ j \in Nat /\ j + 1 >= i  BY <1>1, <1>5
  <2>2. PICK m \in DOMAIN ring : m >= i /\ m < j + 1 /\ ExitOf(ring[m], p)
    BY <1>5, <2>1 DEF Tracked
  <2>3. m \in Nat  BY <1>1
  <2>4. m - 1 < j  BY <2>1, <2>2, <2>3
  <2> QED  BY <1>3, <2>2, <2>4
<1> QED  BY <1>4, <1>5 DEF Tracked, ExitOf, Mentioned

\* The process an attribution is about, when its id is current, is the process the
\* next event with that tgid is about.
LEMMA CurrentOwner ==
  ASSUME BaseInv, CalmInv, upsets = {}, Consume,
         NEW a \in attrib, Current(a), NEW p \in Mentioned(Head(ring)), p[1] = a[1][1]
  PROVE  a[1] = p
<1>1. 1 \in DOMAIN ring /\ ring[1] = Head(ring) /\ DOMAIN ring \subseteq Nat \ {0}  BY TailRing
<1>2. Tracked(1, a[1])  BY DEF CalmInv
<1>3. a[1] # p => \E m \in DOMAIN ring : m >= 1 /\ m < 1  BY <1>1, <1>2 DEF Tracked
<1>4. \A m \in DOMAIN ring : m \in Nat  BY <1>1
<1> QED  BY <1>3, <1>4

LEMMA CalmConsume ==
  ASSUME BaseInv, CalmInv, Consume
  PROVE  CalmInv'
<1> SUFFICES ASSUME upsets' = {} PROVE CalmInv'  BY DEF CalmInv
<1> DEFINE ev == Head(ring)
<1>1. /\ attrib' = attrib \cup Reported(ev) /\ task' = task /\ upsets = {}
      /\ ev.process[1] \in Pids
  BY HeadFacts
<1>2. /\ \A a \in Reported(ev) :
           /\ a \in Names \X (1 .. (next_id' - 1))
           /\ a[1] \in Mentioned(ev)
           /\ a[2] = tgid_index[a[1][1]] \/ a[2] >= next_id
      /\ \A a, b \in Reported(ev) : a[2] = b[2] => a = b
      /\ Effect(ev, ProcAll, refs'.subject, After)
      /\ next_id \in Nat \ {0} /\ next_id' \in Nat \ {0}
      /\ \A j \in Pids : tgid_index'[j] \in {0, tgid_index[j]} \cup next_id .. (next_id' - 1)
  BY ReportedFacts
<1>3. /\ \A t \in Pids : task[t] # Free => task[t].tgid = t
      /\ \A i \in DOMAIN ring : \A p \in Mentioned(ring[i]) : Tracked(i, p)
      /\ \A a \in attrib : Current(a) => Tracked(1, a[1])
      /\ \A a, b \in attrib : ~Shared(a, b)
  BY <1>1 DEF CalmInv
<1>4. /\ \A a \in attrib : a \in Names \X (1 .. (next_id - 1))
      /\ DistinctTgids
      /\ DistinctTgids'
  <2>1. BaseInv'  BY ConsumeBase
  <2> QED  BY <2>1 DEF BaseInv, AttribInv
<1>5. \A a \in attrib : a[1] \in Names /\ a[1][1] \in Pids /\ a[2] # 0 /\ ~(a[2] >= next_id)
  <2>1. \A a \in attrib : a[1] \in Names /\ a[2] \in 1 .. (next_id - 1)  BY <1>4
  <2> QED  BY <1>2, <2>1, TaskFacts
<1>6. \A a \in Reported(ev) : a[1] \in Names /\ a[2] # 0
  <2>1. \A a \in Reported(ev) : a[1] \in Names /\ a[2] \in 1 .. (next_id' - 1)  BY <1>2
  <2> QED  BY <1>2, <2>1
<1>7. /\ 1 \in DOMAIN ring /\ ring[1] = ev
      /\ DOMAIN ring' \subseteq Nat \ {0}
      /\ \A i \in DOMAIN ring' : i + 1 \in DOMAIN ring /\ ring'[i] = ring[i + 1]
  BY TailRing
<1>8. \A p : ExitOf(ev, p) => tgid_index'[p[1]] = 0
  <2>1. ev.process[1] = Key(ev.actor)  BY HeadFacts
  <2>2. ev.action = "exited" => tgid_index'[ev.process[1]] = 0  BY <1>2, <2>1 DEF Effect, After
  <2> QED  BY <2>2 DEF ExitOf
<1>9. ASSUME NEW i \in DOMAIN ring', NEW p \in Mentioned(ring'[i]) PROVE Tracked(i, p)'
  <2>1. i \in Nat \ {0} /\ i + 1 \in Nat \ {0} /\ i + 1 \in DOMAIN ring /\ ring'[i] = ring[i + 1]
    BY <1>7
  <2>2. PICK n : n = i + 1  OBVIOUS
  <2>3. Tracked(n, p)  BY <1>3, <1>9, <2>1, <2>2
  <2> QED  BY <2>1, <2>2, <2>3, TrackedShift
<1>10. ASSUME NEW a \in attrib', tgid_index'[a[1][1]] = a[2] PROVE Tracked(1, a[1])'
  <2>1. a[2] # 0  BY <1>1, <1>5, <1>6
  <2>2. ~ExitOf(ev, a[1])  BY <1>8, <1>10, <2>1
  <2>3. Tracked(1, a[1])
    <3>1. CASE a \in attrib
      <4>1. tgid_index'[a[1][1]] = tgid_index[a[1][1]]
        <5>1. tgid_index'[a[1][1]] \in {0, tgid_index[a[1][1]]} \cup next_id .. (next_id' - 1)
          BY <1>2, <1>5, <3>1
        <5> QED  BY <1>2, <1>5, <1>10, <3>1, <5>1
      <4> QED  BY <1>3, <1>10, <3>1, <4>1 DEF Current
    <3>2. CASE a \in Reported(ev)  BY <1>2, <1>3, <1>7, <3>2
    <3> QED  BY <1>1, <3>1, <3>2
  <2>4. PICK p : p = a[1]  OBVIOUS
  <2>5. PICK n \in Nat \ {0} : n = 1  OBVIOUS
  <2>6. Tracked(n, p)'  BY <2>2, <2>3, <2>4, <2>5, TrackedShift
  <2> QED  BY <2>4, <2>5, <2>6
<1>11. ASSUME NEW a \in attrib, NEW b \in Reported(ev), a[2] = b[2] PROVE a[1] = b[1]
  <2>1. b[2] = tgid_index[b[1][1]] /\ b[1] \in Mentioned(ev)  BY <1>2, <1>5, <1>11
  <2>2. a[1][1] = b[1][1]  BY <1>1, <1>4, <1>11 DEF DistinctTgids
  <2>3. Current(a)  BY <1>11, <2>1, <2>2 DEF Current
  <2>4. PICK p : p = b[1]  OBVIOUS
  <2> QED  BY <1>1, <2>1, <2>2, <2>3, <2>4, CurrentOwner
<1>12. ASSUME NEW a \in attrib', NEW b \in attrib' PROVE ~Shared(a, b)
  <2> SUFFICES ASSUME a[2] = b[2] PROVE a[1] = b[1]  BY DEF Shared
  <2> QED  BY <1>1, <1>2, <1>3, <1>11 DEF Shared
<1>13. \A a \in attrib' : Current(a)' => Tracked(1, a[1])'  BY <1>10 DEF Current
<1> HIDE DEF ev
<1> QED  BY <1>1, <1>3, <1>9, <1>12, <1>13 DEF CalmInv, Mentioned, Shared

LEMMA CalmInit == TelemetryInit => CalmInv
<1> SUFFICES ASSUME TelemetryInit PROVE CalmInv  OBVIOUS
<1>1. /\ ring = <<>> /\ attrib = {}
      /\ \A t \in Pids : task[t] = IF t = 1 THEN [tgid |-> 1, birth |-> 1, exe |-> "sh",
                                                  state |-> "running", clone |-> NoProcess]
                                   ELSE Free
  BY DEF TelemetryInit
<1>2. \A t \in Pids : task[t] # Free => task[t].tgid = t  BY <1>1
<1> QED  BY <1>1, <1>2 DEF CalmInv

LEMMA CalmNext ==
  ASSUME "exit" \in Probes, BaseInv, CalmInv, [TelemetryNext]_allVars
  PROVE  CalmInv'
<1>1. CASE TaskNext
  <2> SUFFICES ASSUME upsets' = {} PROVE CalmInv'  BY DEF CalmInv
  <2>1. PICK ev : CalmStep(ev)  BY <1>1, UndisturbedTask
  <2> QED  BY <2>1, CalmTask
<1>2. CASE Consume  BY <1>2, CalmConsume
<1>3. CASE UNCHANGED allVars
  BY <1>3 DEF allVars, osVars, vars, CalmInv, Tracked, Living, Mentioned, ExitOf, Current, Shared
<1> QED  BY <1>1, <1>2, <1>3, NextCases

\* When exits are traced, an id is never shared: whatever the registry reports under
\* it is about one process, as long as no thread, loss or late clone return upsets it.
THEOREM TelemetryIdNamesOneProcess ==
  ASSUME "exit" \in Probes
  PROVE  TelemetrySpec => []IdNamesOneProcess
<1> DEFINE I == BaseInv /\ CalmInv
<1>1. TelemetryInit => I  BY BaseInit, CalmInit
<1>2. I /\ [TelemetryNext]_allVars => I'  BY BaseStep, CalmNext
<1>3. I => IdNamesOneProcess  BY DEF CalmInv, IdNamesOneProcess
<1> QED  BY <1>1, <1>2, <1>3, PTL DEF TelemetrySpec

-----------------------------------------------------------------------------
(* LifeInv.                                                                *)

LEMMA LifeTask ==
  ASSUME BaseInv, LifeInv, NEW ev, CalmStep(ev)
  PROVE  LifeInv'
<1>1. /\ upsets = {} /\ UNCHANGED <<vars, attrib>>
      /\ ring' = ring \/ Adds(ev)
      /\ \A p \in Names : Living(p)' => Living(p) \/ p[2] > clock
  BY DEF CalmStep
<1>2. /\ \A i \in DOMAIN ring : ring[i].action = "exited" => ~Living(ring[i].process)
      /\ Roomy => \A a \in attrib : Living(a[1]) =>
                    Current(a) /\ processes_by_id[a[2]].start = a[1][2]
  BY <1>1 DEF LifeInv
<1>3. clock \in Nat /\ \A p \in Names : p[2] \in Nat  BY TaskFacts DEF BaseInv, TaskInv
<1>4. \A p \in Names : p[2] <= clock /\ Living(p)' => Living(p)  BY <1>1, <1>3
<1>5. ASSUME NEW i \in DOMAIN ring', ring'[i].action = "exited",
             NEW p, p = ring'[i].process
      PROVE  ~Living(p)'
  <2>1. /\ ring \in Seq(EventRec)
        /\ \A j \in DOMAIN ring : /\ ring[j] \in EventRec /\ EventOK(ring[j], clock)
                                  /\ ring[j].process \in Names /\ ring[j].process[2] <= clock
    <3>1. ring \in Seq(EventRec) /\ \A j \in DOMAIN ring : EventOK(ring[j], clock)
      BY DEF BaseInv, RingInv
    <3>2. \A j \in DOMAIN ring : ring[j] \in EventRec  BY <3>1
    <3>3. \A e \in EventRec : e.process \in Names  BY DEF EventRec
    <3>4. \A e : EventOK(e, clock) => e.process[2] <= clock  BY DEF EventOK
    <3> QED  BY <3>1, <3>2, <3>3, <3>4
  <2>2. CASE i \in DOMAIN ring
    <3>1. ring'[i] = ring[i]  BY <1>1, <2>1, <2>2 DEF Adds
    <3> QED  BY <1>2, <1>4, <1>5, <2>1, <2>2, <3>1
  <2>3. CASE i \notin DOMAIN ring
    <3>1. Adds(ev) /\ ring'[i] = ev  BY <1>1, <2>1, <2>3 DEF Adds
    <3> QED  BY <1>5, <3>1 DEF Adds, ExitOf, Mentioned
  <2> QED  BY <2>2, <2>3
<1>6. (\A i \in DOMAIN ring : ring[i].action = "exited" => ~Living(ring[i].process))'
  BY <1>5
<1>7. ASSUME NEW a \in attrib, Roomy, NEW p, p = a[1], Living(p)'
      PROVE  Current(a) /\ processes_by_id[a[2]].start = a[1][2]
  <2>1. p \in Names /\ p[2] <= clock  BY <1>7 DEF BaseInv, AttribInv
  <2> QED  BY <1>2, <1>4, <1>7, <2>1
<1>8. /\ attrib' = attrib /\ processes_by_id' = processes_by_id /\ tgid_index' = tgid_index
      /\ next_id' = next_id
  BY <1>1 DEF vars
<1>9. (Roomy => \A a \in attrib : Living(a[1]) =>
                  Current(a) /\ processes_by_id[a[2]].start = a[1][2])'
  BY <1>7, <1>8 DEF Roomy, Current
<1> QED  BY <1>6, <1>9 DEF LifeInv

\* What /proc says about a living process.
LEMMA ProcOfLiving ==
  ASSUME TaskInv, NEW p \in Names, Living(p)
  PROVE  /\ ProcAll[p[1]].check = p[2] /\ ProcAll[p[1]].start = p[2] /\ p[2] # 0
<1>1. p[1] \in Pids /\ p[2] # 0  BY TaskFacts
<1>2. ProcAll[p[1]] = ProcNow(p[1])  BY <1>1, ProcTyped
<1>3. ProcNow(p[1]).check = task[p[1]].birth /\ ProcNow(p[1]).start = task[p[1]].birth
  BY DEF ProcNow, Living
<1> QED  BY <1>1, <1>2, <1>3 DEF Living

\* The registry's answer for a living process that the next event is about.
LEMMA LivingFound ==
  ASSUME BaseInv, CalmInv, LifeInv, upsets = {}, Consume, Roomy,
         NEW p \in Mentioned(Head(ring)), p \in Names, Living(p), NEW id,
         Finds(p[1], ProcAll[p[1]], id, After)
  PROVE  /\ id \in DOMAIN processes_by_id' /\ processes_by_id'[id].start = p[2]
         /\ tgid_index[p[1]] # 0 => id = tgid_index[p[1]]
<1> DEFINE k == p[1]
           i == tgid_index[k]
<1>1. k \in Pids  BY TaskFacts
<1>2. ProcAll[k].check = p[2] /\ ProcAll[k].start = p[2] /\ p[2] # 0
  BY ProcOfLiving DEF BaseInv
<1>3. /\ id \in DOMAIN processes_by_id'
      /\ i = 0 => processes_by_id'[id].start = p[2]
      /\ i # 0 /\ p[2] = processes_by_id[i].start => id = i
  BY <1>2 DEF Finds, After
<1>4. CASE i # 0
  <2>1. i \in DOMAIN processes_by_id /\ Key(processes_by_id[i]) = k
    BY <1>1, <1>4 DEF BaseInv, Inv, IndexExact
  <2>2. PICK b \in attrib : b[2] = i  BY <2>1 DEF BaseInv, AttribInv
  <2>3. b[1][1] = k  BY <2>1, <2>2 DEF BaseInv, AttribInv
  <2>4. Current(b)  BY <2>2, <2>3 DEF Current
  <2>5. b[1] = p  BY <2>3, <2>4, CurrentOwner
  <2>6. processes_by_id[i].start = p[2]  BY <2>2, <2>5 DEF LifeInv
  <2>7. id = i  BY <1>3, <1>4, <2>6
  <2>8. processes_by_id'[id].start = p[2]
    <3>1. Evolves(Registry, After)  BY ReportedFacts
    <3> QED  BY <1>2, <1>3, <2>1, <2>6, <2>7, <3>1 DEF Evolves, EntityEvolves, Registry, After
  <2> QED  BY <1>3, <2>7, <2>8
<1> QED  BY <1>3, <1>4

LEMMA LifeConsume ==
  ASSUME BaseInv, CalmInv, LifeInv, Consume
  PROVE  LifeInv'
<1> SUFFICES ASSUME upsets' = {} PROVE LifeInv'  BY DEF LifeInv
<1> DEFINE ev == Head(ring)
           s == refs'.subject
           k == ev.process[1]
           c == ev.child
<1>1. /\ attrib' = attrib \cup Reported(ev) /\ task' = task /\ upsets = {}
      /\ ev.process \in Names /\ k \in Pids /\ k = Key(ev.actor)
      /\ c \in Pids \cup {0}
      /\ c # 0 => ev.child_process \in Names /\ ev.child_process[1] = c /\ c # k
                  /\ ev.action = "started"
  BY HeadFacts
<1>2. /\ Inv' /\ Evolves(Registry, After) /\ Effect(ev, ProcAll, s, After)
      /\ next_id \in Nat /\ next_id' \in Nat /\ next_id <= next_id'
  BY ReportedFacts
<1>3. /\ 1 \in DOMAIN ring /\ ring[1] = ev
      /\ \A i \in DOMAIN ring' : i + 1 \in DOMAIN ring /\ ring'[i] = ring[i + 1]
  BY TailRing
<1>4. /\ \A i \in DOMAIN ring : ring[i].action = "exited" => ~Living(ring[i].process)
      /\ Roomy => \A a \in attrib : Living(a[1]) =>
                    Current(a) /\ processes_by_id[a[2]].start = a[1][2]
  BY <1>1 DEF LifeInv
<1>5. (\A i \in DOMAIN ring : ring[i].action = "exited" => ~Living(ring[i].process))'
  <2>1. \A p : Living(p)' <=> Living(p)  BY <1>1 DEF Living
  <2>2. ASSUME NEW i \in DOMAIN ring', ring'[i].action = "exited",
               NEW p, p = ring'[i].process
        PROVE  ~Living(p)'
    BY <1>3, <1>4, <2>1, <2>2
  <2> QED  BY <2>2
<1>6. ASSUME Roomy' PROVE \A a \in attrib' : Living(a[1]) =>
                            /\ tgid_index'[a[1][1]] = a[2]
                            /\ processes_by_id'[a[2]].start = a[1][2]
  <2>1. Roomy
    <3>1. kMaxEntries \in Nat /\ next_id' - 1 <= kMaxEntries  BY <1>6, BoundsAssumption DEF Roomy
    <3>2. \A x, y, z \in Nat : x <= y /\ y - 1 <= z => x - 1 <= z  OBVIOUS
    <3>3. next_id - 1 <= kMaxEntries
      <4>1. next_id \in Nat /\ next_id' \in Nat /\ next_id <= next_id'  BY <1>2
      <4> QED  BY ONLY <3>1, <3>2, <4>1, Zenon
    <3> QED  BY <3>3 DEF Roomy
  <2>2. /\ \A j \in Pids \ {k, c} : tgid_index'[j] = tgid_index[j]
        /\ Finds(k, ProcAll[k], s, After)
        /\ ev.action # "exited" => tgid_index'[k] = s
        /\ c # 0 => Finds(c, ProcAll[c], tgid_index'[c], After)
    BY <1>1, <1>2, <1>6 DEF Effect, RoomOK, Roomy, After
  <2>3. ev.process \in Mentioned(ev) /\ (c # 0 => ev.child_process \in Mentioned(ev))
    BY DEF Mentioned
  <2>4. Living(ev.process) =>
          /\ tgid_index'[k] = s /\ processes_by_id'[s].start = ev.process[2]
          /\ tgid_index[k] # 0 => s = tgid_index[k]
    <3> SUFFICES ASSUME Living(ev.process)
                 PROVE  /\ tgid_index'[k] = s /\ processes_by_id'[s].start = ev.process[2]
                        /\ tgid_index[k] # 0 => s = tgid_index[k]
      OBVIOUS
    <3>1. ev.action # "exited"  BY <1>3, <1>4
    <3> QED  BY <1>1, <2>1, <2>2, <2>3, <3>1, LivingFound
  <2>5. c # 0 /\ Living(ev.child_process) =>
          /\ processes_by_id'[tgid_index'[c]].start = ev.child_process[2]
          /\ tgid_index[c] # 0 => tgid_index'[c] = tgid_index[c]
    <3> SUFFICES ASSUME c # 0, Living(ev.child_process)
                 PROVE  /\ processes_by_id'[tgid_index'[c]].start = ev.child_process[2]
                        /\ tgid_index[c] # 0 => tgid_index'[c] = tgid_index[c]
      OBVIOUS
    <3>1. PICK p : p = ev.child_process  OBVIOUS
    <3>2. p \in Mentioned(ev) /\ p \in Names /\ Living(p) /\ p[1] = c  BY <1>1, <2>3, <3>1
    <3>3. Finds(p[1], ProcAll[p[1]], tgid_index'[c], After)  BY <2>2, <3>2
    <3> HIDE DEF c
    <3>4. /\ processes_by_id'[tgid_index'[c]].start = p[2]
          /\ tgid_index[p[1]] # 0 => tgid_index'[c] = tgid_index[p[1]]
      BY <1>1, <2>1, <3>2, <3>3, LivingFound
    <3> QED  BY <3>1, <3>2, <3>4
  <2>6. ASSUME NEW a \in attrib, Living(a[1])
        PROVE  /\ tgid_index'[a[1][1]] = a[2]
               /\ processes_by_id'[a[2]].start = a[1][2]
    <3> DEFINE j == a[1][1]
    <3>1. Current(a) /\ processes_by_id[a[2]].start = a[1][2]  BY <1>4, <2>1, <2>6
    <3>2. a[1] \in Names /\ a[2] \in 1 .. (next_id - 1)  BY DEF BaseInv, AttribInv
    <3>3. a[2] # 0 /\ j \in Pids /\ tgid_index[j] = a[2] /\ a[1][2] # 0
      BY <1>2, <3>1, <3>2, TaskFacts DEF Current
    <3>4. tgid_index'[j] = a[2]
      <4>1. CASE j \notin {k, c}  BY <2>2, <3>3, <4>1
      <4>2. CASE j = k
        <5>1. a[1] = ev.process  BY <1>1, <2>3, <3>1, <4>2, CurrentOwner
        <5> QED  BY <2>4, <2>6, <3>3, <4>2, <5>1
      <4>3. CASE j = c
        <5>1. c # 0  BY <3>3, <4>3, TaskFacts
        <5>2. PICK p : p = ev.child_process  OBVIOUS
        <5>3. p \in Mentioned(ev) /\ p[1] = j  BY <1>1, <2>3, <4>3, <5>1, <5>2
        <5>4. a[1] = p  BY <1>1, <3>1, <5>3, CurrentOwner
        <5> QED  BY <2>5, <2>6, <3>3, <4>3, <5>1, <5>2, <5>4
      <4> QED  BY <4>1, <4>2, <4>3
    <3>5. a[2] \in DOMAIN processes_by_id /\ a[2] \in DOMAIN processes_by_id'
      <4>1. a[2] \in DOMAIN processes_by_id  BY <3>3 DEF BaseInv, Inv, IndexExact
      <4>2. a[2] \in DOMAIN processes_by_id'  BY <1>2, <3>3, <3>4 DEF Inv, IndexExact
      <4> QED  BY <4>1, <4>2
    <3>6. processes_by_id'[a[2]].start = a[1][2]
      BY <1>2, <3>1, <3>3, <3>5 DEF Evolves, EntityEvolves, Registry, After
    <3> QED  BY <3>4, <3>6
  <2>7. ASSUME NEW a \in Reported(ev), Living(a[1])
        PROVE  /\ tgid_index'[a[1][1]] = a[2]
               /\ processes_by_id'[a[2]].start = a[1][2]
    <3>1. CASE a = <<ev.process, s>>
      <4>1. a[1] = ev.process /\ a[2] = s /\ a[1][1] = k  BY <3>1
      <4> QED  BY <2>4, <2>7, <4>1
    <3>2. CASE c # 0 /\ a = <<ev.child_process, tgid_index'[c]>>
      <4>1. a[1] = ev.child_process /\ a[2] = tgid_index'[c] /\ a[1][1] = c  BY <1>1, <3>2
      <4> QED  BY <2>5, <2>7, <3>2, <4>1
    <3> QED  BY <3>1, <3>2 DEF Reported
  <2> QED  BY <1>1, <2>6, <2>7
<1>7. (Roomy => \A a \in attrib : Living(a[1]) =>
                  Current(a) /\ processes_by_id[a[2]].start = a[1][2])'
  <2>1. \A p : Living(p)' <=> Living(p)  BY <1>1 DEF Living
  <2> QED  BY <1>6, <2>1 DEF Current
<1> QED  BY <1>5, <1>7 DEF LifeInv

LEMMA LifeNext ==
  ASSUME "exit" \in Probes, BaseInv, CalmInv, LifeInv, [TelemetryNext]_allVars
  PROVE  LifeInv'
<1>1. CASE TaskNext
  <2> SUFFICES ASSUME upsets' = {} PROVE LifeInv'  BY DEF LifeInv
  <2>1. PICK ev : CalmStep(ev)  BY <1>1, UndisturbedTask
  <2> QED  BY <2>1, LifeTask
<1>2. CASE Consume  BY <1>2, LifeConsume
<1>3. CASE UNCHANGED allVars
  BY <1>3 DEF allVars, osVars, vars, LifeInv, Living, Current, Roomy
<1> QED  BY <1>1, <1>2, <1>3, NextCases

\* When exits are traced, a process keeps one id for as long as it lives, until the
\* registry is full or a thread, a loss or a late clone return upsets it.
THEOREM TelemetryLivingHasOneId ==
  ASSUME "exit" \in Probes
  PROVE  TelemetrySpec => []LivingHasOneId
<1> DEFINE I == BaseInv /\ CalmInv /\ LifeInv
<1>1. TelemetryInit => I
  <2>1. TelemetryInit => LifeInv  BY DEF TelemetryInit, LifeInv
  <2> QED  BY <2>1, BaseInit, CalmInit
<1>2. I /\ [TelemetryNext]_allVars => I'  BY BaseStep, CalmNext, LifeNext
<1>3. I => LivingHasOneId  BY DEF LifeInv, LivingHasOneId, Split, Current
<1> QED  BY <1>1, <1>2, <1>3, PTL DEF TelemetrySpec

-----------------------------------------------------------------------------
(* LineInv.                                                                *)

\* A step of a task that tells of no start, and has no clone under way, that is not
\* in the lineage.
LineStep(ev) ==
  /\ upsets = {} /\ UNCHANGED <<vars, attrib>> /\ lineage \subseteq lineage'
  /\ ring' = ring \/ ring' = Append(ring, ev)
  /\ ev.child # 0 => <<ev.child_process, ev.process>> \in lineage'
  /\ \A k \in Pids : task'[k] # Free /\ task'[k].clone # NoProcess =>
       <<task'[k].clone, Process(k)'>> \in lineage'

LEMMA LineTask ==
  ASSUME BaseInv, LineInv, NEW ev, LineStep(ev)
  PROVE  LineInv'
<1>1. /\ upsets = {} /\ UNCHANGED <<vars, attrib>> /\ lineage \subseteq lineage'
      /\ ring' = ring \/ ring' = Append(ring, ev)
      /\ ev.child # 0 => <<ev.child_process, ev.process>> \in lineage'
  BY DEF LineStep
<1>2. /\ \A i \in DOMAIN ring : ring[i].child # 0 =>
           <<ring[i].child_process, ring[i].process>> \in lineage
      /\ LineageTrue
  BY <1>1 DEF LineInv
<1>3. ring \in Seq(EventRec)  BY DEF BaseInv, RingInv
<1>4. \A i \in DOMAIN ring' : \/ i \in DOMAIN ring /\ ring'[i] = ring[i]
                              \/ ring'[i] = ev
  BY <1>1, <1>3
<1>5. \A i \in DOMAIN ring' : ring'[i].child # 0 =>
        <<ring'[i].child_process, ring'[i].process>> \in lineage'
  BY <1>1, <1>2, <1>4
<1>6. LineageTrue'
  <2>1. attrib' = attrib /\ processes_by_id' = processes_by_id  BY <1>1 DEF vars
  <2> QED  BY <1>1, <1>2, <2>1 DEF LineageTrue
<1>7. \A k \in Pids : task'[k] # Free /\ task'[k].clone # NoProcess =>
        <<task'[k].clone, Process(k)'>> \in lineage'
  BY DEF LineStep
<1> QED  BY <1>5, <1>6, <1>7 DEF LineInv

\* The pending clones of tasks that live on.
LEMMA ClonesKept ==
  ASSUME TaskInv, LineInv, upsets = {}, NEW k \in Pids, task[k] # Free,
         task'[k].tgid = task[k].tgid, task'[task[k].tgid].birth = task[task[k].tgid].birth,
         task'[k].clone \in {NoProcess, task[k].clone}, task'[k].clone # NoProcess,
         lineage \subseteq lineage'
  PROVE  <<task'[k].clone, Process(k)'>> \in lineage'
<1>1. Process(k)' = Process(k)  BY DEF Process
<1> QED  BY <1>1 DEF LineInv

LEMMA LineFork ==
  ASSUME BaseInv, CalmInv, LineInv, NEW t \in Pids, NEW c \in Pids, Fork(t, c), upsets' = {}
  PROVE  \E ev : LineStep(ev)
<1>1. PICK probed \in BOOLEAN : NewTask(t, c, c, probed, {})  BY DEF Fork
<1> DEFINE now == clock'
           ev == StartEvent(t, <<c, now>>)
<1>2. TaskInv  BY DEF BaseInv
<1>3. /\ task[t] # Free /\ c # t /\ c # task[t].tgid /\ <<c, now>> \in Names
      /\ \A k \in Pids \ {c} : SameLife(k)
      /\ task'[c].clone = NoProcess
      /\ task'[t].clone \in {NoProcess, <<c, now>>}
      /\ \A k \in Pids \ {c, t} : task'[k] = task[k]
  BY <1>1, <1>2, NewTaskStep
<1>4. /\ Tick /\ Emit("fork", ev, {}) /\ UNCHANGED <<vars, attrib>> /\ task[c] = Free
      /\ lineage' = lineage \cup {<<<<c, now>>, Process(t)>>}
  BY <1>1 DEF NewTask
<1>5. PICK q \in Names : q = <<c, now>>  BY <1>3
<1>6. q[1] = c /\ q[2] = now /\ q[2] <= now
  <2>1. now \in Nat  BY <1>2, <1>4, TickFacts
  <2> QED  BY <1>5, <2>1
<1>7. ev.process = Process(t) /\ ev.child_process = q
  BY <1>2, <1>3, <1>4, <1>5, <1>6, EventsMade
<1> HIDE DEF ev, now
<1>8. upsets = {} /\ (ring' = ring \/ ring' = Append(ring, ev))  BY <1>4, EmitCalm
<1>9. ASSUME NEW k \in Pids, task'[k] # Free, task'[k].clone # NoProcess
      PROVE  <<task'[k].clone, Process(k)'>> \in lineage'
  <2>1. k # c /\ task[k] # Free  BY <1>3, <1>9 DEF SameLife
  <2>2. task[k].tgid \in Pids /\ task[task[k].tgid] # Free  BY <1>2, <2>1 DEF TaskInv, TaskRec, TaskOK
  <2>3. task[k].tgid # c  BY <1>4, <2>2
  <2>4. task'[k].tgid = task[k].tgid /\ task'[task[k].tgid].birth = task[task[k].tgid].birth
    BY <1>3, <2>1, <2>2, <2>3 DEF SameLife
  <2>5. CASE k # t
    <3>1. task'[k].clone = task[k].clone  BY <1>3, <2>1, <2>5
    <3> QED  BY <1>2, <1>4, <1>8, <1>9, <2>1, <2>4, <3>1, ClonesKept
  <2>6. CASE k = t
    <3>1. task'[k].clone = <<c, now>>  BY <1>3, <1>9, <2>6
    <3>2. Process(k)' = Process(t)  BY <2>4, <2>6 DEF Process
    <3> QED  BY <1>4, <3>1, <3>2
  <2> QED  BY <2>5, <2>6
<1>10. LineStep(ev)  BY <1>4, <1>5, <1>7, <1>8, <1>9 DEF LineStep
<1> QED  BY <1>10

\* Steps that start no task.
LEMMA LineOther ==
  ASSUME BaseInv, LineInv, upsets = {}, UNCHANGED <<vars, attrib, lineage>>,
         NEW ev, ring' = ring \/ ring' = Append(ring, ev),
         ev.child # 0 => <<ev.child_process, ev.process>> \in lineage,
         TaskInv',
         \A k \in Pids : task'[k] # Free =>
           /\ task[k] # Free /\ task'[k].tgid = task[k].tgid /\ task'[k].birth = task[k].birth
           /\ task'[k].clone \in {NoProcess, task[k].clone}
  PROVE  LineStep(ev)
<1>1. TaskInv /\ lineage' = lineage  BY DEF BaseInv
<1>2. ASSUME NEW k \in Pids, task'[k] # Free, task'[k].clone # NoProcess
      PROVE  <<task'[k].clone, Process(k)'>> \in lineage'
  <2>1. task[k].tgid \in Pids /\ task'[k].tgid = task[k].tgid
    BY <1>1, <1>2 DEF TaskInv, TaskRec
  <2>2. task'[task[k].tgid] # Free  BY <1>2, <2>1 DEF TaskInv, TaskOK
  <2>3. task'[task[k].tgid].birth = task[task[k].tgid].birth  BY <2>1, <2>2
  <2>4. task[k] # Free /\ task'[k].clone \in {NoProcess, task[k].clone}  BY <1>2
  <2> QED  BY <1>1, <1>2, <2>1, <2>3, <2>4, ClonesKept
<1> QED  BY <1>1, <1>2 DEF LineStep

LEMMA LineUndisturbed ==
  ASSUME BaseInv, CalmInv, LineInv, TaskNext, upsets' = {}
  PROVE  \E ev : LineStep(ev)
<1>1. PICK t \in Pids : \/ \E c \in Pids : Fork(t, c) \/ NewThread(t, c)
                        \/ \E x \in Exes : Exec(t, x)
                        \/ CloneReturn(t) \/ Exit(t) \/ Reap(t) \/ Activity(t)
  BY DEF TaskNext
<1>2. TaskInv  BY DEF BaseInv
<1>3. TaskInv'  BY TaskBase DEF BaseInv
<1> DEFINE Steady == \A k \in Pids : task'[k] # Free =>
             /\ task[k] # Free /\ task'[k].tgid = task[k].tgid /\ task'[k].birth = task[k].birth
             /\ task'[k].clone \in {NoProcess, task[k].clone}
<1>4. ASSUME NEW kind, NEW ev, NEW upset, Emit(kind, ev, upset), UNCHANGED <<vars, attrib, lineage>>,
             ev.child # 0 => <<ev.child_process, ev.process>> \in lineage, Steady
      PROVE  \E e : LineStep(e)
  <2>1. upsets = {} /\ (ring' = ring \/ ring' = Append(ring, ev))  BY <1>4, EmitCalm
  <2>2. LineStep(ev)  BY <1>3, <1>4, <2>1, LineOther
  <2> QED  BY <2>2
<1>5. ASSUME NEW c \in Pids, NewThread(t, c) PROVE FALSE
  <2>1. PICK probed \in BOOLEAN : NewTask(t, c, task[t].tgid, probed, {"thread"})
    BY <1>5 DEF NewThread
  <2>2. Emit("fork", StartEvent(t, <<c, clock'>>), {"thread"})  BY <2>1 DEF NewTask
  <2> QED  BY <2>2 DEF Emit
<1>6. ASSUME NEW x \in Exes, Exec(t, x) PROVE \E ev : LineStep(ev)
  <2>1. /\ task[t] # Free /\ \A k \in Pids : SameLife(k)
        /\ \A k \in Pids : task[k] # Free => task'[k].clone \in {NoProcess, task[k].clone}
    BY <1>2, <1>6, ExecStep
  <2>2. Tick /\ Emit("exec", ExecEvent(t, x), {}) /\ UNCHANGED <<vars, attrib, lineage>>
    BY <1>6 DEF Exec
  <2>3. ExecEvent(t, x).child = 0  BY <1>2, <2>1, <2>2, EventsMade
  <2>4. Steady  BY <2>1 DEF SameLife
  <2> QED  BY <1>4, <2>2, <2>3, <2>4
<1>7. CASE CloneReturn(t)
  <2> DEFINE q == task[t].clone
             u == IF Alive(q[1]) /\ task[q[1]].birth = q[2] THEN {} ELSE {"late"}
             ev == StartEvent(t, q)
  <2>1. /\ task[t] # Free /\ q \in Names /\ q[1] # task[t].tgid /\ q[2] <= clock'
        /\ \A k \in Pids : SameLife(k)
        /\ \A k \in Pids : task[k] # Free => task'[k].clone \in {NoProcess, task[k].clone}
    BY <1>2, <1>7, CloneReturnStep
  <2>2. Tick /\ Emit("clone", ev, u) /\ UNCHANGED <<vars, attrib, lineage>> /\ q # NoProcess
    BY <1>7 DEF CloneReturn
  <2>3. ev.process = Process(t) /\ ev.child_process = q  BY <1>2, <2>1, <2>2, EventsMade
  <2> HIDE DEF ev, u
  <2>4. upsets = {}  BY <2>2, EmitCalm
  <2>5. <<q, Process(t)>> \in lineage  BY <2>1, <2>2, <2>4 DEF LineInv
  <2>6. Steady  BY <2>1 DEF SameLife
  <2> QED  BY <1>4, <2>2, <2>3, <2>5, <2>6
<1>8. CASE Exit(t)
  <2>1. /\ task[t] # Free
        /\ \A k \in Pids \ {t} : task'[k] = task[k]
        /\ task'[t] # Free => /\ task'[t].tgid = task[t].tgid
                              /\ task'[t].birth = task[t].birth /\ task'[t].clone = task[t].clone
    BY <1>2, <1>8, ExitStep
  <2>2. Tick /\ Emit("exit", ExitEvent(t), {}) /\ UNCHANGED <<vars, attrib, lineage>>
    BY <1>8 DEF Exit
  <2>3. ExitEvent(t).child = 0  BY <1>2, <2>1, <2>2, EventsMade
  <2>4. Steady  BY <2>1
  <2> QED  BY <1>4, <2>2, <2>3, <2>4
<1>9. CASE Reap(t)
  <2>1. task'[t] = Free /\ \A k \in Pids \ {t} : task'[k] = task[k]  BY <1>2, <1>9, ReapStep
  <2>2. Steady  BY <2>1
  <2>3. UNCHANGED <<vars, attrib, lineage>> /\ ring' = ring /\ upsets = {}  BY <1>9 DEF Reap
  <2>4. PICK ev : ev = [child |-> 0]  OBVIOUS
  <2>5. ev.child = 0  BY <2>4
  <2>6. LineStep(ev)  BY <1>3, <2>2, <2>3, <2>5, LineOther
  <2> QED  BY <2>6
<1>10. CASE Activity(t)
  <2>1. /\ Tick /\ Emit("activity", Blank(t), {}) /\ UNCHANGED <<vars, attrib, lineage>>
        /\ task' = task /\ task[t] # Free
    BY <1>10 DEF Activity, Ready, Alive
  <2>2. Blank(t).child = 0  BY <1>2, <2>1, EventsMade
  <2>3. Steady  BY <2>1
  <2> QED  BY <1>4, <2>1, <2>2, <2>3
<1> QED  BY <1>1, <1>5, <1>6, <1>7, <1>8, <1>9, <1>10, LineFork

LEMMA LineConsume ==
  ASSUME BaseInv, CalmInv, LineInv, Consume
  PROVE  LineInv'
<1> SUFFICES ASSUME upsets' = {} PROVE LineInv'  BY DEF LineInv
<1> DEFINE ev == Head(ring)
           s == refs'.subject
<1>1. /\ attrib' = attrib \cup Reported(ev) /\ task' = task /\ lineage' = lineage /\ upsets = {}
      /\ ev.child \in Pids \cup {0}
  BY HeadFacts
<1>2. /\ Inv' /\ Effect(ev, ProcAll, s, After)
      /\ \A a \in Reported(ev) : a[2] \in 1 .. (next_id' - 1)
  BY ReportedFacts
<1>3. /\ 1 \in DOMAIN ring /\ ring[1] = ev
      /\ \A i \in DOMAIN ring' : i + 1 \in DOMAIN ring /\ ring'[i] = ring[i + 1]
  BY TailRing
<1>4. /\ \A t \in Pids : task[t] # Free /\ task[t].clone # NoProcess =>
           <<task[t].clone, Process(t)>> \in lineage
      /\ \A i \in DOMAIN ring : ring[i].child # 0 =>
           <<ring[i].child_process, ring[i].process>> \in lineage
      /\ LineageTrue
  BY <1>1 DEF LineInv
<1>5. \A a, b \in attrib' : a[2] = b[2] => a[1] = b[1]
  <2>1. CalmInv'  BY CalmConsume
  <2> QED  BY <2>1 DEF CalmInv, Shared
<1>6. LineageTrue'
  <2>1. ASSUME NEW a \in attrib', a[2] \in DOMAIN processes_by_id', processes_by_id'[a[2]].parent # 0
        PROVE  \E l \in lineage : l[1] = a[1] /\ <<l[2], processes_by_id'[a[2]].parent>> \in attrib'
    <3> DEFINE i == a[2]
               n == processes_by_id'[i].parent
    <3>1. \/ i \in DOMAIN processes_by_id /\ n = processes_by_id[i].parent
          \/ ev.child # 0 /\ tgid_index'[ev.child] = i /\ n = s
      BY <1>2, <2>1 DEF Effect, ParentOK, After
    <3>2. CASE i \in DOMAIN processes_by_id /\ n = processes_by_id[i].parent
      <4>1. PICK b \in attrib : b[2] = i  BY <3>2 DEF BaseInv, AttribInv
      <4>2. \E l \in lineage : l[1] = b[1] /\ <<l[2], n>> \in attrib
        BY <1>1, <1>4, <2>1, <3>2, <4>1 DEF LineageTrue
      <4>3. b[1] = a[1]  BY <1>1, <1>5, <4>1
      <4> QED  BY <1>1, <4>2, <4>3
    <3>3. CASE ev.child # 0 /\ tgid_index'[ev.child] = i /\ n = s
      <4>1. i # 0
        <5>1. i \in 1 .. (next_id' - 1) /\ next_id' \in Nat  BY <1>2, <2>1 DEF Inv, TypeOK
        <5> QED  BY <5>1
      <4>2. Reported(ev) = {<<ev.process, s>>, <<ev.child_process, i>>}
        BY <3>3, <4>1 DEF Reported
      <4>3. PICK b : b = <<ev.child_process, i>>  OBVIOUS
      <4>4. b \in attrib' /\ b[1] = ev.child_process /\ b[2] = i  BY <1>1, <4>2, <4>3
      <4>5. a[1] = ev.child_process  BY <1>5, <4>4
      <4>6. PICK l : l = <<ev.child_process, ev.process>>  OBVIOUS
      <4>7. l \in lineage /\ l[1] = a[1] /\ l[2] = ev.process  BY <1>3, <1>4, <3>3, <4>5, <4>6
      <4>8. <<l[2], n>> \in attrib'  BY <1>1, <3>3, <4>2, <4>7
      <4> QED  BY <4>7, <4>8
    <3> QED  BY <3>1, <3>2, <3>3
  <2> HIDE DEF ev, s
  <2> QED  BY <1>1, <2>1 DEF LineageTrue
<1>7. \A i \in DOMAIN ring' : ring'[i].child # 0 =>
        <<ring'[i].child_process, ring'[i].process>> \in lineage'
  BY <1>1, <1>3, <1>4
<1>8. \A t \in Pids : task'[t] # Free /\ task'[t].clone # NoProcess =>
        <<task'[t].clone, Process(t)'>> \in lineage'
  BY <1>1, <1>4 DEF Process
<1> QED  BY <1>6, <1>7, <1>8 DEF LineInv

LEMMA LineNext ==
  ASSUME "exit" \in Probes, BaseInv, CalmInv, LineInv, [TelemetryNext]_allVars
  PROVE  LineInv'
<1>1. CASE TaskNext
  <2> SUFFICES ASSUME upsets' = {} PROVE LineInv'  BY DEF LineInv
  <2>1. PICK ev : LineStep(ev)  BY <1>1, LineUndisturbed
  <2> QED  BY <2>1, LineTask
<1>2. CASE Consume  BY <1>2, LineConsume
<1>3. CASE UNCHANGED allVars
  BY <1>3 DEF allVars, osVars, vars, LineInv, LineageTrue, Process
<1> QED  BY <1>1, <1>2, <1>3, NextCases

\* When exits are traced, the parent the registry records for a process is the
\* process that forked it, unless a thread, a loss or a late clone return upsets it.
THEOREM TelemetryLineageTrue ==
  ASSUME "exit" \in Probes
  PROVE  TelemetrySpec => []LineageTrue
<1> DEFINE I == BaseInv /\ CalmInv /\ LineInv
<1>1. TelemetryInit => I
  <2>1. TelemetryInit => LineInv
    <3> SUFFICES ASSUME TelemetryInit PROVE LineInv  OBVIOUS
    <3>1. /\ ring = <<>> /\ attrib = {}
          /\ \A t \in Pids : task[t] = IF t = 1 THEN [tgid |-> 1, birth |-> 1, exe |-> "sh",
                                                      state |-> "running", clone |-> NoProcess]
                                       ELSE Free
      BY DEF TelemetryInit
    <3>2. \A t \in Pids : task[t] # Free => task[t].clone = NoProcess  BY <3>1
    <3> QED  BY <3>1, <3>2 DEF LineInv, LineageTrue
  <2> QED  BY <2>1, BaseInit, CalmInit
<1>2. I /\ [TelemetryNext]_allVars => I'  BY BaseStep, CalmNext, LineNext
<1>3. I => LineageTrue  BY DEF LineInv, LineageTrue
<1> QED  BY <1>1, <1>2, <1>3, PTL DEF TelemetrySpec
=============================================================================
