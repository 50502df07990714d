--------------------------- MODULE EntityRegistry ---------------------------
(***************************************************************************)
(* The process entity registry (src/registry/entity_registry.{h,cpp}).     *)
(*                                                                         *)
(* The registry gives every process instance it hears about an id, keeps   *)
(* an index from the live tgid to that id, notices exits and tgid reuse,   *)
(* and evicts the least recently seen entity past kMaxEntries.  It runs on *)
(* one thread, so one Ingest call is one step.  What it cannot control is  *)
(* an input: the event, whose timestamp may be older than one already      *)
(* seen (events of different CPUs), and what /proc says at that moment,    *)
(* which may be about no process or about a later owner of the pid.        *)
(*                                                                         *)
(* A registry value is the record r = [procs, index, next] of the three    *)
(* members; the operators are the member functions.  Ties in the eviction  *)
(* scan are broken by hash order, so the operators that may evict return   *)
(* the set of possible results.                                            *)
(***************************************************************************)
EXTENDS Integers, FiniteSets

CONSTANTS
  Pids,              \* nonzero pid/tgid values; 0 means "none", as in the code
  Exes, NoExe,       \* executable paths, and the empty string
  Ticks,             \* nonzero /proc start times; 0 means unreadable
  Times,             \* event timestamps (ts_ns)
  Word,              \* the modulus of uint64_t
  kMaxEntries,       \* cap on retained entities
  kIdentityCheckNs,  \* spacing of the /proc identity checks
  Actors,            \* header identities [pid, tgid] an event can carry
  Snapshots,         \* what /proc/<pid> can answer, see Snapshot
  MaxIds             \* bound on next_id, for model checking only

\* check: start time read by IsReused.  start, exe: read later by RefreshRich,
\* in the same call but possibly after the process has gone.
Snapshot == [check : Ticks \cup {0}, start : Ticks \cup {0}, exe : Exes \cup {NoExe}]

Actor == [pid : Pids \cup {0}, tgid : Pids \cup {0}]

ASSUME PidsAssumption == Pids \subseteq Nat \ {0}
ASSUME ExesAssumption == NoExe \notin Exes
ASSUME TicksAssumption == Ticks \subseteq Nat \ {0}
ASSUME TimesAssumption == Times \subseteq Nat
ASSUME BoundsAssumption == /\ Word \in Nat \ {0}
                           /\ kMaxEntries \in Nat \ {0}
                           /\ kIdentityCheckNs \in Nat
                           /\ MaxIds \in Nat
ASSUME ActorsAssumption == Actors \subseteq Actor
ASSUME SnapshotsAssumption == Snapshots \subseteq Snapshot

VARIABLES
  processes_by_id,   \* id -> entity, for the ids that are retained
  tgid_index,        \* tgid -> id of its live entity, 0 when there is none
  next_id,
  refs               \* what the last Ingest wrote into its event

vars == <<processes_by_id, tgid_index, next_id, refs>>

-----------------------------------------------------------------------------
(* State.                                                                  *)

Entity == [pid : Pids \cup {0}, tgid : Pids \cup {0}, exe : Exes \cup {NoExe},
           start : Ticks \cup {0}, parent : Nat, last_seen : Times, last_check : Times,
           exited : BOOLEAN, exit_code : Int]

Registry == [procs |-> processes_by_id, index |-> tgid_index, next |-> next_id]

\* Fault: a thread is taken for a process.
KeyPidFirst(a) == IF a.pid # 0 THEN a.pid ELSE a.tgid

\* The key of an actor, and of the entity that carries an actor's fields.
Key(a) == IF a.tgid # 0 THEN a.tgid ELSE a.pid

Put(procs, id, e) == [i \in DOMAIN procs \cup {id} |-> IF i = id THEN e ELSE procs[i]]

WithEntity(r, id, e) == [procs |-> Put(r.procs, id, e), index |-> r.index, next |-> r.next]

Drop(procs, id) == [i \in DOMAIN procs \ {id} |-> procs[i]]

-----------------------------------------------------------------------------
(* One entity.                                                             *)

\* Fault: only the time is brought up to date.
UpdateFastSeenOnly(e, a, now) == [e EXCEPT !.last_seen = now]

UpdateFast(e, a, now) == [e EXCEPT !.pid = a.pid, !.tgid = a.tgid, !.last_seen = now]

\* Fault: a start time that is known is read again.
RefreshRichRereads(e, snap) ==
  [e EXCEPT !.exe = IF snap.exe # NoExe THEN snap.exe ELSE @, !.start = snap.start]

RefreshRich(e, snap) ==
  [e EXCEPT !.exe = IF snap.exe # NoExe THEN snap.exe ELSE @,
            !.start = IF @ = 0 THEN snap.start ELSE @]

\* uint64_t subtraction: a timestamp before the last check wraps to a huge gap.
CheckDue(e, now) == e.start # 0 /\ (now - e.last_check) % Word >= kIdentityCheckNs

\* The entity as IsReused leaves it, and what IsReused returns.
Checked(e, now) == IF CheckDue(e, now) THEN [e EXCEPT !.last_check = now] ELSE e

\* Fault: any readable start time counts as another process.
IsReusedAnyStart(e, now, snap) == CheckDue(e, now) /\ snap.check # 0

IsReused(e, now, snap) == CheckDue(e, now) /\ snap.check # 0 /\ snap.check # e.start

-----------------------------------------------------------------------------
(* The registry's member functions.                                        *)

\* Fault: the index entry is left behind.
RetireIndexForgets(index, key, id) == index

RetireIndex(index, key, id) == IF index[key] = id THEN [index EXCEPT ![key] = 0] ELSE index

MarkExited(r, id, code) ==
  IF id \notin DOMAIN r.procs
  THEN r
  ELSE [procs |-> Put(r.procs, id, [r.procs[id] EXCEPT !.exited = TRUE, !.exit_code = code]),
        index |-> RetireIndex(r.index, Key(r.procs[id]), id),
        next  |-> r.next]

\* Fault: the comparison of the scan is turned round.
MostRecentlySeen(procs) ==
  {v \in DOMAIN procs : \A i \in DOMAIN procs : procs[v].last_seen >= procs[i].last_seen}

LeastRecentlySeen(procs) ==
  {v \in DOMAIN procs : \A i \in DOMAIN procs : procs[v].last_seen <= procs[i].last_seen}

\* Fault: eviction erases the entity and not its index entry.
EvictKeepsIndex(r, v) == [procs |-> Drop(r.procs, v), index |-> r.index, next |-> r.next]

Evict(r, v) == [procs |-> Drop(r.procs, v),
                index |-> RetireIndex(r.index, Key(r.procs[v]), v),
                next  |-> r.next]

\* Fault: off by one at the cap.
EvictIfNeededLate(r) ==
  IF Cardinality(DOMAIN r.procs) <= kMaxEntries + 1
  THEN {r}
  ELSE {Evict(r, v) : v \in LeastRecentlySeen(r.procs)}

EvictIfNeeded(r) ==
  IF Cardinality(DOMAIN r.procs) <= kMaxEntries
  THEN {r}
  ELSE {Evict(r, v) : v \in LeastRecentlySeen(r.procs)}

NewEntity(a, now, snap) ==
  RefreshRich([pid |-> a.pid, tgid |-> a.tgid, exe |-> NoExe, start |-> 0, parent |-> 0,
               last_seen |-> now, last_check |-> now, exited |-> FALSE, exit_code |-> 0], snap)

\* Fault: next_id_ is used and not advanced.
CreateProcessSameId(r, a, now, snap) ==
  {[reg |-> s, id |-> r.next] :
     s \in EvictIfNeeded([procs |-> Put(r.procs, r.next, NewEntity(a, now, snap)),
                          index |-> [r.index EXCEPT ![Key(a)] = r.next],
                          next  |-> r.next])}

CreateProcess(r, a, now, snap) ==
  {[reg |-> s, id |-> r.next] :
     s \in EvictIfNeeded([procs |-> Put(r.procs, r.next, NewEntity(a, now, snap)),
                          index |-> [r.index EXCEPT ![Key(a)] = r.next],
                          next  |-> r.next + 1])}

\* The indexed entity is still the actor's process: refresh it in place.
Refreshed(e, a, now, rich, snap) ==
  LET f == UpdateFast(Checked(e, now), a, now)
  IN  IF rich THEN RefreshRich(f, snap) ELSE f

\* The indexed entity's tgid has a new owner: retire the entity.
Retired(r, id, now) ==
  MarkExited(WithEntity(r, id, Checked(r.procs[id], now)), id, 0)

ResolveProcess(r, a, now, rich, snaps) ==
  LET key  == Key(a)
      id   == r.index[key]
      snap == snaps[key]
  IN  IF key = 0 THEN {[reg |-> r, id |-> 0]}
      ELSE IF id = 0 THEN CreateProcess(r, a, now, snap)
      ELSE IF id \notin DOMAIN r.procs
           THEN CreateProcess([r EXCEPT !.index[key] = 0], a, now, snap)
      ELSE IF IsReused(r.procs[id], now, snap)
           THEN CreateProcess(Retired(r, id, now), a, now, snap)
      ELSE {[reg |-> WithEntity(r, id, Refreshed(r.procs[id], a, now, rich, snap)), id |-> id]}

\* Fault: child and parent are swapped.
SetParentSwapped(r, id, parentId) ==
  IF parentId \in DOMAIN r.procs
  THEN WithEntity(r, parentId, [r.procs[parentId] EXCEPT !.parent = id])
  ELSE r

\* lineage: the child keeps the first parent it was given.
SetParent(r, id, parentId) ==
  IF id \in DOMAIN r.procs /\ r.procs[id].parent = 0
  THEN WithEntity(r, id, [r.procs[id] EXCEPT !.parent = parentId])
  ELSE r

ResolveChild(r, child, parentId, now, snaps) ==
  {[reg |-> SetParent(s.reg, s.id, parentId), id |-> s.id] :
     s \in ResolveProcess(r, [pid |-> child, tgid |-> child], now, TRUE, snaps)}

\* the exec path captured in the kernel, used when the entity has none.
ApplyHint(r, id, hint) ==
  IF hint # NoExe /\ id \in DOMAIN r.procs /\ r.procs[id].exe = NoExe
  THEN WithEntity(r, id, [r.procs[id] EXCEPT !.exe = hint])
  ELSE r

\* The action-specific part of Ingest.
Effects(s, ev, snaps) ==
  IF ev.action = "exited"
  THEN {[reg |-> MarkExited(s.reg, s.id, ev.outcome), id |-> 0]}
  ELSE IF ev.action = "started" /\ ev.child # 0
  THEN ResolveChild(s.reg, ev.child, s.id, ev.ts, snaps)
  ELSE {[reg |-> s.reg, id |-> 0]}

Ingest(ev, snaps) ==
  \E s \in ResolveProcess(Registry, ev.actor, ev.ts, ev.action = "execed", snaps) :
  \E t \in Effects(s, ev, snaps) :
    LET r == ApplyHint(t.reg, s.id, ev.hint)
    IN  /\ processes_by_id' = r.procs
        /\ tgid_index' = r.index
        /\ next_id' = r.next
        /\ refs' = [actor |-> ev.actor, subject |-> s.id]

-----------------------------------------------------------------------------
(* The specification: any event a normalizer can hand over, any time.      *)

\* Canonical events.  Only a start carries a child, never the actor itself,
\* only an exec a path, only an exit an outcome the registry looks at (1, to be
\* told from the 0 that a retired entity gets).
Event == [action : {"started", "execed", "exited", "other"}, actor : Actors,
          child : Pids \cup {0}, ts : Times, outcome : {0, 1}, hint : Exes \cup {NoExe}]

Events == {ev \in Event : /\ ev.child # 0 => ev.action = "started" /\ ev.child # Key(ev.actor)
                          /\ ev.outcome # 0 <=> ev.action = "exited"
                          /\ ev.hint # NoExe => ev.action = "execed"}

Init ==
  /\ processes_by_id = [i \in {} |-> {}]
  /\ tgid_index = [k \in Pids |-> 0]
  /\ next_id = 1
  /\ refs = [actor |-> [pid |-> 0, tgid |-> 0], subject |-> 0]

Next ==
  /\ \E ev \in Events : \E snaps \in [{Key(ev.actor), ev.child} \ {0} -> Snapshots] :
       Ingest(ev, snaps)
  /\ next_id' <= MaxIds

Spec == Init /\ [][Next]_vars

-----------------------------------------------------------------------------
(* Properties.                                                             *)

\* The registry seen as a directory of ids.
Directory == INSTANCE ProcessDirectory WITH
               Keys <- Pids, current <- tgid_index, issued <- next_id - 1,
               answer <- [key |-> Key(refs.actor), id |-> refs.subject]

\* The registry implements the directory: whatever is reused, retired, evicted or
\* created twice inside one Ingest, an id is issued once, a tgid never gets back
\* an id it had before, and an event carries the id its own process has.
ImplementsDirectory == Directory!Spec

\* Type correctness: retained ids were all handed out by next_id_++.
TypeOK ==
  /\ next_id \in Nat \ {0}
  /\ DOMAIN processes_by_id \subseteq 1 .. (next_id - 1)
  /\ processes_by_id \in [DOMAIN processes_by_id -> Entity]
  /\ tgid_index \in [Pids -> 0 .. (next_id - 1)]
  /\ refs \in [actor : Actor, subject : 0 .. (next_id - 1)]

\* The two tables agree exactly: a tgid leads to a retained entity that has
\* not exited and whose own fields give that tgid back, and every retained
\* entity that has not exited is found through its tgid.  So a tgid has at
\* most one live entity, and the "dangling index entry" branch of
\* ResolveProcess is never taken.  MarkExited and EvictIfNeeded recompute the
\* key from the entity, after UpdateFast may have rewritten pid and tgid.
IndexExact ==
  /\ \A k \in Pids : tgid_index[k] # 0 =>
       /\ tgid_index[k] \in DOMAIN processes_by_id
       /\ ~processes_by_id[tgid_index[k]].exited
       /\ Key(processes_by_id[tgid_index[k]]) = k
  /\ \A i \in DOMAIN processes_by_id : ~processes_by_id[i].exited =>
       /\ Key(processes_by_id[i]) \in Pids
       /\ tgid_index[Key(processes_by_id[i])] = i

\* The cap on retained entities holds after every event, although one start
\* event can create two of them and each CreateProcess evicts at most one.
BoundedSize == Cardinality(DOMAIN processes_by_id) <= kMaxEntries

\* The process context the sink prints for an event (FindProcess of the
\* subject) carries the identity in that event's own header, although the
\* same Ingest may have gone on to rewrite other entities for the child.
ContextIsActors ==
  /\ refs.subject = 0 <=> Key(refs.actor) = 0
  /\ refs.subject \in DOMAIN processes_by_id =>
       /\ processes_by_id[refs.subject].pid = refs.actor.pid
       /\ processes_by_id[refs.subject].tgid = refs.actor.tgid

\* An entity that has exited is never touched again: no event of a later owner
\* of the tgid, no late fork notification and no exec hint changes it.
FrozenAfterExit ==
  [][\A i \in DOMAIN processes_by_id \cap DOMAIN processes_by_id' :
       processes_by_id[i].exited => processes_by_id'[i] = processes_by_id[i]]_vars

\* An id stands for one identity for ever: its tgid, a start time and a parent
\* once known never change, and an id that was evicted is not handed out again.
StableIdentity ==
  [][/\ \A i \in DOMAIN processes_by_id \cap DOMAIN processes_by_id' :
          LET e == processes_by_id[i]
              f == processes_by_id'[i]
          IN  /\ Key(f) = Key(e)
              /\ e.start # 0 => f.start = e.start
              /\ e.parent # 0 => f.parent = e.parent
     /\ \A i \in DOMAIN processes_by_id' : i \in DOMAIN processes_by_id \/ i >= next_id]_vars

\* Eviction happens only at the cap and only to the least recently seen: what
\* leaves the table, the event's own subject apart, was not seen after
\* anything that stays.
EvictionIsLRU ==
  [][\A i \in DOMAIN processes_by_id \ DOMAIN processes_by_id' :
       /\ Cardinality(DOMAIN processes_by_id') = kMaxEntries
       /\ i # refs'.subject =>
            \A j \in DOMAIN processes_by_id' :
              processes_by_id[i].last_seen <= processes_by_id'[j].last_seen]_vars
=============================================================================
