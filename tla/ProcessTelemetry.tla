-------------------------- MODULE ProcessTelemetry --------------------------
(***************************************************************************)
(* Process identity end to end: Linux tasks, the process probes of         *)
(* bpf/event_logger_process.bpf.c, the ring buffer between kernel and user *)
(* space, and the EntityRegistry that consumes it.                         *)
(*                                                                         *)
(* A probe records an event when it fires; user space handles it later, in *)
(* order, and only then looks at /proc.  By that time the process may have *)
(* exited or exec'ed and its pid may have a new owner.  sched_process_fork *)
(* fires before the child runs, but sys_exit_clone fires when the parent   *)
(* returns, which can be after the child has exited; sched_process_exit    *)
(* fires for every thread.  An event that finds the ring full is lost.     *)
(* All tasks are in one pid namespace.                                     *)
(***************************************************************************)
EXTENDS EntityRegistry, Sequences

CONSTANTS
  Probes,         \* enabled kinds among exec, fork, exit, clone, activity
  RingSlots,      \* events the ring buffer can hold
  MaxClock        \* bound on the clock, for model checking only

ASSUME TelemetryAssumption ==
  /\ Probes \subseteq {"exec", "fork", "exit", "clone", "activity"}
  /\ RingSlots \in Nat \ {0} /\ MaxClock \in Nat \ {0}
  /\ "sh" \in Exes
  /\ 0 .. MaxClock \subseteq Times /\ 1 .. MaxClock \subseteq Ticks

VARIABLES
  clock,    \* one tick per kernel step; timestamps and start times are read off it
  task,     \* tid -> task, or Free
  ring,     \* events submitted and not yet consumed
  lineage,  \* history: <<child process, its real parent process>>
  attrib,   \* history: <<process, id>> pairs the registry has reported
  upsets    \* history: which of "loss", "thread" and "late" have happened

osVars == <<clock, task, ring, lineage, attrib, upsets>>
allVars == <<vars, osVars>>

Free == [tgid |-> 0]

NoProcess == <<0, 0>>

\* A process is named by its tgid and the start time of its leader.
Process(t) == <<task[t].tgid, task[task[t].tgid].birth>>

Alive(t) == task[t] # Free /\ task[t].state = "running"
Threads(g) == {t \in Pids : Alive(t) /\ task[t].tgid = g}

TelemetryInit ==
  /\ Init
  /\ clock = 1
  /\ task = [t \in Pids |-> IF t = 1 THEN [tgid |-> 1, birth |-> 1, exe |-> "sh",
                                           state |-> "running", clone |-> NoProcess]
                            ELSE Free]
  /\ ring = <<>>
  /\ lineage = {}
  /\ attrib = {}
  /\ upsets = {}

-----------------------------------------------------------------------------
(* The probes.                                                             *)

Tick == clock < MaxClock /\ clock' = clock + 1

\* The record as fill_header and reserve_process_event leave it.  process and
\* child_process name the real processes, for the properties only.
Blank(t) == [action |-> "other", actor |-> [pid |-> t, tgid |-> task[t].tgid], child |-> 0,
             ts |-> clock', outcome |-> 0, hint |-> NoExe,
             process |-> Process(t), child_process |-> NoProcess]

ExecEvent(t, x) == [Blank(t) EXCEPT !.action = "execed", !.hint = x]
ExitEvent(t) == [Blank(t) EXCEPT !.action = "exited", !.outcome = 1]
StartEvent(t, c) == [Blank(t) EXCEPT !.action = "started", !.child = c[1], !.child_process = c]

\* The reservation fails, and the event is lost, when the ring is full.  upset
\* is what else there is to note about the step.
Emit(kind, ev, upset) ==
  LET on   == kind \in Probes
      full == Len(ring) = RingSlots
  IN  /\ ring' = IF on /\ ~full THEN Append(ring, ev) ELSE ring
      /\ upsets' = upsets \cup upset \cup (IF on /\ full THEN {"loss"} ELSE {})

\* A task can act unless it is still inside clone.
Ready(t) == Alive(t) /\ task[t].clone = NoProcess

-----------------------------------------------------------------------------
(* Tasks.                                                                  *)

\* A new task c of process tgid; sched_process_fork fires.  A call other than
\* fork(2) has a return probe, and t stays inside it until CloneReturn.
NewTask(t, c, tgid, probed, upset) ==
  /\ Ready(t) /\ task[c] = Free
  /\ probed => "clone" \in Probes
  /\ Tick
  /\ task' = [task EXCEPT ![c] = [tgid |-> tgid, birth |-> clock', exe |-> task[t].exe,
                                  state |-> "running", clone |-> NoProcess],
                          ![t].clone = IF probed THEN <<c, clock'>> ELSE NoProcess]
  /\ Emit("fork", StartEvent(t, <<c, clock'>>), upset)
  /\ lineage' = IF tgid = c THEN lineage \cup {<<<<c, clock'>>, Process(t)>>} ELSE lineage
  /\ UNCHANGED <<vars, attrib>>

Fork(t, c) == \E probed \in BOOLEAN : NewTask(t, c, c, probed, {})
NewThread(t, c) == \E probed \in BOOLEAN : NewTask(t, c, task[t].tgid, probed, {"thread"})

\* sys_exit_clone, sys_exit_clone3 or sys_exit_vfork in the parent, which is
\* late when the child has already exited.  The probe takes the child's pid from the
\* return value, a number of the caller's pid namespace, where fork and exit have
\* the global one: the module has one namespace, in which they are the same.
CloneReturn(t) ==
  LET c == task[t].clone
  IN  /\ Alive(t) /\ c # NoProcess
      /\ Tick
      /\ task' = [task EXCEPT ![t].clone = NoProcess]
      /\ Emit("clone", StartEvent(t, c),
              IF Alive(c[1]) /\ task[c[1]].birth = c[2] THEN {} ELSE {"late"})
      /\ UNCHANGED <<vars, lineage, attrib>>

\* execve by the only thread of a process; sched_process_exec fires.
Exec(t, x) ==
  /\ Ready(t) /\ Threads(task[t].tgid) = {t} /\ task[t].tgid = t
  /\ x # task[t].exe
  /\ Tick
  /\ task' = [task EXCEPT ![t].exe = x]
  /\ Emit("exec", ExecEvent(t, x), {})
  /\ UNCHANGED <<vars, lineage, attrib>>

\* sched_process_exit fires for every thread.  A leader stays as a zombie.
Exit(t) ==
  /\ Ready(t)
  /\ Tick
  /\ task' = [task EXCEPT ![t] = IF @.tgid = t THEN [@ EXCEPT !.state = "zombie"] ELSE Free]
  /\ Emit("exit", ExitEvent(t), {})
  /\ UNCHANGED <<vars, lineage, attrib>>

\* The parent waits for a finished process; its pid is free again.
Reap(t) ==
  /\ task[t] # Free /\ task[t].state = "zombie" /\ Threads(t) = {}
  /\ task' = [task EXCEPT ![t] = Free]
  /\ UNCHANGED <<vars, clock, ring, lineage, attrib, upsets>>

\* Any other probed activity, a clone that returns 0 in the child included: a start
\* without a child is to the registry what any other event is.
Activity(t) ==
  /\ Ready(t)
  /\ Tick
  /\ Emit("activity", Blank(t), {})
  /\ UNCHANGED <<vars, task, lineage, attrib>>

-----------------------------------------------------------------------------
(* User space: one event through the registry, with /proc as it is now.    *)

ProcNow(k) ==
  IF task[k] = Free THEN [check |-> 0, start |-> 0, exe |-> NoExe]
  ELSE [check |-> task[k].birth, start |-> task[k].birth,
        exe |-> IF task[k].state = "running" THEN task[k].exe ELSE NoExe]

Consume ==
  /\ ring # <<>>
  /\ ring' = Tail(ring)
  /\ LET ev == Head(ring)
     IN  /\ Ingest(ev, [k \in Pids |-> ProcNow(k)])
         /\ attrib' = attrib \cup {<<ev.process, refs'.subject>>}
                             \cup (IF ev.child = 0 \/ tgid_index'[ev.child] = 0 THEN {}
                                   ELSE {<<ev.child_process, tgid_index'[ev.child]>>})
  /\ UNCHANGED <<clock, task, lineage, upsets>>

TelemetryNext ==
  \/ \E t \in Pids : \/ \E c \in Pids : Fork(t, c) \/ NewThread(t, c)
                     \/ \E x \in Exes : Exec(t, x)
                     \/ CloneReturn(t) \/ Exit(t) \/ Reap(t) \/ Activity(t)
  \/ Consume

TelemetrySpec == TelemetryInit /\ [][TelemetryNext]_allVars

-----------------------------------------------------------------------------
(* Properties.                                                             *)

Shared(a, b) == a[2] = b[2] /\ a[1] # b[1]

\* An id is never shared: all that the registry reports under one id is about
\* one process, however late it hears of it and whoever owns the pid by then.
\* Threads (each becomes an entity that no exit retires), losses and late clone
\* returns are excluded.
IdNamesOneProcess == upsets = {} => \A a, b \in attrib : ~Shared(a, b)

\* entity_registry.h on identity: "reusing a tgid after the original process exits
\* produces a *new* entity", for processes of one thread whose events all arrive.
ReuseGetsNewId == upsets \cap {"thread", "loss"} = {} => \A a, b \in attrib : ~Shared(a, b)

Living(p) == /\ task[p[1]] # Free /\ task[p[1]].tgid = p[1]
             /\ task[p[1]].birth = p[2] /\ task[p[1]].state = "running"

Split(a, b) == a[1] = b[1] /\ Living(a[1]) /\ a[2] # b[2]

\* The ids handed out so far fit under the cap, so that nothing has been evicted.
Roomy == next_id - 1 <= kMaxEntries

\* A process has one id for as long as it lives, under the same conditions and
\* until the registry is full: a thread's exit would retire it, eviction would
\* forget it, and a stale entity of an earlier owner, found out only after
\* kIdentityCheckNs, would lend it an id first.
LivingHasOneId == upsets = {} /\ Roomy => \A a, b \in attrib : ~Split(a, b)

\* docs/verification-checklist.md: "each tgid (of a still-living process) maps to
\* exactly one entity_id", for a system whose events all arrive.
TgidMapsToOneId == "loss" \notin upsets => \A a, b \in attrib : ~Split(a, b)

\* Different tgids never share an id, with threads, late clone returns and lost
\* events included.
DistinctTgids == \A a, b \in attrib : a[2] = b[2] => a[1][1] = b[1][1]

\* The recorded parent of a process is the process that forked it, under the
\* same conditions as IdNamesOneProcess.
LineageTrue ==
  upsets = {} =>
    \A a \in attrib :
      LET e == processes_by_id[a[2]]
      IN  a[2] \in DOMAIN processes_by_id /\ e.parent # 0 =>
            \E l \in lineage : l[1] = a[1] /\ <<l[2], e.parent>> \in attrib
=============================================================================
