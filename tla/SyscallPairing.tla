--------------------------- MODULE SyscallPairing ---------------------------
(***************************************************************************)
(* Enter/exit correlation in the kernel programs                           *)
(* (bpf/event_logger_common.bpf.h and the handlers of the file, raw        *)
(* syscall and network objects).                                           *)
(*                                                                         *)
(* A sys_enter handler reserves a scratch ring buffer record, fills in the *)
(* arguments, saves them in an LRU hash map under (pid_tgid, kind) and     *)
(* discards the record; the sys_exit handler of the same key takes the     *)
(* saved arguments out, adds the return value and submits one event.  The  *)
(* three domains use the same protocol on a map each; this module is one   *)
(* domain.  A handler runs to completion on its CPU and its key belongs to *)
(* the current thread, so a handler is one step.  Around it, everything    *)
(* can go wrong: programs are attached one by one while the system runs    *)
(* and an attach may fail, the ring buffer may be full, the map may evict  *)
(* an entry, and some calls (exit_group) never return.                     *)
(***************************************************************************)
EXTENDS Integers, FiniteSets, Sequences

CONSTANTS
  Threads,     \* values of bpf_get_current_pid_tgid(); one may outlive its task
  Kinds,       \* event kinds, or syscall numbers in the raw syscall domain
  NoReturn,    \* the kinds whose call never reaches sys_exit under its key (exit_group)
  Enabled,     \* kinds whose probe toggle is on
  Suppressed,  \* threads of the engine itself (suppress_tgid)
  Programs,    \* attach order: a sequence of <<side, kind>>
  MapSize,     \* max_entries of the enter-state map
  MaxCalls     \* bound on the calls of a thread, for model checking only

Sides == {"enter", "exit"}
Keys == Threads \X Kinds
StatKeys == {"reserve_fail", "state_miss", "save_fail", "collision"}

ASSUME PairingAssumption ==
  /\ NoReturn \subseteq Kinds
  /\ Enabled \subseteq Kinds
  /\ Suppressed \subseteq Threads
  /\ Programs \in Seq(Sides \X Kinds)
  /\ MapSize \in Nat \ {0}
  /\ MaxCalls \in Nat

VARIABLES
  next_program,  \* how far the attach loop has come
  attached,      \* the programs it attached
  calls,         \* thread -> number of calls made
  running,       \* thread -> its call in progress, or Idle
  enter_state,   \* the LRU map: key -> number of the call whose arguments it holds
  stats,         \* bpf_stats
  emitted,       \* submitted events: whose return value with whose arguments
  early,         \* history: calls that entered before the exit program was attached
  lost           \* history: calls seen by both handlers and never emitted as themselves

vars == <<next_program, attached, calls, running, enter_state, stats, emitted, early, lost>>

Idle == [kind |-> "none", call |-> 0, seen |-> FALSE]

Init ==
  /\ next_program = 1
  /\ attached = {}
  /\ calls = [t \in Threads |-> 0]
  /\ running = [t \in Threads |-> Idle]
  /\ enter_state = [k \in {} |-> 0]
  /\ stats = [s \in StatKeys |-> 0]
  /\ emitted = {}
  /\ early = {}
  /\ lost = 0

-----------------------------------------------------------------------------
(* Start's attach loop: best effort, in program order.                     *)

AttachNext ==
  /\ next_program <= Len(Programs)
  /\ next_program' = next_program + 1
  /\ \/ attached' = attached \cup {Programs[next_program]}
     \/ attached' = attached
  /\ UNCHANGED <<calls, running, enter_state, stats, emitted, early, lost>>

-----------------------------------------------------------------------------
(* The handlers.                                                           *)

stat_inc(s) == stats' = [stats EXCEPT ![s] = @ + 1]

\* is_event_allowed and the probe toggle, of an attached program.
Handles(side, t, k) == <<side, k>> \in attached /\ t \notin Suppressed /\ k \in Enabled

Without(f, k) == [x \in DOMAIN f \ {k} |-> f[x]]

\* Fault: the map grows without limit.
UpdatedUncapped(f, k, v) == {[x \in DOMAIN f \cup {k} |-> IF x = k THEN v ELSE f[x]]}

\* bpf_map_update_elem on an LRU map: a full map drops some other entry.
Updated(f, k, v) ==
  LET With(g) == [x \in DOMAIN g \cup {k} |-> IF x = k THEN v ELSE g[x]]
  IN  IF Cardinality(DOMAIN f) < MapSize THEN {With(f)} ELSE {With(Without(f, x)) : x \in DOMAIN f}

ReserveFail == stat_inc("reserve_fail") /\ UNCHANGED enter_state

\* save_*_enter_state: an existing entry wins.
SaveEnterState(key, c) ==
  \/ /\ key \in DOMAIN enter_state
     /\ stat_inc("collision")
     /\ UNCHANGED enter_state
  \/ /\ key \notin DOMAIN enter_state
     /\ stat_inc("save_fail")
     /\ UNCHANGED enter_state
  \/ /\ key \notin DOMAIN enter_state
     /\ enter_state' \in Updated(enter_state, key, c)
     /\ UNCHANGED stats

\* Fault: a missing entry is not counted.
StateMissUncounted(key) ==
  /\ key \notin DOMAIN enter_state
  /\ UNCHANGED <<enter_state, emitted, stats>>

\* emit_*_exit_event for call c of thread t: no state, no record, or an event.
StateMiss(key) ==
  /\ key \notin DOMAIN enter_state
  /\ stat_inc("state_miss")
  /\ UNCHANGED <<enter_state, emitted>>

\* Fault: the early return leaves the entry for the next call.
ExitReserveFailKeeps(key) ==
  /\ key \in DOMAIN enter_state
  /\ stat_inc("reserve_fail")
  /\ UNCHANGED <<enter_state, emitted>>

ExitReserveFail(key) ==
  /\ key \in DOMAIN enter_state
  /\ stat_inc("reserve_fail")
  /\ enter_state' = Without(enter_state, key)
  /\ UNCHANGED emitted

\* Fault: the entry is not deleted after submission.
SubmitKeeps(key, c) ==
  /\ key \in DOMAIN enter_state
  /\ emitted' = emitted \cup {[thread |-> key[1], args |-> enter_state[key], ret |-> c]}
  /\ UNCHANGED <<enter_state, stats>>

Submit(key, c) ==
  /\ key \in DOMAIN enter_state
  /\ emitted' = emitted \cup {[thread |-> key[1], args |-> enter_state[key], ret |-> c]}
  /\ enter_state' = Without(enter_state, key)
  /\ UNCHANGED stats

EmitExitEvent(key, c) == StateMiss(key) \/ ExitReserveFail(key) \/ Submit(key, c)

-----------------------------------------------------------------------------
(* Threads and their calls.                                                *)

\* Thread t enters a call of kind k; the enter program, if any, runs.
SysEnter(t, k) ==
  LET c == calls[t] + 1
  IN  /\ running[t] = Idle
      /\ calls[t] < MaxCalls
      /\ calls' = [calls EXCEPT ![t] = c]
      /\ running' = [running EXCEPT ![t] = [kind |-> k, call |-> c,
                                            seen |-> Handles("enter", t, k)]]
      /\ early' = IF <<"exit", k>> \in attached THEN early ELSE early \cup {<<t, c>>}
      /\ IF Handles("enter", t, k)
         THEN ReserveFail \/ SaveEnterState(<<t, k>>, c)
         ELSE UNCHANGED <<enter_state, stats>>
      /\ UNCHANGED <<next_program, attached, emitted, lost>>

\* The call of thread t returns; the exit program, if any, runs.
SysExit(t) ==
  LET k == running[t].kind
      c == running[t].call
  IN  /\ running[t] # Idle
      /\ k \notin NoReturn
      /\ running' = [running EXCEPT ![t] = Idle]
      /\ IF Handles("exit", t, k)
         THEN /\ EmitExitEvent(<<t, k>>, c)
              /\ lost' = IF running[t].seen /\ [thread |-> t, args |-> c, ret |-> c] \notin emitted'
                         THEN lost + 1 ELSE lost
         ELSE UNCHANGED <<enter_state, stats, emitted, lost>>
      /\ UNCHANGED <<next_program, attached, calls, early>>

\* The thread is gone inside its call; its id is used again by a later one.
Vanish(t) ==
  /\ running[t] # Idle
  /\ running[t].kind \in NoReturn
  /\ running' = [running EXCEPT ![t] = Idle]
  /\ UNCHANGED <<next_program, attached, calls, enter_state, stats, emitted, early, lost>>

Next ==
  \/ AttachNext
  \/ \E t \in Threads : \/ \E k \in Kinds : SysEnter(t, k)
                        \/ SysExit(t)
                        \/ Vanish(t)

Spec == Init /\ [][Next]_vars

-----------------------------------------------------------------------------
(* Properties.                                                             *)

Call == [kind : Kinds \cup {"none"}, call : Nat, seen : BOOLEAN]

\* Type correctness; the map never outgrows max_entries.
TypeOK ==
  /\ next_program \in 1 .. (Len(Programs) + 1)
  /\ attached \subseteq Sides \X Kinds
  /\ calls \in [Threads -> Nat]
  /\ running \in [Threads -> Call]
  /\ DOMAIN enter_state \subseteq Keys
  /\ enter_state \in [DOMAIN enter_state -> Nat]
  /\ Cardinality(DOMAIN enter_state) <= MapSize
  /\ stats \in [StatKeys -> Nat]
  /\ emitted \subseteq [thread : Threads, args : Nat, ret : Nat]
  /\ early \subseteq Threads \X Nat
  /\ lost \in Nat

\* Once the exit program of a kind is attached, an event of a call that enters
\* carries that call's own arguments, whatever is lost, evicted or refused:
\* a submitted event joins two different calls only when the arguments are
\* those of a call that entered before the exit program was there.
PairedOnceAttached ==
  \A e \in emitted : e.args # e.ret => <<e.thread, e.args>> \in early

\* A saved enter payload is submitted at most once: emit_*_exit_event deletes
\* the entry on every path on which it used it.
SubmittedOnce ==
  \A e, f \in emitted : e.thread = f.thread /\ e.args = f.args => e = f

\* No silent loss: every call both handlers saw that did not come out as its own
\* event is accounted for by some bpf_stats counter.
LossCounted ==
  lost <= stats["reserve_fail"] + stats["state_miss"] + stats["save_fail"] + stats["collision"]
=============================================================================
