---------------------------- MODULE SocketFdMap -----------------------------
(***************************************************************************)
(* Which file descriptors the network programs take for sockets            *)
(* (bpf/event_logger_network.bpf.c and the socket_fd_state map of          *)
(* bpf/event_logger_common.bpf.h).                                         *)
(*                                                                         *)
(* read, write, close and their like work on any descriptor.  Their enter  *)
(* handlers go on only if the descriptor is in socket_fd_state, which the  *)
(* exit handlers of socket, socketpair, accept and accept4 fill and the    *)
(* exit handler of close empties.  The kernel changes the real descriptor  *)
(* table in between: a call is three steps, the enter handler, the kernel's*)
(* own work, and the exit handler, and the steps of different threads of   *)
(* one process interleave.  Enter and exit meet in network_enter_state as  *)
(* in SyscallPairing.                                                      *)
(*                                                                         *)
(* The module is about one tgid, the first half of the map's key.          *)
(***************************************************************************)
EXTENDS Integers, FiniteSets, Sequences

CONSTANTS
  Threads,     \* threads of the process
  Fds,         \* descriptor numbers
  Kinds,       \* event kinds the process uses
  Hazards,     \* what else may happen, see below
  MaxUpsets    \* bound on the hazards and races of a behaviour, for model checking only

\* loss: a reservation, a map update or a read of user memory fails, or the LRU
\* map of saved descriptors drops the entry of a call in progress.  Updates of
\* socket_fd_state, a plain hash map all processes share, fail when it is full.
\* dup2: a descriptor is replaced without a close call (dup2, close-on-exec).
\* reuse: the process ends, and another one gets its tgid.
\* overwrite: another thread writes to the array socketpair has filled before the
\* exit handler reads it.
ASSUME SocketAssumption ==
  /\ Fds \subseteq Nat
  /\ Hazards \subseteq {"loss", "dup2", "reuse", "overwrite"}
  /\ MaxUpsets \in Nat

\* The handlers that need no descriptor to begin with.
Creating == {"socket", "socketpair"}

\* The handlers that take their descriptor for a socket without a look at the map.
Accepting == {"accept", "accept4"}
Addressing == {"connect", "bind"}
Controlling == {"listen", "getsockname", "getpeername", "setsockopt", "getsockopt"}
Messaging == {"sendto", "sendmsg", "recvfrom", "recvmsg"}
Ungated == Accepting \cup Addressing \cup Controlling \cup Messaging \cup {"shutdown"}

\* The handlers behind is_socket_fd.
Streaming == {"read", "write", "readv", "writev"}
Batching == {"sendmmsg", "recvmmsg"}
Gated == Streaming \cup Batching \cup {"close"}

ASSUME KindsAssumption == Kinds \subseteq Creating \cup Ungated \cup Gated

VARIABLES
  fds,                  \* the real table: what each descriptor refers to
  call,                 \* thread -> its call in progress, or Idle
  network_enter_state,  \* (thread, kind) -> descriptor argument saved on enter
  socket_fd_state,      \* the descriptors in the map under this tgid
  opened,               \* history: descriptors that were ever created as sockets
  last,                 \* history: the call that has just returned, and what was emitted
  upsets,               \* history: the hazards that have struck
  raced                 \* history: two calls have contended for a descriptor

vars == <<fds, call, network_enter_state, socket_fd_state, opened, last, upsets, raced>>

NoFd == -1

\* "old": a socket the programs did not see created (before start, or inherited).
Things == {"none", "file", "old", "sock"}

Idle == [kind |-> "none"]

\* new: the descriptors the call created; target: what its argument referred to.
Entered(k, f) == [kind |-> k, fd |-> f, done |-> FALSE, ok |-> FALSE, new |-> <<>>,
                  target |-> "none"]

NoCall == [kind |-> "none", fd |-> NoFd, target |-> "none", emitted |-> FALSE]

Init ==
  /\ fds \in [Fds -> {"none", "old"}]
  /\ call = [t \in Threads |-> Idle]
  /\ network_enter_state = [k \in {} |-> NoFd]
  /\ socket_fd_state = {}
  /\ opened = {}
  /\ last = NoCall
  /\ upsets = {} /\ raced = FALSE

-----------------------------------------------------------------------------
(* The map.                                                                *)

add_socket_fd(S, f) == S \cup {f}

\* Fault: a closed descriptor stays.
delete_socket_fd_nothing(S, f) == S

delete_socket_fd(S, f) == S \ {f}

is_socket_fd(f) == f \in socket_fd_state

\* Fault: only the first descriptor of a pair is recorded.
TrackFirst(S, new) == add_socket_fd(S, new[1])

\* socket, accept and accept4 return one descriptor; socketpair leaves two in
\* memory of the process, where the handler reads them.
TrackNew(S, new) ==
  IF Len(new) = 1 THEN add_socket_fd(S, new[1])
  ELSE add_socket_fd(add_socket_fd(S, new[1]), new[2])

-----------------------------------------------------------------------------
(* The handlers.                                                           *)

\* Hazard h strikes.
Strike(h) == h \in Hazards /\ upsets' = upsets \cup {h}

Without(f, k) == [x \in DOMAIN f \ {k} |-> f[x]]

With(f, k, v) == [x \in DOMAIN f \cup {k} |-> IF x = k THEN v ELSE f[x]]

\* save_network_enter_state: an entry already there wins; an LRU map may drop
\* another thread's entry to make room.
SaveNetworkEnterState(key, f) ==
  \/ key \in DOMAIN network_enter_state /\ UNCHANGED <<network_enter_state, upsets>>
  \/ /\ key \notin DOMAIN network_enter_state
     /\ network_enter_state' = With(network_enter_state, key, f)
     /\ UNCHANGED upsets
  \/ /\ Strike("loss")
     /\ \/ UNCHANGED network_enter_state
        \/ /\ key \notin DOMAIN network_enter_state
           /\ \E x \in DOMAIN network_enter_state :
                network_enter_state' = With(Without(network_enter_state, x), key, f)

\* Fault: the handler does not ask is_socket_fd.
EnterHandlerUngated(t, k, f) == SaveNetworkEnterState(<<t, k>>, f)

\* sys_enter_<k>.
EnterHandler(t, k, f) ==
  IF k \in Gated /\ ~is_socket_fd(f)
  THEN UNCHANGED <<network_enter_state, upsets>>
  ELSE SaveNetworkEnterState(<<t, k>>, f)

\* What a submitted event of call c, with saved descriptor f, does to the map.
Tracking(c, f) ==
  IF c.ok /\ c.kind \in Creating \cup Accepting THEN TrackNew(socket_fd_state, c.new)
  ELSE IF c.ok /\ c.kind = "close" THEN delete_socket_fd(socket_fd_state, f)
  ELSE socket_fd_state

\* sys_exit_<k>: emit_network_exit_event.
EmitNetworkExitEvent(t) ==
  LET c   == call[t]
      key == <<t, c.kind>>
      Returned(sent) == last' = [kind |-> c.kind, target |-> c.target, emitted |-> sent,
                                 fd |-> IF sent THEN network_enter_state[key] ELSE c.fd]
  IN  \/ /\ key \notin DOMAIN network_enter_state
         /\ Returned(FALSE)
         /\ UNCHANGED <<network_enter_state, socket_fd_state, upsets>>
      \/ /\ key \in DOMAIN network_enter_state
         /\ network_enter_state' = Without(network_enter_state, key)
         /\ \/ /\ Returned(TRUE)
               /\ socket_fd_state' = Tracking(c, network_enter_state[key])
               /\ UNCHANGED upsets
            \/ /\ Strike("loss")
               /\ Returned(FALSE) /\ UNCHANGED socket_fd_state
            \/ /\ Strike("loss")
               /\ Returned(TRUE)
               /\ \E i \in DOMAIN c.new :
                    socket_fd_state' \in {socket_fd_state, add_socket_fd(socket_fd_state, c.new[i])}
            \/ /\ c.ok /\ c.kind = "socketpair" /\ Strike("overwrite")
               /\ Returned(TRUE)
               /\ \E f, g \in Fds : socket_fd_state' = TrackNew(socket_fd_state, <<f, g>>)

-----------------------------------------------------------------------------
(* The process.                                                            *)

\* A new descriptor is the lowest free number.
LowestFree(table) ==
  {f \in Fds : table[f] = "none" /\ \A g \in Fds : table[g] = "none" => f <= g}

\* The descriptors a call is about, and those it makes or takes away.
Concerned(c) == IF c = Idle THEN {} ELSE {c.fd} \cup {c.new[i] : i \in DOMAIN c.new}
Changed(c) == IF c = Idle THEN {}
              ELSE IF c.kind = "close" THEN {c.fd} ELSE {c.new[i] : i \in DOMAIN c.new}

\* One thread makes or closes a descriptor while another one is at work on it.
Contended == \E t, u \in Threads : t # u /\ Changed(call[t]) \cap Concerned(call[u]) # {}

SysEnter(t, k, f) ==
  /\ call[t] = Idle
  /\ (f = NoFd) <=> (k \in Creating)
  /\ call' = [call EXCEPT ![t] = Entered(k, f)]
  /\ EnterHandler(t, k, f)
  /\ raced' = (raced \/ Contended')
  /\ last' = NoCall
  /\ UNCHANGED <<fds, socket_fd_state, opened>>

InKernel(t) == call[t] # Idle /\ ~call[t].done

Return(t, ok, new, target) ==
  call' = [call EXCEPT ![t].done = TRUE, ![t].ok = ok, ![t].new = new, ![t].target = target]

\* The kernel's part of the call of thread t: it fails,
Fail(t) ==
  /\ InKernel(t)
  /\ Return(t, FALSE, <<>>, IF call[t].fd \in Fds THEN fds[call[t].fd] ELSE "none")
  /\ UNCHANGED <<fds, opened>>

\* makes one socket, or a pair,
Create(t) ==
  /\ InKernel(t)
  /\ \/ call[t].kind \in Creating
     \/ call[t].kind \in Accepting /\ fds[call[t].fd] \in {"old", "sock"}
  /\ \E f \in LowestFree(fds) :
     \E g \in IF call[t].kind = "socketpair" THEN LowestFree([fds EXCEPT ![f] = "sock"]) ELSE {f} :
       /\ fds' = [fds EXCEPT ![f] = "sock", ![g] = "sock"]
       /\ opened' = opened \cup {f, g}
       /\ Return(t, TRUE, IF g = f THEN <<f>> ELSE <<f, g>>,
                 IF call[t].fd \in Fds THEN fds[call[t].fd] ELSE "sock")

\* closes a descriptor,
Close(t) ==
  /\ InKernel(t) /\ call[t].kind = "close" /\ fds[call[t].fd] # "none"
  /\ fds' = [fds EXCEPT ![call[t].fd] = "none"]
  /\ Return(t, TRUE, <<>>, fds[call[t].fd])
  /\ UNCHANGED opened

\* or uses one.
Use(t) ==
  /\ InKernel(t)
  /\ call[t].kind \notin Creating \cup Accepting \cup {"close"}
  /\ fds[call[t].fd] \in IF call[t].kind \in Streaming THEN {"file", "old", "sock"}
                         ELSE {"old", "sock"}
  /\ Return(t, TRUE, <<>>, fds[call[t].fd])
  /\ UNCHANGED <<fds, opened>>

Kernel(t) ==
  /\ Fail(t) \/ Create(t) \/ Close(t) \/ Use(t)
  /\ raced' = (raced \/ Contended')
  /\ last' = NoCall
  /\ UNCHANGED <<network_enter_state, socket_fd_state, upsets>>

SysExit(t) ==
  /\ call[t] # Idle /\ call[t].done
  /\ EmitNetworkExitEvent(t)
  /\ call' = [call EXCEPT ![t] = Idle]
  /\ UNCHANGED <<fds, opened, raced>>

\* A regular file is opened; no program of this domain sees it.
OpenFile(t) ==
  /\ call[t] = Idle
  /\ \E f \in LowestFree(fds) :
       /\ fds' = [fds EXCEPT ![f] = "file"]
       /\ raced' = (raced \/ \E u \in Threads : f \in Concerned(call[u]))
  /\ last' = NoCall
  /\ UNCHANGED <<call, network_enter_state, socket_fd_state, opened, upsets>>

Dup2(t, from, to) ==
  /\ Strike("dup2")
  /\ call[t] = Idle /\ fds[from] # "none"
  /\ fds' = [fds EXCEPT ![to] = IF fds[from] = "sock" THEN "old" ELSE fds[from]]
  /\ last' = NoCall
  /\ UNCHANGED <<call, network_enter_state, socket_fd_state, opened, raced>>

\* The process ends without closing anything (a call that is interrupted returns
\* before its thread dies); the tgid starts afresh.
ProcessExit ==
  /\ Strike("reuse")
  /\ \A t \in Threads : call[t] = Idle
  /\ fds' = [f \in Fds |-> "none"]
  /\ last' = NoCall
  /\ UNCHANGED <<call, network_enter_state, socket_fd_state, opened, raced>>

Next ==
  /\ \/ \E t \in Threads : \/ \E k \in Kinds, f \in Fds \cup {NoFd} : SysEnter(t, k, f)
                           \/ Kernel(t)
                           \/ SysExit(t)
                           \/ OpenFile(t)
                           \/ \E from, to \in Fds : from # to /\ Dup2(t, from, to)
     \/ ProcessExit
  /\ Cardinality(upsets') + (IF raced' THEN 1 ELSE 0) <= MaxUpsets

Spec == Init /\ [][Next]_vars

-----------------------------------------------------------------------------
(* Properties.                                                             *)

\* None of the hazards has struck, and no two threads were at work on one
\* descriptor while one of them made or closed it.
Calm == upsets = {} /\ ~raced

\* Whenever every thread is outside its calls, the map holds exactly the sockets
\* the process has created since the programs were attached and not closed again,
\* however the calls of its threads were interleaved on different descriptors.
TrackedExact ==
  Calm /\ (\A t \in Threads : call[t] = Idle)
    => socket_fd_state = {f \in Fds : fds[f] = "sock"}

\* The reason docs/event-contract.md gives for the gate: a read, write or close
\* of a regular file is never reported as a network event.  A race for the number
\* of a descriptor that is being closed is the exception, see README.md.
NoMislabel == Calm /\ last.emitted /\ last.kind \in Gated => last.target # "file"

\* A call on a socket whose creation was seen is reported when it returns.
NothingMissed == Calm /\ last.target = "sock" => last.emitted

\* What the handlers read of a socketpair is what the kernel wrote.
PairsIntact == "overwrite" \notin upsets

\* Whatever is lost, replaced, reused or raced for: a descriptor enters the map,
\* and a gated event is reported for it, only if the tgid created a socket under
\* that number since the programs were attached.  The one way around it is a
\* thread that overwrites the array of a socketpair that has not returned yet.
OnlyOpened ==
  PairsIntact => /\ socket_fd_state \subseteq opened
                 /\ last.emitted /\ last.kind \in Gated => last.fd \in opened
=============================================================================
