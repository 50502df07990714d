--------------------------- MODULE NetworkRecord ----------------------------
(***************************************************************************)
(* What a network event says about its call: the endpoint or option value  *)
(* and the byte counts (the enter handlers of                              *)
(* bpf/event_logger_network.bpf.c, emit_network_exit_event and its helpers *)
(* in bpf/event_logger_common.bpf.h).                                      *)
(*                                                                         *)
(* The programs never see the kernel's own view of a call.  They read the  *)
(* caller's memory, once before the kernel has worked on it and once       *)
(* after: an address, an option value, the lengths of an I/O vector, the   *)
(* msg_len cells of a batch.  That memory belongs to the application, which*)
(* uses the same buffers for call after call, and whose other threads can  *)
(* write to them at any moment.                                            *)
(*                                                                         *)
(* The module is about one thread, whose calls are sequential; losing an   *)
(* event or pairing it with another call is the subject of SyscallPairing. *)
(* An address or option value is whole or absent.                          *)
(***************************************************************************)
EXTENDS Integers, Sequences, Functions

CONSTANTS
  Kinds,                 \* event kinds the thread uses
  Values, None,          \* addresses and option values, and the empty one
  Lens,                  \* lengths passed as an argument
  Iovs,                  \* I/O vectors, as sequences of lengths
  MaxMsgs,               \* length of the application's mmsghdr array
  MAX_IOVEC_ENTRIES, MAX_MMSGHDR_ENTRIES,
  Hazards                \* what else may happen, see below

\* race: another thread writes to the buffers during the call.
\* absent: memory is not resident, so that bpf_probe_read_user fails.
ASSUME RecordAssumption ==
  /\ None \notin Values
  /\ Lens \subseteq Nat /\ Iovs \subseteq Seq(Nat)
  /\ MaxMsgs \in Nat \ {0}
  /\ MAX_IOVEC_ENTRIES \in Nat /\ MAX_MMSGHDR_ENTRIES \in Nat
  /\ Hazards \subseteq {"race", "absent"}

\* The calls that take a value from the caller's buffer, and those that leave one.
Taking == {"connect", "bind", "sendto", "sendmsg", "setsockopt"}
Leaving == {"accept", "accept4", "recvfrom", "recvmsg", "getpeername", "getsockname",
            "getsockopt"}

\* Where bytes_requested comes from: an argument, an I/O vector, a batch of them.
ByArgument == {"sendto", "recvfrom", "read", "write"}
ByVector == {"sendmsg", "recvmsg", "readv", "writev"}
ByBatch == {"sendmmsg", "recvmmsg"}

ASSUME RecordKinds == Kinds \subseteq Taking \cup Leaving \cup ByArgument \cup ByVector \cup ByBatch

VARIABLES
  buf,      \* what the caller's address or option buffer holds
  full,     \* its length is not 0
  msgs,     \* the caller's mmsghdr array: [iov, len]
  call,     \* the call in progress, or Idle; with what the kernel did, as history
  state,    \* the entry of network_enter_state
  out       \* the event submitted by the last call, or NoEvent while a call runs

memory == <<buf, full, msgs>>
vars == <<buf, full, msgs, call, state, out>>

Idle == [kind |-> "none"]
NoEvent == [kind |-> "none"]
NoState == [value |-> None]

Slots == 1 .. MaxMsgs
Buffer == 0            \* the buffer, next to the slots, as a place in memory
Least(m, n) == IF m < n THEN m ELSE n

Init ==
  /\ buf = None /\ full = TRUE
  /\ msgs \in [Slots -> [iov : Iovs, len : {0}]]
  /\ call = Idle /\ state = NoState /\ out = NoEvent

-----------------------------------------------------------------------------
(* The helpers that read user memory.  dark: what cannot be read right now. *)

\* parse_sockaddr_user and copy_optval_prefix.
ReadValue(dark) == IF full /\ Buffer \notin dark THEN buf ELSE None

Total(iov) == SumFunctionOnSet(iov, DOMAIN iov)

\* Fault: the last of the entries is left out.
sum_iovec_lengths_short(iov) ==
  SumFunctionOnSet(iov, 1 .. Least(Len(iov), MAX_IOVEC_ENTRIES) - 1)

sum_iovec_lengths(iov) == SumFunctionOnSet(iov, 1 .. Least(Len(iov), MAX_IOVEC_ENTRIES))

\* Fault: the number of messages is not looked at.
sum_mmsghdr_lengths_all(count, dark) ==
  SumFunctionOnSet([i \in Slots |-> sum_iovec_lengths(msgs[i].iov)],
                   (1 .. Least(MaxMsgs, MAX_MMSGHDR_ENTRIES)) \ dark)

sum_mmsghdr_lengths(count, dark) ==
  SumFunctionOnSet([i \in Slots |-> sum_iovec_lengths(msgs[i].iov)],
                   (1 .. Least(count, MAX_MMSGHDR_ENTRIES)) \ dark)

\* The msg_len cells.
Lengths == [i \in Slots |-> msgs[i].len]

\* Fault: the last message is left out.
sum_mmsghdr_transfers_short(count, dark) ==
  SumFunctionOnSet(Lengths, (1 .. Least(count, MAX_MMSGHDR_ENTRIES) - 1) \ dark)

sum_mmsghdr_transfers(count, dark) ==
  SumFunctionOnSet(Lengths, (1 .. Least(count, MAX_MMSGHDR_ENTRIES)) \ dark)

-----------------------------------------------------------------------------
(* The handlers.                                                           *)

\* The kinds whose enter handler reads the buffer: those that take a value, and
\* recvmsg, although its value comes later.
ReadAtEnter == Taking \cup {"recvmsg"}

\* The kinds whose buffer emit_network_exit_event reads.
ReadAtExit == Leaving \ {"recvmsg"}

\* sys_enter_<k>: wanted, the pointer to the buffer is not null; n, the length
\* argument or the number of messages.
EnterHandler(k, wanted, n, dark) ==
  state' = [value     |-> IF wanted /\ k \in ReadAtEnter THEN ReadValue(dark) ELSE None,
            requested |-> IF k \in ByArgument THEN n
                          ELSE IF k \in ByVector /\ 1 \notin dark THEN sum_iovec_lengths(msgs[1].iov)
                          ELSE IF k \in ByBatch THEN sum_mmsghdr_lengths(n, dark)
                          ELSE 0,
            wanted    |-> wanted,
            count     |-> n]

\* Fault: the outcome of the call is not looked at before its buffer is read.
FilledAlways(k, ret, dark) ==
  [value       |-> IF k \in ReadAtExit /\ state.wanted THEN ReadValue(dark) ELSE state.value,
   requested   |-> state.requested,
   transferred |-> IF k \in ByArgument \cup ByVector /\ ret >= 0 THEN ret
                   ELSE IF k \in ByBatch /\ ret >= 0 THEN sum_mmsghdr_transfers(state.count, dark)
                   ELSE 0]

\* The part of emit_network_exit_event that completes the saved event.
Filled(k, ret, dark) ==
  [value       |-> IF k \in ReadAtExit /\ ret >= 0 /\ state.wanted THEN ReadValue(dark)
                   ELSE state.value,
   requested   |-> state.requested,
   transferred |-> IF k \in ByArgument \cup ByVector /\ ret >= 0 THEN ret
                   ELSE IF k \in ByBatch /\ ret >= 0 THEN sum_mmsghdr_transfers(state.count, dark)
                   ELSE 0]

-----------------------------------------------------------------------------
(* The application and the kernel.                                         *)

\* What a reader may fail to find in memory, one place at a time.
Darkness == {{}} \cup IF "absent" \in Hazards THEN {{i} : i \in Slots \cup {Buffer}} ELSE {}

\* Between calls: the buffer is filled in or offered empty, a message is given a
\* vector, and its msg_len may or may not be cleared.
Prepare ==
  /\ call = Idle
  /\ \/ buf' \in Values /\ full' = TRUE /\ UNCHANGED msgs
     \/ full' = TRUE /\ UNCHANGED <<buf, msgs>>
     \/ /\ \E i \in Slots : \E v \in Iovs, n \in {0, msgs[i].len} :
             msgs' = [msgs EXCEPT ![i] = [iov |-> v, len |-> n]]
        /\ UNCHANGED <<buf, full>>
  /\ out' = NoEvent
  /\ UNCHANGED <<call, state>>

\* What a call with n as its length argument or number of messages asks the kernel
\* for, if the caller's mmsghdr array is m.
Asked(k, n, m) ==
  IF k \in ByArgument THEN n
  ELSE IF k \in ByVector THEN Total(m[1].iov)
  ELSE SumFunctionOnSet([i \in Slots |-> Total(m[i].iov)], 1 .. n)

\* The programs look as far as the vectors and the batch of the call go.
Fits(k, n) ==
  /\ k \in ByVector => Len(msgs[1].iov) <= MAX_IOVEC_ENTRIES
  /\ k \in ByBatch => /\ n <= MAX_MMSGHDR_ENTRIES
                      /\ \A i \in 1 .. n : Len(msgs[i].iov) <= MAX_IOVEC_ENTRIES

\* asked: what the call asks for, from the vectors the kernel will find.  tidy: no
\* message of the batch carries a length from an earlier call.
SysEnter(k, wanted, n, dark) ==
  /\ call = Idle
  /\ wanted => k \in Taking \cup Leaving
  /\ n \in IF k \in ByArgument THEN Lens ELSE IF k \in ByBatch THEN 0 .. MaxMsgs ELSE {0}
  /\ call' = [kind |-> k, done |-> FALSE, ret |-> 0, raced |-> FALSE, blind |-> dark # {},
              wanted |-> wanted, count |-> n,
              asked |-> Asked(k, n, msgs), fits |-> Fits(k, n),
              tidy  |-> \A i \in 1 .. n : k \in ByBatch => msgs[i].len = 0,
              value |-> None, moved |-> 0]
  /\ EnterHandler(k, wanted, n, dark)
  /\ out' = NoEvent
  /\ UNCHANGED memory

\* The kernel fails the call,
Fail ==
  /\ call # Idle /\ ~call.done
  /\ call' = [call EXCEPT !.done = TRUE, !.ret = -1,
                          !.value = IF call.wanted /\ call.kind \in Taking /\ full THEN buf ELSE None]
  /\ UNCHANGED <<memory, state, out>>

\* or takes a value and moves bytes,
Take ==
  /\ call # Idle /\ ~call.done /\ call.kind \in Taking \cup {"read", "write", "readv", "writev"}
  /\ \E n \in 0 .. call.asked :
       call' = [call EXCEPT !.done = TRUE, !.ret = n, !.moved = n,
                            !.value = IF call.wanted /\ full THEN buf ELSE None]
  /\ UNCHANGED <<memory, state, out>>

\* or leaves a value, possibly empty, and moves bytes,
Leave ==
  /\ call # Idle /\ ~call.done /\ call.kind \in Leaving
  /\ \E n \in 0 .. call.asked, v \in Values \cup {None} :
       /\ call' = [call EXCEPT !.done = TRUE, !.ret = n, !.moved = n,
                               !.value = IF call.wanted THEN v ELSE None]
       /\ buf' = IF call.wanted /\ v # None THEN v ELSE buf
       /\ full' = IF call.wanted THEN v # None ELSE full
  /\ UNCHANGED <<msgs, state, out>>

\* or handles some of the messages of a batch, none only if there is none.
Batch ==
  /\ call # Idle /\ ~call.done /\ call.kind \in ByBatch
  /\ \E n \in Least(1, call.count) .. call.count :
       \E lens \in [1 .. n -> UNION {0 .. Total(v) : v \in Iovs}] :
         /\ \A i \in 1 .. n : lens[i] <= Total(msgs[i].iov)
         /\ msgs' = [i \in Slots |-> IF i <= n THEN [msgs[i] EXCEPT !.len = lens[i]] ELSE msgs[i]]
         /\ call' = [call EXCEPT !.done = TRUE, !.ret = n,
                                 !.moved = SumFunctionOnSet(lens, 1 .. n)]
  /\ UNCHANGED <<buf, full, state, out>>

\* Another thread uses the same buffers, before or after the kernel does, at most
\* once in a call: it fills in the address, clears a msg_len or sets up a vector.
\* The kernel goes by the vectors it finds when it gets to work.
Race ==
  /\ "race" \in Hazards /\ call # Idle /\ ~call.raced
  /\ \/ buf' \in Values /\ full' = TRUE /\ UNCHANGED msgs
     \/ /\ \E i \in Slots : \E v \in Iovs, n \in {0, msgs[i].len} :
             msgs' = [msgs EXCEPT ![i] = [iov |-> v, len |-> n]]
        /\ UNCHANGED <<buf, full>>
  /\ call' = [call EXCEPT !.raced = TRUE,
                          !.asked = IF call.done THEN @ ELSE Asked(call.kind, call.count, msgs')]
  /\ UNCHANGED <<state, out>>

\* sys_exit_<k>: the event goes out, next to what really happened.
SysExit(dark) ==
  /\ call # Idle /\ call.done
  /\ out' = [kind |-> call.kind, ret |-> call.ret, event |-> Filled(call.kind, call.ret, dark),
             truth |-> [value |-> call.value, asked |-> call.asked, moved |-> call.moved],
             clean |-> ~call.raced /\ ~call.blind /\ dark = {}, raced |-> call.raced,
             tidy |-> call.tidy, fits |-> call.fits, count |-> call.count]
  /\ call' = Idle /\ state' = NoState
  /\ UNCHANGED memory

Next ==
  \/ Prepare
  \/ \E k \in Kinds, wanted \in BOOLEAN, n \in Lens \cup 0 .. MaxMsgs, dark \in Darkness :
       SysEnter(k, wanted, n, dark)
  \/ Fail \/ Take \/ Leave \/ Batch
  \/ Race
  \/ \E dark \in Darkness : SysExit(dark)

Spec == Init /\ [][Next]_vars

-----------------------------------------------------------------------------
(* Properties.                                                             *)

Emitted == out # NoEvent

\* The endpoint or option value in an event is the one the kernel used or left, and
\* that of a failed call the one it was given, if any, although the programs read
\* it from a buffer that earlier calls have written, as long as nobody else writes
\* to it.  recvmsg is the exception: its buffer is read on enter, so the event has
\* what an earlier call left there, see README.md.
CapturedTrue ==
  Emitted /\ out.clean /\ out.kind # "recvmsg" => out.event.value = out.truth.value

\* bytes_transferred is what was moved, unless a batch is longer than the programs
\* look or the application left lengths of an earlier call in it.
TransferExact ==
  Emitted /\ out.clean /\ (out.kind \in ByBatch => out.tidy /\ out.count <= MAX_MMSGHDR_ENTRIES)
    => out.event.transferred = out.truth.moved

\* Left-over lengths can only add: within the limit no byte that was moved is
\* missing, whichever part of the batch was handled.
TransferCovers ==
  Emitted /\ out.clean /\ out.count <= MAX_MMSGHDR_ENTRIES
    => out.event.transferred >= out.truth.moved

\* bytes_requested never claims more than was asked for: vectors and batches that
\* are too long and memory that cannot be read make it smaller and nothing else,
\* unless another thread has written to the vectors before the kernel read them.
RequestBounded == Emitted /\ ~out.raced => out.event.requested <= out.truth.asked

\* bytes_requested is what was asked for, if all could be read and the programs look
\* as far as the vectors and the batch go: no entry and no message is left out.
RequestExact == Emitted /\ out.clean /\ out.fits => out.event.requested = out.truth.asked
=============================================================================
