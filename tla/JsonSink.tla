------------------------------ MODULE JsonSink ------------------------------
(***************************************************************************)
(* The NDJSON file sink (src/sinks/json_sink.{h,cpp}).                     *)
(*                                                                         *)
(* Write serializes a record, starts the file over when the record would   *)
(* not fit, hands the line to the output stream and flushes the stream     *)
(* when enough records or enough time have passed since the last flush.    *)
(* A reader of the file sees what the stream has handed to the system: all *)
(* of it after a flush, and before that as much as the stream, whose       *)
(* buffer is finite, had to let go, down to the beginning of a line.       *)
(*                                                                         *)
(* The sink never asks the stream how it is.  Once the system has refused  *)
(* bytes the stream refuses every line, until the file is opened again.    *)
(* A run that is killed leaves behind what it had handed on; the next run  *)
(* appends to it.                                                          *)
(*                                                                         *)
(* A record is its number (the order of the Write calls) and its length.   *)
(* Time is the age of the last flush, as far as MaybeFlush can tell ages   *)
(* apart.                                                                  *)
(***************************************************************************)
EXTENDS Integers, Sequences, SequencesExt

CONSTANTS
  Lengths,           \* lengths of serialized records
  OldLengths,        \* lengths the file can have when the sink opens it
  max_file_size,     \* max_file_size_bytes_; 0 disables the limit
  kFlushEvery,       \* kFlushEveryRecords
  kFlushInterval,    \* kFlushIntervalNs, in ticks
  Faults,            \* what may go wrong, see below
  MaxRecords,        \* bound on the Write calls, for model checking only
  MaxCrashes         \* bound on the crashes, for model checking only

\* disk: the system takes only some of the bytes it is given (a full disk).
\* crash: the engine is killed and started again.
ASSUME SinkAssumption ==
  /\ Lengths \subseteq Nat \ {0, 1}
  /\ OldLengths \subseteq Nat
  /\ max_file_size \in Nat
  /\ kFlushEvery \in Nat \ {0} /\ kFlushInterval \in Nat \ {0}
  /\ Faults \subseteq {"disk", "crash"}
  /\ MaxRecords \in Nat /\ MaxCrashes \in Nat

VARIABLES
  ready,        \* ready_
  old,          \* bytes of earlier runs at the head of the file
  visible,      \* the records in the file
  torn,         \* behind them, the file has the beginning of one more
  buffered,     \* the records still in the stream
  bad,          \* the stream's state: it refuses every line
  file_size,    \* current_file_size_bytes_
  pending,      \* pending_records_since_flush_
  age,          \* ticks since last_flush_mono_ns_
  written,      \* history: calls of Write
  refused,      \* history: bytes the stream has refused since it went bad
  glued,        \* history: the earlier runs' bytes end in the middle of a line
  crashes,      \* history: crashes so far
  lost          \* history: records they cost, disk faults apart

streamVars == <<old, visible, torn, buffered, bad, file_size, pending, age, refused, glued>>
sinkVars == <<ready, streamVars, written, crashes, lost>>

\* The constructor: append to whatever is there.
SinkInit ==
  /\ ready = TRUE
  /\ old \in OldLengths
  /\ visible = <<>> /\ torn = FALSE /\ buffered = <<>> /\ bad = FALSE
  /\ file_size = old
  /\ pending = 0 /\ age = 0
  /\ written = 0 /\ refused = 0
  /\ glued = FALSE /\ crashes = 0 /\ lost = 0

-----------------------------------------------------------------------------
(* The stream as a value, so that the steps of one Write can be composed.  *)
(* What the system does with bytes it is given is not the sink's choice,   *)
(* so the operators return the set of possible results.                    *)

Stream == [old |-> old, visible |-> visible, torn |-> torn, buffered |-> buffered, bad |-> bad,
           size |-> file_size, pending |-> pending, age |-> age, refused |-> refused,
           glued |-> glued]

\* The first n lines of the stream's buffer are in the file, and perhaps the
\* beginning of the next one.  A stream that goes bad holds on to its buffer.
HandedOn(s, n, fails) ==
  {[s EXCEPT !.visible = @ \o SubSeq(s.buffered, 1, n),
             !.torn = begun,
             !.buffered = IF fails THEN @ ELSE SubSeq(@, n + 1, Len(@)),
             !.bad = fails] :
     begun \in IF n = Len(s.buffered) \/ "crash" \notin Faults THEN {FALSE}
               ELSE IF n = 0 /\ s.torn THEN {TRUE} ELSE BOOLEAN}

Refusals(s) == IF "disk" \in Faults THEN UNION {HandedOn(s, n, TRUE) : n \in 0 .. Len(s.buffered) - 1}
               ELSE {}

\* flush or close of a bad stream: nothing happens, or (depending on the library)
\* it offers its buffer to the system once more, from the start.
Retried(s) == {s} \cup {[t EXCEPT !.bad = TRUE] : t \in HandedOn(s, Len(s.buffered), FALSE) \cup Refusals(s)}

\* file_out_.flush().
Flushed(s) == IF s.bad THEN Retried(s) ELSE HandedOn(s, Len(s.buffered), FALSE) \cup Refusals(s)

\* Fault: what was buffered is thrown away.
ForceFlushDiscards(s) == {[s EXCEPT !.buffered = <<>>, !.torn = FALSE, !.pending = 0, !.age = 0]}

ForceFlush(s) == {[t EXCEPT !.pending = 0, !.age = 0] : t \in Flushed(s)}

\* Fault: the next record is left out of the sum.
MustRotateLate(s, len) == max_file_size # 0 /\ s.size > max_file_size

MustRotate(s, len) == max_file_size # 0 /\ s.size + len > max_file_size

\* Fault: the bytes that are in the file are not counted.
OpenedUncounted(bytes, cut) ==
  [old |-> bytes, visible |-> <<>>, torn |-> FALSE, buffered |-> <<>>, bad |-> FALSE,
   size |-> 0, pending |-> 0, age |-> 0, refused |-> 0, glued |-> cut]

\* Opening the file: the stream is in order, whatever state it was in.
Opened(bytes, cut) ==
  [old |-> bytes, visible |-> <<>>, torn |-> FALSE, buffered |-> <<>>, bad |-> FALSE,
   size |-> bytes, pending |-> 0, age |-> 0, refused |-> 0, glued |-> cut]

\* Fault: the byte count survives the rotation.
RotatedKeepsSize(s) == [Opened(0, FALSE) EXCEPT !.size = s.size]

\* Flush and close, remove the file and open an empty one.
Rotated(s) == Opened(0, FALSE)

\* Fault: a line that is refused is not counted either.
RefusedUncounted(s, len) == [s EXCEPT !.refused = @ + len, !.pending = @ + 1]

\* A bad stream takes no line; the sink counts it all the same.
Refused(s, len) == [s EXCEPT !.refused = @ + len, !.size = @ + len, !.pending = @ + 1]

\* The line goes to the stream, which may have to hand some of its lines on.
Appended(s, r) ==
  IF s.bad THEN {Refused(s, r.len)}
  ELSE LET t == [s EXCEPT !.buffered = Append(@, r), !.size = @ + r.len, !.pending = @ + 1]
       IN  (UNION {HandedOn(t, n, FALSE) : n \in 0 .. Len(t.buffered)}) \cup Refusals(t)

\* Fault: off by one at the record limit.
MaybeFlushLate(s) ==
  IF s.pending <= kFlushEvery /\ s.age < kFlushInterval THEN {s} ELSE ForceFlush(s)

MaybeFlush(s) ==
  IF s.pending < kFlushEvery /\ s.age < kFlushInterval THEN {s} ELSE ForceFlush(s)

SetStream(s) ==
  /\ old' = s.old /\ visible' = s.visible /\ torn' = s.torn /\ buffered' = s.buffered
  /\ bad' = s.bad /\ file_size' = s.size /\ pending' = s.pending /\ age' = s.age
  /\ refused' = s.refused /\ glued' = s.glued

\* RotateIfNeeded, when it succeeds.
RotateIfNeeded(s, len) == IF MustRotate(s, len) THEN Rotated(s) ELSE s

\* Write of a ready sink.
WriteReady(r) ==
  /\ ready
  /\ \E s \in Appended(RotateIfNeeded(Stream, r.len), r) : \E t \in MaybeFlush(s) : SetStream(t)
  /\ UNCHANGED ready

\* The file as a rotation leaves it that cannot open it again: it is gone, or is
\* still there if it could not be removed either.
HalfRotated(s) == {Rotated(s)} \cup {[t EXCEPT !.size = 0, !.buffered = <<>>] : t \in ForceFlush(s)}

\* The sink is out of service for good.
RotateFails(r) ==
  /\ ready /\ MustRotate(Stream, r.len)
  /\ \E s \in HalfRotated(Stream) : SetStream(s)
  /\ ready' = FALSE

WriteNotReady == ~ready /\ UNCHANGED <<ready, streamVars>>

Write(len) ==
  /\ written < MaxRecords
  /\ written' = written + 1
  /\ LET r == [n |-> written + 1, len |-> len]
     IN  WriteReady(r) \/ RotateFails(r) \/ WriteNotReady
  /\ UNCHANGED <<crashes, lost>>

\* The destructor (main's last step, see Daemon).
Destroy ==
  /\ \E s \in ForceFlush(Stream) : SetStream(s)
  /\ UNCHANGED <<ready, written, crashes, lost>>

Tick ==
  /\ age < kFlushInterval
  /\ age' = age + 1
  /\ UNCHANGED <<ready, old, visible, torn, buffered, bad, file_size, pending, refused, glued,
                 written, crashes, lost>>

Bytes(lines) == SumFunctionOnSet([i \in DOMAIN lines |-> lines[i].len], DOMAIN lines)

\* What the system has of the file; one byte stands for the beginning of a line.
OnDisk(s) == s.old + Bytes(s.visible) + (IF s.torn THEN 1 ELSE 0)

\* A flush under way: some of the stream's lines are with the system.
Flushing(s) ==
  UNION {{[t EXCEPT !.bad = s.bad] : t \in HandedOn(s, n, FALSE)} : n \in 0 .. Len(s.buffered)}

\* Where a kill inside Write finds the file and the stream before the line is
\* appended (a rotation flushes, removes the file and opens it), and from then on.
BeforeAppend(s, len) == {s} \cup IF MustRotate(s, len) THEN Flushing(s) \cup {Rotated(s)} ELSE {}

AfterAppend(s, r) == UNION {Flushing(t) : t \in Appended(RotateIfNeeded(s, r.len), r)}

\* The engine is killed; the constructor of the next run finds what it left.
\* The kill costs the lines in the stream, the unsaved records not in it yet, and
\* the line that this run had glued to the beginning of another.
Killed(s, unsaved) ==
  /\ "crash" \in Faults /\ crashes < MaxCrashes
  /\ SetStream(Opened(OnDisk(s), s.torn \/ (s.glued /\ s.visible = <<>>)))
  /\ ready' = TRUE
  /\ crashes' = crashes + 1
  /\ lost' = lost + (IF s.bad THEN 0 ELSE Len(s.buffered) + unsaved)
                  + (IF s.glued /\ s.visible # <<>> THEN 1 ELSE 0)

\* A kill between two Writes.
Crash == Killed(Stream, 0) /\ UNCHANGED written

\* A kill inside Write.
CrashInWrite(len) ==
  /\ ready /\ written < MaxRecords
  /\ written' = written + 1
  /\ \/ \E s \in BeforeAppend(Stream, len) : Killed(s, 1)
     \/ \E s \in AfterAppend(Stream, [n |-> written + 1, len |-> len]) : Killed(s, 0)

SinkNext == (\E len \in Lengths : Write(len) \/ CrashInWrite(len)) \/ Tick \/ Crash

SinkSpec == SinkInit /\ [][SinkNext]_sinkVars

-----------------------------------------------------------------------------
(* Properties.                                                             *)

Contents == visible \o buffered

\* The sink is in service, and the stream takes what it is given.
InOrder == ready /\ ~bad

\* Type correctness.
SinkTypeOK ==
  /\ {ready, torn, bad, glued} \subseteq BOOLEAN
  /\ {old, file_size, written, refused, crashes, lost} \subseteq Nat
  /\ \A i \in DOMAIN Contents : Contents[i] \in [n : 1 .. MaxRecords, len : Lengths]
  /\ pending \in 0 .. kFlushEvery /\ age \in 0 .. kFlushInterval

\* The byte count RotateIfNeeded decides with is the true length of the file,
\* across appends, rotations, early hand-overs, files of earlier runs, crashes
\* and the rotation that ends an outage of the disk.
SizeExact == InOrder => file_size = old + Bytes(Contents)

\* The limit holds after every Write, unless one record alone exceeds it: then
\* that record has the file for itself.
SizeBounded ==
  InOrder /\ max_file_size # 0 /\ Contents # <<>> =>
    file_size <= max_file_size \/ (old = 0 /\ Len(Contents) = 1)

\* Behind the bytes of earlier runs the file is an unbroken, ordered run of
\* records that ends with the latest one written: nothing is dropped, doubled or
\* swapped within a file, a rotation loses only what was in the file before, and
\* after an outage no trace of it is left.
Unbroken ==
  InOrder => \A i \in DOMAIN Contents : Contents[i].n = written - Len(Contents) + i

\* While the stream is in order fewer than kFlushEvery records are on the way, on
\* whichever of the ways a Write can end: MaybeFlush counts every record the
\* stream still holds.
BoundedLag == pending < kFlushEvery /\ (~bad => Len(buffered) <= pending)

\* An outage of the disk ends by itself.  Nobody notices that the stream refuses
\* every line, but refused lines are counted, so that a rotation, which opens the
\* file anew, comes before more bytes were refused than the limit allows.
BoundedOutage == bad /\ max_file_size # 0 => refused <= max_file_size

\* A kill, wherever it strikes, costs at most kFlushEvery + 1 records: those that
\* are not in the file, the one Write is working on included, and the one the next
\* run appends to the beginning of a line that the kill left.
CrashCost ==
  lost + (IF glued /\ visible # <<>> THEN 1 ELSE 0) <= crashes * (kFlushEvery + 1)

\* A reader loses no record that could have stayed: while the stream is in order
\* the file is started over only if its true contents (bytes of earlier runs and of
\* killed ones included) and the record that comes next exceed the limit.
RotatesOnlyWhenFull ==
  [][\A len \in Lengths :
       Write(len) /\ InOrder /\ (old' # old \/ ~IsPrefix(visible, visible')) =>
         max_file_size # 0 /\ old + Bytes(Contents) + len > max_file_size]_sinkVars
=============================================================================
