------------------------ MODULE NetworkRecordProofs -------------------------
(***************************************************************************)
(* Proofs about NetworkRecord, for every set of kinds and values, vectors  *)
(* and batches of any length and any limits of the programs.               *)
(*                                                                         *)
(* RecordInv relates the entry of network_enter_state to the caller's      *)
(* memory and to what the kernel has done so far: the value that was saved *)
(* or will be read is the one the kernel used or left, and the msg_len     *)
(* cells of a batch add up to what was moved.  It needs the msg_len cells  *)
(* one by one, for which the sums of FoldLemmas are taken apart.           *)
(***************************************************************************)
EXTENDS NetworkRecord, FoldLemmas

CallRec == [kind : Kinds, done : BOOLEAN, ret : Int, raced : BOOLEAN, blind : BOOLEAN,
            wanted : BOOLEAN, count : Nat, asked : Nat, fits : BOOLEAN, tidy : BOOLEAN,
            value : Values \cup {None}, moved : Nat]

StateRec == [value : Values \cup {None}, requested : Nat, wanted : BOOLEAN, count : Nat]

MemoryOK ==
  /\ buf \in Values \cup {None}
  /\ full \in BOOLEAN
  /\ msgs \in [Slots -> [iov : Iovs, len : Nat]]

\* What the enter handler has saved about the call, whatever it could not read.
SavedOK ==
  /\ call \in CallRec /\ state \in StateRec
  /\ state.wanted = call.wanted /\ state.count = call.count
  /\ call.wanted => call.kind \in Taking \cup Leaving
  /\ call.kind \notin ByArgument => call.count \in 0 .. MaxMsgs
  /\ call.kind \notin ByArgument \cup ByBatch => call.count = 0
  /\ call.kind \notin ByArgument \cup ByVector \cup ByBatch => call.asked = 0
  /\ ~call.raced => state.requested <= call.asked
  /\ ~call.raced /\ ~call.blind /\ call.fits => state.requested = call.asked
  /\ state.value # None => call.kind \in ReadAtEnter

\* What is in the caller's buffer, if the call has one.
Offered == IF call.wanted /\ full THEN buf ELSE None

\* The value the kernel used or left is the one saved, or still in the buffer.
ValueOK ==
  ~call.raced /\ ~call.blind /\ call.kind # "recvmsg" =>
    /\ call.kind \in Taking => state.value = IF call.done THEN call.value ELSE Offered
    /\ call.kind \notin Taking /\ call.done /\ call.ret >= 0 => call.value = Offered
    /\ call.kind \notin Taking /\ call.done /\ call.ret < 0 => call.value = None
    /\ ~call.done => call.value = None

\* What was moved is what the call returned or what the msg_len cells say.
MovedOK ==
  /\ ~call.done \/ call.ret < 0 => call.moved = 0
  /\ call.done /\ call.ret >= 0 /\ call.kind \notin ByBatch =>
       call.moved = call.ret /\ call.ret <= call.asked
  /\ call.done /\ call.ret >= 0 /\ call.kind \in ByBatch /\ ~call.raced =>
       /\ call.ret <= call.count
       /\ call.moved = SumFunctionOnSet(Lengths, 1 .. call.ret)

\* In a tidy batch the messages the kernel has not handled have length 0.
TidyOK ==
  call.kind \in ByBatch /\ call.tidy /\ ~call.raced =>
    \A i \in 1 .. call.count :
      (call.done /\ call.ret >= 0 => i > call.ret) => msgs[i].len = 0

Correct == CapturedTrue /\ TransferExact /\ TransferCovers /\ RequestBounded /\ RequestExact

RecordInv ==
  /\ MemoryOK
  /\ call # Idle => SavedOK /\ ValueOK /\ MovedOK /\ TidyOK
  /\ Correct

-----------------------------------------------------------------------------
(* The sums.                                                               *)

\* What the programs add up of a vector is a part of its total.
LEMMA VectorSum ==
  ASSUME NEW v \in Iovs
  PROVE  /\ Total(v) \in Nat
         /\ sum_iovec_lengths(v) \in Nat
         /\ sum_iovec_lengths(v) <= Total(v)
         /\ Len(v) <= MAX_IOVEC_ENTRIES => sum_iovec_lengths(v) = Total(v)
<1> DEFINE part == 1 .. Least(Len(v), MAX_IOVEC_ENTRIES)
<1>1. v \in Seq(Nat) /\ Len(v) \in Nat /\ MAX_IOVEC_ENTRIES \in Nat  BY RecordAssumption
<1>2. DOMAIN v = 1 .. Len(v) /\ \A i \in 1 .. Len(v) : v[i] \in Nat  BY <1>1
<1>3. IsFiniteSet(1 .. Len(v))  BY <1>1, FS_Interval
<1>4. part \in SUBSET (1 .. Len(v))  BY <1>1 DEF Least
<1>10. Len(v) <= MAX_IOVEC_ENTRIES => part = 1 .. Len(v)  BY <1>1 DEF Least
<1> HIDE DEF part
<1>5. Weights(1 .. Len(v), v)  BY <1>2, <1>3 DEF Weights
<1>6. Weights(part, v)  BY <1>4, <1>5, FS_Subset DEF Weights
<1>7. \A i \in part : v[i] <= v[i]
  <2>1. \A i \in part : v[i] \in Nat  BY <1>6 DEF Weights
  <2> QED  BY <2>1
<1>8. SumFunctionOnSet(v, part) <= SumFunctionOnSet(v, 1 .. Len(v))
  BY <1>4, <1>5, <1>6, <1>7, SumMonotone
<1>9. SumFunctionOnSet(v, part) \in Nat /\ SumFunctionOnSet(v, 1 .. Len(v)) \in Nat
  BY <1>5, <1>6, SumTheorem
<1> QED  BY <1>2, <1>8, <1>9, <1>10, Zenon DEF Total, sum_iovec_lengths, part

\* So is what they add up of the vectors of a batch.
LEMMA BatchSum ==
  ASSUME MemoryOK, NEW n \in 0 .. MaxMsgs, NEW dark
  PROVE  /\ SumFunctionOnSet([i \in Slots |-> Total(msgs[i].iov)], 1 .. n) \in Nat
         /\ sum_mmsghdr_lengths(n, dark) \in Nat
         /\ sum_mmsghdr_lengths(n, dark)
              <= SumFunctionOnSet([i \in Slots |-> Total(msgs[i].iov)], 1 .. n)
         /\ /\ dark = {} /\ n <= MAX_MMSGHDR_ENTRIES
            /\ \A i \in 1 .. n : Len(msgs[i].iov) <= MAX_IOVEC_ENTRIES
            => sum_mmsghdr_lengths(n, dark)
                 = SumFunctionOnSet([i \in Slots |-> Total(msgs[i].iov)], 1 .. n)
<1> DEFINE w == [i \in Slots |-> Total(msgs[i].iov)]
           v == [i \in Slots |-> sum_iovec_lengths(msgs[i].iov)]
           part == (1 .. Least(n, MAX_MMSGHDR_ENTRIES)) \ dark
<1>1. n \in Nat /\ MaxMsgs \in Nat /\ MAX_MMSGHDR_ENTRIES \in Nat  BY RecordAssumption
<1>2. 1 .. n \subseteq Slots  BY <1>1 DEF Slots
<1>3. part \in SUBSET (1 .. n)  BY <1>1 DEF Least
<1>4. \A i \in Slots : msgs[i].iov \in Iovs  BY DEF MemoryOK
<1>5. \A i \in Slots : w[i] \in Nat /\ v[i] \in Nat /\ v[i] <= w[i]  BY <1>4, VectorSum
<1>6. IsFiniteSet(1 .. n)  BY <1>1, FS_Interval
<1>12. \A i \in 1 .. n : Len(msgs[i].iov) <= MAX_IOVEC_ENTRIES => v[i] = w[i]
  BY <1>2, <1>4, VectorSum
<1>13. dark = {} /\ n <= MAX_MMSGHDR_ENTRIES => part = 1 .. n  BY <1>1 DEF Least
<1> HIDE DEF w, v, part
<1>7. Weights(1 .. n, w)  BY <1>2, <1>5, <1>6 DEF Weights
<1>8. Weights(part, v)  BY <1>2, <1>3, <1>5, <1>6, FS_Subset DEF Weights
<1>9. \A i \in part : v[i] <= w[i]  BY <1>2, <1>3, <1>5
<1>10. SumFunctionOnSet(v, part) <= SumFunctionOnSet(w, 1 .. n)
  BY <1>3, <1>7, <1>8, <1>9, SumMonotone
<1>11. SumFunctionOnSet(v, part) \in Nat /\ SumFunctionOnSet(w, 1 .. n) \in Nat
  BY <1>7, <1>8, SumTheorem
<1>14. ASSUME dark = {}, n <= MAX_MMSGHDR_ENTRIES,
              \A i \in 1 .. n : Len(msgs[i].iov) <= MAX_IOVEC_ENTRIES
       PROVE  SumFunctionOnSet(v, part) = SumFunctionOnSet(w, 1 .. n)
  <2>1. part = 1 .. n /\ \A i \in 1 .. n : v[i] = w[i]  BY <1>12, <1>13, <1>14
  <2>2. SumFunctionOnSet(v, 1 .. n) = SumFunctionOnSet(w, 1 .. n)  BY <1>7, <2>1, SumEqual
  <2> QED  BY <2>1, <2>2
<1> QED  BY <1>10, <1>11, <1>14, Zenon DEF sum_mmsghdr_lengths, w, v, part

\* Within the limit, the msg_len cells the programs add up cover those of the
\* messages handled, and are no more if the rest are 0.
LEMMA TransferSum ==
  ASSUME MemoryOK, NEW n \in 0 .. MaxMsgs, NEW m \in 0 .. n, n <= MAX_MMSGHDR_ENTRIES
  PROVE  /\ sum_mmsghdr_transfers(n, {}) \in Nat
         /\ SumFunctionOnSet(Lengths, 1 .. m) \in Nat
         /\ sum_mmsghdr_transfers(n, {}) >= SumFunctionOnSet(Lengths, 1 .. m)
         /\ (\A i \in 1 .. n : i > m => msgs[i].len = 0) =>
              sum_mmsghdr_transfers(n, {}) = SumFunctionOnSet(Lengths, 1 .. m)
<1>1. n \in Nat /\ m \in Nat /\ m <= n /\ MaxMsgs \in Nat /\ MAX_MMSGHDR_ENTRIES \in Nat
  BY RecordAssumption
<1>2. 1 .. n \subseteq Slots /\ 1 .. m \in SUBSET (1 .. n)  BY <1>1 DEF Slots
<1>3. (1 .. Least(n, MAX_MMSGHDR_ENTRIES)) \ {} = 1 .. n  BY <1>1 DEF Least
<1>4. \A i \in Slots : Lengths[i] = msgs[i].len /\ Lengths[i] \in Nat  BY DEF MemoryOK, Lengths
<1>5. IsFiniteSet(1 .. n) /\ IsFiniteSet(1 .. m)  BY <1>1, FS_Interval
<1>6. Weights(1 .. n, Lengths) /\ Weights(1 .. m, Lengths)
  BY <1>2, <1>4, <1>5 DEF Weights
<1>7. SumFunctionOnSet(Lengths, 1 .. n) \in Nat /\ SumFunctionOnSet(Lengths, 1 .. m) \in Nat
  BY <1>6, SumTheorem
<1>8. \A i \in 1 .. m : Lengths[i] <= Lengths[i]
  <2>1. \A i \in 1 .. m : Lengths[i] \in Nat  BY <1>6 DEF Weights
  <2> QED  BY <2>1
<1>9. SumFunctionOnSet(Lengths, 1 .. m) <= SumFunctionOnSet(Lengths, 1 .. n)
  BY <1>2, <1>6, <1>8, SumMonotone
<1>10. ASSUME \A i \in 1 .. n : i > m => msgs[i].len = 0
       PROVE  SumFunctionOnSet(Lengths, 1 .. m) = SumFunctionOnSet(Lengths, 1 .. n)
  <2>1. \A i \in (1 .. n) \ (1 .. m) : Lengths[i] = 0  BY <1>1, <1>2, <1>4, <1>10
  <2> QED  BY <1>2, <1>6, <2>1, SumOfPart
<1>11. sum_mmsghdr_transfers(n, {}) = SumFunctionOnSet(Lengths, 1 .. n)
  BY <1>3, Zenon DEF sum_mmsghdr_transfers
<1>12. \A a, b \in Nat : a <= b => b >= a  OBVIOUS
<1> QED  BY <1>7, <1>9, <1>10, <1>11, <1>12, Zenon

-----------------------------------------------------------------------------
(* RecordInv, action by action.                                            *)

\* A call in progress is not Idle, and a kind belongs to one group of each sort.
LEMMA CallFacts ==
  /\ \A c \in CallRec : c # Idle
  /\ \A k \in Kinds : /\ k \in ByBatch => k \notin Taking \cup Leaving \cup ByArgument \cup ByVector
                      /\ k \in ByVector => k \notin ByArgument
                      /\ k \in Taking => k \notin Leaving
<1>1. "none" \notin Kinds
  BY RecordKinds DEF Taking, Leaving, ByArgument, ByVector, ByBatch
<1>2. \A c \in CallRec : c.kind \in Kinds  BY DEF CallRec
<1>3. Idle.kind = "none"  BY DEF Idle
<1>4. \A c \in CallRec : c # Idle  BY <1>1, <1>2, <1>3
<1>5. \A k \in Kinds : /\ k \in ByBatch => k \notin Taking \cup Leaving \cup ByArgument \cup ByVector
                       /\ k \in ByVector => k \notin ByArgument
                       /\ k \in Taking => k \notin Leaving
  BY DEF Taking, Leaving, ByArgument, ByVector, ByBatch
<1> QED  BY <1>4, <1>5

\* What a call asks for, by an array of messages.
LEMMA AskedFacts ==
  ASSUME NEW m \in [Slots -> [iov : Iovs, len : Nat]], NEW k \in Kinds, NEW n \in Nat,
         k \notin ByArgument => n \in 0 .. MaxMsgs, k \notin ByArgument \cup ByBatch => n = 0
  PROVE  /\ Asked(k, n, m) \in Nat
         /\ k \notin ByArgument \cup ByVector \cup ByBatch => Asked(k, n, m) = 0
<1> DEFINE w == [i \in Slots |-> Total(m[i].iov)]
<1>1. CASE k \in ByArgument  BY <1>1 DEF Asked
<1>2. CASE k \notin ByArgument /\ k \in ByVector
  <2>1. m[1].iov \in Iovs  BY RecordAssumption DEF Slots
  <2> QED  BY <1>2, <2>1, VectorSum DEF Asked
<1>3. CASE k \notin ByArgument /\ k \notin ByVector
  <2>1. 1 .. n \subseteq Slots  BY <1>3, RecordAssumption DEF Slots
  <2>2. \A i \in Slots : w[i] \in Nat
    <3>1. \A i \in Slots : m[i].iov \in Iovs  OBVIOUS
    <3> QED  BY <3>1, VectorSum
  <2>3. Asked(k, n, m) = SumFunctionOnSet(w, 1 .. n)  BY <1>3 DEF Asked
  <2>4. IsFiniteSet(1 .. n)  BY FS_Interval
  <2> HIDE DEF w
  <2>5. Weights(1 .. n, w)  BY <2>1, <2>2, <2>4 DEF Weights
  <2>6. k \notin ByBatch => 1 .. n = {}  BY <1>3
  <2>7. SumFunctionOnSet(w, 1 .. n) \in Nat /\ (1 .. n = {} => SumFunctionOnSet(w, 1 .. n) = 0)
    BY <2>5, SumTheorem
  <2> QED  BY <1>3, <2>3, <2>6, <2>7, Zenon
<1> QED  BY <1>1, <1>2, <1>3

\* What the enter handler adds up is no more, and the same if it could see it all.
LEMMA RequestFacts ==
  ASSUME MemoryOK, NEW k \in Kinds, NEW n \in Nat, k \notin ByArgument => n \in 0 .. MaxMsgs,
         k \notin ByArgument \cup ByBatch => n = 0, NEW dark, NEW requested,
         requested = IF k \in ByArgument THEN n
                     ELSE IF k \in ByVector /\ 1 \notin dark THEN sum_iovec_lengths(msgs[1].iov)
                     ELSE IF k \in ByBatch THEN sum_mmsghdr_lengths(n, dark)
                     ELSE 0
  PROVE  /\ requested \in Nat
         /\ requested <= Asked(k, n, msgs)
         /\ dark = {} /\ Fits(k, n) => requested = Asked(k, n, msgs)
<1>1. CASE k \in ByArgument  BY <1>1 DEF Asked
<1>2. CASE k \in ByVector
  <2>1. msgs[1].iov \in Iovs  BY RecordAssumption DEF MemoryOK, Slots
  <2>2. k \notin ByArgument /\ k \notin ByBatch  BY <1>2, CallFacts
  <2>3. Asked(k, n, msgs) = Total(msgs[1].iov)  BY <1>2, <2>2 DEF Asked
  <2>4. requested = sum_iovec_lengths(msgs[1].iov) \/ (requested = 0 /\ dark # {})
    BY <1>2, <2>2
  <2>5. Fits(k, n) => Len(msgs[1].iov) <= MAX_IOVEC_ENTRIES  BY <1>2 DEF Fits
  <2> QED  BY <2>1, <2>3, <2>4, <2>5, VectorSum
<1>3. CASE k \in ByBatch
  <2> DEFINE sum == SumFunctionOnSet([i \in Slots |-> Total(msgs[i].iov)], 1 .. n)
  <2>1. k \notin ByArgument /\ k \notin ByVector /\ n \in 0 .. MaxMsgs  BY <1>3, CallFacts
  <2>2. /\ sum_mmsghdr_lengths(n, dark) \in Nat
        /\ sum_mmsghdr_lengths(n, dark) <= sum
        /\ /\ dark = {} /\ n <= MAX_MMSGHDR_ENTRIES
           /\ \A i \in 1 .. n : Len(msgs[i].iov) <= MAX_IOVEC_ENTRIES
           => sum_mmsghdr_lengths(n, dark) = sum
    BY <2>1, BatchSum
  <2>3. Asked(k, n, msgs) = sum  BY <2>1 DEF Asked
  <2>4. Fits(k, n) => /\ n <= MAX_MMSGHDR_ENTRIES
                      /\ \A i \in 1 .. n : Len(msgs[i].iov) <= MAX_IOVEC_ENTRIES
    BY <1>3 DEF Fits
  <2>5. requested = sum_mmsghdr_lengths(n, dark)  BY <1>3, <2>1
  <2> HIDE DEF sum
  <2> QED  BY <2>2, <2>3, <2>4, <2>5, Zenon
<1>4. CASE k \notin ByArgument \cup ByVector \cup ByBatch
  <2>1. Asked(k, n, msgs) = 0  BY <1>4, AskedFacts DEF MemoryOK
  <2> QED  BY <1>4, <2>1
<1> QED  BY <1>1, <1>2, <1>3, <1>4

\* The properties are about the last event.
LEMMA CorrectKept ==
  ASSUME Correct, out' = out \/ out' = NoEvent
  PROVE  Correct'
<1>1. CASE out' = out
  BY <1>1 DEF Correct, CapturedTrue, TransferExact, TransferCovers, RequestBounded, RequestExact,
              Emitted
<1>2. CASE out' = NoEvent
  BY <1>2 DEF Correct, CapturedTrue, TransferExact, TransferCovers, RequestBounded, RequestExact,
              Emitted
<1> QED  BY <1>1, <1>2

LEMMA RecordInit == Init => RecordInv
<1> SUFFICES ASSUME Init PROVE RecordInv  OBVIOUS
<1>1. MemoryOK  BY DEF Init, MemoryOK
<1>2. Correct
  BY DEF Init, Correct, CapturedTrue, TransferExact, TransferCovers, RequestBounded, RequestExact,
         Emitted
<1> QED  BY <1>1, <1>2 DEF Init, RecordInv

LEMMA PrepareStep ==
  ASSUME RecordInv, Prepare
  PROVE  RecordInv'
<1>0. MemoryOK  BY DEF RecordInv
<1>1. MemoryOK'
  <2>1. buf' \in Values \cup {None}  BY <1>0 DEF Prepare, MemoryOK
  <2>2. full' \in BOOLEAN  BY <1>0, Zenon DEF Prepare, MemoryOK
  <2>3. msgs' \in [Slots -> [iov : Iovs, len : Nat]]  BY <1>0 DEF Prepare, MemoryOK
  <2> QED  BY <2>1, <2>2, <2>3, Zenon DEF MemoryOK
<1>2. Correct'  BY CorrectKept DEF RecordInv, Prepare
<1>3. call' = Idle  BY DEF Prepare
<1> QED  BY <1>1, <1>2, <1>3 DEF RecordInv

LEMMA EnterStep ==
  ASSUME RecordInv,
         NEW k \in Kinds, NEW wanted \in BOOLEAN, NEW n, NEW dark, SysEnter(k, wanted, n, dark)
  PROVE  RecordInv'
<1> DEFINE asked == Asked(k, n, msgs)
           fits == Fits(k, n)
           requested == IF k \in ByArgument THEN n
                        ELSE IF k \in ByVector /\ 1 \notin dark THEN sum_iovec_lengths(msgs[1].iov)
                        ELSE IF k \in ByBatch THEN sum_mmsghdr_lengths(n, dark)
                        ELSE 0
           tidy == \A i \in 1 .. n : k \in ByBatch => msgs[i].len = 0
           value == IF wanted /\ k \in ReadAtEnter THEN ReadValue(dark) ELSE None
<1>1. call' = [kind |-> k, done |-> FALSE, ret |-> 0, raced |-> FALSE, blind |-> dark # {},
               wanted |-> wanted, count |-> n, asked |-> asked, fits |-> fits, tidy  |-> tidy,
               value |-> None, moved |-> 0]
  BY DEF SysEnter
<1>2. state' = [value |-> value, requested |-> requested, wanted |-> wanted, count |-> n]
  BY DEF SysEnter, EnterHandler
<1>3. n \in Nat /\ (k \notin ByArgument => n \in 0 .. MaxMsgs)
      /\ (k \notin ByArgument \cup ByBatch => n = 0)
  <2>1. n \in IF k \in ByArgument THEN Lens ELSE IF k \in ByBatch THEN 0 .. MaxMsgs ELSE {0}
    BY DEF SysEnter
  <2>2. Lens \subseteq Nat /\ MaxMsgs \in Nat  BY RecordAssumption
  <2> QED  BY ONLY <2>1, <2>2
<1>4. MemoryOK /\ MemoryOK' /\ UNCHANGED memory
  BY DEF RecordInv, SysEnter, memory, MemoryOK
<1>5. /\ requested \in Nat /\ requested <= asked
      /\ dark = {} /\ fits => requested = asked
  <2> HIDE DEF requested
  <2>1. requested = IF k \in ByArgument THEN n
                    ELSE IF k \in ByVector /\ 1 \notin dark THEN sum_iovec_lengths(msgs[1].iov)
                    ELSE IF k \in ByBatch THEN sum_mmsghdr_lengths(n, dark)
                    ELSE 0
    BY DEF requested
  <2> QED  BY <1>3, <1>4, <2>1, RequestFacts
<1>6. asked \in Nat /\ (k \notin ByArgument \cup ByVector \cup ByBatch => asked = 0)
  BY <1>3, <1>4, AskedFacts DEF MemoryOK
<1>7. value \in Values \cup {None} /\ (value # None => k \in ReadAtEnter)
  BY <1>4 DEF MemoryOK, ReadValue
<1>8. dark = {} => value = IF wanted /\ k \in ReadAtEnter /\ full THEN buf ELSE None
  BY DEF ReadValue
<1>9. tidy \in BOOLEAN /\ fits \in BOOLEAN  BY DEF Fits
<1>10. k \in ByBatch /\ tidy => \A i \in 1 .. n : msgs[i].len = 0  OBVIOUS
<1> HIDE DEF asked, requested, fits, tidy, value
<1>11. /\ call'.kind = k /\ call'.done = FALSE /\ call'.ret = 0 /\ call'.raced = FALSE
       /\ call'.blind = (dark # {}) /\ call'.wanted = wanted /\ call'.count = n
       /\ call'.asked = asked /\ call'.fits = fits /\ call'.tidy = tidy /\ call'.value = None /\ call'.moved = 0
       /\ state'.value = value /\ state'.requested = requested
       /\ state'.wanted = wanted /\ state'.count = n
  BY <1>1, <1>2
<1>12. call' \in CallRec /\ state' \in StateRec
  <2>1. call' \in CallRec  BY <1>1, <1>3, <1>6, <1>9 DEF CallRec
  <2>2. state' \in StateRec  BY <1>2, <1>3, <1>5, <1>7 DEF StateRec
  <2> QED  BY <2>1, <2>2
<1>13. SavedOK'
  <2>1. wanted => k \in Taking \cup Leaving  BY DEF SysEnter
  <2> QED  BY <1>3, <1>5, <1>6, <1>7, <1>11, <1>12, <2>1 DEF SavedOK
<1>14. ValueOK'
  <2>1. k \in Taking => k \in ReadAtEnter  BY DEF ReadAtEnter
  <2>2. buf' = buf /\ full' = full  BY <1>4 DEF memory
  <2> QED  BY <1>8, <1>11, <2>1, <2>2 DEF ValueOK, Offered
<1>15. MovedOK'  BY <1>11 DEF MovedOK
<1>16. TidyOK'
  <2>1. msgs' = msgs  BY <1>4 DEF memory
  <2> QED  BY <1>10, <1>11, <2>1 DEF TidyOK
<1>17. Correct'  BY CorrectKept DEF RecordInv, SysEnter
<1> QED  BY <1>4, <1>13, <1>14, <1>15, <1>16, <1>17 DEF RecordInv

\* What happens to a call, in the forms the actions say it.
LEMMA CallUpdated ==
  ASSUME NEW c \in CallRec, NEW r \in Int, NEW m \in Nat, NEW v \in Values \cup {None}
  PROVE  /\ [c EXCEPT !.done = TRUE, !.ret = r, !.value = v] \in CallRec
         /\ [c EXCEPT !.done = TRUE, !.ret = r, !.moved = m] \in CallRec
         /\ [c EXCEPT !.done = TRUE, !.ret = r, !.moved = m, !.value = v] \in CallRec
         /\ [c EXCEPT !.raced = TRUE, !.asked = m] \in CallRec
<1>1. [c EXCEPT !.done = TRUE, !.ret = r, !.value = v] \in CallRec  BY DEF CallRec
<1>2. [c EXCEPT !.done = TRUE, !.ret = r, !.moved = m] \in CallRec  BY DEF CallRec
<1>3. [c EXCEPT !.done = TRUE, !.ret = r, !.moved = m, !.value = v] \in CallRec  BY DEF CallRec
<1>4. [c EXCEPT !.raced = TRUE, !.asked = m] \in CallRec  BY DEF CallRec
<1> QED  BY <1>1, <1>2, <1>3, <1>4

\* The steps of the kernel leave the entry alone: what SavedOK says of it carries
\* over to a call that differs in what happened to it.
LEMMA SavedKept ==
  ASSUME SavedOK, state' = state, call' \in CallRec,
         call'.kind = call.kind, call'.wanted = call.wanted, call'.count = call.count,
         \/ /\ call'.asked = call.asked /\ call'.fits = call.fits
            /\ call'.raced = call.raced /\ call'.blind = call.blind
         \/ /\ call'.raced
            /\ call.kind \notin ByArgument \cup ByVector \cup ByBatch => call'.asked = 0
  PROVE  SavedOK'
BY DEF SavedOK

LEMMA FailStep ==
  ASSUME RecordInv, Fail
  PROVE  RecordInv'
<1> DEFINE value == IF call.wanted /\ call.kind \in Taking /\ full THEN buf ELSE None
<1>1. MemoryOK /\ SavedOK /\ ValueOK /\ MovedOK /\ TidyOK /\ ~call.done /\ call \in CallRec
  BY DEF RecordInv, Fail, SavedOK
<1>2. call' = [call EXCEPT !.done = TRUE, !.ret = -1, !.value = value]  BY DEF Fail
<1>3. value \in Values \cup {None}  BY <1>1 DEF MemoryOK
<1> HIDE DEF value
<1>4. call' \in CallRec
  <2>1. -1 \in Int  OBVIOUS
  <2> QED  BY <1>1, <1>2, <1>3, <2>1, CallUpdated
<1>5. /\ call'.done = TRUE /\ call'.ret = -1 /\ call'.value = value
      /\ call'.kind = call.kind /\ call'.wanted = call.wanted /\ call'.count = call.count
      /\ call'.asked = call.asked /\ call'.raced = call.raced /\ call'.blind = call.blind
      /\ call'.fits = call.fits
      /\ call'.tidy = call.tidy /\ call'.moved = call.moved
  BY <1>1, <1>2 DEF CallRec
<1>6. buf' = buf /\ full' = full /\ msgs' = msgs /\ state' = state /\ out' = out
  BY DEF Fail, memory
<1>7. MemoryOK'  BY <1>1, <1>6 DEF MemoryOK
<1>8. SavedOK'  BY <1>1, <1>4, <1>5, <1>6, SavedKept
<1>9. ValueOK'
  BY <1>1, <1>5, <1>6 DEF ValueOK, Offered, value
<1>10. MovedOK'
  <2>1. call.moved = 0  BY <1>1 DEF MovedOK
  <2> QED  BY <1>5, <2>1 DEF MovedOK
<1>11. TidyOK'  BY <1>1, <1>5, <1>6 DEF TidyOK
<1>12. Correct'  BY <1>6, CorrectKept DEF RecordInv
<1> QED  BY <1>7, <1>8, <1>9, <1>10, <1>11, <1>12 DEF RecordInv

LEMMA TakeStep ==
  ASSUME RecordInv, Take
  PROVE  RecordInv'
<1> DEFINE value == IF call.wanted /\ full THEN buf ELSE None
<1>1. /\ MemoryOK /\ SavedOK /\ ValueOK /\ ~call.done /\ call \in CallRec
      /\ call.kind \in Taking \cup {"read", "write", "readv", "writev"}
  BY DEF RecordInv, Take, SavedOK
<1>2. PICK n \in 0 .. call.asked :
        call' = [call EXCEPT !.done = TRUE, !.ret = n, !.moved = n, !.value = value]
  BY DEF Take
<1>3. value \in Values \cup {None} /\ n \in Nat /\ n <= call.asked  BY <1>1 DEF MemoryOK, CallRec
<1> HIDE DEF value
<1>4. call' \in CallRec
  <2>1. n \in Int  BY <1>3
  <2> QED  BY <1>1, <1>2, <1>3, <2>1, CallUpdated, Zenon
<1>5. /\ call'.done = TRUE /\ call'.ret = n /\ call'.value = value /\ call'.moved = n
      /\ call'.kind = call.kind /\ call'.wanted = call.wanted /\ call'.count = call.count
      /\ call'.asked = call.asked /\ call'.raced = call.raced /\ call'.blind = call.blind
      /\ call'.fits = call.fits
  BY <1>1, <1>2 DEF CallRec
<1>6. buf' = buf /\ full' = full /\ msgs' = msgs /\ state' = state /\ out' = out
  BY DEF Take, memory
<1>7. MemoryOK'  BY <1>1, <1>6 DEF MemoryOK
<1>8. SavedOK'  BY <1>1, <1>4, <1>5, <1>6, SavedKept
<1>9. ValueOK'  BY <1>1, <1>5, <1>6 DEF ValueOK, Offered, value
<1>10. call.kind \notin ByBatch  BY <1>1 DEF Taking, ByBatch
<1>11. MovedOK'  BY <1>3, <1>5, <1>10 DEF MovedOK
<1>12. TidyOK'  BY <1>5, <1>10 DEF TidyOK
<1>13. Correct'  BY <1>6, CorrectKept DEF RecordInv
<1> QED  BY <1>7, <1>8, <1>9, <1>11, <1>12, <1>13 DEF RecordInv

LEMMA LeaveStep ==
  ASSUME RecordInv, Leave
  PROVE  RecordInv'
<1>1. /\ MemoryOK /\ SavedOK /\ ~call.done /\ call \in CallRec /\ call.kind \in Leaving
  BY DEF RecordInv, Leave, SavedOK
<1>2. PICK n \in 0 .. call.asked, v \in Values \cup {None} :
        /\ call' = [call EXCEPT !.done = TRUE, !.ret = n, !.moved = n,
                                !.value = IF call.wanted THEN v ELSE None]
        /\ buf' = IF call.wanted /\ v # None THEN v ELSE buf
        /\ full' = IF call.wanted THEN v # None ELSE full
  BY DEF Leave
<1> DEFINE value == IF call.wanted THEN v ELSE None
<1>3. value \in Values \cup {None} /\ n \in Nat /\ n <= call.asked  BY <1>1 DEF CallRec
<1>4. call' = [call EXCEPT !.done = TRUE, !.ret = n, !.moved = n, !.value = value]  BY <1>2
<1> HIDE DEF value
<1>5. call' \in CallRec
  <2>1. n \in Int  BY <1>3
  <2> QED  BY <1>1, <1>3, <1>4, <2>1, CallUpdated, Zenon
<1>6. /\ call'.done = TRUE /\ call'.ret = n /\ call'.value = value /\ call'.moved = n
      /\ call'.kind = call.kind /\ call'.wanted = call.wanted /\ call'.count = call.count
      /\ call'.asked = call.asked /\ call'.raced = call.raced /\ call'.blind = call.blind
      /\ call'.fits = call.fits
  BY <1>1, <1>4 DEF CallRec
<1>7. msgs' = msgs /\ state' = state /\ out' = out  BY DEF Leave
<1>8. MemoryOK'
  <2>1. buf' \in Values \cup {None}  BY <1>1, <1>2 DEF MemoryOK
  <2>2. full' \in BOOLEAN
    <3>1. CASE call.wanted  BY <1>2, <3>1, Zenon
    <3>2. CASE ~call.wanted  BY <1>1, <1>2, <3>2, Zenon DEF MemoryOK
    <3> QED  BY <3>1, <3>2
  <2>3. msgs' \in [Slots -> [iov : Iovs, len : Nat]]  BY <1>1, <1>7 DEF MemoryOK
  <2> QED  BY <2>1, <2>2, <2>3, Zenon DEF MemoryOK
<1>9. SavedOK'  BY <1>1, <1>5, <1>6, <1>7, SavedKept
<1>10. call.kind \notin ByBatch /\ call.kind \notin Taking  BY <1>1 DEF Leaving, Taking, ByBatch
<1>11. ValueOK'
  <2>1. CASE call.wanted /\ v = None
    <3>1. ~full'  BY <1>2, <2>1, Zenon
    <3> QED  BY <1>6, <1>10, <2>1, <3>1 DEF ValueOK, Offered, value
  <2>2. CASE call.wanted /\ v # None
    <3>1. full' /\ buf' = v  BY <1>2, <2>2, Zenon
    <3> QED  BY <1>6, <1>10, <2>2, <3>1 DEF ValueOK, Offered, value
  <2>3. CASE ~call.wanted  BY <1>6, <1>10, <2>3 DEF ValueOK, Offered, value
  <2> QED  BY <2>1, <2>2, <2>3
<1>12. MovedOK'  BY <1>3, <1>6, <1>10 DEF MovedOK
<1>13. TidyOK'  BY <1>6, <1>10 DEF TidyOK
<1>14. Correct'  BY <1>7, CorrectKept DEF RecordInv
<1> QED  BY <1>8, <1>9, <1>11, <1>12, <1>13, <1>14 DEF RecordInv

LEMMA BatchStep ==
  ASSUME RecordInv, Batch
  PROVE  RecordInv'
<1>1. /\ MemoryOK /\ SavedOK /\ ValueOK /\ TidyOK
      /\ ~call.done /\ call \in CallRec /\ call.kind \in ByBatch
      /\ call.count \in 0 .. MaxMsgs
  BY CallFacts DEF RecordInv, Batch, SavedOK, CallRec
<1>2. PICK n \in Least(1, call.count) .. call.count :
        \E lens \in [1 .. n -> UNION {0 .. Total(v) : v \in Iovs}] :
          /\ msgs' = [i \in Slots |-> IF i <= n THEN [msgs[i] EXCEPT !.len = lens[i]] ELSE msgs[i]]
          /\ call' = [call EXCEPT !.done = TRUE, !.ret = n,
                                  !.moved = SumFunctionOnSet(lens, 1 .. n)]
  BY DEF Batch
<1>3. PICK lens \in [1 .. n -> UNION {0 .. Total(v) : v \in Iovs}] :
        /\ msgs' = [i \in Slots |-> IF i <= n THEN [msgs[i] EXCEPT !.len = lens[i]] ELSE msgs[i]]
        /\ call' = [call EXCEPT !.done = TRUE, !.ret = n,
                                !.moved = SumFunctionOnSet(lens, 1 .. n)]
  BY <1>2
<1>4. /\ n \in Nat /\ n <= call.count /\ MaxMsgs \in Nat /\ call.count \in Nat
      /\ 1 .. n \subseteq Slots
  BY <1>1, RecordAssumption DEF Least, Slots
<1>5. \A i \in 1 .. n : lens[i] \in Nat
  <2>1. \A v \in Iovs : 0 .. Total(v) \subseteq Nat  BY VectorSum
  <2> QED  BY <1>3, <2>1
<1> DEFINE moved == SumFunctionOnSet(lens, 1 .. n)
<1>6. Weights(1 .. n, lens)
  <2>1. IsFiniteSet(1 .. n)  BY <1>4, FS_Interval
  <2> QED  BY <1>5, <2>1 DEF Weights
<1>7. moved \in Nat  BY <1>6, SumTheorem
<1>8. call' = [call EXCEPT !.done = TRUE, !.ret = n, !.moved = moved]  BY <1>3
<1> HIDE DEF moved
<1>9. call' \in CallRec
  <2>1. n \in Int /\ None \in Values \cup {None}  BY <1>4
  <2> QED  BY <1>1, <1>7, <1>8, <2>1, CallUpdated, Zenon
<1>10. /\ call'.done = TRUE /\ call'.ret = n /\ call'.moved = moved /\ call'.value = call.value
       /\ call'.kind = call.kind /\ call'.wanted = call.wanted /\ call'.count = call.count
       /\ call'.asked = call.asked /\ call'.raced = call.raced /\ call'.blind = call.blind
       /\ call'.fits = call.fits /\ call'.tidy = call.tidy
  BY <1>1, <1>8 DEF CallRec
<1>11. buf' = buf /\ full' = full /\ state' = state /\ out' = out  BY DEF Batch
<1>12. /\ msgs' \in [Slots -> [iov : Iovs, len : Nat]]
       /\ \A i \in Slots : msgs'[i].len = IF i <= n THEN lens[i] ELSE msgs[i].len
  <2>1. \A i \in Slots : i <= n => i \in 1 .. n  BY <1>4 DEF Slots
  <2>2. msgs \in [Slots -> [iov : Iovs, len : Nat]]  BY <1>1 DEF MemoryOK
  <2>3. ASSUME NEW i \in Slots
        PROVE  /\ msgs'[i] \in [iov : Iovs, len : Nat]
               /\ msgs'[i].len = IF i <= n THEN lens[i] ELSE msgs[i].len
    <3>1. msgs'[i] = IF i <= n THEN [msgs[i] EXCEPT !.len = lens[i]] ELSE msgs[i]  BY <1>3
    <3>2. msgs[i] \in [iov : Iovs, len : Nat]  BY <2>2
    <3> QED  BY <1>5, <2>1, <3>1, <3>2
  <2>4. msgs' = [i \in Slots |-> msgs'[i]]  BY <1>3
  <2> QED  BY <2>3, <2>4
<1>13. MemoryOK'  BY <1>1, <1>11, <1>12 DEF MemoryOK
<1>14. SavedOK'  BY <1>1, <1>9, <1>10, <1>11, SavedKept
<1>15. call.kind \notin Taking /\ call.kind \notin Leaving  BY <1>1 DEF ByBatch, Leaving, Taking
<1>16. ValueOK'
  <2>1. ~call.wanted  BY <1>1, <1>15 DEF SavedOK
  <2> QED  BY <1>1, <1>10, <1>15, <2>1 DEF ValueOK, Offered
<1>17. MovedOK'
  <2>1. \A i \in 1 .. n : Lengths'[i] = lens[i]
    <3>1. \A i \in Slots : Lengths'[i] = msgs'[i].len  BY DEF Lengths
    <3>2. \A i \in 1 .. n : i <= n  BY <1>4
    <3> QED  BY <1>4, <1>12, <3>1, <3>2
  <2>2. SumFunctionOnSet(Lengths', 1 .. n) = moved  BY <1>6, <2>1, SumEqual DEF moved
  <2>3. SumFunctionOnSet(Lengths', 1 .. call'.ret) = call'.moved  BY <1>10, <2>2, Zenon
  <2>4. call'.ret <= call'.count /\ ~(call'.ret < 0)  BY <1>4, <1>10
  <2> QED  BY <1>1, <1>10, <2>3, <2>4, Zenon DEF MovedOK
<1>18. TidyOK'
  <2> SUFFICES ASSUME call.tidy, ~call.raced, NEW i \in 1 .. call.count, i > n
               PROVE  msgs'[i].len = 0
    BY <1>4, <1>10 DEF TidyOK
  <2>1. msgs[i].len = 0  BY <1>1 DEF TidyOK
  <2>2. i \in Slots /\ ~(i <= n)  BY <1>1, <1>4 DEF Slots
  <2> QED  BY <1>12, <2>1, <2>2
<1>19. Correct'  BY <1>11, CorrectKept DEF RecordInv
<1> QED  BY <1>13, <1>14, <1>16, <1>17, <1>18, <1>19 DEF RecordInv

LEMMA RaceStep ==
  ASSUME RecordInv, Race
  PROVE  RecordInv'
<1> DEFINE asked == IF call.done THEN call.asked ELSE Asked(call.kind, call.count, msgs')
<1>1. /\ MemoryOK /\ SavedOK /\ MovedOK /\ call \in CallRec
      /\ call' = [call EXCEPT !.raced = TRUE, !.asked = asked]
  BY DEF RecordInv, Race, SavedOK
<1>2. state' = state /\ out' = out  BY DEF Race
<1>3. MemoryOK'
  <2>1. buf' \in Values \cup {None}  BY <1>1 DEF Race, MemoryOK
  <2>2. full' \in BOOLEAN  BY <1>1, Zenon DEF Race, MemoryOK
  <2>3. msgs' \in [Slots -> [iov : Iovs, len : Nat]]  BY <1>1 DEF Race, MemoryOK
  <2> QED  BY <2>1, <2>2, <2>3, Zenon DEF MemoryOK
<1>4. asked \in Nat /\ (call.kind \notin ByArgument \cup ByVector \cup ByBatch => asked = 0)
  <2>1. CASE call.done  BY <1>1, <2>1 DEF SavedOK, CallRec
  <2>2. CASE ~call.done
    <3>1. PICK k, n : k = call.kind /\ n = call.count  OBVIOUS
    <3>2. /\ k \in Kinds /\ n \in Nat
          /\ k \notin ByArgument => n \in 0 .. MaxMsgs
          /\ k \notin ByArgument \cup ByBatch => n = 0
      BY <1>1, <3>1 DEF SavedOK, CallRec
    <3>3. /\ Asked(k, n, msgs') \in Nat
          /\ k \notin ByArgument \cup ByVector \cup ByBatch => Asked(k, n, msgs') = 0
      BY <1>3, <3>2, AskedFacts DEF MemoryOK
    <3> QED  BY <2>2, <3>1, <3>3
  <2> QED  BY <2>1, <2>2
<1> HIDE DEF asked
<1>5. call' \in CallRec
  <2>1. 0 \in Int /\ None \in Values \cup {None}  OBVIOUS
  <2> QED  BY <1>1, <1>4, <2>1, CallUpdated
<1>6. /\ call'.raced = TRUE /\ call'.done = call.done /\ call'.ret = call.ret
      /\ call'.kind = call.kind /\ call'.wanted = call.wanted /\ call'.count = call.count
      /\ call'.asked = asked /\ call'.moved = call.moved
  BY <1>1 DEF CallRec
<1>7. SavedOK'  BY <1>1, <1>2, <1>4, <1>5, <1>6, SavedKept
<1>8. ValueOK'  BY <1>6 DEF ValueOK
<1>9. MovedOK'
  <2>1. call.done => asked = call.asked  BY DEF asked
  <2> QED  BY <1>1, <1>6, <2>1 DEF MovedOK
<1>10. TidyOK'  BY <1>6 DEF TidyOK
<1>11. Correct'  BY <1>2, CorrectKept DEF RecordInv
<1> QED  BY <1>3, <1>7, <1>8, <1>9, <1>10, <1>11 DEF RecordInv

\* The event that goes out: it is here that the properties are earned.
LEMMA ExitStep ==
  ASSUME RecordInv, NEW dark, SysExit(dark)
  PROVE  RecordInv'
<1> DEFINE e == Filled(call.kind, call.ret, dark)
<1>1. /\ MemoryOK /\ SavedOK /\ ValueOK /\ MovedOK /\ TidyOK
      /\ call.done /\ call \in CallRec /\ state \in StateRec
  BY DEF RecordInv, SysExit, SavedOK
<1>2. out' = [kind |-> call.kind, ret |-> call.ret, event |-> e,
              truth |-> [value |-> call.value, asked |-> call.asked, moved |-> call.moved],
              clean |-> ~call.raced /\ ~call.blind /\ dark = {}, raced |-> call.raced,
              tidy |-> call.tidy, fits |-> call.fits, count |-> call.count]
  BY DEF SysExit
<1>3. call' = Idle /\ MemoryOK'  BY <1>1 DEF SysExit, memory, MemoryOK
<1>4. /\ call.kind \in Kinds /\ call.ret \in Int /\ call.moved \in Nat /\ call.count \in Nat
      /\ call.asked \in Nat
  BY <1>1 DEF CallRec
<1>5. /\ e.value = IF call.kind \in ReadAtExit /\ call.ret >= 0 /\ state.wanted THEN ReadValue(dark)
                   ELSE state.value
      /\ e.requested = state.requested
      /\ e.transferred =
           IF call.kind \in ByArgument \cup ByVector /\ call.ret >= 0 THEN call.ret
           ELSE IF call.kind \in ByBatch /\ call.ret >= 0
                  THEN sum_mmsghdr_transfers(state.count, dark)
           ELSE 0
  BY DEF Filled
<1> HIDE DEF e
<1>6. /\ out'.kind = call.kind /\ out'.ret = call.ret /\ out'.event = e
      /\ out'.truth.value = call.value /\ out'.truth.asked = call.asked
      /\ out'.truth.moved = call.moved
      /\ out'.clean = (~call.raced /\ ~call.blind /\ dark = {})
      /\ out'.raced = call.raced
      /\ out'.tidy = call.tidy /\ out'.fits = call.fits /\ out'.count = call.count
  BY <1>2
<1>7. CapturedTrue'
  <2> SUFFICES ASSUME ~call.raced, ~call.blind, dark = {}, call.kind # "recvmsg"
               PROVE  e.value = call.value
    BY <1>6 DEF CapturedTrue
  <2>1. CASE call.kind \in Taking
    <3>1. call.kind \notin ReadAtExit  BY <2>1 DEF Taking, ReadAtExit, Leaving
    <3> QED  BY <1>1, <1>5, <2>1, <3>1 DEF ValueOK
  <2>2. CASE call.kind \notin Taking
    <3>1. /\ call.ret >= 0 => call.value = Offered
          /\ call.ret < 0 => call.value = None
      BY <1>1, <2>2 DEF ValueOK
    <3>2. call.kind \in Leaving => call.kind \in ReadAtExit  BY DEF ReadAtExit
    <3>3. call.kind \notin ReadAtEnter  BY <2>2 DEF ReadAtEnter
    <3>4. state.value = None /\ state.wanted = call.wanted  BY <1>1, <3>3 DEF SavedOK
    <3>5. CASE call.wanted /\ call.ret >= 0
      <4>1. call.kind \in ReadAtExit  BY <1>1, <2>2, <3>2, <3>5 DEF SavedOK
      <4>2. e.value = ReadValue({})  BY <1>5, <3>4, <3>5, <4>1
      <4> QED  BY <3>1, <3>5, <4>2 DEF Offered, ReadValue
    <3>6. CASE ~call.wanted /\ call.ret >= 0
      BY <1>5, <3>1, <3>4, <3>6 DEF Offered
    <3>7. CASE call.ret < 0  BY <1>4, <1>5, <3>1, <3>4, <3>7
    <3> QED  BY <1>4, <3>5, <3>6, <3>7
  <2> QED  BY <2>1, <2>2
<1>8. call.kind \notin ByBatch \/ call.ret < 0 => e.transferred = call.moved
  <2>1. CASE call.ret < 0  BY <1>1, <1>4, <1>5, <2>1 DEF MovedOK
  <2>2. CASE call.kind \notin ByBatch /\ call.ret >= 0
    <3>1. call.moved = call.ret /\ call.ret <= call.asked  BY <1>1, <2>2 DEF MovedOK
    <3>2. call.kind \notin ByArgument \cup ByVector => call.asked = 0
      BY <1>1, <2>2 DEF SavedOK
    <3> QED  BY <1>4, <1>5, <2>2, <3>1, <3>2
  <2> QED  BY <1>4, <2>1, <2>2
<1>9. ASSUME call.kind \in ByBatch, call.ret >= 0, ~call.raced, dark = {},
             call.count <= MAX_MMSGHDR_ENTRIES
      PROVE  /\ e.transferred >= call.moved
             /\ call.tidy => e.transferred = call.moved
  <2>1. call.kind \notin ByArgument \cup ByVector  BY <1>4, <1>9, CallFacts
  <2>2. e.transferred = sum_mmsghdr_transfers(call.count, {})
    BY <1>1, <1>5, <1>9, <2>1 DEF SavedOK
  <2>3. call.count \in 0 .. MaxMsgs  BY <1>1, <2>1 DEF SavedOK
  <2>4. /\ call.moved = SumFunctionOnSet(Lengths, 1 .. call.ret)
        /\ call.ret <= call.count
    BY <1>1, <1>9 DEF MovedOK
  <2>5. call.ret \in 0 .. call.count  BY <1>4, <1>9, <2>4
  <2>6. call.tidy => \A i \in 1 .. call.count : i > call.ret => msgs[i].len = 0
    BY <1>1, <1>9 DEF TidyOK
  <2> QED  BY <1>1, <1>9, <2>2, <2>3, <2>4, <2>5, <2>6, TransferSum, Zenon
<1>10. TransferExact'
  <2> SUFFICES ASSUME ~call.raced, ~call.blind, dark = {},
                      call.kind \in ByBatch => call.tidy /\ call.count <= MAX_MMSGHDR_ENTRIES
               PROVE  e.transferred = call.moved
    BY <1>6 DEF TransferExact
  <2> QED  BY <1>4, <1>8, <1>9
<1>11. TransferCovers'
  <2> SUFFICES ASSUME ~call.raced, ~call.blind, dark = {}, call.count <= MAX_MMSGHDR_ENTRIES
               PROVE  e.transferred >= call.moved
    BY <1>6 DEF TransferCovers
  <2> QED  BY <1>4, <1>8, <1>9
<1>12. RequestBounded'
  <2>1. ~call.raced => e.requested <= call.asked  BY <1>1, <1>5 DEF SavedOK
  <2> QED  BY <1>6, <2>1 DEF RequestBounded
<1>13. RequestExact'
  <2>1. ~call.raced /\ ~call.blind /\ call.fits => e.requested = call.asked
    BY <1>1, <1>5 DEF SavedOK
  <2> QED  BY <1>6, <2>1 DEF RequestExact
<1> QED  BY <1>3, <1>7, <1>10, <1>11, <1>12, <1>13 DEF RecordInv, Correct

\* RecordInv is inductive.
THEOREM RecordInvariant == Spec => []RecordInv
<1>1. RecordInv /\ [Next]_vars => RecordInv'
  <2> SUFFICES ASSUME RecordInv, [Next]_vars PROVE RecordInv'  OBVIOUS
  <2>1. CASE Prepare  BY <2>1, PrepareStep
  <2>2. CASE \E k \in Kinds, wanted \in BOOLEAN, n \in Lens \cup 0 .. MaxMsgs, dark \in Darkness :
               SysEnter(k, wanted, n, dark)
    BY <2>2, EnterStep
  <2>3. CASE Fail  BY <2>3, FailStep
  <2>4. CASE Take  BY <2>4, TakeStep
  <2>5. CASE Leave  BY <2>5, LeaveStep
  <2>6. CASE Batch  BY <2>6, BatchStep
  <2>7. CASE Race  BY <2>7, RaceStep
  <2>8. CASE \E dark \in Darkness : SysExit(dark)  BY <2>8, ExitStep
  <2>9. CASE UNCHANGED vars
    <3>1. /\ buf' = buf /\ full' = full /\ msgs' = msgs /\ call' = call /\ state' = state
          /\ out' = out
      BY <2>9 DEF vars
    <3>2. MemoryOK'  BY <3>1 DEF RecordInv, MemoryOK
    <3>3. (SavedOK' <=> SavedOK) /\ (ValueOK' <=> ValueOK) /\ (TidyOK' <=> TidyOK)
      BY <3>1 DEF SavedOK, ValueOK, TidyOK, Offered
    <3>4. Lengths' = Lengths  BY <3>1 DEF Lengths
    <3>5. MovedOK' <=> MovedOK  BY <3>1, <3>4 DEF MovedOK
    <3>6. Correct'  BY <3>1, CorrectKept DEF RecordInv
    <3> QED  BY <3>1, <3>2, <3>3, <3>5, <3>6 DEF RecordInv
  <2> QED  BY <2>1, <2>2, <2>3, <2>4, <2>5, <2>6, <2>7, <2>8, <2>9 DEF Next
<1> QED  BY RecordInit, <1>1, PTL DEF Spec

-----------------------------------------------------------------------------
(* What the events of a network call say.                                  *)

\* The endpoint or option value of an event is the one the kernel used or left,
\* whatever earlier calls have written to the caller's buffer.
THEOREM RecordCapturedTrue == Spec => []CapturedTrue
<1>1. RecordInv => CapturedTrue  BY DEF RecordInv, Correct
<1> QED  BY RecordInvariant, <1>1, PTL

\* bytes_transferred is what was moved, in a batch within the limit if no length
\* of an earlier call was left in it.
THEOREM RecordTransferExact == Spec => []TransferExact
<1>1. RecordInv => TransferExact  BY DEF RecordInv, Correct
<1> QED  BY RecordInvariant, <1>1, PTL

\* Within the limit, bytes_transferred misses nothing of what was moved.
THEOREM RecordTransferCovers == Spec => []TransferCovers
<1>1. RecordInv => TransferCovers  BY DEF RecordInv, Correct
<1> QED  BY RecordInvariant, <1>1, PTL

\* bytes_requested is never more than was asked for, with vectors and batches of
\* any length and unreadable memory, unless another thread writes to the vectors.
THEOREM RecordRequestBounded == Spec => []RequestBounded
<1>1. RecordInv => RequestBounded  BY DEF RecordInv, Correct
<1> QED  BY RecordInvariant, <1>1, PTL

\* bytes_requested is what was asked for, as far as the programs look: no entry of a
\* vector and no message of a batch is left out.
THEOREM RecordRequestExact == Spec => []RequestExact
<1>1. RecordInv => RequestExact  BY DEF RecordInv, Correct
<1> QED  BY RecordInvariant, <1>1, PTL
=============================================================================
