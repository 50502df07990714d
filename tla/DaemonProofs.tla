---------------------------- MODULE DaemonProofs ----------------------------
(***************************************************************************)
(* Proofs about JsonSink, in its full generality, and about Daemon, which  *)
(* is built on it.                                                         *)
(*                                                                         *)
(* A Write is composed of operators on stream values, so the invariant of  *)
(* the sink is carried by predicates on such values: Safe, which holds of  *)
(* every stream, and Exact, which holds of the stream of a sink in service.*)
(***************************************************************************)
EXTENDS Daemon, FoldLemmas, SequenceTheorems

Records == [n : 1 .. MaxRecords, len : Lengths]

Streams ==
  [old : Nat, visible : Seq(Records), torn : BOOLEAN, buffered : Seq(Records), bad : BOOLEAN,
   size : Nat, pending : Nat, age : 0 .. kFlushInterval, refused : Nat, glued : BOOLEAN]

Lines(s) == s.visible \o s.buffered

\* The stream counts what it holds, and an outage has not cost too much.
Safe(s) ==
  /\ s \in Streams
  /\ ~s.bad => Len(s.buffered) <= s.pending /\ s.refused = 0
  /\ s.bad /\ max_file_size # 0 => s.refused <= max_file_size

\* The byte count is right, the limit is kept, and the lines end with record w.
Exact(s, w) ==
  /\ s.refused <= s.size
  /\ ~s.bad =>
       /\ s.size = s.old + Bytes(Lines(s))
       /\ max_file_size # 0 /\ Lines(s) # <<>> =>
            s.size <= max_file_size \/ (s.old = 0 /\ Len(Lines(s)) = 1)
       /\ \A i \in DOMAIN Lines(s) : Lines(s)[i].n = w - Len(Lines(s)) + i

\* Of the records a crash may cost, the one glued to a cut-off line is counted
\* as soon as that line is there.
CostInv == lost + (IF glued THEN 1 ELSE 0) <= crashes * (kFlushEvery + 1)

\* The inductive invariant of the sink.
SinkInv ==
  /\ ready \in BOOLEAN
  /\ written \in 0 .. MaxRecords
  /\ crashes \in Nat /\ lost \in Nat
  /\ Safe(Stream)
  /\ pending < kFlushEvery
  /\ ready => Exact(Stream, written)
  /\ ~ready => buffered = <<>>
  /\ CostInv

-----------------------------------------------------------------------------
(* The length of the file.                                                 *)

LEMMA BytesType ==
  ASSUME NEW q \in Seq(Records)
  PROVE  Bytes(q) \in Nat
<1> DEFINE w == [i \in DOMAIN q |-> q[i].len]
<1>1. DOMAIN q = 1 .. Len(q) /\ Len(q) \in Nat /\ \A i \in DOMAIN q : q[i] \in Records
  BY LenProperties, ElementOfSeq
<1>2. Weights(DOMAIN q, w)
  <2>1. IsFiniteSet(1 .. Len(q))  BY <1>1, FS_Interval
  <2>2. \A r \in Records : r.len \in Nat  BY SinkAssumption DEF Records
  <2> QED  BY <1>1, <2>1, <2>2 DEF Weights
<1> HIDE DEF w
<1>3. SumFunctionOnSet(w, DOMAIN q) \in Nat  BY <1>2, SumTheorem
<1> QED  BY <1>3 DEF Bytes, w

LEMMA BytesEmpty == Bytes(<<>>) = 0
<1> DEFINE w == [i \in DOMAIN <<>> |-> <<>>[i].len]
<1>1. DOMAIN <<>> = {}  OBVIOUS
<1>2. Weights({}, w)  BY FS_EmptySet DEF Weights
<1> HIDE DEF w
<1>3. SumFunctionOnSet(w, {}) = 0  BY <1>2, SumTheorem
<1>4. Bytes(<<>>) = SumFunctionOnSet(w, DOMAIN <<>>)  BY DEF Bytes, w
<1> QED  BY <1>1, <1>3, <1>4, Zenon

LEMMA BytesAppend ==
  ASSUME NEW q \in Seq(Records), NEW r \in Records
  PROVE  Bytes(Append(q, r)) = Bytes(q) + r.len
<1> DEFINE p == Append(q, r)
           m == Len(q) + 1
           w == [i \in DOMAIN p |-> p[i].len]
           v == [i \in DOMAIN q |-> q[i].len]
<1>1. Len(q) \in Nat /\ DOMAIN q = 1 .. Len(q)  BY LenProperties
<1>2. p \in Seq(Records) /\ DOMAIN p = 1 .. m /\ p[m] = r /\ \A i \in 1 .. Len(q) : p[i] = q[i]
  BY <1>1
<1>3. \A e \in Records : e.len \in Nat  BY SinkAssumption DEF Records
<1>4. (\A i \in 1 .. m : p[i] \in Records) /\ \A i \in 1 .. Len(q) : q[i] \in Records
  BY <1>1, <1>2
<1>5. m \in 1 .. m /\ 1 .. m \ {m} = 1 .. Len(q)  BY <1>1
<1>6. IsFiniteSet(1 .. m) /\ IsFiniteSet(1 .. Len(q))  BY <1>1, FS_Interval
<1> HIDE DEF p
<1>7. \A i \in 1 .. m : w[i] = p[i].len  BY <1>2
<1>8. \A i \in 1 .. Len(q) : v[i] = q[i].len  BY <1>1
<1>9. w[m] = r.len /\ \A i \in 1 .. Len(q) : w[i] = v[i]  BY <1>1, <1>2, <1>7, <1>8
<1>10. Bytes(p) = SumFunctionOnSet(w, 1 .. m) /\ Bytes(q) = SumFunctionOnSet(v, 1 .. Len(q))
  BY <1>1, <1>2 DEF Bytes
<1> HIDE DEF w, v, m
<1>11. Weights(1 .. m, w) /\ Weights(1 .. Len(q), v)
  BY <1>3, <1>4, <1>6, <1>7, <1>8 DEF Weights
<1>12. SumFunctionOnSet(w, 1 .. m) = w[m] + SumFunctionOnSet(w, 1 .. m \ {m})
  BY <1>5, <1>11, SumTheorem
<1>13. SumFunctionOnSet(w, 1 .. Len(q)) = SumFunctionOnSet(v, 1 .. Len(q))
  BY <1>9, <1>11, SumEqual
<1>14. SumFunctionOnSet(v, 1 .. Len(q)) \in Nat  BY <1>11, SumTheorem
<1>15. Bytes(p) = r.len + Bytes(q)  BY <1>5, <1>9, <1>10, <1>12, <1>13, Zenon
<1>16. r.len \in Nat /\ Bytes(q) \in Nat  BY <1>3, BytesType
<1>17. Bytes(p) = Bytes(q) + r.len  BY <1>15, <1>16
<1> QED  BY <1>17 DEF p

-----------------------------------------------------------------------------
(* The stream.                                                             *)

\* t differs from s only in where its lines are.
SameCounts(s, t) ==
  /\ t.old = s.old /\ t.size = s.size /\ t.pending = s.pending /\ t.age = s.age
  /\ t.refused = s.refused /\ t.glued = s.glued

\* Handing lines on neither drops nor moves one.
LEMMA HandOver ==
  ASSUME NEW v \in Seq(Records), NEW b \in Seq(Records), NEW n \in 0 .. Len(b)
  PROVE  /\ v \o SubSeq(b, 1, n) \in Seq(Records)
         /\ SubSeq(b, n + 1, Len(b)) \in Seq(Records)
         /\ Len(SubSeq(b, n + 1, Len(b))) = Len(b) - n
         /\ (v \o SubSeq(b, 1, n)) \o SubSeq(b, n + 1, Len(b)) = v \o b
<1>1. Len(b) \in Nat /\ \A i \in 1 .. Len(b) : b[i] \in Records  BY LenProperties, ElementOfSeq
<1>2. SubSeq(b, 1, n) \in Seq(Records)
  <2>1. \A i \in 1 .. n : b[i] \in Records  BY <1>1
  <2> QED  BY <2>1, SubSeqProperties
<1>3. SubSeq(b, n + 1, Len(b)) \in Seq(Records) /\ Len(SubSeq(b, n + 1, Len(b))) = Len(b) - n
  <2>1. \A i \in n + 1 .. Len(b) : b[i] \in Records  BY <1>1
  <2>2. n + 1 \in Int /\ Len(b) \in Int  BY <1>1
  <2>3. /\ SubSeq(b, n + 1, Len(b)) \in Seq(Records)
        /\ Len(SubSeq(b, n + 1, Len(b))) = IF n + 1 <= Len(b) THEN Len(b) - (n + 1) + 1 ELSE 0
    BY <2>1, <2>2, SubSeqProperties
  <2> QED  BY <1>1, <2>3
<1>4. SubSeq(b, 1, n) \o SubSeq(b, n + 1, Len(b)) = b
  <2>1. 1 \in 1 .. Len(b) + 1 /\ n \in 1 - 1 .. Len(b) /\ Len(b) \in n .. Len(b)  BY <1>1
  <2>2. SubSeq(b, 1, n) \o SubSeq(b, n + 1, Len(b)) = SubSeq(b, 1, Len(b))
    BY <2>1, ConcatAdjacentSubSeq
  <2> QED  BY <2>2, SubSeqFull
<1>5. v \o SubSeq(b, 1, n) \in Seq(Records)  BY <1>2, ConcatProperties
<1>6. (v \o SubSeq(b, 1, n)) \o SubSeq(b, n + 1, Len(b))
        = v \o (SubSeq(b, 1, n) \o SubSeq(b, n + 1, Len(b)))
  <2> DEFINE a == SubSeq(b, 1, n)
             c == SubSeq(b, n + 1, Len(b))
  <2> HIDE DEF a, c
  <2>1. a \in Seq(Records) /\ c \in Seq(Records)  BY <1>2, <1>3 DEF a, c
  <2>2. (v \o a) \o c = v \o (a \o c)  BY <2>1, ConcatAssociative
  <2> QED  BY <2>2 DEF a, c
<1> QED  BY <1>3, <1>4, <1>5, <1>6

LEMMA AppendBehind ==
  ASSUME NEW v \in Seq(Records), NEW b \in Seq(Records), NEW r \in Records
  PROVE  v \o Append(b, r) = Append(v \o b, r)
<1>1. Append(b, r) = b \o <<r>> /\ Append(v \o b, r) = (v \o b) \o <<r>>
  BY ConcatProperties, AppendIsConcat
<1>2. <<r>> \in Seq(Records)  OBVIOUS
<1>3. (v \o b) \o <<r>> = v \o (b \o <<r>>)  BY <1>2, ConcatAssociative
<1> QED  BY <1>1, <1>3

LEMMA HandedOnEffect ==
  ASSUME NEW s \in Streams, NEW n \in 0 .. Len(s.buffered), NEW fails \in BOOLEAN,
         NEW t \in HandedOn(s, n, fails)
  PROVE  /\ t \in Streams /\ SameCounts(s, t)
         /\ t.bad = fails
         /\ fails => t.buffered = s.buffered
         /\ ~fails => Lines(t) = Lines(s) /\ Len(t.buffered) = Len(s.buffered) - n
<1>1. PICK begun \in BOOLEAN :
        t = [s EXCEPT !.visible = @ \o SubSeq(s.buffered, 1, n),
                      !.torn = begun,
                      !.buffered = IF fails THEN @ ELSE SubSeq(@, n + 1, Len(@)),
                      !.bad = fails]
  BY DEF HandedOn
<1> DEFINE b == s.buffered
<1>2. s.visible \in Seq(Records) /\ b \in Seq(Records)  BY DEF Streams
<1>3. /\ s.visible \o SubSeq(b, 1, n) \in Seq(Records)
      /\ SubSeq(b, n + 1, Len(b)) \in Seq(Records)
      /\ Len(SubSeq(b, n + 1, Len(b))) = Len(b) - n
      /\ (s.visible \o SubSeq(b, 1, n)) \o SubSeq(b, n + 1, Len(b)) = s.visible \o b
  BY <1>2, HandOver
<1>4. /\ t.visible = s.visible \o SubSeq(b, 1, n)
      /\ t.buffered = IF fails THEN b ELSE SubSeq(b, n + 1, Len(b))
      /\ t.bad = fails /\ t.torn = begun
      /\ SameCounts(s, t)
  BY <1>1 DEF Streams, SameCounts
<1>5. t \in Streams  BY <1>1, <1>2, <1>3 DEF Streams
<1> QED  BY <1>3, <1>4, <1>5 DEF Lines

\* What a flush leaves: a stream in order has handed everything on.
Flush(s, t) ==
  /\ t \in Streams
  /\ t.pending = 0 /\ t.age = 0
  /\ t.old = s.old /\ t.size = s.size /\ t.refused = s.refused /\ t.glued = s.glued
  /\ ~t.bad => ~s.bad /\ t.buffered = <<>> /\ Lines(t) = Lines(s)
  /\ s.buffered = <<>> => t.buffered = <<>>
  /\ "disk" \notin Faults /\ ~s.bad => ~t.bad

LEMMA RefusalsEffect ==
  ASSUME NEW s \in Streams, NEW t \in Refusals(s)
  PROVE  t \in Streams /\ SameCounts(s, t) /\ t.bad /\ t.buffered = s.buffered /\ "disk" \in Faults
<1>1. "disk" \in Faults /\ t \in UNION {HandedOn(s, n, TRUE) : n \in 0 .. Len(s.buffered) - 1}
  BY DEF Refusals
<1>2. PICK n \in 0 .. Len(s.buffered) - 1 : t \in HandedOn(s, n, TRUE)  BY <1>1
<1>3. Len(s.buffered) \in Nat  BY LenProperties DEF Streams
<1>4. n \in 0 .. Len(s.buffered)  BY <1>2, <1>3
<1> QED  BY <1>1, <1>2, <1>4, HandedOnEffect

LEMMA ForceFlushEffect ==
  ASSUME NEW s \in Streams, NEW t \in ForceFlush(s)
  PROVE  Flush(s, t)
<1>0. Len(s.buffered) \in Nat /\ s.buffered \in Seq(Records)  BY LenProperties DEF Streams
<1>1. PICK u \in Flushed(s) : t = [u EXCEPT !.pending = 0, !.age = 0]  BY DEF ForceFlush
<1>2. ASSUME NEW x \in HandedOn(s, Len(s.buffered), FALSE)
      PROVE  /\ x \in Streams /\ SameCounts(s, x) /\ ~x.bad
             /\ x.buffered = <<>> /\ Lines(x) = Lines(s)
  <2>0. PICK n \in 0 .. Len(s.buffered) : n = Len(s.buffered)  BY <1>0
  <2>1. /\ x \in Streams /\ SameCounts(s, x) /\ x.bad = FALSE
        /\ Lines(x) = Lines(s) /\ Len(x.buffered) = Len(s.buffered) - n
    <3>1. x \in HandedOn(s, n, FALSE)  BY <2>0
    <3> QED  BY <3>1, HandedOnEffect
  <2>2. Len(x.buffered) = 0 /\ x.buffered \in Seq(Records)  BY <1>0, <2>0, <2>1 DEF Streams
  <2> QED  BY <2>1, <2>2, EmptySeq
<1>3. /\ u \in Streams /\ SameCounts(s, u)
      /\ ~u.bad => ~s.bad /\ u.buffered = <<>> /\ Lines(u) = Lines(s)
      /\ s.buffered = <<>> => u.buffered = <<>>
      /\ "disk" \notin Faults /\ ~s.bad => ~u.bad
  <2>1. CASE ~s.bad
    <3>1. CASE u \in HandedOn(s, Len(s.buffered), FALSE)  BY <1>2, <2>1, <3>1
    <3>2. CASE u \in Refusals(s)  BY <2>1, <3>2, RefusalsEffect
    <3> QED  BY <1>1, <2>1, <3>1, <3>2 DEF Flushed
  <2>2. CASE s.bad
    <3>1. CASE u = s  BY <2>2, <3>1 DEF SameCounts
    <3>2. ASSUME NEW x \in HandedOn(s, Len(s.buffered), FALSE) \cup Refusals(s),
                 u = [x EXCEPT !.bad = TRUE]
          PROVE  /\ u \in Streams /\ SameCounts(s, u) /\ u.bad
                 /\ s.buffered = <<>> => u.buffered = <<>>
      <4>1. x \in Streams /\ SameCounts(s, x) /\ (s.buffered = <<>> => x.buffered = <<>>)
        BY <1>2, RefusalsEffect
      <4> QED  BY <3>2, <4>1 DEF Streams, SameCounts
    <3>3. u = s \/ \E x \in HandedOn(s, Len(s.buffered), FALSE) \cup Refusals(s) :
                      u = [x EXCEPT !.bad = TRUE]
      BY <1>1, <2>2 DEF Flushed, Retried
    <3> QED  BY <2>2, <3>1, <3>2, <3>3
  <2> QED  BY <2>1, <2>2
<1>4. /\ t.pending = 0 /\ t.age = 0 /\ t.visible = u.visible /\ t.buffered = u.buffered
      /\ t.bad = u.bad /\ t.old = u.old /\ t.size = u.size /\ t.refused = u.refused
      /\ t.glued = u.glued
  BY <1>1, <1>3 DEF Streams
<1>5. t \in Streams
  <2>1. 0 \in Nat /\ 0 \in 0 .. kFlushInterval  BY SinkAssumption
  <2> QED  BY <1>1, <1>3, <2>1 DEF Streams
<1> QED  BY <1>3, <1>4, <1>5 DEF Flush, SameCounts, Lines

LEMMA FlushKeeps ==
  ASSUME NEW s, NEW t, Safe(s), Flush(s, t), NEW w
  PROVE  /\ Safe(t)
         /\ Exact(s, w) => Exact(t, w)
<1>1. s \in Streams /\ t \in Streams  BY DEF Safe, Flush
<1>2. Safe(t)
  <2>1. ~t.bad => Len(t.buffered) <= t.pending /\ t.refused = 0
    <3> SUFFICES ASSUME ~t.bad PROVE Len(t.buffered) <= t.pending /\ t.refused = 0  OBVIOUS
    <3>1. t.buffered = <<>> /\ t.pending = 0 /\ t.refused = s.refused /\ ~s.bad  BY DEF Flush
    <3>2. Len(<<>>) = 0  OBVIOUS
    <3> QED  BY <3>1, <3>2 DEF Safe
  <2>2. max_file_size # 0 => t.refused <= max_file_size
    BY SinkAssumption DEF Safe, Flush
  <2> QED  BY <1>1, <2>1, <2>2 DEF Safe
<1>3. Exact(s, w) => Exact(t, w)  BY DEF Exact, Flush
<1> QED  BY <1>2, <1>3

\* There is room for a line, or the file is the line's own.
Room(s, len) ==
  max_file_size # 0 => \/ s.size + len <= max_file_size
                       \/ ~s.bad /\ s.old = 0 /\ Lines(s) = <<>>

\* The line is in a stream that was in order.
Taken(s, r) == [s EXCEPT !.buffered = Append(@, r), !.size = @ + r.len, !.pending = @ + 1]

LEMMA TakenKeeps ==
  ASSUME NEW s, Safe(s), ~s.bad, NEW w \in Nat, Exact(s, w),
         NEW r \in Records, r.n = w + 1, Room(s, r.len)
  PROVE  /\ Safe(Taken(s, r)) /\ ~Taken(s, r).bad
         /\ Exact(Taken(s, r), w + 1)
<1> DEFINE u == Taken(s, r)
           q == Lines(s)
<1>1. s \in Streams /\ r.len \in Nat  BY SinkAssumption DEF Safe, Records
<1>2. /\ s.visible \in Seq(Records) /\ s.buffered \in Seq(Records)
      /\ s.size \in Nat /\ s.pending \in Nat /\ s.refused \in Nat /\ s.old \in Nat
  BY <1>1 DEF Streams
<1>3. /\ u.visible = s.visible /\ u.buffered = Append(s.buffered, r)
      /\ u.size = s.size + r.len /\ u.pending = s.pending + 1
      /\ u.old = s.old /\ u.refused = s.refused /\ u.bad = s.bad
  BY <1>1 DEF Taken, Streams
<1>4. u \in Streams
  <2>1. /\ Append(s.buffered, r) \in Seq(Records) /\ s.size + r.len \in Nat
        /\ s.pending + 1 \in Nat
    BY <1>1, <1>2
  <2> QED  BY <1>1, <2>1 DEF Taken, Streams
<1>5. Len(s.buffered) \in Nat /\ Len(u.buffered) = Len(s.buffered) + 1  BY <1>2, <1>3
<1> HIDE DEF u
<1>6. q \in Seq(Records) /\ Len(q) \in Nat  BY <1>2, ConcatProperties, LenProperties DEF Lines
<1>7. Lines(u) = Append(q, r)  BY <1>2, <1>3, AppendBehind DEF Lines
<1> HIDE DEF q
<1>8. Safe(u)
  <2>1. Len(u.buffered) <= u.pending /\ u.refused = 0  BY <1>2, <1>3, <1>5 DEF Safe
  <2> QED  BY <1>3, <1>4, <2>1 DEF Safe
<1>9. u.refused <= u.size  BY <1>1, <1>2, <1>3 DEF Exact
<1>10. u.size = u.old + Bytes(Lines(u))
  <2>1. s.size = s.old + Bytes(q)  BY DEF Exact, q
  <2>2. Bytes(Lines(u)) = Bytes(q) + r.len  BY <1>6, <1>7, BytesAppend
  <2>3. Bytes(q) \in Nat  BY <1>6, BytesType
  <2> QED  BY <1>1, <1>2, <1>3, <2>1, <2>2, <2>3
<1>11. max_file_size # 0 => u.size <= max_file_size \/ (u.old = 0 /\ Len(Lines(u)) = 1)
  <2>1. CASE max_file_size # 0 /\ s.size + r.len <= max_file_size  BY <1>3, <2>1
  <2>2. CASE s.old = 0 /\ q = <<>>
    <3>1. Len(Lines(u)) = Len(q) + 1 /\ Len(q) = 0  BY <1>6, <1>7, <2>2
    <3> QED  BY <1>3, <2>2, <3>1
  <2> QED  BY <2>1, <2>2 DEF Room, q
<1>12. \A i \in DOMAIN Lines(u) : Lines(u)[i].n = (w + 1) - Len(Lines(u)) + i
  <2>1. /\ Len(Lines(u)) = Len(q) + 1 /\ DOMAIN Lines(u) = 1 .. Len(q) + 1
        /\ Lines(u)[Len(q) + 1] = r /\ \A i \in 1 .. Len(q) : Lines(u)[i] = q[i]
    BY <1>6, <1>7
  <2>2. \A i \in 1 .. Len(q) : q[i].n = w - Len(q) + i
    <3>1. DOMAIN q = 1 .. Len(q)  BY <1>6, LenProperties
    <3> QED  BY <3>1 DEF Exact, q
  <2> SUFFICES ASSUME NEW i \in 1 .. Len(q) + 1
               PROVE  Lines(u)[i].n = (w + 1) - (Len(q) + 1) + i
    BY <2>1
  <2>3. CASE i = Len(q) + 1  BY <1>6, <2>1, <2>3
  <2>4. CASE i \in 1 .. Len(q)  BY <1>6, <2>1, <2>2, <2>4
  <2> QED  BY <1>6, <2>3, <2>4
<1>13. Exact(u, w + 1)  BY <1>9, <1>10, <1>11, <1>12 DEF Exact
<1> QED  BY <1>3, <1>8, <1>13 DEF u

LEMMA AppendedKeeps ==
  ASSUME NEW s, Safe(s), NEW w \in Nat, Exact(s, w),
         NEW r \in Records, r.n = w + 1, Room(s, r.len), NEW t \in Appended(s, r)
  PROVE  /\ Safe(t) /\ Exact(t, w + 1)
         /\ t.pending = s.pending + 1 /\ t.age = s.age /\ t.glued = s.glued
         /\ "disk" \notin Faults /\ ~s.bad => ~t.bad
<1>1. s \in Streams /\ r.len \in Nat  BY SinkAssumption DEF Safe, Records
<1>2. s.size \in Nat /\ s.refused \in Nat /\ s.pending \in Nat  BY <1>1 DEF Streams
<1>3. CASE s.bad
  <2>1. t = [s EXCEPT !.refused = @ + r.len, !.size = @ + r.len, !.pending = @ + 1]
    BY <1>3 DEF Appended, Refused
  <2>2. /\ t.refused = s.refused + r.len /\ t.size = s.size + r.len /\ t.pending = s.pending + 1
        /\ t.bad = s.bad /\ t.age = s.age /\ t.glued = s.glued
    BY <1>1, <2>1 DEF Streams
  <2>3. t \in Streams
    <3>1. s.size + r.len \in Nat /\ s.refused + r.len \in Nat /\ s.pending + 1 \in Nat
      BY <1>1, <1>2
    <3> QED  BY <1>1, <2>1, <3>1 DEF Streams
  <2>4. s.refused <= s.size  BY DEF Exact
  <2>5. max_file_size # 0 => t.refused <= max_file_size
    BY <1>1, <1>2, <1>3, <2>2, <2>4, SinkAssumption DEF Room
  <2>6. t.refused <= t.size  BY <1>1, <1>2, <2>2, <2>4
  <2> QED  BY <1>3, <2>2, <2>3, <2>5, <2>6 DEF Safe, Exact
<1>4. CASE ~s.bad
  <2> DEFINE u == Taken(s, r)
  <2>1. Safe(u) /\ ~u.bad /\ Exact(u, w + 1)  BY <1>4, TakenKeeps
  <2>2. u.pending = s.pending + 1 /\ u.age = s.age /\ u.glued = s.glued
    BY <1>1 DEF Taken, Streams
  <2>3. \/ \E n \in 0 .. Len(u.buffered) : t \in HandedOn(u, n, FALSE)
        \/ t \in Refusals(u)
    BY <1>4 DEF Appended, Taken
  <2> HIDE DEF u
  <2>4. u \in Streams /\ Len(u.buffered) \in Nat  BY <2>1, LenProperties DEF Safe, Streams
  <2>5. /\ t \in Streams /\ SameCounts(u, t)
        /\ ~t.bad => Lines(t) = Lines(u) /\ Len(t.buffered) <= Len(u.buffered)
        /\ "disk" \notin Faults => ~t.bad
    <3>1. CASE t \in Refusals(u)  BY <2>4, <3>1, RefusalsEffect
    <3>2. ASSUME NEW n \in 0 .. Len(u.buffered), t \in HandedOn(u, n, FALSE)
          PROVE  /\ t \in Streams /\ SameCounts(u, t) /\ ~t.bad
                 /\ Lines(t) = Lines(u) /\ Len(t.buffered) <= Len(u.buffered)
      <4>1. /\ t \in Streams /\ SameCounts(u, t) /\ t.bad = FALSE
            /\ Lines(t) = Lines(u) /\ Len(t.buffered) = Len(u.buffered) - n
        BY <2>4, <3>2, HandedOnEffect
      <4>2. Len(t.buffered) <= Len(u.buffered)  BY <2>4, <4>1
      <4> QED  BY <4>1, <4>2
    <3> QED  BY <2>3, <3>1, <3>2
  <2>6. t.bad \in BOOLEAN /\ Len(t.buffered) \in Nat /\ u.pending \in Nat
    BY <2>4, <2>5, LenProperties DEF Streams
  <2>7. Safe(t)
    <3>1. u.refused = 0 /\ Len(u.buffered) <= u.pending  BY <2>1 DEF Safe
    <3> QED  BY <2>4, <2>5, <2>6, <3>1, SinkAssumption DEF Safe, SameCounts
  <2>8. Exact(t, w + 1)  BY <2>1, <2>5 DEF Exact, SameCounts
  <2> QED  BY <2>2, <2>5, <2>7, <2>8 DEF SameCounts
<1> QED  BY <1>3, <1>4

\* A reader who knows the file of s knows the beginning of the file of t.
Extends(s, t) ==
  /\ s \in Streams /\ t \in Streams
  /\ t.old = s.old
  /\ \E x \in Seq(Records) : t.visible = s.visible \o x

LEMMA PrefixOfConcat ==
  ASSUME NEW a \in Seq(Records), NEW x \in Seq(Records)
  PROVE  IsPrefix(a, a \o x)
<1>1. Len(a) \in Nat /\ Len(x) \in Nat /\ Len(a \o x) = Len(a) + Len(x)
  BY LenProperties, ConcatProperties
<1>2. SubSeq(a \o x, 1, Len(a)) = a  BY ConcatProperties, <1>1
<1> QED  BY <1>1, <1>2 DEF IsPrefix

LEMMA ExtendsTransitive ==
  ASSUME NEW s, NEW t, NEW u, Extends(s, t), Extends(t, u)
  PROVE  Extends(s, u)
<1>1. PICK x \in Seq(Records) : t.visible = s.visible \o x  BY DEF Extends
<1>2. PICK y \in Seq(Records) : u.visible = t.visible \o y  BY DEF Extends
<1>3. s.visible \in Seq(Records)  BY DEF Extends, Streams
<1>4. u.visible = s.visible \o (x \o y)
  <2> DEFINE a == s.visible
  <2> HIDE DEF a
  <2>1. a \in Seq(Records) /\ u.visible = (a \o x) \o y  BY <1>1, <1>2, <1>3 DEF a
  <2>2. (a \o x) \o y = a \o (x \o y)  BY <2>1, ConcatAssociative
  <2> QED  BY <2>1, <2>2 DEF a
<1>5. x \o y \in Seq(Records)  BY ConcatProperties
<1> QED  BY <1>4, <1>5 DEF Extends

LEMMA HandedOnExtends ==
  ASSUME NEW s \in Streams, NEW n \in 0 .. Len(s.buffered), NEW fails \in BOOLEAN,
         NEW t \in HandedOn(s, n, fails)
  PROVE  Extends(s, t)
<1>1. t \in Streams /\ t.old = s.old  BY HandedOnEffect DEF SameCounts
<1>2. t.visible = s.visible \o SubSeq(s.buffered, 1, n)  BY DEF HandedOn, Streams
<1>3. SubSeq(s.buffered, 1, n) \in Seq(Records)
  <2>1. s.buffered \in Seq(Records) /\ Len(s.buffered) \in Nat  BY LenProperties DEF Streams
  <2>2. \A i \in 1 .. n : s.buffered[i] \in Records  BY <2>1, ElementOfSeq
  <2> QED  BY <2>1, <2>2, SubSeqProperties
<1> QED  BY <1>1, <1>2, <1>3 DEF Extends

LEMMA SameFileExtends ==
  ASSUME NEW s \in Streams, NEW t \in Streams, t.old = s.old, t.visible = s.visible
  PROVE  Extends(s, t)
<1>1. s.visible \in Seq(Records)  BY DEF Streams
<1>2. s.visible \o <<>> = s.visible /\ <<>> \in Seq(Records)  BY <1>1, ConcatEmptySeq, EmptySeq
<1> QED  BY <1>2 DEF Extends

LEMMA RefusalsExtends ==
  ASSUME NEW s \in Streams, NEW t \in Refusals(s)
  PROVE  Extends(s, t)
<1>1. t \in UNION {HandedOn(s, n, TRUE) : n \in 0 .. Len(s.buffered) - 1}  BY DEF Refusals
<1>2. PICK n \in 0 .. Len(s.buffered) - 1 : t \in HandedOn(s, n, TRUE)  BY <1>1
<1>3. Len(s.buffered) \in Nat  BY LenProperties DEF Streams
<1>4. n \in 0 .. Len(s.buffered)  BY <1>2, <1>3
<1> QED  BY <1>2, <1>4, HandedOnExtends

LEMMA AppendedExtends ==
  ASSUME NEW s \in Streams, ~s.bad, NEW r \in Records, NEW t \in Appended(s, r)
  PROVE  Extends(s, t)
<1> DEFINE u == Taken(s, r)
<1>1. r.len \in Nat /\ s.size \in Nat /\ s.pending \in Nat /\ s.buffered \in Seq(Records)
  BY SinkAssumption DEF Records, Streams
<1>2. u \in Streams
  <2>1. Append(s.buffered, r) \in Seq(Records) /\ s.size + r.len \in Nat /\ s.pending + 1 \in Nat
    BY <1>1
  <2> QED  BY <2>1 DEF Taken, Streams
<1>3. u.old = s.old /\ u.visible = s.visible  BY DEF Taken, Streams
<1>4. \/ \E n \in 0 .. Len(u.buffered) : t \in HandedOn(u, n, FALSE)
      \/ t \in Refusals(u)
  BY DEF Appended, Taken
<1> HIDE DEF u
<1>5. Extends(u, t)  BY <1>2, <1>4, HandedOnExtends, RefusalsExtends
<1> QED  BY <1>2, <1>3, <1>5, SameFileExtends, ExtendsTransitive

LEMMA MaybeFlushExtends ==
  ASSUME NEW s \in Streams, NEW t \in MaybeFlush(s)
  PROVE  Extends(s, t)
<1>1. CASE t = s  BY <1>1, SameFileExtends
<1>2. CASE t \in ForceFlush(s)
  <2>1. PICK u \in Flushed(s) : t = [u EXCEPT !.pending = 0, !.age = 0]  BY <1>2 DEF ForceFlush
  <2>2. PICK n \in 0 .. Len(s.buffered) : n = Len(s.buffered)  BY LenProperties DEF Streams
  <2>3. ASSUME NEW x \in HandedOn(s, Len(s.buffered), FALSE) \cup Refusals(s)
        PROVE  Extends(s, x)
    BY <2>2, <2>3, HandedOnExtends, RefusalsExtends
  <2>4. Extends(s, u)
    <3>1. CASE u \in HandedOn(s, Len(s.buffered), FALSE) \cup Refusals(s)  BY <2>3, <3>1
    <3>2. CASE u = s  BY <3>2, SameFileExtends
    <3>3. ASSUME NEW x \in HandedOn(s, Len(s.buffered), FALSE) \cup Refusals(s),
                 u = [x EXCEPT !.bad = TRUE]
          PROVE  Extends(s, u)
      <4>1. Extends(s, x)  BY <2>3
      <4>2. u \in Streams /\ u.old = x.old /\ u.visible = x.visible
        BY <3>3, <4>1 DEF Extends, Streams
      <4> QED  BY <4>1, <4>2 DEF Extends
    <3> QED  BY <2>1, <3>1, <3>2, <3>3 DEF Flushed, Retried
  <2>5. t \in Streams  BY <1>2, ForceFlushEffect DEF Flush
  <2>6. t.old = u.old /\ t.visible = u.visible  BY <2>1, <2>4 DEF Extends, Streams
  <2> QED  BY <2>4, <2>5, <2>6 DEF Extends
<1> QED  BY <1>1, <1>2 DEF MaybeFlush

\* The file as it was opened.
LEMMA OpenedGood ==
  ASSUME NEW bytes \in Nat, NEW cut \in BOOLEAN, NEW w \in Nat
  PROVE  /\ Safe(Opened(bytes, cut)) /\ Exact(Opened(bytes, cut), w)
         /\ Opened(bytes, cut).pending = 0 /\ Opened(bytes, cut).glued = cut
         /\ Opened(bytes, cut).old = bytes /\ Opened(bytes, cut).age = 0
         /\ ~Opened(bytes, cut).bad /\ Lines(Opened(bytes, cut)) = <<>>
         /\ Opened(bytes, cut).buffered = <<>>
<1> DEFINE o == Opened(bytes, cut)
<1>1. /\ o.old = bytes /\ o.visible = <<>> /\ o.buffered = <<>> /\ o.bad = FALSE /\ o.size = bytes
      /\ o.pending = 0 /\ o.age = 0 /\ o.refused = 0 /\ o.glued = cut
  BY DEF Opened
<1>2. o \in Streams
  <2>1. <<>> \in Seq(Records) /\ 0 \in Nat /\ 0 \in 0 .. kFlushInterval
    BY EmptySeq, SinkAssumption
  <2> QED  BY <2>1 DEF Opened, Streams
<1> HIDE DEF o
<1>3. Lines(o) = <<>>
  <2>1. <<>> \o <<>> = <<>>  OBVIOUS
  <2> QED  BY <1>1, <2>1 DEF Lines
<1>4. Len(<<>>) = 0 /\ DOMAIN <<>> = {}  OBVIOUS
<1>5. Safe(o)  BY <1>1, <1>2, <1>4 DEF Safe
<1>6. Exact(o, w)
  <2>1. o.size = o.old + Bytes(<<>>)  BY <1>1, BytesEmpty
  <2> QED  BY <1>1, <1>3, <1>4, <2>1 DEF Exact
<1> QED  BY <1>1, <1>3, <1>5, <1>6 DEF o

-----------------------------------------------------------------------------
(* The sink.                                                               *)

LEMMA SetStreamIs ==
  ASSUME NEW t \in Streams, SetStream(t)
  PROVE  Stream' = t
BY DEF SetStream, Stream, Streams

\* There is room for the line that made RotateIfNeeded look.
LEMMA RotateMakesRoom ==
  ASSUME NEW s, Safe(s), s.pending < kFlushEvery, NEW w \in Nat, Exact(s, w), NEW len \in Lengths
  PROVE  LET o == RotateIfNeeded(s, len)
         IN  /\ Safe(o) /\ Exact(o, w) /\ Room(o, len)
             /\ o.pending < kFlushEvery /\ (o.glued => s.glued) /\ (~s.bad => ~o.bad)
<1> DEFINE o == RotateIfNeeded(s, len)
<1>1. len \in Nat /\ s.size \in Nat  BY SinkAssumption DEF Safe, Streams
<1>2. CASE MustRotate(s, len)
  <2>1. o = Opened(0, FALSE)  BY <1>2 DEF Rotated, RotateIfNeeded
  <2> HIDE DEF o
  <2>2. PICK z \in Nat : z = 0  OBVIOUS
  <2>3. o = Opened(z, FALSE)  BY <2>1, <2>2
  <2>4. /\ Safe(o) /\ Exact(o, w) /\ o.pending = 0 /\ ~o.glued /\ ~o.bad
        /\ Lines(o) = <<>> /\ o.old = z
    BY <2>3, OpenedGood
  <2>5. Room(o, len) /\ o.pending < kFlushEvery  BY <2>2, <2>4, SinkAssumption DEF Room
  <2> QED  BY <2>4, <2>5 DEF o
<1>3. CASE ~MustRotate(s, len)
  <2>1. o = s  BY <1>3 DEF RotateIfNeeded
  <2>2. Room(s, len)  BY <1>1, <1>3, SinkAssumption DEF MustRotate, Room
  <2> QED  BY <2>1, <2>2
<1> QED  BY <1>2, <1>3

\* What a Write of a ready sink leaves in the stream.
LEMMA WriteReadyEffect ==
  ASSUME NEW s, Safe(s), s.pending < kFlushEvery, NEW w \in 0 .. MaxRecords - 1, Exact(s, w),
         NEW len \in Lengths, NEW u, NEW t \in MaybeFlush(u),
         u \in Appended(RotateIfNeeded(s, len), [n |-> w + 1, len |-> len])
  PROVE  /\ Safe(t) /\ Exact(t, w + 1) /\ t.pending < kFlushEvery
         /\ t.glued => s.glued
         /\ "disk" \notin Faults /\ ~s.bad => ~t.bad
<1> DEFINE r == [n |-> w + 1, len |-> len]
           o == RotateIfNeeded(s, len)
<1>1. r \in Records /\ r.n = w + 1 /\ r.len = len /\ w \in Nat /\ len \in Nat
  BY SinkAssumption DEF Records
<1>2. s \in Streams /\ s.size \in Nat /\ s.pending \in Nat /\ s.glued \in BOOLEAN
  BY DEF Safe, Streams
<1>3. /\ Safe(o) /\ Exact(o, w) /\ Room(o, len)
      /\ o.pending < kFlushEvery /\ (o.glued => s.glued) /\ (~s.bad => ~o.bad)
  BY <1>1, RotateMakesRoom
<1>4. u \in Appended(o, r)  OBVIOUS
<1> HIDE DEF o, r
<1>5. /\ Safe(u) /\ Exact(u, w + 1)
      /\ u.pending = o.pending + 1 /\ u.age = o.age /\ u.glued = o.glued
      /\ "disk" \notin Faults /\ ~o.bad => ~u.bad
  BY <1>1, <1>3, <1>4, AppendedKeeps
<1>6. u \in Streams  BY <1>5 DEF Safe
<1>7. CASE t = u /\ u.pending < kFlushEvery  BY <1>3, <1>5, <1>7
<1>8. CASE t \in ForceFlush(u)
  <2>1. Flush(u, t)  BY <1>6, <1>8, ForceFlushEffect
  <2>2. Safe(t) /\ Exact(t, w + 1)  BY <1>5, <2>1, FlushKeeps
  <2> QED  BY <1>3, <1>5, <2>1, <2>2, SinkAssumption DEF Flush
<1> QED  BY <1>7, <1>8 DEF MaybeFlush

\* What a rotation leaves that cannot open the file again.
LEMMA HalfRotatedEffect ==
  ASSUME NEW s, Safe(s), NEW t \in HalfRotated(s)
  PROVE  Safe(t) /\ t.pending = 0 /\ t.buffered = <<>> /\ (t.glued => s.glued)
<1>1. CASE t = Rotated(s)
  <2>1. PICK z \in Nat : z = 0  OBVIOUS
  <2>2. t = Opened(z, FALSE)  BY <1>1, <2>1 DEF Rotated
  <2>3. FALSE \in BOOLEAN  OBVIOUS
  <2> QED  BY <2>1, <2>2, <2>3, OpenedGood
<1>2. ASSUME NEW u \in ForceFlush(s), t = [u EXCEPT !.size = 0, !.buffered = <<>>]
      PROVE  Safe(t) /\ t.pending = 0 /\ t.buffered = <<>> /\ (t.glued => s.glued)
  <2>1. Flush(s, u)  BY <1>2, ForceFlushEffect DEF Safe
  <2>2. PICK w \in Nat : TRUE  OBVIOUS
  <2>3. Safe(u)  BY <2>1, <2>2, FlushKeeps
  <2>4. u \in Streams /\ u.pending = 0 /\ u.glued = s.glued  BY <2>1 DEF Flush
  <2>5. /\ t.buffered = <<>> /\ t.pending = u.pending /\ t.refused = u.refused /\ t.bad = u.bad
        /\ t.glued = u.glued
    BY <1>2, <2>4 DEF Streams
  <2>6. t \in Streams
    <3>1. <<>> \in Seq(Records) /\ 0 \in Nat  BY EmptySeq
    <3> QED  BY <1>2, <2>4, <3>1 DEF Streams
  <2>7. Len(<<>>) = 0  OBVIOUS
  <2> QED  BY <2>3, <2>4, <2>5, <2>6, <2>7 DEF Safe
<1> QED  BY <1>1, <1>2 DEF HalfRotated

\* Nothing but a crash makes a record lost, and only a crash glues one.
LEMMA CostKept ==
  ASSUME SinkInv, glued' \in BOOLEAN, glued' => glued, UNCHANGED <<crashes, lost>>
  PROVE  CostInv'
<1>1. glued \in BOOLEAN  BY DEF SinkInv, Safe, Streams, Stream
<1>2. lost \in Nat /\ crashes * (kFlushEvery + 1) \in Int  BY SinkAssumption DEF SinkInv
<1>3. lost + (IF glued THEN 1 ELSE 0) <= crashes * (kFlushEvery + 1)  BY DEF SinkInv, CostInv
<1>4. \A m \in Nat, k \in Int : m + 1 <= k => m + 0 <= k  OBVIOUS
<1>5. lost + (IF glued' THEN 1 ELSE 0) <= crashes * (kFlushEvery + 1)
  <2>1. CASE glued  BY <1>2, <1>3, <1>4, <2>1
  <2>2. CASE ~glued  BY <1>3, <2>2
  <2> QED  BY <2>1, <2>2
<1> QED  BY <1>5 DEF CostInv

LEMMA WriteKeeps ==
  ASSUME SinkInv, NEW len \in Lengths, Write(len)
  PROVE  SinkInv' /\ ("disk" \notin Faults /\ ~bad => ~bad')
<1> DEFINE r == [n |-> written + 1, len |-> len]
<1>1. written \in 0 .. MaxRecords - 1 /\ written' = written + 1 /\ UNCHANGED <<crashes, lost>>
  BY SinkAssumption DEF Write, SinkInv
<1>2. /\ Safe(Stream) /\ Stream \in Streams /\ pending < kFlushEvery /\ Stream.pending = pending
      /\ Stream.glued = glued /\ Stream.bad = bad /\ Stream.buffered = buffered
  BY DEF SinkInv, Safe, Stream
<1>3. /\ written' \in 0 .. MaxRecords /\ crashes' \in Nat /\ lost' \in Nat
  BY <1>1, SinkAssumption DEF SinkInv
<1>4. ASSUME NEW t, Safe(t), SetStream(t), t.glued => glued
      PROVE  Stream' = t /\ CostInv'
  <2>1. t \in Streams  BY <1>4 DEF Safe
  <2>2. Stream' = t /\ glued' = t.glued  BY <1>4, <2>1, SetStreamIs DEF SetStream
  <2>3. glued' \in BOOLEAN  BY <2>1, <2>2 DEF Streams
  <2> QED  BY <1>1, <1>4, <2>2, <2>3, CostKept
<1>5. CASE WriteReady(r)
  <2>1. PICK u \in Appended(RotateIfNeeded(Stream, len), r) :
          \E t \in MaybeFlush(u) : SetStream(t)
    BY <1>5 DEF WriteReady
  <2>2. PICK t \in MaybeFlush(u) : SetStream(t)  BY <2>1
  <2>3. ready /\ ready' = ready /\ Exact(Stream, written)
    BY <1>5 DEF WriteReady, SinkInv
  <2>4. /\ Safe(t) /\ Exact(t, written + 1) /\ t.pending < kFlushEvery
        /\ t.glued => Stream.glued
        /\ "disk" \notin Faults /\ ~Stream.bad => ~t.bad
    BY <1>1, <1>2, <2>1, <2>2, <2>3, WriteReadyEffect
  <2>5. Stream' = t /\ CostInv'  BY <1>2, <1>4, <2>2, <2>4
  <2>6. pending' = t.pending /\ bad' = t.bad  BY <2>2 DEF SetStream
  <2>7. Safe(Stream)' /\ Exact(Stream, written)'  BY <1>1, <2>4, <2>5
  <2> QED  BY <1>2, <1>3, <2>3, <2>4, <2>5, <2>6, <2>7 DEF SinkInv
<1>6. CASE RotateFails(r)
  <2>1. PICK t \in HalfRotated(Stream) : SetStream(t)  BY <1>6 DEF RotateFails
  <2>2. ready' = FALSE  BY <1>6 DEF RotateFails
  <2>3. Safe(t) /\ t.pending = 0 /\ t.buffered = <<>> /\ (t.glued => glued)
    BY <1>2, <2>1, HalfRotatedEffect
  <2>4. Stream' = t /\ CostInv'  BY <1>4, <2>1, <2>3
  <2>5. pending' = 0 /\ buffered' = <<>> /\ bad' = t.bad  BY <2>1, <2>3 DEF SetStream
  <2>6. "disk" \notin Faults /\ ~bad => ~bad'
    <3> SUFFICES ASSUME "disk" \notin Faults, ~bad PROVE ~t.bad  BY <2>5
    <3>1. CASE t = Opened(0, FALSE)  BY <3>1 DEF Opened
    <3>2. ASSUME NEW u \in ForceFlush(Stream), t = [u EXCEPT !.size = 0, !.buffered = <<>>]
          PROVE  ~t.bad
      <4>1. Flush(Stream, u)  BY <1>2, ForceFlushEffect
      <4> QED  BY <1>2, <3>2, <4>1 DEF Flush, Streams
    <3> QED  BY <2>1, <3>1, <3>2 DEF HalfRotated, Rotated
  <2>7. Safe(Stream)'  BY <2>3, <2>4
  <2>8. pending' < kFlushEvery  BY <2>5, SinkAssumption
  <2> QED  BY <1>3, <2>2, <2>4, <2>5, <2>6, <2>7, <2>8 DEF SinkInv
<1>7. CASE WriteNotReady
  <2>1. ~ready /\ UNCHANGED <<ready, streamVars>>
    BY <1>7 DEF WriteNotReady
  <2>2. Stream' = Stream /\ pending' = pending /\ buffered' = buffered /\ glued' = glued /\ bad' = bad
    BY <2>1 DEF streamVars, Stream
  <2>3. Safe(Stream)'  BY <1>2, <2>2
  <2>4. glued' \in BOOLEAN  BY <1>2, <2>2 DEF Streams
  <2>5. CostInv'  BY <1>1, <2>2, <2>4, CostKept
  <2> QED  BY <1>2, <1>3, <2>1, <2>2, <2>3, <2>5 DEF SinkInv
<1> QED  BY <1>5, <1>6, <1>7 DEF Write

LEMMA TickKeeps ==
  ASSUME SinkInv, Tick
  PROVE  SinkInv' /\ bad' = bad
<1>1. /\ UNCHANGED <<ready, old, visible, torn, buffered, bad, file_size, pending, refused, glued,
                     written, crashes, lost>>
      /\ age' = age + 1 /\ age < kFlushInterval
  BY DEF Tick
<1>2. Stream \in Streams  BY DEF SinkInv, Safe
<1>3. age' \in 0 .. kFlushInterval
  <2>1. age \in 0 .. kFlushInterval  BY <1>2 DEF Stream, Streams
  <2> QED  BY <1>1, <2>1, SinkAssumption
<1>4. Stream' = [Stream EXCEPT !.age = age']  BY <1>1 DEF Stream
<1>5. Stream' \in Streams  BY <1>2, <1>3, <1>4 DEF Streams
<1>6. /\ Stream'.bad = Stream.bad /\ Stream'.buffered = Stream.buffered
      /\ Stream'.pending = Stream.pending /\ Stream'.refused = Stream.refused
      /\ Stream'.size = Stream.size /\ Stream'.old = Stream.old /\ Stream'.visible = Stream.visible
  BY <1>1 DEF Stream
<1>7. Lines(Stream') = Lines(Stream)  BY <1>6 DEF Lines
<1>8. Safe(Stream')  BY <1>5, <1>6 DEF SinkInv, Safe
<1>9. ready => Exact(Stream', written)  BY <1>6, <1>7 DEF SinkInv, Exact
<1>10. CostInv'  BY <1>1 DEF SinkInv, CostInv
<1> QED  BY <1>1, <1>8, <1>9, <1>10 DEF SinkInv

\* A flush under way has not added to what is in the stream.
LEMMA FlushingEffect ==
  ASSUME NEW s \in Streams, NEW t \in Flushing(s)
  PROVE  /\ t \in Streams /\ t.bad = s.bad /\ t.glued = s.glued /\ t.pending = s.pending
         /\ Len(t.buffered) <= Len(s.buffered)
<1>1. PICK n \in 0 .. Len(s.buffered) : \E u \in HandedOn(s, n, FALSE) : t = [u EXCEPT !.bad = s.bad]
  BY DEF Flushing
<1>2. PICK u \in HandedOn(s, n, FALSE) : t = [u EXCEPT !.bad = s.bad]  BY <1>1
<1>3. /\ u \in Streams /\ SameCounts(s, u) /\ Len(u.buffered) = Len(s.buffered) - n
  BY <1>1, <1>2, HandedOnEffect
<1>4. s.bad \in BOOLEAN /\ Len(s.buffered) \in Nat  BY LenProperties DEF Streams
<1>5. /\ t.bad = s.bad /\ t.buffered = u.buffered /\ t.glued = u.glued /\ t.pending = u.pending
      /\ t \in Streams
  BY <1>2, <1>3, <1>4 DEF Streams
<1>6. Len(u.buffered) <= Len(s.buffered)  BY <1>1, <1>3, <1>4
<1> QED  BY <1>3, <1>5, <1>6 DEF SameCounts

\* The next run finds a good file, and the loss is within its bound if at most
\* kFlushEvery records were on their way.
LEMMA KilledKeeps ==
  ASSUME SinkInv, NEW s \in Streams, NEW unsaved \in {0, 1}, Killed(s, unsaved),
         ~s.bad => Len(s.buffered) + unsaved <= kFlushEvery, s.glued => glued,
         written' \in 0 .. MaxRecords
  PROVE  SinkInv'
<1> DEFINE cut == s.torn \/ (s.glued /\ s.visible = <<>>)
           o == Opened(OnDisk(s), cut)
           spilt == IF s.bad THEN 0 ELSE Len(s.buffered) + unsaved
           stuck == IF s.glued /\ s.visible # <<>> THEN 1 ELSE 0
<1>1. /\ SetStream(o) /\ ready' = TRUE /\ crashes' = crashes + 1
      /\ lost' = lost + spilt + stuck
  BY DEF Killed
<1>2. written' \in Nat /\ glued \in BOOLEAN  BY DEF SinkInv, Safe, Stream, Streams
<1>3. /\ s.torn \in BOOLEAN /\ s.glued \in BOOLEAN /\ s.bad \in BOOLEAN /\ s.old \in Nat
      /\ s.visible \in Seq(Records) /\ s.buffered \in Seq(Records)
  BY DEF Streams
<1>4. OnDisk(s) \in Nat  BY <1>3, BytesType DEF OnDisk
<1>5. cut \in BOOLEAN  BY <1>3
<1>6. spilt \in Nat /\ spilt <= kFlushEvery
  <2>1. Len(s.buffered) \in Nat  BY <1>3, LenProperties
  <2> QED  BY <1>3, <2>1, SinkAssumption
<1>7. stuck \in {0, 1} /\ (cut => s.torn \/ (glued /\ stuck = 0)) /\ (~glued => stuck = 0)
  BY <1>3
<1> HIDE DEF spilt, stuck, cut
<1>8. /\ Safe(o) /\ Exact(o, written') /\ o.pending = 0 /\ o.glued = cut /\ o.buffered = <<>>
  BY <1>2, <1>4, <1>5, OpenedGood
<1>9. o \in Streams  BY <1>8 DEF Safe
<1> HIDE DEF o
<1>10. Stream' = o /\ pending' = 0 /\ glued' = cut /\ buffered' = <<>>
  BY <1>1, <1>8, <1>9, SetStreamIs DEF SetStream
<1>11. CostInv'
  <2> DEFINE k == kFlushEvery + 1
  <2>1. /\ lost \in Nat /\ crashes \in Nat /\ k \in Nat
        /\ lost + (IF glued THEN 1 ELSE 0) <= crashes * k
    BY SinkAssumption DEF SinkInv, CostInv
  <2>2. spilt + 1 <= k  BY <1>6, SinkAssumption
  <2> HIDE DEF k
  <2>3. (crashes + 1) * k = crashes * k + k /\ crashes * k \in Nat
    BY <2>1
  <2>4. ASSUME NEW m \in Nat, m = crashes * k
        PROVE  (lost + spilt + stuck) + (IF cut THEN 1 ELSE 0) <= m + k
    BY <1>2, <1>5, <1>6, <1>7, <2>1, <2>2, <2>4
  <2>5. (lost + spilt + stuck) + (IF cut THEN 1 ELSE 0) <= (crashes + 1) * k
    BY <2>3, <2>4
  <2> QED  BY <1>1, <1>10, <2>5, Zenon DEF CostInv, k
<1>12. lost' \in Nat /\ crashes' \in Nat
  BY <1>1, <1>6, <1>7 DEF SinkInv
<1>13. Safe(Stream)' /\ Exact(Stream, written)'  BY <1>8, <1>10
<1>14. pending' < kFlushEvery  BY <1>10, SinkAssumption
<1> QED  BY <1>1, <1>10, <1>11, <1>12, <1>13, <1>14 DEF SinkInv

LEMMA CrashKeeps ==
  ASSUME SinkInv, Crash
  PROVE  SinkInv'
<1>1. Stream \in Streams /\ written' \in 0 .. MaxRecords  BY DEF Crash, SinkInv, Safe
<1>2. Stream.glued = glued /\ Stream.buffered = buffered /\ Stream.bad = bad /\ Stream.pending = pending
  BY DEF Stream
<1>3. ~Stream.bad => Len(Stream.buffered) + 0 <= kFlushEvery
  <2>1. Len(buffered) \in Nat /\ pending \in Nat  BY <1>1, <1>2, LenProperties DEF Streams
  <2> QED  BY <1>2, <2>1, SinkAssumption DEF SinkInv, Safe
<1>4. Killed(Stream, 0) /\ 0 \in {0, 1}  BY DEF Crash
<1> QED  BY <1>1, <1>2, <1>3, <1>4, KilledKeeps

LEMMA CrashInWriteKeeps ==
  ASSUME SinkInv, NEW len \in Lengths, CrashInWrite(len)
  PROVE  SinkInv'
<1> DEFINE r == [n |-> written + 1, len |-> len]
           o == RotateIfNeeded(Stream, len)
<1>1. /\ Safe(Stream) /\ Stream \in Streams /\ Stream.pending = pending /\ pending < kFlushEvery
      /\ Stream.glued = glued /\ Exact(Stream, written) /\ pending \in Nat
  BY DEF CrashInWrite, SinkInv, Safe, Stream, Streams
<1>2. /\ written \in Nat /\ written' \in 0 .. MaxRecords
      /\ r \in Records /\ r.n = written + 1 /\ r.len = len
  BY SinkAssumption DEF CrashInWrite, SinkInv, Records
<1>3. \A s \in Streams : Len(s.buffered) \in Nat /\ s.pending \in Nat  BY LenProperties DEF Streams
<1>4. ASSUME NEW s \in BeforeAppend(Stream, len), Killed(s, 1) PROVE SinkInv'
  <2>1. s \in Streams /\ (s.glued => glued) /\ (~s.bad => Len(s.buffered) <= pending)
    <3>1. CASE s = Stream  BY <1>1, <3>1 DEF Safe
    <3>2. CASE s \in Flushing(Stream)
      <4>1. /\ s \in Streams /\ s.bad = Stream.bad /\ s.glued = Stream.glued
            /\ Len(s.buffered) <= Len(Stream.buffered)
        BY <1>1, <3>2, FlushingEffect
      <4>2. ~s.bad => Len(Stream.buffered) <= pending  BY <1>1, <4>1 DEF Safe
      <4> QED  BY <1>1, <1>3, <4>1, <4>2
    <3>3. CASE s = Rotated(Stream)
      <4>1. PICK z \in Nat : z = 0  OBVIOUS
      <4>2. s = Opened(z, FALSE) /\ FALSE \in BOOLEAN  BY <3>3, <4>1 DEF Rotated
      <4>3. Safe(s) /\ ~s.glued /\ s.buffered = <<>>  BY <1>2, <4>2, OpenedGood
      <4>4. Len(<<>>) = 0  OBVIOUS
      <4> QED  BY <1>1, <4>3, <4>4 DEF Safe
    <3> QED  BY <1>4, <3>1, <3>2, <3>3 DEF BeforeAppend
  <2>2. ~s.bad => Len(s.buffered) + 1 <= kFlushEvery  BY <1>1, <1>3, <2>1, SinkAssumption
  <2>3. 1 \in {0, 1}  OBVIOUS
  <2> QED  BY <1>2, <1>4, <2>1, <2>2, <2>3, KilledKeeps
<1>5. ASSUME NEW s \in AfterAppend(Stream, r), Killed(s, 0) PROVE SinkInv'
  <2>1. PICK t \in Appended(RotateIfNeeded(Stream, r.len), r) : s \in Flushing(t)
    BY <1>5 DEF AfterAppend
  <2>2. /\ Safe(o) /\ Exact(o, written) /\ Room(o, len)
        /\ o.pending < kFlushEvery /\ (o.glued => Stream.glued)
    BY <1>1, <1>2, RotateMakesRoom
  <2>3. t \in Appended(o, r)  BY <1>2, <2>1
  <2> HIDE DEF o, r
  <2>4. Safe(t) /\ t.pending = o.pending + 1 /\ t.glued = o.glued
    BY <1>2, <2>2, <2>3, AppendedKeeps
  <2>5. t \in Streams /\ o \in Streams  BY <2>2, <2>4 DEF Safe
  <2>6. s \in Streams /\ s.bad = t.bad /\ s.glued = t.glued /\ Len(s.buffered) <= Len(t.buffered)
    BY <2>1, <2>5, FlushingEffect
  <2>7. ~s.bad => Len(s.buffered) + 0 <= kFlushEvery
    <3>1. ~s.bad => Len(t.buffered) <= t.pending  BY <2>4, <2>6 DEF Safe
    <3> QED  BY <1>3, <2>2, <2>4, <2>5, <2>6, <3>1, SinkAssumption
  <2>8. s.glued => glued  BY <1>1, <2>2, <2>4, <2>6
  <2>9. 0 \in {0, 1}  OBVIOUS
  <2> QED  BY <1>2, <1>5, <2>6, <2>7, <2>8, <2>9, KilledKeeps
<1> QED  BY <1>4, <1>5 DEF CrashInWrite

LEMMA DestroyKeeps ==
  ASSUME SinkInv, Destroy
  PROVE  SinkInv' /\ ("disk" \notin Faults /\ ~bad => ~bad' /\ buffered' = <<>>)
<1>1. PICK t \in ForceFlush(Stream) : SetStream(t)  BY DEF Destroy
<1>2. UNCHANGED <<ready, written, crashes, lost>>  BY DEF Destroy
<1>3. Safe(Stream) /\ Stream \in Streams  BY DEF SinkInv, Safe
<1>4. Flush(Stream, t)  BY <1>1, <1>3, ForceFlushEffect
<1>5. Safe(t) /\ (Exact(Stream, written) => Exact(t, written))  BY <1>3, <1>4, FlushKeeps
<1>6. t \in Streams /\ t.pending = 0 /\ t.glued = Stream.glued  BY <1>4 DEF Flush
<1>7. Stream' = t /\ pending' = 0 /\ glued' = glued
  BY <1>1, <1>6, SetStreamIs DEF SetStream, Stream
<1>8. Safe(Stream)' /\ (ready => Exact(Stream, written)')
  BY <1>2, <1>5, <1>7 DEF SinkInv
<1>9. CostInv'  BY <1>2, <1>7 DEF SinkInv, CostInv
<1>10. /\ buffered = <<>> => buffered' = <<>>
       /\ "disk" \notin Faults /\ ~bad => ~bad' /\ buffered' = <<>>
  BY <1>1, <1>4 DEF Flush, SetStream, Stream
<1>11. pending' < kFlushEvery  BY <1>7, SinkAssumption
<1> QED  BY <1>2, <1>8, <1>9, <1>10, <1>11 DEF SinkInv

LEMMA SinkInitInv ==
  ASSUME SinkInit
  PROVE  SinkInv /\ ~bad /\ buffered = <<>>
<1>1. old \in Nat /\ 0 \in Nat /\ FALSE \in BOOLEAN  BY SinkAssumption DEF SinkInit
<1>2. Stream = Opened(old, FALSE)  BY DEF SinkInit, Stream, Opened
<1>3. Safe(Stream) /\ Exact(Stream, 0)  BY <1>1, <1>2, OpenedGood
<1>4. CostInv
  <2>1. 0 * (kFlushEvery + 1) = 0  BY SinkAssumption
  <2> QED  BY <2>1 DEF SinkInit, CostInv
<1>5. written \in 0 .. MaxRecords /\ pending < kFlushEvery  BY SinkAssumption DEF SinkInit
<1> QED  BY <1>3, <1>4, <1>5 DEF SinkInit, SinkInv

\* A step that changes no variable of the sink.
LEMMA SinkStutters ==
  ASSUME SinkInv, UNCHANGED sinkVars
  PROVE  SinkInv'
<1>1. Stream' = Stream  BY DEF sinkVars, streamVars, Stream
<1>2. Safe(Stream)' /\ (ready => Exact(Stream, written)')
  BY <1>1 DEF SinkInv, sinkVars
<1>3. CostInv'  BY DEF SinkInv, CostInv, sinkVars, streamVars
<1> QED  BY <1>2, <1>3 DEF SinkInv, sinkVars, streamVars

\* The sink's inductive invariant.
THEOREM SinkInvariant == SinkSpec => []SinkInv
<1>1. SinkInit => SinkInv  BY SinkInitInv
<1>2. SinkInv /\ [SinkNext]_sinkVars => SinkInv'
  <2> SUFFICES ASSUME SinkInv, [SinkNext]_sinkVars PROVE SinkInv'  OBVIOUS
  <2>1. ASSUME NEW len \in Lengths, Write(len) PROVE SinkInv'  BY <2>1, WriteKeeps
  <2>2. CASE Tick  BY <2>2, TickKeeps
  <2>3. CASE Crash  BY <2>3, CrashKeeps
  <2>4. ASSUME NEW len \in Lengths, CrashInWrite(len) PROVE SinkInv'  BY <2>4, CrashInWriteKeeps
  <2>5. CASE UNCHANGED sinkVars  BY <2>5, SinkStutters
  <2> QED  BY <2>1, <2>2, <2>3, <2>4, <2>5 DEF SinkNext
<1> QED  BY <1>1, <1>2, PTL DEF SinkSpec

\* Type correctness of the sink.
LEMMA SinkTypes == SinkInv => SinkTypeOK
<1> SUFFICES ASSUME SinkInv PROVE SinkTypeOK  OBVIOUS
<1>1. Stream \in Streams  BY DEF SinkInv, Safe
<1>2. /\ torn \in BOOLEAN /\ bad \in BOOLEAN /\ glued \in BOOLEAN /\ old \in Nat
      /\ file_size \in Nat /\ refused \in Nat /\ pending \in Nat /\ age \in 0 .. kFlushInterval
      /\ visible \in Seq(Records) /\ buffered \in Seq(Records)
  BY <1>1 DEF Stream, Streams
<1>3. Contents \in Seq(Records)  BY <1>2, ConcatProperties DEF Contents
<1>4. \A i \in DOMAIN Contents : Contents[i] \in [n : 1 .. MaxRecords, len : Lengths]
  BY <1>3, LenProperties, ElementOfSeq DEF Records
<1>5. pending \in 0 .. kFlushEvery /\ written \in Nat  BY <1>2, SinkAssumption DEF SinkInv
<1> QED  BY <1>2, <1>4, <1>5 DEF SinkTypeOK, SinkInv

\* The byte count RotateIfNeeded decides with is the length of the file (json_sink.cpp,
\* current_file_size_bytes_), through any number of appends, rotations, outages and crashes.
THEOREM SinkSizeExact == SinkSpec => []SizeExact
<1>1. SinkInv => SizeExact
  BY DEF SinkInv, Exact, SizeExact, InOrder, Stream, Lines, Contents
<1> QED  BY <1>1, SinkInvariant, PTL

\* RotateIfNeeded keeps the file within its limit, a single larger record excepted.
THEOREM SinkSizeBounded == SinkSpec => []SizeBounded
<1>1. SinkInv => SizeBounded
  BY DEF SinkInv, Exact, SizeBounded, InOrder, Stream, Lines, Contents
<1> QED  BY <1>1, SinkInvariant, PTL

\* The file behind the earlier runs' bytes is the unbroken sequence of the records
\* written last: Write, RotateIfNeeded and the stream lose none in between.
THEOREM SinkUnbroken == SinkSpec => []Unbroken
<1>1. SinkInv => Unbroken
  BY DEF SinkInv, Exact, Unbroken, InOrder, Stream, Lines, Contents
<1> QED  BY <1>1, SinkInvariant, PTL

\* MaybeFlush leaves fewer than kFlushEveryRecords records in a stream in order.
THEOREM SinkBoundedLag == SinkSpec => []BoundedLag
<1>1. SinkInv => BoundedLag  BY DEF SinkInv, Safe, BoundedLag, Stream
<1> QED  BY <1>1, SinkInvariant, PTL

\* A stream that refuses lines is opened anew before the limit's worth is refused.
THEOREM SinkBoundedOutage == SinkSpec => []BoundedOutage
<1>1. SinkInv => BoundedOutage  BY DEF SinkInv, Safe, BoundedOutage, Stream
<1> QED  BY <1>1, SinkInvariant, PTL

\* However often and wherever the engine is killed, inside Write and RotateIfNeeded
\* too, each kill costs at most kFlushEveryRecords + 1 records, the one glued to a
\* cut-off line included.
THEOREM SinkCrashCost == SinkSpec => []CrashCost
<1>1. SinkInv => CrashCost
  <2> SUFFICES ASSUME SinkInv PROVE CrashCost  OBVIOUS
  <2>1. lost \in Nat /\ crashes * (kFlushEvery + 1) \in Int /\ glued \in BOOLEAN
    BY SinkAssumption DEF SinkInv, Safe, Stream, Streams
  <2>2. lost + (IF glued THEN 1 ELSE 0) <= crashes * (kFlushEvery + 1)  BY DEF SinkInv, CostInv
  <2>3. ASSUME NEW m \in Int, m = crashes * (kFlushEvery + 1)
        PROVE  lost + (IF glued /\ visible # <<>> THEN 1 ELSE 0) <= m
    BY <2>1, <2>2, <2>3
  <2> QED  BY <2>1, <2>3 DEF CrashCost
<1> QED  BY <1>1, SinkInvariant, PTL

\* RotateIfNeeded throws away the file of a stream in order only when the next
\* record would take it over the limit.
THEOREM SinkRotatesOnlyWhenFull == SinkSpec => RotatesOnlyWhenFull
<1> DEFINE Step == \A len \in Lengths :
                     Write(len) /\ InOrder /\ (old' # old \/ ~IsPrefix(visible, visible')) =>
                       max_file_size # 0 /\ old + Bytes(Contents) + len > max_file_size
<1>1. SinkInv => [Step]_sinkVars
  <2> SUFFICES ASSUME SinkInv, NEW len \in Lengths, Write(len), InOrder,
                      old' # old \/ ~IsPrefix(visible, visible')
               PROVE  max_file_size # 0 /\ old + Bytes(Contents) + len > max_file_size
    OBVIOUS
  <2> DEFINE r == [n |-> written + 1, len |-> len]
  <2>1. /\ Stream \in Streams /\ ready /\ ~Stream.bad /\ file_size = old + Bytes(Contents)
        /\ Stream.old = old /\ Stream.visible = visible
    BY DEF SinkInv, InOrder, Safe, Exact, Stream, Lines, Contents
  <2>2. MustRotate(Stream, len)
    <3> SUFFICES ASSUME ~MustRotate(Stream, len) PROVE FALSE  OBVIOUS
    <3>1. WriteReady(r)  BY <2>1 DEF Write, RotateFails, WriteNotReady
    <3>2. PICK u \in Appended(Stream, r) : \E t \in MaybeFlush(u) : SetStream(t)
      BY <3>1 DEF WriteReady, RotateIfNeeded
    <3>3. PICK t \in MaybeFlush(u) : SetStream(t)  BY <3>2
    <3>4. r \in Records  BY SinkAssumption DEF Records, Write, SinkInv
    <3>5. Extends(Stream, u)  BY <2>1, <3>2, <3>4, AppendedExtends
    <3>6. Extends(u, t)  BY <3>3, <3>5, MaybeFlushExtends DEF Extends
    <3>7. old' = old /\ \E x \in Seq(Records) : visible' = visible \o x
      <4>1. Extends(Stream, t)  BY <3>5, <3>6, ExtendsTransitive
      <4>2. t.old = old /\ \E x \in Seq(Records) : t.visible = visible \o x
        BY <2>1, <4>1 DEF Extends
      <4>3. old' = t.old /\ visible' = t.visible  BY <3>3 DEF SetStream
      <4> QED  BY <4>2, <4>3
    <3>8. visible \in Seq(Records)  BY <2>1 DEF Streams
    <3>9. IsPrefix(visible, visible')  BY <3>7, <3>8, PrefixOfConcat
    <3> QED  BY <3>7, <3>9
  <2> QED  BY <2>1, <2>2 DEF MustRotate, Stream
<1>2. SinkSpec => [][Step]_sinkVars  BY <1>1, SinkInvariant, PTL
<1> QED  BY <1>2 DEF RotatesOnlyWhenFull

-----------------------------------------------------------------------------
(* The daemon.                                                             *)

Events == [n : Nat, class : EventClass]

\* What main's and the pipe's variables can be.
MainTypes ==
  /\ pc \in {"sink", "start", "configure", "attach", "loop", "poll", "stop", "exited"}
  /\ g_running \in BOOLEAN /\ obj \in BOOLEAN /\ rb \in BOOLEAN
  /\ started \in BOOLEAN /\ degraded \in BOOLEAN
  /\ tried \in 0 .. NumPrograms /\ links \in 0 .. tried
  /\ exit_code \in {0, 1}
  /\ ring \in Seq(Events) /\ Len(ring) <= RingSlots /\ produced \in Nat
  /\ metrics \in [received : Nat, decoded : Nat, dropped : Nat]
  /\ delivered \in Seq(Events)

\* What main holds and has done at each point, and how it leaves.  Only a full
\* disk can keep lines in the stream beyond the end.
MainPhases ==
  /\ "disk" \notin Faults => ~bad
  /\ pc = "sink" => buffered = <<>>
  /\ pc \in {"sink", "start"} => ~obj
  /\ pc \in {"sink", "start", "configure"} => links = 0
  /\ pc \in {"sink", "start", "configure", "attach"} => ~started /\ ~rb /\ delivered = <<>>
  /\ started /\ links < NumPrograms => degraded
  /\ pc = "exited" =>
       /\ ~started /\ ~rb /\ links = 0 /\ ~obj
       /\ "disk" \notin Faults => buffered = <<>>
       /\ exit_code = 1 => delivered = <<>> /\ (ready => degraded)

Written == {i \in DOMAIN delivered : delivered[i].class = "event"}

\* The numbers of the events run upwards through what was delivered and what
\* waits in the ring, and the counters agree with the history.
PipeOrder ==
  /\ \A i, j \in DOMAIN delivered : i < j => delivered[i].n < delivered[j].n
  /\ \A i, j \in DOMAIN ring : i < j => ring[i].n < ring[j].n
  /\ \A i \in DOMAIN ring, j \in DOMAIN delivered : delivered[j].n < ring[i].n
  /\ \A i \in DOMAIN delivered : delivered[i].n <= produced
  /\ \A i \in DOMAIN ring : ring[i].n <= produced
  /\ metrics.received = metrics.decoded + metrics.dropped
  /\ written = Cardinality(Written)

\* The inductive invariant of the daemon.
DaemonInv == SinkInv /\ MainTypes /\ MainPhases /\ PipeOrder

\* The pipe is as it was, or Stop has emptied the ring.
LEMMA PipeRests ==
  ASSUME PipeOrder, ring' = ring \/ ring' = <<>>,
         UNCHANGED <<produced, metrics, delivered, written>>
  PROVE  PipeOrder'
<1>1. DOMAIN <<>> = {}  OBVIOUS
<1>2. Written' = Written  BY DEF Written
<1>3. CASE ring' = ring  BY <1>2, <1>3 DEF PipeOrder
<1>4. CASE ring' = <<>>  BY <1>1, <1>2, <1>4 DEF PipeOrder
<1> QED  BY <1>3, <1>4

\* What OnRingBufferEvent takes from the ring is the oldest event, newer than all
\* that were delivered before it.
LEMMA Delivery ==
  ASSUME MainTypes, ring # <<>>, PipeOrder,
         ring' = Tail(ring), delivered' = Append(delivered, Head(ring))
  PROVE  /\ ring' \in Seq(Events) /\ Len(ring') <= RingSlots /\ delivered' \in Seq(Events)
         /\ \A i, j \in DOMAIN delivered' : i < j => delivered'[i].n < delivered'[j].n
         /\ \A i, j \in DOMAIN ring' : i < j => ring'[i].n < ring'[j].n
         /\ \A i \in DOMAIN ring', j \in DOMAIN delivered' : delivered'[j].n < ring'[i].n
         /\ \A i \in DOMAIN delivered' : delivered'[i].n <= produced
         /\ \A i \in DOMAIN ring' : ring'[i].n <= produced
         /\ Len(delivered) \in Nat
         /\ DOMAIN delivered = 1 .. Len(delivered) /\ DOMAIN delivered' = 1 .. Len(delivered) + 1
         /\ delivered'[Len(delivered) + 1] = Head(ring)
         /\ \A i \in 1 .. Len(delivered) : delivered'[i] = delivered[i]
<1> DEFINE d == Len(delivered)
           m == Len(ring)
           e == Head(ring)
           tl == Tail(ring)
           dl == Append(delivered, e)
<1>1. /\ ring \in Seq(Events) /\ delivered \in Seq(Events) /\ d \in Nat /\ m \in Nat
      /\ DOMAIN ring = 1 .. m /\ DOMAIN delivered = 1 .. d /\ m <= RingSlots /\ RingSlots \in Nat
  BY LenProperties, DaemonAssumption DEF MainTypes
<1>2. m # 0 /\ e = ring[1] /\ e \in Events  BY <1>1, EmptySeq, HeadTailProperties
<1>3. /\ tl \in Seq(Events) /\ Len(tl) = m - 1 /\ DOMAIN tl = 1 .. m - 1
      /\ \A i \in 1 .. m - 1 : tl[i] = ring[i + 1]
  <2>1. tl \in Seq(Events) /\ Len(tl) = m - 1 /\ \A i \in 1 .. Len(tl) : tl[i] = ring[i + 1]
    BY <1>1, HeadTailProperties
  <2> QED  BY <2>1, LenProperties
<1>4. /\ dl \in Seq(Events) /\ Len(dl) = d + 1 /\ DOMAIN dl = 1 .. d + 1
      /\ dl[d + 1] = e /\ \A i \in 1 .. d : dl[i] = delivered[i]
  BY <1>1, <1>2
<1>5. /\ \A i \in 1 .. m : ring[i] \in Events /\ ring[i].n \in Nat
      /\ \A i \in 1 .. d : delivered[i] \in Events /\ delivered[i].n \in Nat
  <2>1. \A x \in Events : x.n \in Nat  BY DEF Events
  <2> QED  BY <1>1, <2>1, ElementOfSeq
<1> HIDE DEF d, m, e, tl, dl
<1>6. /\ \A i, j \in 1 .. d : i < j => delivered[i].n < delivered[j].n
      /\ \A i, j \in 1 .. m : i < j => ring[i].n < ring[j].n
      /\ \A i \in 1 .. m, j \in 1 .. d : delivered[j].n < ring[i].n
      /\ \A i \in 1 .. d : delivered[i].n <= produced
      /\ \A i \in 1 .. m : ring[i].n <= produced
  BY <1>1 DEF PipeOrder
<1>7. \A i, j \in 1 .. d + 1 : i < j => dl[i].n < dl[j].n
  <2> SUFFICES ASSUME NEW i \in 1 .. d + 1, NEW j \in 1 .. d + 1, i < j
               PROVE  dl[i].n < dl[j].n
    OBVIOUS
  <2>1. i \in 1 .. d /\ dl[i] = delivered[i]  BY <1>1, <1>4
  <2>2. CASE j = d + 1
    <3>1. 1 \in 1 .. m  BY <1>1, <1>2
    <3> QED  BY <1>2, <1>4, <1>6, <2>1, <2>2, <3>1
  <2>3. CASE j \in 1 .. d  BY <1>4, <1>6, <2>1, <2>3
  <2> QED  BY <1>1, <2>2, <2>3
<1>8. \A i, j \in 1 .. m - 1 : i < j => tl[i].n < tl[j].n
  <2> SUFFICES ASSUME NEW i \in 1 .. m - 1, NEW j \in 1 .. m - 1, i < j
               PROVE  tl[i].n < tl[j].n
    OBVIOUS
  <2>1. i + 1 \in 1 .. m /\ j + 1 \in 1 .. m /\ i + 1 < j + 1  BY <1>1
  <2>2. tl[i] = ring[i + 1] /\ tl[j] = ring[j + 1]  BY <1>3
  <2>3. ring[i + 1].n < ring[j + 1].n  BY <1>6, <2>1
  <2> QED  BY <2>2, <2>3
<1>9. \A i \in 1 .. m - 1, j \in 1 .. d + 1 : dl[j].n < tl[i].n
  <2> SUFFICES ASSUME NEW i \in 1 .. m - 1, NEW j \in 1 .. d + 1 PROVE dl[j].n < tl[i].n
    OBVIOUS
  <2>1. i + 1 \in 1 .. m /\ 1 \in 1 .. m /\ 1 < i + 1 /\ tl[i] = ring[i + 1]  BY <1>1, <1>3
  <2>2. CASE j = d + 1  BY <1>2, <1>4, <1>6, <2>1, <2>2
  <2>3. CASE j \in 1 .. d  BY <1>4, <1>6, <2>1, <2>3
  <2> QED  BY <1>1, <2>2, <2>3
<1>10. \A i \in 1 .. d + 1 : dl[i].n <= produced
  <2>1. 1 \in 1 .. m  BY <1>1, <1>2
  <2> QED  BY <1>1, <1>2, <1>4, <1>6, <2>1
<1>11. \A i \in 1 .. m - 1 : tl[i].n <= produced
  <2> SUFFICES ASSUME NEW i \in 1 .. m - 1 PROVE tl[i].n <= produced  OBVIOUS
  <2>1. i + 1 \in 1 .. m /\ tl[i] = ring[i + 1]  BY <1>1, <1>3
  <2> QED  BY <1>6, <2>1
<1>12. Len(tl) <= RingSlots  BY <1>1, <1>3
<1>13. ring' = tl /\ delivered' = dl  BY DEF tl, dl, e
<1> QED  BY <1>1, <1>3, <1>4, <1>7, <1>8, <1>9, <1>10, <1>11, <1>12, <1>13 DEF d, e

\* An event that is produced has the highest number so far.
LEMMA Production ==
  ASSUME MainTypes, PipeOrder, NEW class \in EventClass, Produce(class)
  PROVE  /\ PipeOrder'
         /\ ring' \in Seq(Events) /\ Len(ring') <= RingSlots /\ produced' \in Nat
<1> DEFINE m == Len(ring)
           e == [n |-> produced + 1, class |-> class]
           nr == Append(ring, e)
<1>1. /\ ring \in Seq(Events) /\ delivered \in Seq(Events) /\ m \in Nat /\ produced \in Nat
      /\ DOMAIN ring = 1 .. m /\ m <= RingSlots /\ RingSlots \in Nat
  BY LenProperties, DaemonAssumption DEF MainTypes
<1>2. /\ produced' = produced + 1 /\ UNCHANGED <<metrics, delivered, written>>
      /\ ring' = IF m < RingSlots THEN nr ELSE ring
  BY DEF Produce, sinkVars
<1>3. Written' = Written  BY <1>2 DEF Written
<1>4. /\ \A i \in DOMAIN delivered : delivered[i].n \in Nat
      /\ \A i \in 1 .. m : ring[i].n \in Nat
  <2>1. \A x \in Events : x.n \in Nat  BY DEF Events
  <2>2. DOMAIN delivered = 1 .. Len(delivered)  BY <1>1, LenProperties
  <2>3. \A i \in 1 .. Len(delivered) : delivered[i] \in Events  BY <1>1, ElementOfSeq
  <2>4. \A i \in 1 .. m : ring[i] \in Events  BY <1>1, ElementOfSeq
  <2> QED  BY <2>1, <2>2, <2>3, <2>4
<1>5. \A i \in DOMAIN delivered : delivered[i].n <= produced'
  BY <1>1, <1>2, <1>4 DEF PipeOrder
<1>6. CASE m < RingSlots
  <2>1. e \in Events /\ e.n = produced + 1  BY <1>1 DEF Events
  <2>2. /\ nr \in Seq(Events) /\ Len(nr) = m + 1 /\ DOMAIN nr = 1 .. m + 1
        /\ nr[m + 1] = e /\ \A i \in 1 .. m : nr[i] = ring[i]
    BY <1>1, <2>1
  <2> HIDE DEF nr, e, m
  <2>3. ring' = nr  BY <1>2, <1>6
  <2>4. \A i, j \in 1 .. m + 1 : i < j => nr[i].n < nr[j].n
    <3> SUFFICES ASSUME NEW i \in 1 .. m + 1, NEW j \in 1 .. m + 1, i < j
                 PROVE  nr[i].n < nr[j].n
      OBVIOUS
    <3>1. i \in 1 .. m /\ nr[i] = ring[i]  BY <1>1, <2>2
    <3>2. CASE j = m + 1
      <4>1. ring[i].n <= produced  BY <1>1, <3>1 DEF PipeOrder
      <4> QED  BY <1>1, <1>4, <2>1, <2>2, <3>1, <3>2, <4>1
    <3>3. CASE j \in 1 .. m  BY <1>1, <2>2, <3>1, <3>3 DEF PipeOrder
    <3> QED  BY <1>1, <3>2, <3>3
  <2>5. \A i \in 1 .. m + 1, j \in DOMAIN delivered : delivered[j].n < nr[i].n
    <3> SUFFICES ASSUME NEW i \in 1 .. m + 1, NEW j \in DOMAIN delivered
                 PROVE  delivered[j].n < nr[i].n
      OBVIOUS
    <3>1. CASE i = m + 1
      <4>1. delivered[j].n <= produced  BY DEF PipeOrder
      <4> QED  BY <1>1, <1>4, <2>1, <2>2, <3>1, <4>1
    <3>2. CASE i \in 1 .. m  BY <1>1, <2>2, <3>2 DEF PipeOrder
    <3> QED  BY <1>1, <3>1, <3>2
  <2>6. \A i \in 1 .. m + 1 : nr[i].n <= produced + 1
    <3> SUFFICES ASSUME NEW i \in 1 .. m + 1 PROVE nr[i].n <= produced + 1  OBVIOUS
    <3>1. CASE i = m + 1  BY <1>1, <2>1, <2>2, <3>1
    <3>2. CASE i \in 1 .. m
      <4>1. ring[i].n <= produced /\ nr[i] = ring[i]  BY <1>1, <2>2, <3>2 DEF PipeOrder
      <4> QED  BY <1>1, <1>4, <3>2, <4>1
    <3> QED  BY <1>1, <3>1, <3>2
  <2>7. Len(nr) <= RingSlots  BY <1>1, <1>6, <2>2 DEF m
  <2>8. PipeOrder'  BY <1>2, <1>3, <1>5, <2>2, <2>3, <2>4, <2>5, <2>6 DEF PipeOrder
  <2> QED  BY <1>1, <1>2, <2>2, <2>3, <2>7, <2>8
<1>7. CASE ~(m < RingSlots)
  <2>1. ring' = ring  BY <1>2, <1>7
  <2>2. \A i \in 1 .. m : ring[i].n <= produced + 1
    <3> SUFFICES ASSUME NEW i \in 1 .. m PROVE ring[i].n <= produced + 1  OBVIOUS
    <3>1. ring[i].n <= produced  BY <1>1 DEF PipeOrder
    <3> QED  BY <1>1, <1>4, <3>1
  <2>3. PipeOrder'  BY <1>1, <1>2, <1>3, <1>5, <2>1, <2>2 DEF PipeOrder
  <2>4. produced' \in Nat  BY <1>1, <1>2
  <2>5. ring' \in Seq(Events) /\ Len(ring') <= RingSlots  BY <1>1, <2>1
  <2> QED  BY <2>3, <2>4, <2>5
<1> QED  BY <1>6, <1>7

\* Steps of main and of the signal handler that touch neither pipe nor sink.
LEMMA QuietKeeps ==
  ASSUME DaemonInv, UNCHANGED <<pipeVars, sinkVars>>, MainTypes', MainPhases'
  PROVE  DaemonInv'
<1>1. SinkInv'  BY SinkStutters DEF DaemonInv
<1>2. PipeOrder'  BY PipeRests DEF DaemonInv, pipeVars, sinkVars
<1> QED  BY <1>1, <1>2 DEF DaemonInv

\* Stop and the destruction of the sink, the end of every run that got that far.
LEMMA LeaveKeeps ==
  ASSUME DaemonInv, StopCollector, Destroy, pc' = "exited", exit_code' \in {0, 1},
         exit_code' = 1 => delivered = <<>> /\ degraded', degraded' \in BOOLEAN,
         UNCHANGED <<g_running, tried, produced, metrics, delivered>>
  PROVE  DaemonInv'
<1>1. SinkInv' /\ ("disk" \notin Faults /\ ~bad => ~bad' /\ buffered' = <<>>)
  BY DestroyKeeps DEF DaemonInv
<1>2. started' = FALSE /\ rb' = FALSE /\ links' = 0 /\ obj' = FALSE /\ ring' = <<>>
  BY DEF StopCollector
<1>3. written' = written  BY DEF Destroy
<1>4. PipeOrder'  BY <1>2, <1>3, PipeRests DEF DaemonInv
<1>5. MainTypes'
  <2>1. <<>> \in Seq(Events) /\ Len(<<>>) = 0 /\ 0 <= RingSlots
    BY EmptySeq, DaemonAssumption
  <2>2. links' \in 0 .. tried  BY <1>2, DaemonAssumption DEF DaemonInv, MainTypes
  <2> QED  BY <1>2, <2>1, <2>2 DEF DaemonInv, MainTypes
<1>6. MainPhases'  BY <1>1, <1>2 DEF DaemonInv, MainPhases
<1> QED  BY <1>1, <1>4, <1>5, <1>6 DEF DaemonInv

LEMMA EventKeeps ==
  ASSUME DaemonInv, OnRingBufferEvent
  PROVE  DaemonInv'
<1> DEFINE e == Head(ring)
           d == Len(delivered)
<1>1. /\ pc = "poll" /\ ring # <<>> /\ UNCHANGED <<mainVars, produced>>
      /\ ring' = Tail(ring) /\ delivered' = Append(delivered, e)
      /\ metrics' = [received |-> metrics.received + 1,
                     decoded  |-> metrics.decoded + (IF e.class = "malformed" THEN 0 ELSE 1),
                     dropped  |-> metrics.dropped + (IF e.class = "malformed" THEN 1 ELSE 0)]
      /\ IF e.class = "event" THEN \E len \in Lengths : Write(len) ELSE UNCHANGED sinkVars
  BY DEF OnRingBufferEvent
<1>2. /\ ring' \in Seq(Events) /\ Len(ring') <= RingSlots /\ delivered' \in Seq(Events)
      /\ \A i, j \in DOMAIN delivered' : i < j => delivered'[i].n < delivered'[j].n
      /\ \A i, j \in DOMAIN ring' : i < j => ring'[i].n < ring'[j].n
      /\ \A i \in DOMAIN ring', j \in DOMAIN delivered' : delivered'[j].n < ring'[i].n
      /\ \A i \in DOMAIN delivered' : delivered'[i].n <= produced
      /\ \A i \in DOMAIN ring' : ring'[i].n <= produced
      /\ d \in Nat
      /\ DOMAIN delivered = 1 .. d /\ DOMAIN delivered' = 1 .. d + 1
      /\ delivered'[d + 1] = e
      /\ \A i \in 1 .. d : delivered'[i] = delivered[i]
  BY <1>1, Delivery DEF DaemonInv
<1> HIDE DEF d, e
<1>3. /\ SinkInv' /\ ("disk" \notin Faults /\ ~bad => ~bad')
      /\ written' = written + (IF e.class = "event" THEN 1 ELSE 0)
  <2>1. CASE e.class = "event"
    <3>1. PICK len \in Lengths : Write(len)  BY <1>1, <2>1
    <3>2. SinkInv' /\ ("disk" \notin Faults /\ ~bad => ~bad')  BY <3>1, WriteKeeps DEF DaemonInv
    <3>3. written' = written + 1  BY <3>1 DEF Write
    <3> QED  BY <2>1, <3>2, <3>3
  <2>2. CASE e.class # "event"
    <3>1. SinkInv'  BY <1>1, <2>2, SinkStutters DEF DaemonInv
    <3>2. written' = written /\ bad' = bad /\ written \in Nat
      BY <1>1, <2>2 DEF sinkVars, streamVars, DaemonInv, SinkInv
    <3> QED  BY <2>2, <3>1, <3>2
  <2> QED  BY <2>1, <2>2
<1>4. /\ metrics' \in [received : Nat, decoded : Nat, dropped : Nat]
      /\ metrics'.received = metrics'.decoded + metrics'.dropped
  <2>1. /\ metrics.received \in Nat /\ metrics.decoded \in Nat /\ metrics.dropped \in Nat
        /\ metrics.received = metrics.decoded + metrics.dropped
    BY DEF DaemonInv, MainTypes, PipeOrder
  <2>2. PICK x \in Nat, y \in Nat :
          /\ metrics' = [received |-> metrics.received + 1, decoded |-> metrics.decoded + x,
                         dropped |-> metrics.dropped + y]
          /\ x + y = 1
    <3>1. CASE e.class = "malformed"  BY <1>1, <3>1
    <3>2. CASE e.class # "malformed"  BY <1>1, <3>2
    <3> QED  BY <3>1, <3>2
  <2>3. /\ metrics'.received = metrics.received + 1 /\ metrics'.decoded = metrics.decoded + x
        /\ metrics'.dropped = metrics.dropped + y
    BY <2>2
  <2>4. metrics.received + 1 = (metrics.decoded + x) + (metrics.dropped + y)  BY <2>1, <2>2
  <2>5. metrics.received + 1 \in Nat /\ metrics.decoded + x \in Nat /\ metrics.dropped + y \in Nat
    BY <2>1
  <2>6. metrics' \in [received : Nat, decoded : Nat, dropped : Nat]  BY <2>2, <2>5
  <2> QED  BY <2>3, <2>4, <2>6
<1>5. written' = Cardinality(Written)'
  <2>1. written = Cardinality(Written) /\ Written \subseteq 1 .. d
    BY <1>2 DEF DaemonInv, PipeOrder, Written
  <2>2. IsFiniteSet(Written)
    <3>1. IsFiniteSet(1 .. d)  BY <1>2, FS_Interval
    <3> QED  BY <2>1, <3>1, FS_Subset
  <2>3. d + 1 \notin Written  BY <1>2, <2>1
  <2>4. CASE e.class = "event"
    <3>1. Written' = Written \cup {d + 1}  BY <1>2, <2>4 DEF Written
    <3>2. Cardinality(Written \cup {d + 1}) = Cardinality(Written) + 1
      BY <2>2, <2>3, FS_AddElement
    <3> QED  BY <1>3, <2>1, <2>4, <3>1, <3>2
  <2>5. CASE e.class # "event"
    <3>1. Written' = Written  BY <1>2, <2>5 DEF Written
    <3>2. written \in Nat  BY DEF DaemonInv, SinkInv
    <3> QED  BY <1>3, <2>1, <2>5, <3>1, <3>2
  <2> QED  BY <2>4, <2>5
<1>6. PipeOrder'  BY <1>1, <1>2, <1>4, <1>5 DEF PipeOrder
<1>7. MainTypes'  BY <1>1, <1>2, <1>4 DEF DaemonInv, MainTypes, mainVars
<1>8. MainPhases'  BY <1>1, <1>3 DEF DaemonInv, MainPhases, mainVars
<1> QED  BY <1>3, <1>6, <1>7, <1>8 DEF DaemonInv

LEMMA StartKeeps ==
  ASSUME DaemonInv, BuildSink \/ OpenObject \/ ApplyConfig \/ AttachProgram \/ FinishStart
  PROVE  DaemonInv'
<1>1. MainTypes /\ MainPhases  BY DEF DaemonInv
<1>2. ASSUME FailStart, pc \in {"sink", "start", "configure", "attach"} PROVE DaemonInv'
  <2>1. /\ StopCollector /\ Destroy /\ pc' = "exited" /\ exit_code' = 1 /\ degraded' = TRUE
        /\ UNCHANGED <<g_running, tried, produced, metrics, delivered>>
    BY <1>2 DEF FailStart, AppendDegradeReason
  <2>2. delivered = <<>>  BY <1>1, <1>2 DEF MainPhases
  <2> QED  BY <2>1, <2>2, LeaveKeeps
<1>3. CASE BuildSink
  <2>1. /\ pc = "sink" /\ UNCHANGED <<g_running, obj, links, tried, rb, started, degraded, pipeVars,
                                      streamVars, written, crashes, lost>>
        /\ \/ pc' = "start" /\ UNCHANGED <<ready, exit_code>>
           \/ pc' = "exited" /\ ready' = FALSE /\ exit_code' = 1
    BY <1>3 DEF BuildSink
  <2>2. UNCHANGED <<ring, produced, metrics, delivered, written>>  BY <2>1 DEF pipeVars
  <2>3. PipeOrder'  BY <2>2, PipeRests DEF DaemonInv
  <2>4. bad' = bad /\ buffered' = buffered /\ buffered = <<>>
    BY <1>1, <2>1 DEF streamVars, MainPhases
  <2>5. SinkInv'
    <3>1. Stream' = Stream  BY <2>1 DEF streamVars, Stream
    <3>2. Safe(Stream)' /\ (ready => Exact(Stream, written)')  BY <2>1, <3>1 DEF DaemonInv, SinkInv
    <3>3. CostInv'  BY <2>1 DEF DaemonInv, SinkInv, CostInv, streamVars
    <3>4. ready' \in BOOLEAN /\ (ready' => ready)
      <4>1. ready \in BOOLEAN  BY DEF DaemonInv, SinkInv
      <4>2. ready' = ready \/ ready' = FALSE  BY <2>1
      <4>3. CASE ready' = ready  BY <4>1, <4>3, Zenon
      <4>4. CASE ready' = FALSE  BY <4>4, Zenon
      <4> QED  BY <4>2, <4>3, <4>4
    <3>5. /\ written' \in 0 .. MaxRecords /\ crashes' \in Nat /\ lost' \in Nat
          /\ pending' < kFlushEvery
      BY <2>1 DEF DaemonInv, SinkInv, streamVars
    <3> QED  BY <2>4, <3>2, <3>3, <3>4, <3>5 DEF SinkInv
  <2>6. MainTypes'  BY <1>1, <2>1, <2>2 DEF MainTypes
  <2>7. MainPhases'  BY <1>1, <2>1, <2>2, <2>4 DEF MainPhases
  <2> QED  BY <2>3, <2>5, <2>6, <2>7 DEF DaemonInv
<1>4. CASE OpenObject
  <2>1. CASE FailStart  BY <1>2, <1>4, <2>1 DEF OpenObject
  <2>2. CASE ~FailStart
    <3>1. /\ pc = "start" /\ obj' = TRUE /\ pc' = "configure"
          /\ UNCHANGED <<g_running, links, tried, rb, started, degraded, exit_code>>
          /\ UNCHANGED <<pipeVars, sinkVars>>
      BY <1>4, <2>2 DEF OpenObject
    <3>2. MainTypes'  BY <1>1, <3>1 DEF MainTypes, pipeVars
    <3>3. MainPhases'  BY <1>1, <3>1 DEF MainPhases, pipeVars, sinkVars, streamVars
    <3> QED  BY <3>1, <3>2, <3>3, QuietKeeps
  <2> QED  BY <2>1, <2>2
<1>5. CASE ApplyConfig
  <2>1. /\ pc = "configure" /\ pc' = "attach" /\ (degraded' = degraded \/ degraded' = TRUE)
        /\ UNCHANGED <<g_running, obj, links, tried, rb, started, exit_code>>
        /\ UNCHANGED <<pipeVars, sinkVars>>
    BY <1>5 DEF ApplyConfig, AppendDegradeReason
  <2>2. MainTypes'  BY <1>1, <2>1 DEF MainTypes, pipeVars
  <2>3. MainPhases'  BY <1>1, <2>1 DEF MainPhases, pipeVars, sinkVars, streamVars
  <2> QED  BY <2>1, <2>2, <2>3, QuietKeeps
<1>6. CASE AttachProgram
  <2>1. /\ pc = "attach" /\ pc' = pc /\ tried < NumPrograms /\ tried' = tried + 1
        /\ links' \in {links, links + 1}
        /\ UNCHANGED <<g_running, obj, rb, started, degraded, exit_code>>
        /\ UNCHANGED <<pipeVars, sinkVars>>
    BY <1>6 DEF AttachProgram
  <2>2. tried' \in 0 .. NumPrograms /\ links' \in 0 .. tried'
    BY <1>1, <2>1, DaemonAssumption DEF MainTypes
  <2>3. MainTypes'  BY <1>1, <2>1, <2>2 DEF MainTypes, pipeVars
  <2>4. MainPhases'  BY <1>1, <2>1 DEF MainPhases, pipeVars, sinkVars, streamVars
  <2> QED  BY <2>1, <2>3, <2>4, QuietKeeps
<1>7. CASE FinishStart
  <2>1. CASE FailStart  BY <1>2, <1>7, <2>1 DEF FinishStart
  <2>2. CASE ~FailStart
    <3>1. /\ pc = "attach" /\ tried = NumPrograms /\ degraded' = (degraded \/ links < tried)
          /\ rb' = TRUE /\ started' = TRUE /\ pc' = "loop"
          /\ UNCHANGED <<g_running, obj, links, tried, exit_code>>
          /\ UNCHANGED <<pipeVars, sinkVars>>
      BY <1>7, <2>2 DEF FinishStart
    <3>2. MainTypes'  BY <1>1, <3>1 DEF MainTypes, pipeVars
    <3>3. links < NumPrograms => degraded'  BY <3>1
    <3>4. MainPhases'  BY <1>1, <3>1, <3>3 DEF MainPhases, pipeVars, sinkVars, streamVars
    <3> QED  BY <3>1, <3>2, <3>4, QuietKeeps
  <2> QED  BY <2>1, <2>2
<1> QED  BY <1>3, <1>4, <1>5, <1>6, <1>7

LEMMA DaemonStep == DaemonInv /\ [DaemonNext]_daemonVars => DaemonInv'
<1> SUFFICES ASSUME DaemonInv, [DaemonNext]_daemonVars PROVE DaemonInv'  OBVIOUS
<1>1. MainTypes /\ MainPhases  BY DEF DaemonInv
<1>2. CASE BuildSink \/ OpenObject \/ ApplyConfig \/ AttachProgram \/ FinishStart
  BY <1>2, StartKeeps
<1>3. ASSUME pc \in {"loop", "poll"}, pc' \in {"loop", "poll", "stop"},
             UNCHANGED <<g_running, obj, links, tried, rb, started, degraded, exit_code>>,
             UNCHANGED <<pipeVars, sinkVars>>
      PROVE  DaemonInv'
  <2>1. MainTypes'  BY <1>1, <1>3 DEF MainTypes, pipeVars
  <2>2. MainPhases'  BY <1>1, <1>3 DEF MainPhases, pipeVars, sinkVars, streamVars
  <2> QED  BY <1>3, <2>1, <2>2, QuietKeeps
<1>4. CASE LoopTest  BY <1>3, <1>4 DEF LoopTest
<1>5. CASE OnRingBufferEvent  BY <1>5, EventKeeps
<1>6. CASE PollReturns  BY <1>3, <1>6 DEF PollReturns
<1>7. CASE Shutdown
  <2>1. /\ StopCollector /\ Destroy /\ pc' = "exited" /\ exit_code' = 0 /\ degraded' = degraded
        /\ UNCHANGED <<g_running, tried, produced, metrics, delivered>>
    BY <1>7 DEF Shutdown
  <2>2. degraded' \in BOOLEAN  BY <1>1, <2>1 DEF MainTypes
  <2> QED  BY <2>1, <2>2, LeaveKeeps
<1>8. ASSUME NEW class \in EventClass, Produce(class) PROVE DaemonInv'
  <2>1. links > 0 /\ UNCHANGED <<mainVars, metrics, delivered, sinkVars>>  BY <1>8 DEF Produce
  <2>2. /\ PipeOrder'
        /\ ring' \in Seq(Events) /\ Len(ring') <= RingSlots /\ produced' \in Nat
    BY <1>1, <1>8, Production DEF DaemonInv
  <2>3. SinkInv'  BY <2>1, SinkStutters DEF DaemonInv
  <2>4. MainTypes'  BY <1>1, <2>1, <2>2 DEF MainTypes, mainVars
  <2>5. MainPhases'  BY <1>1, <2>1 DEF MainPhases, mainVars, sinkVars, streamVars
  <2> QED  BY <2>2, <2>3, <2>4, <2>5 DEF DaemonInv
<1>9. CASE OnSignal
  <2>1. /\ g_running' = FALSE
        /\ UNCHANGED <<pc, obj, links, tried, rb, started, degraded, exit_code>>
        /\ UNCHANGED <<pipeVars, sinkVars>>
    BY <1>9 DEF OnSignal
  <2>2. MainTypes'  BY <1>1, <2>1 DEF MainTypes, pipeVars
  <2>3. MainPhases'  BY <1>1, <2>1 DEF MainPhases, pipeVars, sinkVars, streamVars
  <2> QED  BY <2>1, <2>2, <2>3, QuietKeeps
<1>10. CASE Time
  <2>1. pc # "exited" /\ Tick /\ UNCHANGED <<mainVars, pipeVars>>  BY <1>10 DEF Time
  <2>2. SinkInv' /\ bad' = bad  BY <2>1, TickKeeps DEF DaemonInv
  <2>3. written' = written /\ buffered' = buffered /\ ready' = ready  BY <2>1 DEF Tick
  <2>4. PipeOrder'  BY <2>1, <2>3, PipeRests DEF DaemonInv, pipeVars
  <2>5. MainTypes'  BY <1>1, <2>1 DEF MainTypes, mainVars, pipeVars
  <2>6. MainPhases'  BY <1>1, <2>1, <2>2, <2>3 DEF MainPhases, mainVars, pipeVars
  <2> QED  BY <2>2, <2>4, <2>5, <2>6 DEF DaemonInv
<1>11. CASE UNCHANGED daemonVars
  <2>1. UNCHANGED <<pipeVars, sinkVars>> /\ UNCHANGED mainVars  BY <1>11 DEF daemonVars
  <2>2. MainTypes'  BY <1>1, <2>1 DEF MainTypes, mainVars, pipeVars
  <2>3. MainPhases'  BY <1>1, <2>1 DEF MainPhases, mainVars, pipeVars, sinkVars, streamVars
  <2> QED  BY <2>1, <2>2, <2>3, QuietKeeps
<1> QED
  BY <1>2, <1>4, <1>5, <1>6, <1>7, <1>8, <1>9, <1>10, <1>11 DEF DaemonNext, Main

\* The daemon's inductive invariant, whatever goes wrong in the sink.
THEOREM DaemonInvariant == DaemonSpec => []DaemonInv
<1>1. DaemonInit => DaemonInv
  <2> SUFFICES ASSUME DaemonInit PROVE DaemonInv  OBVIOUS
  <2>1. SinkInv /\ ~bad /\ buffered = <<>>  BY SinkInitInv DEF DaemonInit
  <2>2. <<>> \in Seq(Events) /\ Len(<<>>) = 0 /\ DOMAIN <<>> = {}  BY EmptySeq
  <2>3. MainTypes
    <3>1. links \in 0 .. tried /\ tried \in 0 .. NumPrograms /\ 0 <= RingSlots
      BY DaemonAssumption DEF DaemonInit
    <3> QED  BY <2>2, <3>1 DEF DaemonInit, MainTypes
  <2>4. MainPhases  BY <2>1 DEF DaemonInit, MainPhases
  <2>5. Written = {}  BY <2>2 DEF DaemonInit, Written
  <2>6. written = Cardinality(Written)  BY <2>5, FS_EmptySet DEF DaemonInit, SinkInit
  <2>7. PipeOrder  BY <2>2, <2>6 DEF DaemonInit, PipeOrder
  <2> QED  BY <2>1, <2>3, <2>4, <2>7 DEF DaemonInv
<1> QED  BY <1>1, DaemonStep, PTL DEF DaemonSpec

\* Type correctness of the daemon: never more links than programs tried, never more
\* events in the ring than it has room for.
THEOREM DaemonTypes == DaemonSpec => []DaemonTypeOK
<1>1. DaemonInv => DaemonTypeOK
  BY SinkTypes DEF DaemonInv, MainTypes, DaemonTypeOK
<1> QED  BY <1>1, DaemonInvariant, PTL

\* On every way out of main the collector's resources are released and the sink
\* is flushed, as long as the system takes the bytes it is given; a start that failed
\* has delivered nothing.
THEOREM DaemonCleanExit ==
  ASSUME "disk" \notin Faults
  PROVE  DaemonSpec => []CleanExit
<1>1. DaemonInv => CleanExit  BY DEF DaemonInv, MainPhases, CleanExit
<1> QED  BY <1>1, DaemonInvariant, PTL

\* OnRingBufferEvent sees each event once and in order, and every decoded event that
\* is not the engine's own reaches Write, with the metrics that say so.
THEOREM DaemonOrderedDelivery == DaemonSpec => []OrderedDelivery
<1>1. DaemonInv => OrderedDelivery  BY DEF DaemonInv, PipeOrder, OrderedDelivery, Written
<1> QED  BY <1>1, DaemonInvariant, PTL

\* A collector that started without all of its programs is degraded in the report.
THEOREM DaemonDegradedIsReported == DaemonSpec => []DegradedIsReported
<1>1. DaemonInv => DegradedIsReported  BY DEF DaemonInv, MainPhases, DegradedIsReported
<1> QED  BY <1>1, DaemonInvariant, PTL
=============================================================================
