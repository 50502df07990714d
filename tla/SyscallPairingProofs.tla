------------------------ MODULE SyscallPairingProofs ------------------------
(***************************************************************************)
(* Proofs about SyscallPairing, for every number of threads and kinds,     *)
(* every map size, every attach order and every pattern of attach          *)
(* failures, reserve failures and evictions.                               *)
(***************************************************************************)
EXTENDS SyscallPairing, FiniteSetTheorems, TLAPS

\* A call in progress is its thread's last, and it is early if the exit program
\* of its kind is still missing.
RunningOK ==
  \A t \in Threads : running[t] # Idle =>
    /\ running[t].kind \in Kinds
    /\ running[t].call = calls[t]
    /\ <<"exit", running[t].kind>> \notin attached => <<t, running[t].call>> \in early

\* Entry (t, k) holds the arguments of a call already made, which is early, or
\* never returns, or is in progress; only handled keys have entries.
EntryOK(t, k) ==
  /\ enter_state[<<t, k>>] \in 1 .. calls[t]
  /\ t \notin Suppressed /\ k \in Enabled
  /\ \/ <<t, enter_state[<<t, k>>]>> \in early
     \/ k \in NoReturn
     \/ running[t].kind = k /\ running[t].call = enter_state[<<t, k>>]
  /\ \A e \in emitted : e.thread = t => e.args # enter_state[<<t, k>>]
  /\ \A l \in Kinds : <<t, l>> \in DOMAIN enter_state /\ l # k =>
       enter_state[<<t, l>>] # enter_state[<<t, k>>]

EntriesOK == \A t \in Threads, k \in Kinds : <<t, k>> \in DOMAIN enter_state => EntryOK(t, k)

EmittedOK == \A e \in emitted : e.args \in 1 .. calls[e.thread]

IInv == /\ TypeOK /\ IsFiniteSet(DOMAIN enter_state)
        /\ RunningOK /\ EntriesOK /\ EmittedOK /\ PairedOnceAttached /\ SubmittedOnce

-----------------------------------------------------------------------------
(* The map.                                                                *)

\* Deleting a key leaves the other entries as they were.
LEMMA WithoutFacts ==
  ASSUME NEW f, NEW k
  PROVE  /\ DOMAIN Without(f, k) = DOMAIN f \ {k}
         /\ \A x \in DOMAIN f \ {k} : Without(f, k)[x] = f[x]
         /\ f \in [DOMAIN f -> Nat] => Without(f, k) \in [DOMAIN f \ {k} -> Nat]
  BY DEF Without

\* Deleting a key makes a finite map one smaller.
LEMMA WithoutSize ==
  ASSUME NEW D, IsFiniteSet(D), NEW k
  PROVE  /\ IsFiniteSet(D \ {k})
         /\ Cardinality(D) \in Nat
         /\ Cardinality(D \ {k}) <= Cardinality(D)
         /\ k \in D => Cardinality(D \ {k}) = Cardinality(D) - 1
<1>1. Cardinality(D) \in Nat
  BY FS_CardinalityType
<1>2. /\ IsFiniteSet(D \ {k})
      /\ Cardinality(D \ {k}) = IF k \in D THEN Cardinality(D) - 1 ELSE Cardinality(D)
  BY FS_RemoveElement
<1> QED BY <1>1, <1>2

\* Updating the LRU map adds the entry and may drop one other.
LEMMA UpdatedFacts ==
  ASSUME NEW f, IsFiniteSet(DOMAIN f), Cardinality(DOMAIN f) <= MapSize,
         NEW k, k \notin DOMAIN f, NEW v \in Nat, f \in [DOMAIN f -> Nat],
         NEW g \in Updated(f, k, v)
  PROVE  /\ DOMAIN g \subseteq DOMAIN f \cup {k}
         /\ k \in DOMAIN g /\ g[k] = v
         /\ \A x \in DOMAIN g : x # k => g[x] = f[x]
         /\ g \in [DOMAIN g -> Nat]
         /\ IsFiniteSet(DOMAIN g)
         /\ Cardinality(DOMAIN g) <= MapSize
<1> DEFINE With(h) == [x \in DOMAIN h \cup {k} |-> IF x = k THEN v ELSE h[x]]
<1>1. PICK h : /\ g = With(h)
               /\ DOMAIN h \subseteq DOMAIN f
               /\ \A x \in DOMAIN h : h[x] = f[x]
               /\ IsFiniteSet(DOMAIN h)
               /\ Cardinality(DOMAIN h) < MapSize
  <2>1. CASE Cardinality(DOMAIN f) < MapSize
    BY <2>1 DEF Updated
  <2>2. CASE ~(Cardinality(DOMAIN f) < MapSize)
    <3>1. PICK x \in DOMAIN f : g = With(Without(f, x))
      BY <2>2 DEF Updated
    <3>2. Cardinality(DOMAIN f) \in Nat
      BY FS_CardinalityType
    <3> DEFINE w == Without(f, x)
    <3> HIDE DEF With
    <3>3. g = With(w) /\ w = Without(f, x)
      BY <3>1
    <3> HIDE DEF w
    <3>4. /\ DOMAIN w = DOMAIN f \ {x}
          /\ \A y \in DOMAIN w : w[y] = f[y]
      BY <3>3, WithoutFacts
    <3>6. /\ IsFiniteSet(DOMAIN w)
          /\ Cardinality(DOMAIN w) = Cardinality(DOMAIN f) - 1
      BY <3>4, WithoutSize
    <3>5. Cardinality(DOMAIN w) < MapSize
      BY <3>2, <3>6, PairingAssumption
    <3> QED BY <3>3, <3>4, <3>5, <3>6
  <2> QED BY <2>1, <2>2
<1>2. DOMAIN g = DOMAIN h \cup {k} /\ g[k] = v /\ \A x \in DOMAIN h : x # k => g[x] = f[x]
  BY <1>1
<1>3. g \in [DOMAIN g -> Nat]
  BY <1>1
<1>4. k \notin DOMAIN h
  BY <1>1
<1> HIDE DEF With
<1>5. IsFiniteSet(DOMAIN g) /\ Cardinality(DOMAIN g) = Cardinality(DOMAIN h) + 1
  BY <1>1, <1>2, <1>4, FS_AddElement
<1>6. Cardinality(DOMAIN h) \in Nat
  BY <1>1, FS_CardinalityType
<1> QED
  BY <1>1, <1>2, <1>3, <1>5, <1>6, PairingAssumption

-----------------------------------------------------------------------------
(* The steps.                                                              *)

\* The invariant holds before anything is attached.
LEMMA InitIInv == Init => IInv
<1> SUFFICES ASSUME Init PROVE IInv
  OBVIOUS
<1>1. DOMAIN enter_state = {} /\ IsFiniteSet({}) /\ Cardinality({}) = 0
  BY FS_EmptySet DEF Init
<1>2. TypeOK
  <2>1. enter_state \in [DOMAIN enter_state -> Nat]
    BY <1>1 DEF Init
  <2>2. next_program \in 1 .. (Len(Programs) + 1)
    BY PairingAssumption DEF Init
  <2>3. running \in [Threads -> Call]
    BY DEF Init, Idle, Call
  <2>4. Cardinality(DOMAIN enter_state) <= MapSize
    BY <1>1, PairingAssumption
  <2> QED BY <1>1, <2>1, <2>2, <2>3, <2>4 DEF Init, TypeOK
<1> QED
  BY <1>1, <1>2 DEF Init, IInv, RunningOK, EntriesOK, EmittedOK, PairedOnceAttached, SubmittedOnce

\* A counter stays a counter.
LEMMA StatIncType ==
  ASSUME TypeOK, NEW s \in StatKeys, stat_inc(s) PROVE stats' \in [StatKeys -> Nat]
  BY DEF TypeOK, stat_inc

\* Attaching a program preserves the invariant: programs only ever get added.
LEMMA AttachStep == ASSUME IInv, AttachNext PROVE IInv'
<1>1. Programs[next_program] \in Sides \X Kinds /\ next_program' \in 1 .. (Len(Programs) + 1)
  BY PairingAssumption DEF IInv, TypeOK, AttachNext
<1>2. TypeOK'
  BY <1>1 DEF IInv, TypeOK, AttachNext
<1>3. attached \subseteq attached'
  BY DEF AttachNext
<1>4. RunningOK'
  BY <1>3 DEF IInv, RunningOK, AttachNext
<1>5. EntriesOK'
  <2> SUFFICES ASSUME NEW u \in Threads, NEW k \in Kinds, <<u, k>> \in DOMAIN enter_state
               PROVE  EntryOK(u, k)'
    BY DEF EntriesOK, AttachNext
  <2>1. EntryOK(u, k)
    BY DEF IInv, EntriesOK
  <2> QED BY <2>1 DEF EntryOK, AttachNext
<1> QED
  BY <1>2, <1>4, <1>5 DEF IInv, EmittedOK, PairedOnceAttached, SubmittedOnce, AttachNext

\* A thread that vanishes leaves its entry behind; the entry is of an old call.
LEMMA VanishStep == ASSUME IInv, NEW t \in Threads, Vanish(t) PROVE IInv'
<1>1. TypeOK'
  <2>1. running' \in [Threads -> Call]
    BY DEF IInv, TypeOK, Vanish, Idle, Call
  <2> QED BY <2>1 DEF IInv, TypeOK, Vanish
<1>2. \A u \in Threads : u # t => running'[u] = running[u]
  BY DEF IInv, TypeOK, Vanish
<1>3. RunningOK'
  <2>1. running'[t] = Idle
    BY DEF IInv, TypeOK, Vanish
  <2> QED BY <1>2, <2>1 DEF IInv, RunningOK, Vanish
<1>4. EntriesOK'
  <2> SUFFICES ASSUME NEW u \in Threads, NEW k \in Kinds, <<u, k>> \in DOMAIN enter_state
               PROVE  EntryOK(u, k)'
    BY DEF EntriesOK, Vanish
  <2>1. EntryOK(u, k)
    BY DEF IInv, EntriesOK
  <2>2. \/ <<u, enter_state[<<u, k>>]>> \in early
        \/ k \in NoReturn
        \/ running'[u].kind = k /\ running'[u].call = enter_state[<<u, k>>]
    BY <1>2, <2>1 DEF EntryOK, Vanish
  <2> QED BY <2>1, <2>2 DEF EntryOK, Vanish
<1> QED
  BY <1>1, <1>3, <1>4 DEF IInv, EmittedOK, PairedOnceAttached, SubmittedOnce, Vanish

\* What an enter handler does to the map: nothing, or one fresh entry.
LEMMA EnterMap ==
  ASSUME IInv, NEW t \in Threads, NEW k \in Kinds, SysEnter(t, k)
  PROVE  /\ TypeOK' /\ IsFiniteSet(DOMAIN enter_state')
         /\ \A x \in DOMAIN enter_state' :
              \/ x \in DOMAIN enter_state /\ enter_state'[x] = enter_state[x]
              \/ /\ x = <<t, k>> /\ enter_state'[x] = calls[t] + 1
                 /\ t \notin Suppressed /\ k \in Enabled
<1> DEFINE c == calls[t] + 1
<1>1. c \in Nat /\ TypeOK /\ <<t, k>> \in Keys
  BY DEF IInv, TypeOK, Keys
<1>2. /\ DOMAIN enter_state' \subseteq Keys
      /\ enter_state' \in [DOMAIN enter_state' -> Nat]
      /\ Cardinality(DOMAIN enter_state') <= MapSize
      /\ IsFiniteSet(DOMAIN enter_state')
      /\ stats' \in [StatKeys -> Nat]
      /\ \A x \in DOMAIN enter_state' :
           \/ x \in DOMAIN enter_state /\ enter_state'[x] = enter_state[x]
           \/ /\ x = <<t, k>> /\ enter_state'[x] = c
              /\ t \notin Suppressed /\ k \in Enabled
  <2>1. CASE UNCHANGED enter_state
    <3>1. stats' \in [StatKeys -> Nat]
      <4>1. UNCHANGED stats \/ \E s \in StatKeys : stat_inc(s)
        BY DEF SysEnter, ReserveFail, SaveEnterState, StatKeys
      <4> QED BY <1>1, <4>1, StatIncType DEF TypeOK
    <3> QED BY <1>1, <2>1, <3>1 DEF TypeOK, IInv
  <2>2. CASE /\ Handles("enter", t, k)
             /\ <<t, k>> \notin DOMAIN enter_state
             /\ enter_state' \in Updated(enter_state, <<t, k>>, c)
             /\ UNCHANGED stats
    <3> DEFINE x == <<t, k>>
               g == enter_state'
    <3>1. IsFiniteSet(DOMAIN enter_state)
      BY DEF IInv
    <3>2. /\ DOMAIN g \subseteq DOMAIN enter_state \cup {x}
          /\ x \in DOMAIN g /\ g[x] = c
          /\ \A y \in DOMAIN g : y # x => g[y] = enter_state[y]
          /\ g \in [DOMAIN g -> Nat]
          /\ IsFiniteSet(DOMAIN g)
          /\ Cardinality(DOMAIN g) <= MapSize
      <4> HIDE DEF c, x
      <4> QED BY <1>1, <2>2, <3>1, UpdatedFacts DEF TypeOK, x
    <3> QED BY <1>1, <2>2, <3>2 DEF TypeOK, Handles
  <2> QED BY <2>1, <2>2 DEF SysEnter, ReserveFail, SaveEnterState
<1>3. running' \in [Threads -> Call] /\ calls' \in [Threads -> Nat]
  <2>1. [kind |-> k, call |-> c, seen |-> Handles("enter", t, k)] \in Call
    BY <1>1 DEF Call, Handles
  <2> QED BY <1>1, <2>1 DEF TypeOK, SysEnter
<1>4. early' \subseteq Threads \X Nat
  BY <1>1 DEF TypeOK, SysEnter
<1> QED
  BY <1>1, <1>2, <1>3, <1>4 DEF TypeOK, SysEnter

\* The enter side of a call preserves the invariant.
LEMMA EnterStep == ASSUME IInv, NEW t \in Threads, NEW k \in Kinds, SysEnter(t, k) PROVE IInv'
<1> DEFINE c == calls[t] + 1
<1>1. /\ TypeOK' /\ IsFiniteSet(DOMAIN enter_state')
      /\ \A x \in DOMAIN enter_state' :
           \/ x \in DOMAIN enter_state /\ enter_state'[x] = enter_state[x]
           \/ /\ x = <<t, k>> /\ enter_state'[x] = c
              /\ t \notin Suppressed /\ k \in Enabled
  BY EnterMap
<1>2. /\ calls \in [Threads -> Nat] /\ running \in [Threads -> Call]
      /\ c \in Nat \ {0} /\ running[t] = Idle
  BY DEF IInv, TypeOK, SysEnter
<1>3. /\ calls'[t] = c /\ \A u \in Threads : u # t => calls'[u] = calls[u]
      /\ \A u \in Threads : u # t => running'[u] = running[u]
      /\ running'[t].kind = k /\ running'[t].call = c
      /\ early \subseteq early' /\ emitted' = emitted /\ attached' = attached
      /\ <<"exit", k>> \notin attached => <<t, c>> \in early'
  BY <1>2 DEF SysEnter
<1>4. \A u \in Threads : calls[u] \in Nat /\ calls'[u] \in Nat /\ calls[u] <= calls'[u]
  BY <1>2, <1>3
<1> HIDE DEF c
<1>5. RunningOK'
  BY <1>3 DEF IInv, RunningOK
<1>6. EntriesOK'
  <2> SUFFICES ASSUME NEW u \in Threads, NEW l \in Kinds, <<u, l>> \in DOMAIN enter_state'
               PROVE  EntryOK(u, l)'
    BY DEF EntriesOK
  <2>1. ASSUME NEW j \in Kinds, <<u, j>> \in DOMAIN enter_state',
               enter_state'[<<u, j>>] # enter_state[<<u, j>>] \/ <<u, j>> \notin DOMAIN enter_state
        PROVE  u = t /\ j = k /\ enter_state'[<<u, j>>] = c
    BY <1>1, <2>1
  <2>2. ASSUME NEW j \in Kinds, <<t, j>> \in DOMAIN enter_state
        PROVE  enter_state[<<t, j>>] # c
    <3>1. enter_state[<<t, j>>] \in 1 .. calls[t]
      BY <2>2 DEF IInv, EntriesOK, EntryOK
    <3> QED BY <1>2, <3>1 DEF c
  <2>3. CASE <<u, l>> \in DOMAIN enter_state /\ enter_state'[<<u, l>>] = enter_state[<<u, l>>]
    <3> DEFINE n == enter_state[<<u, l>>]
    <3>1. EntryOK(u, l)
      BY <2>3 DEF IInv, EntriesOK
    <3>2. n \in 1 .. calls'[u]
      BY <1>4, <3>1 DEF EntryOK
    <3>3. <<u, n>> \in early' \/ l \in NoReturn
          \/ (running'[u].kind = l /\ running'[u].call = n)
      <4>1. CASE u = t
        <5>1. running[u].call = 0
          BY <1>2, <4>1 DEF Idle
        <5>2. n # 0
          BY <3>1, <1>4 DEF EntryOK
        <5> QED BY <1>3, <3>1, <5>1, <5>2 DEF EntryOK
      <4>2. CASE u # t
        BY <1>3, <3>1, <4>2 DEF EntryOK
      <4> QED BY <4>1, <4>2
    <3>4. \A j \in Kinds : <<u, j>> \in DOMAIN enter_state' /\ j # l => enter_state'[<<u, j>>] # n
      <4> SUFFICES ASSUME NEW j \in Kinds, <<u, j>> \in DOMAIN enter_state', j # l
                   PROVE  enter_state'[<<u, j>>] # n
        OBVIOUS
      <4>1. CASE <<u, j>> \in DOMAIN enter_state /\ enter_state'[<<u, j>>] = enter_state[<<u, j>>]
        BY <3>1, <4>1 DEF EntryOK
      <4>2. CASE ~(<<u, j>> \in DOMAIN enter_state /\ enter_state'[<<u, j>>] = enter_state[<<u, j>>])
        <5>1. u = t /\ enter_state'[<<u, j>>] = c
          BY <2>1, <4>2
        <5> QED BY <2>2, <2>3, <5>1
      <4> QED BY <4>1, <4>2
    <3>5. enter_state'[<<u, l>>] = n
      BY <2>3
    <3> HIDE DEF n
    <3>6. u \notin Suppressed /\ l \in Enabled /\ \A e \in emitted' : e.thread = u => e.args # n
      BY <1>3, <3>1 DEF EntryOK, n
    <3> QED BY <3>2, <3>3, <3>4, <3>5, <3>6 DEF EntryOK
  <2>4. CASE ~(<<u, l>> \in DOMAIN enter_state /\ enter_state'[<<u, l>>] = enter_state[<<u, l>>])
    <3>1. u = t /\ l = k /\ enter_state'[<<u, l>>] = c
      BY <2>1, <2>4
    <3>2. t \notin Suppressed /\ k \in Enabled
      BY <1>1, <2>4, <3>1
    <3>3. c \in 1 .. calls'[t]
      BY <1>2, <1>3
    <3>4. \A e \in emitted : e.thread = t => e.args # c
      <4> SUFFICES ASSUME NEW e \in emitted, e.thread = t PROVE e.args # c
        OBVIOUS
      <4>1. e.args \in 1 .. calls[t]
        BY DEF IInv, EmittedOK
      <4> QED BY <1>2, <4>1 DEF c
    <3>5. \A j \in Kinds : <<t, j>> \in DOMAIN enter_state' /\ j # k => enter_state'[<<t, j>>] # c
      BY <1>1, <2>2
    <3> QED BY <1>3, <3>1, <3>2, <3>3, <3>4, <3>5 DEF EntryOK
  <2> QED BY <2>3, <2>4
<1>7. EmittedOK'
  <2> SUFFICES ASSUME NEW e \in emitted PROVE e.args \in 1 .. calls'[e.thread]
    BY <1>3 DEF EmittedOK
  <2>1. e.thread \in Threads /\ e.args \in 1 .. calls[e.thread]
    BY DEF IInv, EmittedOK, TypeOK
  <2> QED BY <1>4, <2>1
<1>8. PairedOnceAttached' /\ SubmittedOnce'
  BY <1>3 DEF IInv, PairedOnceAttached, SubmittedOnce
<1> QED
  BY <1>1, <1>5, <1>6, <1>7, <1>8 DEF IInv

\* What an exit handler does: nothing, or it removes the entry of its key, and
\* then it may have submitted it.
LEMMA ExitMap ==
  ASSUME IInv, NEW t \in Threads, SysExit(t)
  PROVE  LET k == running[t].kind
             c == running[t].call
         IN  /\ TypeOK' /\ IsFiniteSet(DOMAIN enter_state')
             /\ k \in Kinds /\ k \notin NoReturn
             /\ DOMAIN enter_state' \subseteq DOMAIN enter_state
             /\ \A x \in DOMAIN enter_state' : enter_state'[x] = enter_state[x]
             /\ Handles("exit", t, k) => <<t, k>> \notin DOMAIN enter_state'
             /\ \/ emitted' = emitted
                \/ /\ <<t, k>> \in DOMAIN enter_state
                   /\ <<t, k>> \notin DOMAIN enter_state'
                   /\ emitted' = emitted \cup
                        {[thread |-> t, args |-> enter_state[<<t, k>>], ret |-> c]}
<1> DEFINE k == running[t].kind
           c == running[t].call
<1>1. TypeOK /\ IsFiniteSet(DOMAIN enter_state) /\ k \in Kinds /\ k \notin NoReturn /\ c \in Nat
  BY DEF IInv, RunningOK, SysExit, TypeOK, Call
<1> HIDE DEF k, c
<1>2. /\ running' \in [Threads -> Call]
      /\ UNCHANGED <<next_program, attached, calls, early>>
  BY <1>1 DEF SysExit, TypeOK, Idle, Call
<1>3. lost' \in Nat
  BY <1>1 DEF SysExit, TypeOK
<1> DEFINE Map == /\ DOMAIN enter_state' \subseteq DOMAIN enter_state
                  /\ enter_state' \in [DOMAIN enter_state' -> Nat]
                  /\ IsFiniteSet(DOMAIN enter_state')
                  /\ Cardinality(DOMAIN enter_state') <= MapSize
                  /\ \A x \in DOMAIN enter_state' : enter_state'[x] = enter_state[x]
           Out == /\ <<t, k>> \in DOMAIN enter_state
                  /\ <<t, k>> \notin DOMAIN enter_state'
                  /\ emitted' = emitted \cup
                       {[thread |-> t, args |-> enter_state[<<t, k>>], ret |-> c]}
           Gone == Handles("exit", t, k) => <<t, k>> \notin DOMAIN enter_state'
<1>4. ASSUME UNCHANGED enter_state PROVE Map
  BY <1>1, <1>4 DEF TypeOK
<1>5. ASSUME enter_state' = Without(enter_state, <<t, k>>)
      PROVE  Map /\ <<t, k>> \notin DOMAIN enter_state'
  <2> DEFINE x == <<t, k>>
  <2> HIDE DEF x
  <2>1. /\ DOMAIN enter_state' = DOMAIN enter_state \ {x}
        /\ \A y \in DOMAIN enter_state \ {x} : enter_state'[y] = enter_state[y]
        /\ enter_state' \in [DOMAIN enter_state \ {x} -> Nat]
    BY <1>1, <1>5, WithoutFacts DEF TypeOK, x
  <2>2. /\ IsFiniteSet(DOMAIN enter_state \ {x})
        /\ Cardinality(DOMAIN enter_state) \in Nat
        /\ Cardinality(DOMAIN enter_state \ {x}) <= Cardinality(DOMAIN enter_state)
    BY <1>1, WithoutSize
  <2>3. Cardinality(DOMAIN enter_state \ {x}) \in Nat
    BY <2>2, FS_CardinalityType
  <2>4. Cardinality(DOMAIN enter_state \ {x}) <= MapSize
    BY <1>1, <2>2, <2>3, PairingAssumption DEF TypeOK
  <2> QED BY <2>1, <2>2, <2>4 DEF x
<1>6. Map /\ Gone /\ (emitted' = emitted \/ Out)
  <2>1. CASE ~Handles("exit", t, k)
    BY <1>4, <2>1 DEF SysExit, k, c
  <2>2. CASE StateMiss(<<t, k>>)
    BY <1>4, <2>2 DEF StateMiss
  <2>3. CASE ExitReserveFail(<<t, k>>)
    BY <1>5, <2>3 DEF ExitReserveFail
  <2>4. CASE Submit(<<t, k>>, c)
    BY <1>5, <2>4 DEF Submit
  <2> QED BY <2>1, <2>2, <2>3, <2>4 DEF SysExit, EmitExitEvent, k, c
<1>7. stats' \in [StatKeys -> Nat]
  <2>1. UNCHANGED stats \/ \E s \in StatKeys : stat_inc(s)
    BY DEF SysExit, EmitExitEvent, StateMiss, ExitReserveFail, Submit, StatKeys
  <2> QED BY <1>1, <2>1, StatIncType DEF TypeOK
<1>8. emitted' \subseteq [thread : Threads, args : Nat, ret : Nat]
  <2>1. <<t, k>> \in DOMAIN enter_state => enter_state[<<t, k>>] \in Nat
    BY <1>1 DEF TypeOK
  <2>2. emitted \subseteq [thread : Threads, args : Nat, ret : Nat]
    BY <1>1 DEF TypeOK
  <2>3. CASE emitted' = emitted
    BY <2>2, <2>3
  <2>4. CASE Out
    <3>1. [thread |-> t, args |-> enter_state[<<t, k>>], ret |-> c]
             \in [thread : Threads, args : Nat, ret : Nat]
      BY <1>1, <2>1, <2>4
    <3> QED BY <2>2, <2>4, <3>1
  <2> QED BY <1>6, <2>3, <2>4
<1>9. TypeOK'
  BY <1>1, <1>2, <1>3, <1>6, <1>7, <1>8 DEF TypeOK
<1> QED
  BY <1>1, <1>6, <1>9 DEF k, c

\* The exit side of a call preserves the invariant.
LEMMA ExitStep == ASSUME IInv, NEW t \in Threads, SysExit(t) PROVE IInv'
<1> DEFINE k == running[t].kind
           c == running[t].call
           n == enter_state[<<t, k>>]
           Out == /\ <<t, k>> \in DOMAIN enter_state
                  /\ <<t, k>> \notin DOMAIN enter_state'
                  /\ emitted' = emitted \cup {[thread |-> t, args |-> n, ret |-> c]}
<1>1. /\ TypeOK' /\ IsFiniteSet(DOMAIN enter_state')
      /\ k \in Kinds /\ k \notin NoReturn
      /\ DOMAIN enter_state' \subseteq DOMAIN enter_state
      /\ \A x \in DOMAIN enter_state' : enter_state'[x] = enter_state[x]
      /\ Handles("exit", t, k) => <<t, k>> \notin DOMAIN enter_state'
      /\ emitted' = emitted \/ Out
  BY ExitMap
<1>2. /\ running'[t] = Idle
      /\ \A u \in Threads : u # t => running'[u] = running[u]
      /\ UNCHANGED <<attached, calls, early>>
  BY DEF SysExit, IInv, TypeOK
<1>3. <<"exit", k>> \notin attached => <<t, c>> \in early
  BY DEF IInv, RunningOK, SysExit
<1>4. RunningOK'
  BY <1>2 DEF IInv, RunningOK
<1> HIDE DEF k, c
<1>5. <<t, k>> \in DOMAIN enter_state => EntryOK(t, k)
  BY <1>1 DEF IInv, EntriesOK
<1>6. EntriesOK'
  <2> SUFFICES ASSUME NEW u \in Threads, NEW l \in Kinds, <<u, l>> \in DOMAIN enter_state'
               PROVE  EntryOK(u, l)'
    BY DEF EntriesOK
  <2> DEFINE m == enter_state[<<u, l>>]
  <2>1. EntryOK(u, l) /\ <<u, l>> \in DOMAIN enter_state /\ enter_state'[<<u, l>>] = m
    BY <1>1 DEF IInv, EntriesOK
  <2>2. <<u, m>> \in early \/ l \in NoReturn \/ (running'[u].kind = l /\ running'[u].call = m)
    <3>1. CASE u # t
      BY <1>2, <2>1, <3>1 DEF EntryOK
    <3>2. CASE u = t /\ l # k
      BY <2>1, <3>2 DEF EntryOK, k
    <3>3. CASE u = t /\ l = k
      <4>1. <<"exit", k>> \notin attached
        BY <1>1, <2>1, <3>3 DEF Handles, EntryOK
      <4>2. <<t, c>> \in early
        BY <1>3, <4>1
      <4> QED BY <2>1, <3>3, <4>2 DEF EntryOK, c
    <3> QED BY <3>1, <3>2, <3>3
  <2>3. \A e \in emitted' : e.thread = u => e.args # m
    <3>1. CASE emitted' = emitted
      BY <2>1, <3>1 DEF EntryOK
    <3>2. CASE Out
      <4>1. u = t => l # k
        BY <3>2
      <4>2. u = t => n # m
        BY <1>1, <1>5, <2>1, <3>2, <4>1 DEF EntryOK
      <4> QED BY <2>1, <3>2, <4>2 DEF EntryOK
    <3> QED BY <1>1, <3>1, <3>2
  <2>4. \A j \in Kinds : <<u, j>> \in DOMAIN enter_state' /\ j # l => enter_state'[<<u, j>>] # m
    BY <1>1, <2>1 DEF EntryOK
  <2>5. u \notin Suppressed /\ l \in Enabled /\ m \in 1 .. calls'[u]
    BY <1>2, <2>1 DEF EntryOK
  <2> HIDE DEF m
  <2> QED BY <1>2, <2>1, <2>2, <2>3, <2>4, <2>5 DEF EntryOK
<1>7. EmittedOK' /\ PairedOnceAttached' /\ SubmittedOnce'
  <2>1. CASE emitted' = emitted
    BY <1>2, <2>1 DEF IInv, EmittedOK, PairedOnceAttached, SubmittedOnce
  <2>2. CASE Out
    <3> DEFINE r == [thread |-> t, args |-> n, ret |-> c]
    <3>1. EntryOK(t, k) /\ emitted' = emitted \cup {r}
      BY <1>5, <2>2
    <3>2. r.thread = t /\ r.args = n /\ r.ret = c
      OBVIOUS
    <3> HIDE DEF r
    <3>3. EmittedOK'
      BY <1>2, <3>1, <3>2 DEF IInv, EmittedOK, EntryOK
    <3>4. n # c => <<t, n>> \in early
      BY <1>1, <3>1 DEF EntryOK, c
    <3>5. PairedOnceAttached'
      BY <1>2, <3>1, <3>2, <3>4 DEF IInv, PairedOnceAttached
    <3>6. \A e \in emitted : e.thread = t => e.args # n
      BY <3>1 DEF EntryOK
    <3>7. SubmittedOnce'
      BY <3>1, <3>2, <3>6 DEF IInv, SubmittedOnce
    <3> QED BY <3>3, <3>5, <3>7
  <2> QED BY <1>1, <2>1, <2>2
<1> QED
  BY <1>1, <1>4, <1>6, <1>7 DEF IInv

-----------------------------------------------------------------------------
(* The specification.                                                      *)

\* The invariant is inductive: one case per action.
LEMMA StepIInv == IInv /\ [Next]_vars => IInv'
<1> SUFFICES ASSUME IInv, [Next]_vars PROVE IInv'
  OBVIOUS
<1>1. CASE UNCHANGED vars
  <2>1. /\ UNCHANGED <<next_program, attached, calls, running, enter_state>>
        /\ UNCHANGED <<stats, emitted, early, lost>>
    BY <1>1 DEF vars
  <2>2. EntriesOK'
    <3> SUFFICES ASSUME NEW u \in Threads, NEW l \in Kinds, <<u, l>> \in DOMAIN enter_state
                 PROVE  EntryOK(u, l)'
      BY <2>1 DEF EntriesOK
    <3>1. EntryOK(u, l)
      BY DEF IInv, EntriesOK
    <3> QED BY <2>1, <3>1 DEF EntryOK
  <2>3. TypeOK' /\ RunningOK' /\ IsFiniteSet(DOMAIN enter_state')
    BY <2>1 DEF IInv, TypeOK, RunningOK
  <2>4. EmittedOK' /\ PairedOnceAttached' /\ SubmittedOnce'
    BY <2>1 DEF IInv, EmittedOK, PairedOnceAttached, SubmittedOnce
  <2> QED BY <2>2, <2>3, <2>4 DEF IInv
<1>2. CASE AttachNext
  BY <1>2, AttachStep
<1>3. CASE \E t \in Threads, k \in Kinds : SysEnter(t, k)
  BY <1>3, EnterStep
<1>4. CASE \E t \in Threads : SysExit(t)
  BY <1>4, ExitStep
<1>5. CASE \E t \in Threads : Vanish(t)
  BY <1>5, VanishStep
<1> QED
  BY <1>1, <1>2, <1>3, <1>4, <1>5 DEF Next

\* Type correctness: in particular the enter-state map stays within max_entries.
THEOREM PairingTypes == Spec => []TypeOK
<1>1. IInv => TypeOK
  BY DEF IInv
<1> QED
  BY <1>1, InitIInv, StepIInv, PTL DEF Spec

\* Whatever is lost, evicted or refused, an event joins the arguments of one
\* call with the return value of another only if that first call entered before
\* the exit program of its kind was attached.
THEOREM PairingCorrect == Spec => []PairedOnceAttached
<1>1. IInv => PairedOnceAttached
  BY DEF IInv
<1> QED
  BY <1>1, InitIInv, StepIInv, PTL DEF Spec

\* No saved enter payload is submitted twice.
THEOREM PairingOnce == Spec => []SubmittedOnce
<1>1. IInv => SubmittedOnce
  BY DEF IInv
<1> QED
  BY <1>1, InitIInv, StepIInv, PTL DEF Spec

-----------------------------------------------------------------------------
(* Losses and counters.                                                    *)

\* Threads inside a call whose key holds the arguments of an older call.  What
\* comes out of such a call is not its own event, and nothing more is counted
\* when it returns: the handler counted it when it entered.
Doomed == {t \in Threads : /\ running[t] # Idle
                           /\ running[t].seen
                           /\ <<t, running[t].kind>> \in DOMAIN enter_state
                           /\ enter_state[<<t, running[t].kind>>] # running[t].call}

Total == stats["reserve_fail"] + stats["state_miss"] + stats["save_fail"] + stats["collision"]

LossInv == /\ IsFiniteSet(Doomed)
           /\ lost + Cardinality(Doomed) <= Total

\* The counters are numbers, and so is their sum.
LEMMA TotalType == TypeOK => Total \in Nat /\ lost \in Nat
<1>1. TypeOK => stats \in [StatKeys -> Nat] /\ lost \in Nat
  BY DEF TypeOK
<1>2. stats \in [StatKeys -> Nat] => Total \in Nat
  BY DEF Total, StatKeys
<1> QED BY <1>1, <1>2

\* One increment adds one to the total.
LEMMA TotalInc ==
  ASSUME TypeOK, NEW s \in StatKeys, stat_inc(s) PROVE Total' = Total + 1
<1>1. \A x \in StatKeys : stats[x] \in Nat /\ stats'[x] = IF x = s THEN stats[x] + 1 ELSE stats[x]
  BY DEF TypeOK, stat_inc
<1>2. stats' = [stats EXCEPT ![s] = @ + 1]
  BY DEF stat_inc
<1> QED
  BY <1>1 DEF Total, StatKeys

\* Set D with at most one element more, or at least one less.
LEMMA CountBounds ==
  ASSUME NEW C, NEW D, IsFiniteSet(C), NEW t
  PROVE  /\ Cardinality(C) \in Nat
         /\ D \subseteq C \cup {t} =>
              IsFiniteSet(D) /\ Cardinality(D) \in Nat /\ Cardinality(D) <= Cardinality(C) + 1
         /\ D \subseteq C => Cardinality(D) <= Cardinality(C)
         /\ t \in C /\ D \subseteq C \ {t} => Cardinality(D) <= Cardinality(C) - 1
<1>1. Cardinality(C) \in Nat
  BY FS_CardinalityType
<1>2. IsFiniteSet(C \cup {t}) /\ Cardinality(C \cup {t}) \in {Cardinality(C), Cardinality(C) + 1}
  BY <1>1, FS_AddElement
<1>3. IsFiniteSet(C \ {t}) /\ (t \in C => Cardinality(C \ {t}) = Cardinality(C) - 1)
  BY <1>1, FS_RemoveElement
<1>4. ASSUME D \subseteq C \cup {t}
      PROVE  IsFiniteSet(D) /\ Cardinality(D) \in Nat /\ Cardinality(D) <= Cardinality(C) + 1
  <2>1. IsFiniteSet(D) /\ Cardinality(D) <= Cardinality(C \cup {t})
    BY <1>2, <1>4, FS_Subset
  <2> QED BY <1>1, <1>2, <2>1, FS_CardinalityType
<1>5. D \subseteq C => Cardinality(D) <= Cardinality(C)
  BY FS_Subset
<1>6. t \in C /\ D \subseteq C \ {t} => Cardinality(D) <= Cardinality(C) - 1
  BY <1>3, FS_Subset
<1> QED
  BY <1>1, <1>4, <1>5, <1>6

\* The set only loses members when no thread but t moves and no entry is written.
LEMMA DoomedShrinks ==
  ASSUME \A u \in Threads : running'[u] = running[u] \/ running'[u] = Idle,
         DOMAIN enter_state' \subseteq DOMAIN enter_state,
         \A x \in DOMAIN enter_state' : enter_state'[x] = enter_state[x]
  PROVE  /\ Doomed' \subseteq Doomed
         /\ \A u \in Threads : running'[u] = Idle => u \notin Doomed'
  BY DEF Doomed

\* An enter handler that cannot save the arguments counts why.
LEMMA EnterLoss ==
  ASSUME IInv, LossInv, NEW t \in Threads, NEW k \in Kinds, SysEnter(t, k)
  PROVE  LossInv'
<1> DEFINE c == calls[t] + 1
<1>1. /\ TypeOK /\ TypeOK' /\ lost' = lost /\ lost \in Nat
      /\ Total \in Nat
  <2>1. TypeOK /\ TypeOK' /\ lost' = lost
    BY EnterMap DEF IInv, SysEnter
  <2> QED BY <2>1, TotalType
<1>2. /\ \A u \in Threads : u # t => running'[u] = running[u]
      /\ running'[t].kind = k /\ running'[t].call = c
      /\ running'[t].seen = Handles("enter", t, k)
      /\ running[t] = Idle
  BY <1>1 DEF SysEnter, TypeOK
<1>3. \A x \in DOMAIN enter_state' :
        \/ x \in DOMAIN enter_state /\ enter_state'[x] = enter_state[x]
        \/ x = <<t, k>> /\ enter_state'[x] = c
  BY EnterMap
<1>4. Doomed' \subseteq Doomed \cup {t}
  <2> SUFFICES ASSUME NEW u \in Doomed', u # t PROVE u \in Doomed
    OBVIOUS
  <2>1. /\ u \in Threads /\ running'[u] = running[u]
        /\ <<u, running[u].kind>> \in DOMAIN enter_state'
        /\ <<u, running[u].kind>> # <<t, k>>
    BY <1>2 DEF Doomed
  <2>2. /\ <<u, running[u].kind>> \in DOMAIN enter_state
        /\ enter_state'[<<u, running[u].kind>>] = enter_state[<<u, running[u].kind>>]
    BY <1>3, <2>1
  <2> QED BY <2>1, <2>2 DEF Doomed
<1>5. CASE \E s \in StatKeys : stat_inc(s)
  <2>1. Total' = Total + 1
    BY <1>1, <1>5, TotalInc
  <2>2. /\ IsFiniteSet(Doomed') /\ Cardinality(Doomed) \in Nat /\ Cardinality(Doomed') \in Nat
        /\ Cardinality(Doomed') <= Cardinality(Doomed) + 1
    BY <1>4, CountBounds DEF LossInv
  <2>3. lost + Cardinality(Doomed') <= Total + 1
    BY <1>1, <2>2 DEF LossInv
  <2> QED BY <1>1, <2>1, <2>2, <2>3 DEF LossInv
<1>6. CASE t \notin Doomed' /\ UNCHANGED stats
  <2>1. Total' = Total
    BY <1>6 DEF Total
  <2>2. Doomed' \subseteq Doomed
    BY <1>4, <1>6
  <2>3. IsFiniteSet(Doomed') /\ Cardinality(Doomed) \in Nat /\ Cardinality(Doomed') \in Nat
        /\ Cardinality(Doomed') <= Cardinality(Doomed)
    BY <1>4, <2>2, CountBounds DEF LossInv
  <2>4. lost + Cardinality(Doomed') <= Total
    BY <1>1, <2>3 DEF LossInv
  <2> QED BY <1>1, <2>1, <2>3, <2>4 DEF LossInv
<1>7. CASE ~Handles("enter", t, k)
  <2>1. t \notin Doomed' /\ UNCHANGED stats
    BY <1>2, <1>7 DEF Doomed, SysEnter
  <2> QED BY <1>6, <2>1
<1>8. CASE /\ <<t, k>> \notin DOMAIN enter_state
           /\ enter_state' \in Updated(enter_state, <<t, k>>, c)
           /\ UNCHANGED stats
  <2>1. t \notin Doomed'
    BY <1>2, <1>3, <1>8 DEF Doomed
  <2> QED BY <1>6, <1>8, <2>1
<1>9. \/ \E s \in StatKeys : stat_inc(s)
      \/ ~Handles("enter", t, k)
      \/ /\ <<t, k>> \notin DOMAIN enter_state
         /\ enter_state' \in Updated(enter_state, <<t, k>>, c)
         /\ UNCHANGED stats
  BY DEF SysEnter, ReserveFail, SaveEnterState, StatKeys
<1> QED
  BY <1>5, <1>7, <1>8, <1>9

\* An exit handler that loses its call counts it, or the enter handler had.
LEMMA ExitLoss ==
  ASSUME IInv, LossInv, NEW t \in Threads, SysExit(t)
  PROVE  LossInv'
<1> DEFINE k == running[t].kind
           c == running[t].call
           x == <<t, k>>
<1>1. /\ TypeOK /\ TypeOK' /\ lost \in Nat /\ lost' \in {lost, lost + 1} /\ Total \in Nat
      /\ DOMAIN enter_state' \subseteq DOMAIN enter_state
      /\ \A y \in DOMAIN enter_state' : enter_state'[y] = enter_state[y]
  <2>1. /\ TypeOK'
        /\ DOMAIN enter_state' \subseteq DOMAIN enter_state
        /\ \A y \in DOMAIN enter_state' : enter_state'[y] = enter_state[y]
    BY ExitMap
  <2>2. TypeOK /\ lost \in Nat /\ Total \in Nat
    BY TotalType DEF IInv
  <2>3. lost' \in {lost, lost + 1}
    BY DEF SysExit
  <2> QED BY <2>1, <2>2, <2>3
<1>2. \A u \in Threads : running'[u] = IF u = t THEN Idle ELSE running[u]
  BY <1>1 DEF SysExit, TypeOK
<1>3. Doomed' \subseteq Doomed \ {t}
  BY <1>1, <1>2, DoomedShrinks DEF Doomed
<1>4. /\ IsFiniteSet(Doomed') /\ Cardinality(Doomed) \in Nat /\ Cardinality(Doomed') \in Nat
      /\ Cardinality(Doomed') <= Cardinality(Doomed)
      /\ t \in Doomed => Cardinality(Doomed') <= Cardinality(Doomed) - 1
  <2>1. Doomed' \subseteq Doomed /\ Doomed' \subseteq Doomed \cup {t}
    BY <1>3
  <2> QED BY <1>3, <2>1, CountBounds DEF LossInv
<1>5. CASE \E s \in StatKeys : stat_inc(s)
  <2>1. Total' = Total + 1
    BY <1>1, <1>5, TotalInc
  <2>2. lost + Cardinality(Doomed) <= Total
    BY DEF LossInv
  <2>3. lost' + Cardinality(Doomed') <= Total + 1
    BY ONLY <1>1, <1>4, <2>2
  <2> QED BY <1>4, <2>1, <2>3 DEF LossInv
<1>6. CASE UNCHANGED stats /\ (lost' = lost \/ t \in Doomed)
  <2>1. Total' = Total
    BY <1>6 DEF Total
  <2>2. lost + Cardinality(Doomed) <= Total
    BY DEF LossInv
  <2>3. lost' + Cardinality(Doomed') <= Total
    BY ONLY <1>1, <1>4, <1>6, <2>2
  <2> QED BY <1>4, <2>1, <2>3 DEF LossInv
<1>7. CASE ~Handles("exit", t, k)
  <2>1. UNCHANGED <<stats, lost>>
    BY <1>7 DEF SysExit
  <2> QED BY <1>6, <2>1
<1>8. CASE Handles("exit", t, k) /\ Submit(x, c)
  <2>1. UNCHANGED stats /\ x \in DOMAIN enter_state
    BY <1>8 DEF Submit
  <2>2. emitted' = emitted \cup {[thread |-> t, args |-> enter_state[x], ret |-> c]}
    BY <1>8 DEF Submit
  <2>3. lost' = IF running[t].seen /\ [thread |-> t, args |-> c, ret |-> c] \notin emitted'
                THEN lost + 1 ELSE lost
    BY <1>8 DEF SysExit
  <2>4. running[t] # Idle
    BY DEF SysExit
  <2>5. CASE enter_state[x] = c
    <3>1. [thread |-> t, args |-> c, ret |-> c] \in emitted'
      BY <2>2, <2>5
    <3>2. lost' = lost
      BY <2>3, <3>1
    <3> QED BY <1>6, <2>1, <3>2
  <2>6. CASE enter_state[x] # c
    <3>1. running[t].seen => t \in Doomed
      BY <2>1, <2>4, <2>6 DEF Doomed
    <3>2. lost' = lost \/ t \in Doomed
      BY <2>3, <3>1
    <3> QED BY <1>6, <2>1, <3>2
  <2> QED BY <2>5, <2>6
<1>9. \/ \E s \in StatKeys : stat_inc(s)
      \/ ~Handles("exit", t, k)
      \/ Handles("exit", t, k) /\ Submit(x, c)
  BY DEF SysExit, EmitExitEvent, StateMiss, ExitReserveFail, StatKeys
<1> QED
  BY <1>5, <1>7, <1>8, <1>9

\* The bound holds through every step.
LEMMA StepLoss == IInv /\ LossInv /\ [Next]_vars => LossInv'
<1> SUFFICES ASSUME IInv, LossInv, [Next]_vars PROVE LossInv'
  OBVIOUS
<1>1. ASSUME UNCHANGED <<enter_state, stats, lost>>,
             \A u \in Threads : running'[u] = running[u] \/ running'[u] = Idle
      PROVE  LossInv'
  <2>1. Doomed' \subseteq Doomed
    BY <1>1, DoomedShrinks
  <2>2. /\ IsFiniteSet(Doomed') /\ Cardinality(Doomed) \in Nat /\ Cardinality(Doomed') \in Nat
        /\ Cardinality(Doomed') <= Cardinality(Doomed)
    <3>1. Doomed' \subseteq Doomed \cup {0}
      BY <2>1
    <3> QED BY <2>1, <3>1, CountBounds DEF LossInv
  <2>3. lost \in Nat /\ Total \in Nat /\ Total' = Total
    BY <1>1, TotalType DEF IInv, Total
  <2>4. lost + Cardinality(Doomed') <= Total
    BY <2>2, <2>3 DEF LossInv
  <2> QED BY <1>1, <2>2, <2>3, <2>4 DEF LossInv
<1>2. CASE UNCHANGED vars
  BY <1>1, <1>2 DEF vars
<1>3. CASE AttachNext
  BY <1>1, <1>3 DEF AttachNext
<1>4. CASE \E t \in Threads, k \in Kinds : SysEnter(t, k)
  BY <1>4, EnterLoss
<1>5. CASE \E t \in Threads : SysExit(t)
  BY <1>5, ExitLoss
<1>6. CASE \E t \in Threads : Vanish(t)
  <2>1. PICK t \in Threads : Vanish(t)
    BY <1>6
  <2>2. \A u \in Threads : running'[u] = running[u] \/ running'[u] = Idle
    BY <2>1 DEF Vanish, IInv, TypeOK
  <2> QED BY <1>1, <2>1, <2>2 DEF Vanish
<1> QED
  BY <1>2, <1>3, <1>4, <1>5, <1>6 DEF Next

\* No silent loss, for every map size, set of threads and attach order: a call
\* that both handlers saw and that did not come out as its own event was counted,
\* on its way in or on its way out.
THEOREM PairingLossCounted == Spec => []LossCounted
<1>1. Init => LossInv
  <2> SUFFICES ASSUME Init PROVE LossInv
    OBVIOUS
  <2>1. Doomed = {}
    BY DEF Init, Doomed
  <2>2. IsFiniteSet(Doomed) /\ Cardinality(Doomed) = 0
    BY <2>1, FS_EmptySet
  <2>3. lost = 0 /\ Total = 0
    BY DEF Init, Total, StatKeys
  <2> QED BY <2>2, <2>3 DEF LossInv
<1>2. IInv /\ LossInv => LossCounted
  <2> SUFFICES ASSUME IInv, LossInv PROVE LossCounted
    OBVIOUS
  <2>1. Cardinality(Doomed) \in Nat
    BY FS_CardinalityType DEF LossInv
  <2>2. lost \in Nat /\ Total \in Nat
    BY TotalType DEF IInv
  <2> QED BY <2>1, <2>2 DEF LossInv, LossCounted, Total
<1> QED
  BY <1>1, <1>2, InitIInv, StepIInv, StepLoss, PTL DEF Spec
=============================================================================
