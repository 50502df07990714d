------------------------ MODULE RuntimeConfigProofs -------------------------
(***************************************************************************)
(* Proofs about RuntimeConfig, for files of any length, any lines, and any *)
(* combination of missing maps and failing updates.                        *)
(*                                                                         *)
(* A reader is a fold over the lines of the file.  LoadTable and SinkTable *)
(* turn it into the sequence of what has been read after each line, and    *)
(* the theorems about files are inductions over that sequence.  SectionIs  *)
(* is the heart of it: in a file in block style the section the reader     *)
(* thinks it is in, at a line that is indented, is the one the indentation *)
(* says.                                                                   *)
(*                                                                         *)
(* ConfigInv follows the program through Start: what the maps written so   *)
(* far hold, as long as no failure was reported.                           *)
(***************************************************************************)
EXTENDS RuntimeConfig, FoldLemmas, SequenceTheorems

Sections == {"none", "file_probes", "domains", "network_filters"}

Config == [section : Sections, domains : [Domains -> BOOLEAN], probes : [Probes -> BOOLEAN],
           allow : [Allowlists -> SUBSET Nat]]

Texts == STRING \cup {"default"}
Sink == [in_sink : BOOLEAN, path : Texts, max_file_size_bytes : Texts]

\* The section a header opens, for the reader.
SectionOf(key) == IF key \in {"file_probes", "domains", "network_filters"} THEN key ELSE "none"

-----------------------------------------------------------------------------
(* Positions.                                                              *)

\* A set that is not empty and has an upper bound has a greatest element.
LEMMA MaxFacts ==
  ASSUME NEW n \in Nat, NEW s \in SUBSET (1 .. n), s # {}
  PROVE  Max(s) \in s /\ \A y \in s : y <= Max(s)
<1> DEFINE T == {k \in Nat : n - k \in s}
<1>1. T # {}
  <2>1. PICK y \in s : TRUE  OBVIOUS
  <2>2. n - y \in Nat /\ n - (n - y) = y  BY <2>1
  <2> QED  BY <2>1, <2>2
<1>2. PICK k \in T : \A j \in T : k <= j  BY <1>1, LeastNatural
<1>3. ASSUME NEW y \in s PROVE n - k >= y
  <2>1. n - y \in Nat /\ n - (n - y) = y /\ y \in Int  OBVIOUS
  <2>2. n - y \in T  BY <2>1
  <2>3. k <= n - y /\ k \in Nat  BY <1>2, <2>2
  <2> QED  BY <2>1, <2>3
<1>4. \E x \in s : \A y \in s : x >= y  BY <1>2, <1>3
<1>5. Max(s) \in s /\ \A y \in s : Max(s) >= y  BY <1>4 DEF Max
<1> QED  BY <1>5

LEMMA MaxIs ==
  ASSUME NEW n \in Nat, NEW s \in SUBSET (1 .. n), NEW x \in s, \A y \in s : y <= x
  PROVE  Max(s) = x
<1>1. Max(s) \in s /\ \A y \in s : y <= Max(s)  BY MaxFacts
<1>2. PICK m : m = Max(s)  OBVIOUS
<1>3. m \in 1 .. n /\ x \in 1 .. n  BY <1>1, <1>2
<1>4. x <= m /\ m <= x  BY <1>1, <1>2, Zenon
<1> QED  BY <1>2, <1>3, <1>4

\* t[i] is what is known after i lines, A the lines that assign, v what they assign.
Assigned(n, A, v, t) == \A i \in 1 .. n : t[i] = IF i \in A THEN v[i] ELSE t[i - 1]

\* The last assignment wins.
LEMMA LastWins ==
  ASSUME NEW n \in Nat, NEW A \in SUBSET (1 .. n), NEW v, NEW t, Assigned(n, A, v, t)
  PROVE  t[n] = IF A = {} THEN t[0] ELSE v[Max(A)]
<1> DEFINE Upto(k) == A \cap (1 .. k)
           T == {k \in Nat : k <= n => t[k] = IF Upto(k) = {} THEN t[0] ELSE v[Max(Upto(k))]}
<1>1. 0 \in T  OBVIOUS
<1>2. ASSUME NEW k \in Nat, k \in T PROVE k + 1 \in T
  <2> SUFFICES ASSUME k + 1 <= n
               PROVE  t[k + 1] = IF Upto(k + 1) = {} THEN t[0] ELSE v[Max(Upto(k + 1))]
    OBVIOUS
  <2>1. k + 1 \in 1 .. n /\ k <= n /\ (k + 1) - 1 = k  OBVIOUS
  <2>2. t[k + 1] = IF k + 1 \in A THEN v[k + 1] ELSE t[k]  BY <2>1 DEF Assigned
  <2>3. t[k] = IF Upto(k) = {} THEN t[0] ELSE v[Max(Upto(k))]  BY <1>2, <2>1
  <2>4. \A i : i \in 1 .. k + 1 <=> i \in 1 .. k \/ i = k + 1  OBVIOUS
  <2>5. CASE k + 1 \in A
    <3>1. k + 1 \in Upto(k + 1)  BY <2>5
    <3>2. \A y \in Upto(k + 1) : y <= k + 1  OBVIOUS
    <3>3. Upto(k + 1) \in SUBSET (1 .. n)  OBVIOUS
    <3> HIDE DEF Upto
    <3>4. Max(Upto(k + 1)) = k + 1  BY <3>1, <3>2, <3>3, MaxIs
    <3> QED  BY <2>2, <2>5, <3>1, <3>4
  <2>6. CASE k + 1 \notin A
    <3>1. Upto(k + 1) = Upto(k)  BY <2>4, <2>6
    <3> HIDE DEF Upto
    <3> QED  BY <2>2, <2>3, <2>6, <3>1
  <2> QED  BY <2>5, <2>6
<1> HIDE DEF T
<1>3. n \in T  BY <1>1, <1>2, SetInduction
<1>4. Upto(n) = A  OBVIOUS
<1> QED  BY <1>3, <1>4 DEF T

\* t[i] is what has been gathered after i lines, v what the lines of A add.
Added(n, A, v, t) == \A i \in 1 .. n : t[i] = IF i \in A THEN t[i - 1] \cup v[i] ELSE t[i - 1]

LEMMA Gathered ==
  ASSUME NEW n \in Nat, NEW A \in SUBSET (1 .. n), NEW v, NEW t, t[0] = {}, Added(n, A, v, t)
  PROVE  t[n] = UNION {v[i] : i \in A}
<1> DEFINE T == {k \in Nat : k <= n => t[k] = UNION {v[i] : i \in A \cap (1 .. k)}}
<1>1. 0 \in T  OBVIOUS
<1>2. ASSUME NEW k \in Nat, k \in T PROVE k + 1 \in T
  <2> SUFFICES ASSUME k + 1 <= n
               PROVE  t[k + 1] = UNION {v[i] : i \in A \cap (1 .. k + 1)}
    OBVIOUS
  <2>1. k + 1 \in 1 .. n /\ k <= n /\ (k + 1) - 1 = k  OBVIOUS
  <2>2. t[k + 1] = IF k + 1 \in A THEN t[k] \cup v[k + 1] ELSE t[k]  BY <2>1 DEF Added
  <2>3. t[k] = UNION {v[i] : i \in A \cap (1 .. k)}  BY <1>2, <2>1
  <2>4. \A i : i \in 1 .. k + 1 <=> i \in 1 .. k \/ i = k + 1  OBVIOUS
  <2>5. CASE k + 1 \in A
    <3>1. A \cap (1 .. k + 1) = (A \cap (1 .. k)) \cup {k + 1}  BY <2>4, <2>5
    <3> QED  BY <2>2, <2>3, <2>5, <3>1
  <2>6. CASE k + 1 \notin A
    <3>1. A \cap (1 .. k + 1) = A \cap (1 .. k)  BY <2>4, <2>6
    <3> QED  BY <2>2, <2>3, <2>6, <3>1, Zenon
  <2> QED  BY <2>5, <2>6
<1> HIDE DEF T
<1>3. n \in T  BY <1>1, <1>2, SetInduction
<1>4. A \cap (1 .. n) = A  OBVIOUS
<1> QED  BY <1>3, <1>4 DEF T

-----------------------------------------------------------------------------
(* One line.                                                               *)

LEMMA DefaultsTyped == Defaults \in Config /\ SinkDefaults \in Sink
<1>1. [d \in Domains |-> d # "network_socket"] \in [Domains -> BOOLEAN]  OBVIOUS
<1>2. [p \in Probes |-> TRUE] \in [Probes -> BOOLEAN]  OBVIOUS
<1>3. [a \in Allowlists |-> {}] \in [Allowlists -> SUBSET Nat]  OBVIOUS
<1>4. Defaults \in Config
  <2> DEFINE D == [d \in Domains |-> d # "network_socket"]
             P == [p \in Probes |-> TRUE]
             A == [a \in Allowlists |-> {}]
  <2>1. Defaults = [section |-> "none", domains |-> D, probes |-> P, allow |-> A]  BY DEF Defaults
  <2>2. "none" \in Sections  BY DEF Sections
  <2> HIDE DEF D, P, A
  <2> QED  BY <1>1, <1>2, <1>3, <2>1, <2>2 DEF Config, D, P, A
<1>5. SinkDefaults \in Sink
  <2>1. PICK d, b : d = "default" /\ b = FALSE  OBVIOUS
  <2>2. d \in Texts  BY <2>1 DEF Texts
  <2>3. b \in BOOLEAN  BY <2>1, Zenon
  <2>4. SinkDefaults = [in_sink |-> b, path |-> d, max_file_size_bytes |-> d]
    BY <2>1, Zenon DEF SinkDefaults
  <2> QED  BY ONLY <2>2, <2>3, <2>4 DEF Sink
<1> QED  BY <1>4, <1>5

\* What a line adds to the allowlists.
AllowTurn(c, l, r) ==
  \A a \in Allowlists :
    r.allow[a] = IF /\ l.shape = "list" /\ l.key = a
                    /\ a = "port_allowlist" => c.section = "network_filters"
                 THEN c.allow[a] \cup l.nums ELSE c.allow[a]

\* What one line changes.
LEMMA LineFacts ==
  ASSUME NEW c \in Config, NEW l \in Line, NEW r, r = ReadLine(c, l)
  PROVE  /\ r \in Config
         /\ r.section = IF l.shape = "header" THEN SectionOf(l.key) ELSE c.section
         /\ \A d \in Domains :
              r.domains[d] = IF /\ l.shape = "pair" /\ IsBool(l.text) /\ c.section = "domains"
                                /\ l.key = d
                             THEN l.text = "true" ELSE c.domains[d]
         /\ \A p \in Probes :
              r.probes[p] = IF /\ l.shape = "pair" /\ IsBool(l.text)
                               /\ c.section = "file_probes" /\ l.key = p
                            THEN l.text = "true" ELSE c.probes[p]
         /\ AllowTurn(c, l, r)
<1>0. /\ c.section \in Sections /\ c.domains \in [Domains -> BOOLEAN]
      /\ c.probes \in [Probes -> BOOLEAN] /\ c.allow \in [Allowlists -> SUBSET Nat]
      /\ l.nums \in SUBSET Nat
  BY DEF Config, Line
<1>1. CASE l.shape = "header"
  <2>1. r = [c EXCEPT !.section = SectionOf(l.key)]
    BY <1>1 DEF ReadLine, Header, SectionOf
  <2>2. SectionOf(l.key) \in Sections  BY DEF SectionOf, Sections
  <2>3. /\ r \in Config /\ r.section = SectionOf(l.key) /\ r.domains = c.domains
        /\ r.probes = c.probes /\ r.allow = c.allow
    BY <2>1, <2>2 DEF Config
  <2> QED  BY <1>1, <2>3 DEF AllowTurn
<1>2. CASE l.shape = "list" /\ (\/ l.key \in Allowlists \ {"port_allowlist"}
                                \/ l.key = "port_allowlist" /\ c.section = "network_filters")
  <2>1. r = [c EXCEPT !.allow[l.key] = @ \cup l.nums]  BY <1>2 DEF ReadLine
  <2>2. l.key \in Allowlists  BY <1>2 DEF Allowlists
  <2> DEFINE f == [c.allow EXCEPT ![l.key] = @ \cup l.nums]
  <2>3. f \in [Allowlists -> SUBSET Nat]  BY <1>0, <2>2
  <2>4. \A a \in Allowlists : f[a] = IF a = l.key THEN c.allow[a] \cup l.nums ELSE c.allow[a]
    BY <1>0, <2>2
  <2>5. r = [c EXCEPT !.allow = f]  BY <2>1
  <2> HIDE DEF f
  <2>6. /\ r \in Config /\ r.section = c.section /\ r.domains = c.domains
        /\ r.probes = c.probes /\ r.allow = f
    BY <2>3, <2>5 DEF Config
  <2> QED  BY <1>2, <2>4, <2>6 DEF AllowTurn
<1>3. CASE l.shape = "pair" /\ IsBool(l.text) /\ c.section = "file_probes" /\ l.key \in Probes
  <2> DEFINE v == (l.text = "true")
             f == [c.probes EXCEPT ![l.key] = v]
  <2>1. r = [c EXCEPT !.probes = f]  BY <1>3 DEF ReadLine
  <2>2. f \in [Probes -> BOOLEAN]  BY <1>0, <1>3
  <2>3. \A p \in Probes : f[p] = IF p = l.key THEN v ELSE c.probes[p]  BY <1>0, <1>3
  <2> HIDE DEF f, v
  <2>4. /\ r \in Config /\ r.section = c.section /\ r.domains = c.domains
        /\ r.probes = f /\ r.allow = c.allow
    BY <2>1, <2>2 DEF Config
  <2>5. \A p \in Probes : r.probes[p] = IF p = l.key THEN l.text = "true" ELSE c.probes[p]
    BY <2>3, <2>4 DEF v
  <2> QED  BY <1>3, <2>4, <2>5 DEF AllowTurn
<1>4. CASE l.shape = "pair" /\ IsBool(l.text) /\ c.section = "domains" /\ l.key \in Domains
  <2> DEFINE v == (l.text = "true")
             f == [c.domains EXCEPT ![l.key] = v]
  <2>1. r = [c EXCEPT !.domains = f]  BY <1>4 DEF ReadLine
  <2>2. f \in [Domains -> BOOLEAN]  BY <1>0, <1>4
  <2>3. \A p \in Domains : f[p] = IF p = l.key THEN v ELSE c.domains[p]  BY <1>0, <1>4
  <2> HIDE DEF f, v
  <2>4. /\ r \in Config /\ r.section = c.section /\ r.domains = f
        /\ r.probes = c.probes /\ r.allow = c.allow
    BY <2>1, <2>2 DEF Config
  <2>5. \A p \in Domains : r.domains[p] = IF p = l.key THEN l.text = "true" ELSE c.domains[p]
    BY <2>3, <2>4 DEF v
  <2> QED  BY <1>4, <2>4, <2>5 DEF AllowTurn
<1>5. CASE /\ l.shape # "header"
           /\ ~(l.shape = "list" /\ (\/ l.key \in Allowlists \ {"port_allowlist"}
                                     \/ l.key = "port_allowlist" /\ c.section = "network_filters"))
           /\ ~(l.shape = "pair" /\ IsBool(l.text) /\ c.section = "file_probes" /\ l.key \in Probes)
           /\ ~(l.shape = "pair" /\ IsBool(l.text) /\ c.section = "domains" /\ l.key \in Domains)
  <2>1. r = c  BY <1>5 DEF ReadLine
  <2> QED  BY <1>5, <2>1 DEF AllowTurn
<1> QED  BY <1>1, <1>2, <1>3, <1>4, <1>5

LEMMA SinkLineFacts ==
  ASSUME NEW s \in Sink, NEW l \in Line, NEW r, r = ReadSinkLine(s, l)
  PROVE  /\ r \in Sink
         /\ r.in_sink = IF l.shape = "header" THEN l.key = "sink" ELSE s.in_sink
         /\ r.max_file_size_bytes =
              IF /\ l.shape = "pair" /\ s.in_sink /\ l.key = "max_file_size_bytes"
                 /\ l.text # "bad"
              THEN l.text ELSE s.max_file_size_bytes
         /\ r.path = IF l.shape = "pair" /\ s.in_sink /\ l.key = "path" THEN l.text ELSE s.path
<1>0. l.text \in Texts /\ (l.key = "sink") \in BOOLEAN  BY DEF Line, Texts
<1>1. CASE l.shape = "header"
  <2>1. r = [s EXCEPT !.in_sink = (l.key = "sink")]  BY <1>1 DEF ReadSinkLine
  <2> QED  BY <1>0, <1>1, <2>1 DEF Sink
<1>2. CASE l.shape # "header" /\ s.in_sink /\ l.shape = "pair" /\ l.key = "path"
  <2>1. r = [s EXCEPT !.path = l.text]  BY <1>2 DEF ReadSinkLine
  <2> QED  BY <1>0, <1>2, <2>1 DEF Sink
<1>3. CASE l.shape # "header" /\ s.in_sink /\ l.shape = "pair" /\ l.key = "max_file_size_bytes"
  <2>1. r = [s EXCEPT !.max_file_size_bytes = IF l.text = "bad" THEN @ ELSE l.text]
    BY <1>3 DEF ReadSinkLine
  <2> QED  BY <1>0, <1>3, <2>1 DEF Sink
<1>4. CASE /\ l.shape # "header" /\ ~(s.in_sink /\ l.shape = "pair" /\ l.key = "path")
           /\ ~(s.in_sink /\ l.shape = "pair" /\ l.key = "max_file_size_bytes")
  <2>1. r = s  BY <1>4 DEF ReadSinkLine
  <2> QED  BY <1>4, <2>1
<1> QED  BY <1>1, <1>2, <1>3, <1>4

-----------------------------------------------------------------------------
(* The readers as tables: what is known after each line.                   *)

\* What LoadRuntimeConfig knows after each line of the file.
LEMMA LoadTable ==
  ASSUME NEW f \in Seq(Line)
  PROVE  \E G \in [0 .. Len(f) -> Config] :
           /\ G[0] = Defaults
           /\ \A i \in 1 .. Len(f) : G[i] = ReadLine(G[i - 1], f[i])
           /\ LoadRuntimeConfig(f) = G[Len(f)]
<1> DEFINE n == Len(f)
           D == SUBSET (1 .. n)
           c == [s \in D |-> Max(s)]
           h == [p \in (1 .. n) \X Config |-> ReadLine(p[2], f[p[1]])]
           Body(g) == [s \in SUBSET (DOMAIN f) |->
                         IF s = {} THEN Defaults
                         ELSE ReadLine(g[s \ {Max(s)}], f[Max(s)])]
           iter == CHOOSE g : g = Body(g)
<1>0. n \in Nat /\ DOMAIN f = 1 .. n /\ \A i \in 1 .. n : f[i] \in Line  OBVIOUS
<1> HIDE DEF n
<1>1. \A s \in D : s # {} => Max(s) \in s  BY <1>0, MaxFacts
<1>2. h \in [(1 .. n) \X Config -> Config]
  <2> SUFFICES ASSUME NEW i \in 1 .. n, NEW x \in Config PROVE ReadLine(x, f[i]) \in Config
    OBVIOUS
  <2> QED  BY <1>0, LineFacts
<1>3. Foldable(1 .. n, Config, Defaults, c, h)
  <2>1. IsFiniteSet(1 .. n)  BY <1>0, FS_Interval
  <2>2. \A s \in SUBSET (1 .. n) : s # {} => c[s] \in s  BY <1>1
  <2> HIDE DEF c, h
  <2> QED  BY <1>2, <2>1, <2>2, DefaultsTyped DEF Foldable
<1>4. PICK g \in [D -> Config] : IsFold(1 .. n, Defaults, c, h, g)
  <2> HIDE DEF c, h
  <2> QED  BY <1>3, FoldExists
<1>5. \A s \in D : g[s] = IF s = {} THEN Defaults ELSE ReadLine(g[s \ {Max(s)}], f[Max(s)])
  <2> SUFFICES ASSUME NEW s \in D
               PROVE  g[s] = IF s = {} THEN Defaults ELSE ReadLine(g[s \ {Max(s)}], f[Max(s)])
    OBVIOUS
  <2>1. g[s] = IF s = {} THEN Defaults ELSE h[<<c[s], g[s \ {c[s]}]>>]  BY <1>4 DEF IsFold, Turn
  <2>2. c[s] = Max(s)  OBVIOUS
  <2>3. CASE s = {}  BY <2>1, <2>3
  <2>4. CASE s # {}
    <3>1. g[s] = h[<<Max(s), g[s \ {Max(s)}]>>]  BY <2>1, <2>2, <2>4
    <3>2. Max(s) \in 1 .. n /\ g[s \ {Max(s)}] \in Config  BY <1>1, <2>4
    <3>3. \A i \in 1 .. n, x \in Config : h[<<i, x>>] = ReadLine(x, f[i])  OBVIOUS
    <3> HIDE DEF h, c
    <3> QED  BY <2>4, <3>1, <3>2, <3>3
  <2> QED  BY <2>3, <2>4
<1>6. g = [s \in D |-> g[s]]  OBVIOUS
<1>7. g = Body(g)  BY <1>0, <1>5, <1>6
<1>8. iter = Body(iter)
  <2> HIDE DEF Body
  <2> QED  BY <1>7
<1>9. \A s \in D : iter[s] = IF s = {} THEN Defaults ELSE ReadLine(iter[s \ {Max(s)}], f[Max(s)])
  <2> HIDE DEF iter
  <2> QED  BY <1>0, <1>8
<1>10. LoadRuntimeConfig(f) = iter[DOMAIN f]
  BY DEF LoadRuntimeConfig, FoldLeft, MapThenFoldSet
<1> HIDE DEF iter, c, h
<1> DEFINE G == [i \in 0 .. n |-> iter[1 .. i]]
<1>11. G[0] = Defaults
  <2>1. 1 .. 0 = {} /\ {} \in D /\ 0 \in 0 .. n  BY <1>0
  <2>2. iter[{}] = Defaults  BY <1>9, <2>1
  <2> QED  BY <2>1, <2>2, Zenon
<1>12. \A i \in 1 .. n : G[i] = ReadLine(G[i - 1], f[i])
  <2> SUFFICES ASSUME NEW i \in 1 .. n PROVE G[i] = ReadLine(G[i - 1], f[i])  OBVIOUS
  <2>1. /\ 1 .. i \in D /\ i \in 1 .. i /\ (1 .. i) \ {i} = 1 .. (i - 1)
        /\ i \in 0 .. n /\ i - 1 \in 0 .. n /\ \A y \in 1 .. i : y <= i
    BY <1>0
  <2>2. Max(1 .. i) = i  BY <1>0, <2>1, MaxIs
  <2>3. iter[1 .. i] = ReadLine(iter[1 .. (i - 1)], f[i])  BY <1>9, <2>1, <2>2
  <2> QED  BY <2>1, <2>3
<1>13. LoadRuntimeConfig(f) = G[n]
  <2>1. n \in 0 .. n  BY <1>0
  <2> QED  BY <1>0, <1>10, <2>1
<1> HIDE DEF G
<1>14. \A i \in 0 .. n : G[i] \in Config
  <2> DEFINE T == {i \in Nat : i <= n => G[i] \in Config}
  <2>1. 0 \in T  BY <1>11, DefaultsTyped
  <2>2. ASSUME NEW i \in Nat, i \in T PROVE i + 1 \in T
    <3> SUFFICES ASSUME i + 1 <= n PROVE G[i + 1] \in Config  OBVIOUS
    <3>1. i + 1 \in 1 .. n /\ i <= n /\ (i + 1) - 1 = i  BY <1>0
    <3>2. G[i] \in Config /\ G[i + 1] = ReadLine(G[i], f[i + 1])  BY <1>12, <2>2, <3>1
    <3> QED  BY <1>0, <3>1, <3>2, LineFacts
  <2> HIDE DEF T
  <2>3. Nat \subseteq T  BY <2>1, <2>2, SetInduction
  <2> QED  BY <1>0, <2>3 DEF T
<1>15. G \in [0 .. n -> Config]  BY <1>14 DEF G
<1> QED  BY <1>11, <1>12, <1>13, <1>15 DEF n

\* What LoadSinkRuntimeConfig knows after each line of the file.
LEMMA SinkTable ==
  ASSUME NEW f \in Seq(Line)
  PROVE  \E G \in [0 .. Len(f) -> Sink] :
           /\ G[0] = SinkDefaults
           /\ \A i \in 1 .. Len(f) : G[i] = ReadSinkLine(G[i - 1], f[i])
           /\ LoadSinkRuntimeConfig(f) = G[Len(f)]
<1> DEFINE n == Len(f)
           D == SUBSET (1 .. n)
           c == [s \in D |-> Max(s)]
           h == [p \in (1 .. n) \X Sink |-> ReadSinkLine(p[2], f[p[1]])]
           Body(g) == [s \in SUBSET (DOMAIN f) |->
                         IF s = {} THEN SinkDefaults
                         ELSE ReadSinkLine(g[s \ {Max(s)}], f[Max(s)])]
           iter == CHOOSE g : g = Body(g)
<1>0. n \in Nat /\ DOMAIN f = 1 .. n /\ \A i \in 1 .. n : f[i] \in Line  OBVIOUS
<1> HIDE DEF n
<1>1. \A s \in D : s # {} => Max(s) \in s  BY <1>0, MaxFacts
<1>2. h \in [(1 .. n) \X Sink -> Sink]
  <2> SUFFICES ASSUME NEW i \in 1 .. n, NEW x \in Sink PROVE ReadSinkLine(x, f[i]) \in Sink
    OBVIOUS
  <2> QED  BY <1>0, SinkLineFacts
<1>3. Foldable(1 .. n, Sink, SinkDefaults, c, h)
  <2>1. IsFiniteSet(1 .. n)  BY <1>0, FS_Interval
  <2>2. \A s \in SUBSET (1 .. n) : s # {} => c[s] \in s  BY <1>1
  <2> HIDE DEF c, h
  <2> QED  BY <1>2, <2>1, <2>2, DefaultsTyped DEF Foldable
<1>4. PICK g \in [D -> Sink] : IsFold(1 .. n, SinkDefaults, c, h, g)
  <2> HIDE DEF c, h
  <2> QED  BY <1>3, FoldExists
<1>5. \A s \in D : g[s] = IF s = {} THEN SinkDefaults ELSE ReadSinkLine(g[s \ {Max(s)}], f[Max(s)])
  <2> SUFFICES ASSUME NEW s \in D
               PROVE  g[s] = IF s = {} THEN SinkDefaults ELSE ReadSinkLine(g[s \ {Max(s)}], f[Max(s)])
    OBVIOUS
  <2>1. g[s] = IF s = {} THEN SinkDefaults ELSE h[<<c[s], g[s \ {c[s]}]>>]  BY <1>4 DEF IsFold, Turn
  <2>2. c[s] = Max(s)  OBVIOUS
  <2>3. CASE s = {}  BY <2>1, <2>3
  <2>4. CASE s # {}
    <3>1. g[s] = h[<<Max(s), g[s \ {Max(s)}]>>]  BY <2>1, <2>2, <2>4
    <3>2. Max(s) \in 1 .. n /\ g[s \ {Max(s)}] \in Sink  BY <1>1, <2>4
    <3>3. \A i \in 1 .. n, x \in Sink : h[<<i, x>>] = ReadSinkLine(x, f[i])  OBVIOUS
    <3> HIDE DEF h, c
    <3> QED  BY <2>4, <3>1, <3>2, <3>3
  <2> QED  BY <2>3, <2>4
<1>6. g = [s \in D |-> g[s]]  OBVIOUS
<1>7. g = Body(g)  BY <1>0, <1>5, <1>6
<1>8. iter = Body(iter)
  <2> HIDE DEF Body
  <2> QED  BY <1>7
<1>9. \A s \in D : iter[s] = IF s = {} THEN SinkDefaults ELSE ReadSinkLine(iter[s \ {Max(s)}], f[Max(s)])
  <2> HIDE DEF iter
  <2> QED  BY <1>0, <1>8
<1>10. LoadSinkRuntimeConfig(f) = iter[DOMAIN f]
  BY DEF LoadSinkRuntimeConfig, FoldLeft, MapThenFoldSet
<1> HIDE DEF iter, c, h
<1> DEFINE G == [i \in 0 .. n |-> iter[1 .. i]]
<1>11. G[0] = SinkDefaults
  <2>1. 1 .. 0 = {} /\ {} \in D /\ 0 \in 0 .. n  BY <1>0
  <2>2. iter[{}] = SinkDefaults  BY <1>9, <2>1
  <2> QED  BY <2>1, <2>2, Zenon
<1>12. \A i \in 1 .. n : G[i] = ReadSinkLine(G[i - 1], f[i])
  <2> SUFFICES ASSUME NEW i \in 1 .. n PROVE G[i] = ReadSinkLine(G[i - 1], f[i])  OBVIOUS
  <2>1. /\ 1 .. i \in D /\ i \in 1 .. i /\ (1 .. i) \ {i} = 1 .. (i - 1)
        /\ i \in 0 .. n /\ i - 1 \in 0 .. n /\ \A y \in 1 .. i : y <= i
    BY <1>0
  <2>2. Max(1 .. i) = i  BY <1>0, <2>1, MaxIs
  <2>3. iter[1 .. i] = ReadSinkLine(iter[1 .. (i - 1)], f[i])  BY <1>9, <2>1, <2>2
  <2> QED  BY <2>1, <2>3
<1>13. LoadSinkRuntimeConfig(f) = G[n]
  <2>1. n \in 0 .. n  BY <1>0
  <2> QED  BY <1>0, <1>10, <2>1
<1> HIDE DEF G
<1>14. \A i \in 0 .. n : G[i] \in Sink
  <2> DEFINE T == {i \in Nat : i <= n => G[i] \in Sink}
  <2>1. 0 \in T  BY <1>11, DefaultsTyped
  <2>2. ASSUME NEW i \in Nat, i \in T PROVE i + 1 \in T
    <3> SUFFICES ASSUME i + 1 <= n PROVE G[i + 1] \in Sink  OBVIOUS
    <3>1. i + 1 \in 1 .. n /\ i <= n /\ (i + 1) - 1 = i  BY <1>0
    <3>2. G[i] \in Sink /\ G[i + 1] = ReadSinkLine(G[i], f[i + 1])  BY <1>12, <2>2, <3>1
    <3> QED  BY <1>0, <3>1, <3>2, SinkLineFacts
  <2> HIDE DEF T
  <2>3. Nat \subseteq T  BY <2>1, <2>2, SetInduction
  <2> QED  BY <1>0, <2>3 DEF T
<1>15. G \in [0 .. n -> Sink]  BY <1>14 DEF G
<1> QED  BY <1>11, <1>12, <1>13, <1>15 DEF n

-----------------------------------------------------------------------------
(* Sections.                                                               *)

\* G and S are what the two readers know after each line of the file.
Tables(G, S) ==
  /\ G \in [0 .. Len(file) -> Config] /\ S \in [0 .. Len(file) -> Sink]
  /\ G[0] = Defaults /\ S[0] = SinkDefaults
  /\ \A i \in 1 .. Len(file) : G[i] = ReadLine(G[i - 1], file[i])
  /\ \A i \in 1 .. Len(file) : S[i] = ReadSinkLine(S[i - 1], file[i])

\* The header that opened the section the readers are in after k lines.
Opened(G, S, k) ==
  \/ /\ \A j \in 1 .. k : file[j].shape # "header"
     /\ G[k].section = "none" /\ S[k].in_sink = FALSE
  \/ \E h \in 1 .. k :
       /\ file[h].shape = "header" /\ \A j \in h + 1 .. k : file[j].shape # "header"
       /\ G[k].section = SectionOf(file[h].key) /\ S[k].in_sink = (file[h].key = "sink")

\* Only a header changes the section.
LEMMA HeaderFacts ==
  ASSUME NEW c \in Config, NEW l \in Line
  PROVE  ReadLine(c, l).section = IF l.shape = "header" THEN SectionOf(l.key) ELSE c.section
<1>1. PICK r : r = ReadLine(c, l)  OBVIOUS
<1>2. r.section = IF l.shape = "header" THEN SectionOf(l.key) ELSE c.section
  BY <1>1, LineFacts
<1> QED  BY <1>1, <1>2

\* The readers are in the section of the last header.
LEMMA LastHeader ==
  ASSUME file \in Seq(Line), NEW G, NEW S, Tables(G, S), NEW k \in 0 .. Len(file)
  PROVE  Opened(G, S, k)
<1> DEFINE n == Len(file)
           T == {i \in Nat : i <= n => Opened(G, S, i)}
<1>0. n \in Nat /\ \A i \in 1 .. n : file[i] \in Line  OBVIOUS
<1> HIDE DEF n
<1>1. 0 \in T
  <2>1. G[0].section = "none" /\ S[0].in_sink = FALSE  BY DEF Tables, Defaults, SinkDefaults
  <2>2. \A j \in 1 .. 0 : file[j].shape # "header"  OBVIOUS
  <2>3. Opened(G, S, 0)  BY <2>1, <2>2 DEF Opened
  <2> QED  BY <2>3
<1>2. ASSUME NEW i \in Nat, i \in T PROVE i + 1 \in T
  <2> SUFFICES ASSUME i + 1 <= n PROVE Opened(G, S, i + 1)  OBVIOUS
  <2>1. i + 1 \in 1 .. n /\ i \in 0 .. n /\ i <= n /\ (i + 1) - 1 = i  BY <1>0
  <2>2. /\ G[i] \in Config /\ G[i + 1] = ReadLine(G[i], file[i + 1])
        /\ S[i] \in Sink /\ S[i + 1] = ReadSinkLine(S[i], file[i + 1])
    BY <2>1 DEF Tables, n
  <2>3. file[i + 1] \in Line  BY <1>0, <2>1
  <2>4. G[i + 1].section = IF file[i + 1].shape = "header" THEN SectionOf(file[i + 1].key)
                           ELSE G[i].section
    BY <2>2, <2>3, HeaderFacts
  <2>5. S[i + 1].in_sink = IF file[i + 1].shape = "header" THEN file[i + 1].key = "sink"
                           ELSE S[i].in_sink
    BY <2>2, <2>3, SinkLineFacts
  <2>6. Opened(G, S, i)  BY <1>2, <2>1
  <2>7. CASE file[i + 1].shape = "header"
    <3>1. i + 1 \in 1 .. i + 1 /\ \A j \in (i + 1) + 1 .. i + 1 : file[j].shape # "header"
      OBVIOUS
    <3> QED  BY <2>4, <2>5, <2>7, <3>1 DEF Opened
  <2>8. CASE file[i + 1].shape # "header"
    <3>1. CASE \A j \in 1 .. i : file[j].shape # "header"
      <4>1. \A j \in 1 .. i + 1 : j \in 1 .. i \/ j = i + 1  OBVIOUS
      <4>2. \A j \in 1 .. i + 1 : file[j].shape # "header"  BY <2>8, <3>1, <4>1
      <4>3. G[i].section = "none" /\ S[i].in_sink = FALSE  BY <2>6, <3>1 DEF Opened
      <4> QED  BY <2>4, <2>5, <2>8, <4>2, <4>3 DEF Opened
    <3>2. CASE ~(\A j \in 1 .. i : file[j].shape # "header")
      <4>1. PICK h \in 1 .. i :
              /\ file[h].shape = "header" /\ \A j \in h + 1 .. i : file[j].shape # "header"
              /\ G[i].section = SectionOf(file[h].key) /\ S[i].in_sink = (file[h].key = "sink")
        BY <2>6, <3>2 DEF Opened
      <4>2. \A j \in h + 1 .. i + 1 : j \in h + 1 .. i \/ j = i + 1  OBVIOUS
      <4>3. \A j \in h + 1 .. i + 1 : file[j].shape # "header"  BY <2>8, <4>1, <4>2
      <4>4. h \in 1 .. i + 1  OBVIOUS
      <4> QED  BY <2>4, <2>5, <2>8, <4>1, <4>3, <4>4 DEF Opened
    <3> QED  BY <3>1, <3>2
  <2> QED  BY <2>7, <2>8
<1> HIDE DEF T
<1>3. Nat \subseteq T  BY <1>1, <1>2, SetInduction
<1> QED  BY <1>0, <1>3 DEF T, n

\* At an indented line of a file in block style the readers are in the section the
\* indentation says.
LEMMA SectionIs ==
  ASSUME file \in Seq(Line), NEW G, NEW S, Tables(G, S), BlockStyle,
         NEW i \in 1 .. Len(file), file[i].depth = 1
  PROVE  /\ G[i - 1].section = SectionOf(Owner(i))
         /\ S[i - 1].in_sink = (Owner(i) = "sink")
<1> DEFINE n == Len(file)
           above == {j \in 1 .. i - 1 : file[j].depth = 0}
           m == Max(above)
<1>0. n \in Nat /\ DOMAIN file = 1 .. n /\ \A j \in 1 .. n : file[j] \in Line  OBVIOUS
<1>1. i \in 1 .. n /\ i - 1 \in 0 .. n /\ i - 1 \in Nat /\ above \in SUBSET (1 .. i - 1)  OBVIOUS
<1>2. Owner(i) # "none"  BY <1>0 DEF BlockStyle
<1>3. above # {} /\ file[m].shape = "header" /\ Owner(i) = file[m].key  BY <1>2 DEF Owner
<1> HIDE DEF n, above
<1>4. m \in above /\ \A y \in above : y <= m  BY <1>1, <1>3, MaxFacts
<1> HIDE DEF m
<1>5. m \in 1 .. i - 1  BY <1>1, <1>4
<1>6. Opened(G, S, i - 1)  BY <1>1, LastHeader DEF n
<1>7. PICK h \in 1 .. i - 1 :
        /\ file[h].shape = "header" /\ \A j \in h + 1 .. i - 1 : file[j].shape # "header"
        /\ G[i - 1].section = SectionOf(file[h].key) /\ S[i - 1].in_sink = (file[h].key = "sink")
  BY <1>3, <1>5, <1>6 DEF Opened
<1>8. h \in 1 .. n /\ file[h].depth \in {0, 1}  BY <1>0, <1>1 DEF Line
<1>9. file[h].depth = 0  BY <1>0, <1>7, <1>8 DEF BlockStyle
<1>10. h <= m  BY <1>4, <1>9 DEF above
<1>11. ~(m \in h + 1 .. i - 1)  BY <1>3, <1>7
<1>12. h = m  BY <1>1, <1>5, <1>10, <1>11
<1> QED  BY <1>3, <1>7, <1>12

-----------------------------------------------------------------------------
(* What a file means.                                                      *)

\* What line i changes.
LEMMA TurnFacts ==
  ASSUME file \in Seq(Line), NEW G, NEW S, Tables(G, S), NEW i \in 1 .. Len(file)
  PROVE  /\ \A d \in Domains :
              G[i].domains[d] = IF /\ file[i].shape = "pair" /\ IsBool(file[i].text)
                                   /\ G[i - 1].section = "domains" /\ file[i].key = d
                                THEN file[i].text = "true" ELSE G[i - 1].domains[d]
         /\ \A p \in Probes :
              G[i].probes[p] = IF /\ file[i].shape = "pair" /\ IsBool(file[i].text)
                                  /\ G[i - 1].section = "file_probes" /\ file[i].key = p
                               THEN file[i].text = "true" ELSE G[i - 1].probes[p]
         /\ AllowTurn(G[i - 1], file[i], G[i])
         /\ S[i].max_file_size_bytes =
              IF /\ file[i].shape = "pair" /\ S[i - 1].in_sink
                 /\ file[i].key = "max_file_size_bytes" /\ file[i].text # "bad"
              THEN file[i].text ELSE S[i - 1].max_file_size_bytes
         /\ S[i].path = IF file[i].shape = "pair" /\ S[i - 1].in_sink /\ file[i].key = "path"
                        THEN file[i].text ELSE S[i - 1].path
<1>1. i - 1 \in 0 .. Len(file) /\ file[i] \in Line  OBVIOUS
<1>2. PICK c, l, r, s, q : c = G[i - 1] /\ l = file[i] /\ r = G[i] /\ s = S[i - 1] /\ q = S[i]
  OBVIOUS
<1>3. c \in Config /\ l \in Line /\ r = ReadLine(c, l) /\ s \in Sink /\ q = ReadSinkLine(s, l)
  BY <1>1, <1>2 DEF Tables
<1>4. \A d \in Domains :
        r.domains[d] = IF /\ l.shape = "pair" /\ IsBool(l.text) /\ c.section = "domains"
                          /\ l.key = d
                       THEN l.text = "true" ELSE c.domains[d]
  BY <1>3, LineFacts
<1>5. \A p \in Probes :
        r.probes[p] = IF /\ l.shape = "pair" /\ IsBool(l.text)
                         /\ c.section = "file_probes" /\ l.key = p
                      THEN l.text = "true" ELSE c.probes[p]
  BY <1>3, LineFacts
<1>6. AllowTurn(c, l, r)  BY <1>3, LineFacts
<1>7. q.max_file_size_bytes =
        IF /\ l.shape = "pair" /\ s.in_sink /\ l.key = "max_file_size_bytes" /\ l.text # "bad"
        THEN l.text ELSE s.max_file_size_bytes
  BY <1>3, SinkLineFacts
<1>8. q.path = IF l.shape = "pair" /\ s.in_sink /\ l.key = "path" THEN l.text ELSE s.path
  BY <1>3, SinkLineFacts
<1> QED  BY ONLY <1>2, <1>4, <1>5, <1>6, <1>7, <1>8, Zenon

\* A setting is kept line by line in t, and the usable ones of its section are written
\* over it.
Holds(sec, key, usable, t) ==
  \A i \in 1 .. Len(file) :
    t[i] = IF /\ file[i].shape = "pair" /\ file[i].key = key
              /\ Owner(i) = sec /\ file[i].text \in usable
           THEN file[i].text ELSE t[i - 1]

\* Then it ends up with its value.
LEMMA SettingIs ==
  ASSUME file \in Seq(Line), NEW sec, NEW key, NEW usable, NEW t, Holds(sec, key, usable, t)
  PROVE  t[Len(file)] = Setting(sec, key, usable, t[0])
<1> DEFINE n == Len(file)
           at == {i \in DOMAIN file : /\ file[i].shape = "pair" /\ file[i].key = key
                                      /\ Owner(i) = sec /\ file[i].text \in usable}
           v == [i \in 1 .. n |-> file[i].text]
<1>1. n \in Nat /\ DOMAIN file = 1 .. n /\ at \in SUBSET (1 .. n)  OBVIOUS
<1>2. Assigned(n, at, v, t)  BY <1>1 DEF Assigned, Holds
<1>3. at # {} => v[Max(at)] = file[Max(at)].text
  <2> SUFFICES ASSUME at # {} PROVE v[Max(at)] = file[Max(at)].text  OBVIOUS
  <2> HIDE DEF at
  <2>1. Max(at) \in 1 .. n  BY <1>1, MaxFacts
  <2> QED  BY <2>1
<1>4. Setting(sec, key, usable, t[0]) = IF at = {} THEN t[0] ELSE file[Max(at)].text
  BY DEF Setting
<1> HIDE DEF n, at, v
<1>5. t[n] = IF at = {} THEN t[0] ELSE v[Max(at)]  BY <1>1, <1>2, LastWins
<1>6. t[n] = Setting(sec, key, usable, t[0])  BY <1>3, <1>4, <1>5
<1> QED  BY <1>6 DEF n

\* The same for a setting that is read as a Boolean.
HoldsFlag(sec, key, b) ==
  \A i \in 1 .. Len(file) :
    b[i] = IF /\ file[i].shape = "pair" /\ file[i].key = key
              /\ Owner(i) = sec /\ IsBool(file[i].text)
           THEN file[i].text = "true" ELSE b[i - 1]

LEMMA FlagIs ==
  ASSUME file \in Seq(Line), NEW sec, NEW key, NEW b \in [0 .. Len(file) -> BOOLEAN],
         HoldsFlag(sec, key, b)
  PROVE  b[Len(file)] = Flag(sec, key, b[0])
<1> DEFINE n == Len(file)
           t == [i \in 0 .. n |-> IF b[i] THEN "true" ELSE "false"]
<1>1. n \in Nat /\ n \in 0 .. n /\ 0 \in 0 .. n  OBVIOUS
<1>2. \A i \in 0 .. n : b[i] \in BOOLEAN /\ t[i] = IF b[i] THEN "true" ELSE "false"  OBVIOUS
<1>3. \A i \in 1 .. n :
        t[i] = IF /\ file[i].shape = "pair" /\ file[i].key = key
                  /\ Owner(i) = sec /\ file[i].text \in {"true", "false"}
               THEN file[i].text ELSE t[i - 1]
  <2> SUFFICES ASSUME NEW i \in 1 .. n
               PROVE  t[i] = IF /\ file[i].shape = "pair" /\ file[i].key = key
                                /\ Owner(i) = sec /\ file[i].text \in {"true", "false"}
                             THEN file[i].text ELSE t[i - 1]
    OBVIOUS
  <2>1. i \in 0 .. n /\ i - 1 \in 0 .. n  OBVIOUS
  <2>2. /\ t[i] = IF b[i] THEN "true" ELSE "false"
        /\ t[i - 1] = IF b[i - 1] THEN "true" ELSE "false"
    BY <1>2, <2>1
  <2>3. b[i] = IF /\ file[i].shape = "pair" /\ file[i].key = key
                  /\ Owner(i) = sec /\ file[i].text \in {"true", "false"}
               THEN file[i].text = "true" ELSE b[i - 1]
    BY DEF IsBool, HoldsFlag
  <2> HIDE DEF t, n
  <2>4. CASE /\ file[i].shape = "pair" /\ file[i].key = key
             /\ Owner(i) = sec /\ file[i].text \in {"true", "false"}
    <3>1. b[i] <=> file[i].text = "true"  BY <2>3, <2>4, Zenon
    <3>2. file[i].text = "true" \/ file[i].text = "false"  BY <2>4
    <3>3. t[i] = file[i].text  BY ONLY <2>2, <3>1, <3>2, Zenon
    <3> QED  BY <2>4, <3>3, Zenon
  <2>5. CASE ~(/\ file[i].shape = "pair" /\ file[i].key = key
               /\ Owner(i) = sec /\ file[i].text \in {"true", "false"})
    <3>1. b[i] = b[i - 1]  BY <2>3, <2>5, Zenon
    <3>2. t[i] = t[i - 1]  BY <2>2, <3>1, Zenon
    <3> QED  BY <2>5, <3>2, Zenon
  <2> QED  BY <2>4, <2>5
<1> HIDE DEF t
<1>4. t[n] = Setting(sec, key, {"true", "false"}, t[0])
  <2>1. Holds(sec, key, {"true", "false"}, t)  BY <1>3 DEF Holds
  <2> QED  BY <2>1, SettingIs
<1>5. t[0] = IF b[0] THEN "true" ELSE "false"  BY <1>1, <1>2
<1>6. Flag(sec, key, b[0]) = (t[n] = "true")  BY <1>4, <1>5 DEF Flag
<1>7. b[n] \in BOOLEAN /\ t[n] = IF b[n] THEN "true" ELSE "false"  BY <1>1, <1>2
<1>8. "true" # "false"  OBVIOUS
<1>9. b[n] = (t[n] = "true")  BY ONLY <1>7, <1>8
<1> QED  BY <1>6, <1>9

\* There are tables, and the readers' results are at their ends.
LEMMA Read ==
  ASSUME file \in Seq(Line)
  PROVE  \E G, S : /\ Tables(G, S)
                   /\ LoadRuntimeConfig(file) = G[Len(file)]
                   /\ LoadSinkRuntimeConfig(file) = S[Len(file)]
<1>1. PICK G \in [0 .. Len(file) -> Config] :
        /\ G[0] = Defaults
        /\ \A i \in 1 .. Len(file) : G[i] = ReadLine(G[i - 1], file[i])
        /\ LoadRuntimeConfig(file) = G[Len(file)]
  BY LoadTable
<1>2. PICK S \in [0 .. Len(file) -> Sink] :
        /\ S[0] = SinkDefaults
        /\ \A i \in 1 .. Len(file) : S[i] = ReadSinkLine(S[i - 1], file[i])
        /\ LoadSinkRuntimeConfig(file) = S[Len(file)]
  BY SinkTable
<1> QED  BY <1>1, <1>2 DEF Tables

\* In block style, the line a setting or a list is on belongs to a section.
LEMMA Indented ==
  ASSUME file \in Seq(Line), BlockStyle, NEW i \in 1 .. Len(file),
         file[i].shape = "pair" \/ file[i].shape = "list"
  PROVE  file[i].depth = 1
<1>1. file[i] \in Line /\ DOMAIN file = 1 .. Len(file)  OBVIOUS
<1>2. file[i].depth = 0 \/ file[i].depth = 1  BY <1>1 DEF Line
<1> QED  BY <1>1, <1>2 DEF BlockStyle

\* The domains.
LEMMA DomainsMean ==
  ASSUME file \in Seq(Line), BlockStyle, NEW G, NEW S, Tables(G, S), NEW d \in Domains
  PROVE  G[Len(file)].domains[d] = Flag("domains", d, Defaults.domains[d])
<1> DEFINE n == Len(file)
           b == [i \in 0 .. n |-> G[i].domains[d]]
<1>1. n \in Nat /\ n \in 0 .. n /\ 0 \in 0 .. n  OBVIOUS
<1>2. \A i \in 0 .. n : G[i].domains[d] \in BOOLEAN  BY DEF Tables, Config
<1>3. b \in [0 .. n -> BOOLEAN]  BY <1>2
<1>4. HoldsFlag("domains", d, b)
  <2> SUFFICES ASSUME NEW i \in 1 .. n
               PROVE  b[i] = IF /\ file[i].shape = "pair" /\ file[i].key = d
                                /\ Owner(i) = "domains" /\ IsBool(file[i].text)
                             THEN file[i].text = "true" ELSE b[i - 1]
    BY DEF HoldsFlag
  <2>1. i \in 0 .. n /\ i - 1 \in 0 .. n  OBVIOUS
  <2>2. b[i] = G[i].domains[d] /\ b[i - 1] = G[i - 1].domains[d]  BY <2>1
  <2>3. G[i].domains[d] = IF /\ file[i].shape = "pair" /\ IsBool(file[i].text)
                             /\ G[i - 1].section = "domains" /\ file[i].key = d
                          THEN file[i].text = "true" ELSE G[i - 1].domains[d]
    BY TurnFacts
  <2>4. file[i].shape = "pair" => (G[i - 1].section = "domains" <=> Owner(i) = "domains")
    <3> SUFFICES ASSUME file[i].shape = "pair"
                 PROVE  G[i - 1].section = "domains" <=> Owner(i) = "domains"
      OBVIOUS
    <3>1. G[i - 1].section = SectionOf(Owner(i))  BY Indented, SectionIs
    <3> QED  BY <3>1 DEF SectionOf
  <2> HIDE DEF b
  <2> QED  BY ONLY <2>2, <2>3, <2>4, Zenon
<1>5. b[0] = Defaults.domains[d] /\ b[n] = G[n].domains[d]  BY <1>1 DEF Tables
<1> HIDE DEF b
<1>6. b[n] = Flag("domains", d, b[0])  BY <1>3, <1>4, FlagIs
<1> QED  BY <1>5, <1>6

\* The file probes.
LEMMA ProbesMean ==
  ASSUME file \in Seq(Line), BlockStyle, NEW G, NEW S, Tables(G, S), NEW p \in Probes
  PROVE  G[Len(file)].probes[p] = Flag("file_probes", p, TRUE)
<1> DEFINE n == Len(file)
           b == [i \in 0 .. n |-> G[i].probes[p]]
<1>1. n \in Nat /\ n \in 0 .. n /\ 0 \in 0 .. n  OBVIOUS
<1>2. \A i \in 0 .. n : G[i].probes[p] \in BOOLEAN  BY DEF Tables, Config
<1>3. b \in [0 .. n -> BOOLEAN]  BY <1>2
<1>4. HoldsFlag("file_probes", p, b)
  <2> SUFFICES ASSUME NEW i \in 1 .. n
               PROVE  b[i] = IF /\ file[i].shape = "pair" /\ file[i].key = p
                                /\ Owner(i) = "file_probes" /\ IsBool(file[i].text)
                             THEN file[i].text = "true" ELSE b[i - 1]
    BY DEF HoldsFlag
  <2>1. i \in 0 .. n /\ i - 1 \in 0 .. n  OBVIOUS
  <2>2. b[i] = G[i].probes[p] /\ b[i - 1] = G[i - 1].probes[p]  BY <2>1
  <2>3. G[i].probes[p] = IF /\ file[i].shape = "pair" /\ IsBool(file[i].text)
                            /\ G[i - 1].section = "file_probes" /\ file[i].key = p
                         THEN file[i].text = "true" ELSE G[i - 1].probes[p]
    BY TurnFacts
  <2>4. file[i].shape = "pair" => (G[i - 1].section = "file_probes" <=> Owner(i) = "file_probes")
    <3> SUFFICES ASSUME file[i].shape = "pair"
                 PROVE  G[i - 1].section = "file_probes" <=> Owner(i) = "file_probes"
      OBVIOUS
    <3>1. G[i - 1].section = SectionOf(Owner(i))  BY Indented, SectionIs
    <3> QED  BY <3>1 DEF SectionOf
  <2> HIDE DEF b
  <2> QED  BY ONLY <2>2, <2>3, <2>4, Zenon
<1>5. b[0] = TRUE /\ b[n] = G[n].probes[p]  BY <1>1 DEF Tables, Defaults
<1> HIDE DEF b
<1>6. b[n] = Flag("file_probes", p, b[0])  BY <1>3, <1>4, FlagIs
<1> QED  BY <1>5, <1>6

\* The allowlists.
LEMMA ListsMean ==
  ASSUME file \in Seq(Line), BlockStyle, NEW G, NEW S, Tables(G, S), NEW a \in Allowlists
  PROVE  G[Len(file)].allow[a] = UNION {file[i].nums : i \in Listed(a)}
<1> DEFINE n == Len(file)
           A == Listed(a)
           v == [i \in 1 .. n |-> file[i].nums]
           t == [i \in 0 .. n |-> G[i].allow[a]]
<1>1. /\ n \in Nat /\ n \in 0 .. n /\ 0 \in 0 .. n
      /\ DOMAIN file = 1 .. n /\ A \in SUBSET (1 .. n)
  BY DEF Listed
<1>2. Added(n, A, v, t)
  <2> SUFFICES ASSUME NEW i \in 1 .. n
               PROVE  t[i] = IF i \in A THEN t[i - 1] \cup v[i] ELSE t[i - 1]
    BY DEF Added
  <2>1. i \in 0 .. n /\ i - 1 \in 0 .. n  OBVIOUS
  <2>2. t[i] = G[i].allow[a] /\ t[i - 1] = G[i - 1].allow[a] /\ v[i] = file[i].nums  BY <2>1
  <2>3. AllowTurn(G[i - 1], file[i], G[i])  BY TurnFacts
  <2>4. G[i].allow[a] = IF /\ file[i].shape = "list" /\ file[i].key = a
                           /\ a = "port_allowlist" => G[i - 1].section = "network_filters"
                        THEN G[i - 1].allow[a] \cup file[i].nums ELSE G[i - 1].allow[a]
    BY <2>3 DEF AllowTurn
  <2>5. file[i].shape = "list" /\ file[i].key = "port_allowlist"
        => (G[i - 1].section = "network_filters" <=> Owner(i) = "network_filters")
    <3> SUFFICES ASSUME file[i].shape = "list" /\ file[i].key = "port_allowlist"
                 PROVE  G[i - 1].section = "network_filters" <=> Owner(i) = "network_filters"
      OBVIOUS
    <3>1. G[i - 1].section = SectionOf(Owner(i))  BY Indented, SectionIs
    <3> QED  BY <3>1 DEF SectionOf
  <2>6. i \in A <=> /\ file[i].shape = "list" /\ file[i].key = a
                    /\ a = "port_allowlist" => Owner(i) = "network_filters"
    <3>1. i \in A <=> file[i].shape = "list" /\ file[i].key = a /\ Owner(i) = Home(a)
      BY <1>1 DEF Listed
    <3>2. file[i].shape = "list" /\ file[i].key = a /\ a # "port_allowlist" => Owner(i) = Home(a)
      BY <1>1 DEF BlockStyle
    <3>3. a = "port_allowlist" => Home(a) = "network_filters"  BY DEF Home
    <3> HIDE DEF A
    <3> QED  BY ONLY <3>1, <3>2, <3>3, Zenon
  <2> HIDE DEF A, t, v
  <2> QED  BY ONLY <2>2, <2>4, <2>5, <2>6, Zenon
<1>3. t[0] = {} /\ t[n] = G[n].allow[a]  BY <1>1 DEF Tables, Defaults
<1>4. \A i \in A : v[i] = file[i].nums  BY <1>1
<1> HIDE DEF A, t, v
<1>5. t[n] = UNION {v[i] : i \in A}  BY <1>1, <1>2, <1>3, Gathered
<1>6. {v[i] : i \in A} = {file[i].nums : i \in A}  BY <1>4
<1>7. G[n].allow[a] = UNION {file[i].nums : i \in A}  BY <1>3, <1>5, <1>6, Zenon
<1> QED  BY <1>7 DEF A

\* The limit on the size of the output file.
LEMMA SinkMeans ==
  ASSUME file \in Seq(Lines), BlockStyle, NEW G, NEW S, Tables(G, S)
  PROVE  S[Len(file)].max_file_size_bytes =
           Setting("sink", "max_file_size_bytes", {l.text : l \in Lines} \ {"bad"}, "default")
<1> DEFINE n == Len(file)
           usable == {l.text : l \in Lines} \ {"bad"}
           t == [i \in 0 .. n |-> S[i].max_file_size_bytes]
<1>0. file \in Seq(Line)  BY LinesAssumption
<1>1. n \in Nat /\ n \in 0 .. n /\ 0 \in 0 .. n /\ \A i \in 1 .. n : file[i] \in Lines  OBVIOUS
<1>2. Holds("sink", "max_file_size_bytes", usable, t)
  <2> SUFFICES ASSUME NEW i \in 1 .. n
               PROVE  t[i] = IF /\ file[i].shape = "pair" /\ file[i].key = "max_file_size_bytes"
                                /\ Owner(i) = "sink" /\ file[i].text \in usable
                             THEN file[i].text ELSE t[i - 1]
    BY DEF Holds
  <2>1. i \in 0 .. n /\ i - 1 \in 0 .. n  OBVIOUS
  <2>2. t[i] = S[i].max_file_size_bytes /\ t[i - 1] = S[i - 1].max_file_size_bytes  BY <2>1
  <2>3. S[i].max_file_size_bytes =
          IF /\ file[i].shape = "pair" /\ S[i - 1].in_sink
             /\ file[i].key = "max_file_size_bytes" /\ file[i].text # "bad"
          THEN file[i].text ELSE S[i - 1].max_file_size_bytes
    BY <1>0, TurnFacts
  <2>4. file[i].shape = "pair" => (S[i - 1].in_sink <=> Owner(i) = "sink")
    BY <1>0, Indented, SectionIs
  <2>5. file[i].text \in usable <=> file[i].text # "bad"  BY <1>1
  <2> HIDE DEF usable, t
  <2> QED  BY ONLY <2>2, <2>3, <2>4, <2>5, Zenon
<1>3. t[0] = "default" /\ t[n] = S[n].max_file_size_bytes  BY <1>1 DEF Tables, SinkDefaults
<1> HIDE DEF t, usable
<1>4. t[n] = Setting("sink", "max_file_size_bytes", usable, t[0])  BY <1>0, <1>2, SettingIs
<1> QED  BY <1>3, <1>4 DEF usable

\* The path of the output file.
LEMMA SinkPathMeans ==
  ASSUME file \in Seq(Lines), BlockStyle, NEW G, NEW S, Tables(G, S)
  PROVE  S[Len(file)].path = Setting("sink", "path", {l.text : l \in Lines}, "default")
<1> DEFINE n == Len(file)
           usable == {l.text : l \in Lines}
           t == [i \in 0 .. n |-> S[i].path]
<1>0. file \in Seq(Line)  BY LinesAssumption
<1>1. n \in Nat /\ n \in 0 .. n /\ 0 \in 0 .. n /\ \A i \in 1 .. n : file[i] \in Lines  OBVIOUS
<1>2. Holds("sink", "path", usable, t)
  <2> SUFFICES ASSUME NEW i \in 1 .. n
               PROVE  t[i] = IF /\ file[i].shape = "pair" /\ file[i].key = "path"
                                /\ Owner(i) = "sink" /\ file[i].text \in usable
                             THEN file[i].text ELSE t[i - 1]
    BY DEF Holds
  <2>1. i \in 0 .. n /\ i - 1 \in 0 .. n  OBVIOUS
  <2>2. t[i] = S[i].path /\ t[i - 1] = S[i - 1].path  BY <2>1
  <2>3. S[i].path = IF file[i].shape = "pair" /\ S[i - 1].in_sink /\ file[i].key = "path"
                    THEN file[i].text ELSE S[i - 1].path
    BY <1>0, TurnFacts
  <2>4. file[i].shape = "pair" => (S[i - 1].in_sink <=> Owner(i) = "sink")
    BY <1>0, Indented, SectionIs
  <2>5. file[i].text \in usable  BY <1>1
  <2> HIDE DEF usable, t
  <2> QED  BY ONLY <2>2, <2>3, <2>4, <2>5, Zenon
<1>3. t[0] = "default" /\ t[n] = S[n].path  BY <1>1 DEF Tables, SinkDefaults
<1> HIDE DEF t, usable
<1>4. t[n] = Setting("sink", "path", usable, t[0])  BY <1>0, <1>2, SettingIs
<1> QED  BY <1>3, <1>4 DEF usable

\* Whatever the file looks like: the line that turned a domain is below a header.
LEMMA DomainsInSection ==
  ASSUME file \in Seq(Line), NEW G, NEW S, Tables(G, S), NEW d \in Domains,
         G[Len(file)].domains[d] # Defaults.domains[d]
  PROVE  \E h, i \in DOMAIN file :
           /\ file[h].shape = "header" /\ file[h].key = "domains" /\ h < i
           /\ \A j \in h + 1 .. i : file[j].shape # "header"
           /\ file[i].key = d
           /\ file[i].text = IF G[Len(file)].domains[d] THEN "true" ELSE "false"
<1> DEFINE n == Len(file)
           A == {i \in 1 .. n : /\ file[i].shape = "pair" /\ IsBool(file[i].text)
                                /\ G[i - 1].section = "domains" /\ file[i].key = d}
           v == [i \in 1 .. n |-> file[i].text = "true"]
           t == [i \in 0 .. n |-> G[i].domains[d]]
<1>1. /\ n \in Nat /\ n \in 0 .. n /\ 0 \in 0 .. n
      /\ DOMAIN file = 1 .. n /\ A \in SUBSET (1 .. n)
  OBVIOUS
<1>2. Assigned(n, A, v, t)
  <2> SUFFICES ASSUME NEW i \in 1 .. n
               PROVE  t[i] = IF i \in A THEN v[i] ELSE t[i - 1]
    BY DEF Assigned
  <2>1. i \in 0 .. n /\ i - 1 \in 0 .. n  OBVIOUS
  <2>2. t[i] = G[i].domains[d] /\ t[i - 1] = G[i - 1].domains[d]  BY <2>1
  <2>3. v[i] = (file[i].text = "true")  OBVIOUS
  <2>4. G[i].domains[d] = IF /\ file[i].shape = "pair" /\ IsBool(file[i].text)
                             /\ G[i - 1].section = "domains" /\ file[i].key = d
                          THEN file[i].text = "true" ELSE G[i - 1].domains[d]
    BY TurnFacts
  <2>5. i \in A <=> /\ file[i].shape = "pair" /\ IsBool(file[i].text)
                    /\ G[i - 1].section = "domains" /\ file[i].key = d
    OBVIOUS
  <2> HIDE DEF A, t, v
  <2> QED  BY ONLY <2>2, <2>3, <2>4, <2>5, Zenon
<1>3. t[0] = Defaults.domains[d] /\ t[n] = G[n].domains[d]  BY <1>1 DEF Tables
<1>4. \A i \in A : /\ i \in 1 .. n /\ file[i].shape = "pair" /\ IsBool(file[i].text)
                   /\ G[i - 1].section = "domains" /\ file[i].key = d
                   /\ v[i] = (file[i].text = "true")
  OBVIOUS
<1> HIDE DEF A, t, v
<1>5. t[n] = IF A = {} THEN t[0] ELSE v[Max(A)]  BY <1>1, <1>2, LastWins
<1>6. A # {}  BY <1>3, <1>5
<1>7. PICK i \in A : G[n].domains[d] = v[i]  BY <1>1, <1>3, <1>5, <1>6, MaxFacts
<1>8. i \in 1 .. n /\ i - 1 \in 0 .. n /\ i \in Int  BY <1>1, <1>4
<1>9. file[i].text = IF G[n].domains[d] THEN "true" ELSE "false"
  <2>1. file[i].text = "true" \/ file[i].text = "false"  BY <1>4 DEF IsBool
  <2>2. G[n].domains[d] = (file[i].text = "true")  BY <1>4, <1>7
  <2> QED  BY ONLY <2>1, <2>2, Zenon
<1>10. Opened(G, S, i - 1)  BY <1>8, LastHeader
<1>11. PICK h \in 1 .. i - 1 :
         /\ file[h].shape = "header" /\ \A j \in h + 1 .. i - 1 : file[j].shape # "header"
         /\ SectionOf(file[h].key) = "domains"
  BY <1>4, <1>10 DEF Opened
<1>12. file[h].key = "domains" /\ h < i /\ h \in 1 .. n  BY <1>8, <1>11 DEF SectionOf
<1>13. \A j \in h + 1 .. i : j \in h + 1 .. i - 1 \/ j = i  BY <1>8
<1>14. \A j \in h + 1 .. i : file[j].shape # "header"  BY <1>4, <1>11, <1>13
<1> QED  BY <1>1, <1>4, <1>8, <1>9, <1>11, <1>12, <1>14

-----------------------------------------------------------------------------
(* The program.                                                            *)

Steps == ({"sink", "load", "loaded", "suppress", "applied"} \X {1})
           \cup ({"toggle", "list"} \X (1 .. 4)) \cup ({"filter"} \X (1 .. 3))

Maps == [on : [1 .. 4 -> SUBSET (Probes \cup Kinds)], allow : [Allowlists -> SUBSET Nat],
         filter : [1 .. 3 -> BOOLEAN], suppress : BOOLEAN]

\* The maps that have been written.
TogglesDone(i) == \/ step[1] = "toggle" /\ i < step[2]
                  \/ step[1] \in {"list", "filter", "suppress", "applied"}
ListsDone(i) == \/ step[1] = "list" /\ i < step[2]
                \/ step[1] \in {"filter", "suppress", "applied"}
FiltersDone(i) == \/ step[1] = "filter" /\ i < step[2]
                  \/ step[1] \in {"suppress", "applied"}

ConfigTypeOK ==
  /\ file \in Seq(Lines) /\ exists \in BOOLEAN /\ step \in Steps
  /\ cfg \in Config /\ maps \in Maps /\ degraded \in BOOLEAN

\* What was read, until the file is closed.
ReadInv ==
  /\ step[1] \in {"load", "loaded"} => sink = LoadSinkRuntimeConfig(file)
  /\ step[1] = "loaded" => cfg = LoadRuntimeConfig(file)
  /\ step[1] \notin {"sink", "load"} /\ ~degraded => exists

\* What was written, as long as no failure had to be reported.
ToggleInv == ~degraded => \A i \in 1 .. 4 : TogglesDone(i) => maps.on[i] = Effective(i)

ListInv ==
  ~degraded => \A i \in 1 .. 4 :
    ListsDone(i) => ((maps.allow[Lists[i]] = {}) <=> (EffectiveList(i) = {}))

FilterInv ==
  ~degraded => \A i \in 1 .. 3 :
    FiltersDone(i) => (maps.filter[i] <=> cfg.allow[Filters[i]] # {})

SuppressInv == step[1] = "applied" /\ ~degraded => maps.suppress

\* The inductive invariant.
ConfigInv ==
  /\ ConfigTypeOK /\ ReadInv
  /\ ToggleInv /\ ListInv /\ FilterInv /\ SuppressInv

LEMMA Sizes ==
  /\ Len(Toggles) = 4 /\ DOMAIN Toggles = 1 .. 4
  /\ Len(Lists) = 4 /\ DOMAIN Lists = 1 .. 4
  /\ Len(Filters) = 3 /\ DOMAIN Filters = 1 .. 3
BY DEF Toggles, Lists, Filters

\* The four lists are four maps.
LEMMA ListNames ==
  /\ \A i \in 1 .. 4 : Lists[i] \in Allowlists
  /\ \A i, j \in 1 .. 4 : Lists[i] = Lists[j] => i = j
<1>1. /\ Lists[1] = "pid_allowlist" /\ Lists[2] = "uid_allowlist"
      /\ Lists[3] = "syscall_allowlist" /\ Lists[4] = "port_allowlist"
  BY DEF Lists
<1>2. \A i \in 1 .. 4 : i = 1 \/ i = 2 \/ i = 3 \/ i = 4  OBVIOUS
<1> QED  BY <1>1, <1>2 DEF Allowlists

\* What is to be written is made of probes, kinds and numbers.
LEMMA EffectiveTyped ==
  ASSUME cfg \in Config
  PROVE  /\ \A i \in 1 .. 4 : Effective(i) \subseteq Probes \cup Kinds
         /\ \A i \in 1 .. 4 : Gated(i) \subseteq Probes \cup Kinds
         /\ \A i \in 1 .. 4 : EffectiveList(i) \subseteq Nat
<1>1. \A i \in 1 .. 4 : Effective(i) \subseteq Probes \cup Kinds  BY DEF Effective
<1>2. \A i \in 1 .. 4 : cfg.allow[Lists[i]] \in SUBSET Nat  BY ListNames DEF Config
<1>3. \A i \in 1 .. 4 : EffectiveList(i) \subseteq Nat  BY <1>2 DEF EffectiveList
<1>4. \A i \in 1 .. 4 : Gated(i) \subseteq Probes \cup Kinds  BY DEF Gated
<1> QED  BY <1>1, <1>3, <1>4

LEMMA ConfigInit == Init => ConfigInv
<1> SUFFICES ASSUME Init PROVE ConfigInv  OBVIOUS
<1> USE DEF Init
<1>1. file \in Seq(Lines)
  <2>1. CASE exists
    <3>1. PICK n \in 0 .. MaxLines : file \in [1 .. n -> Lines]  BY <2>1
    <3>2. n \in Nat  BY LinesAssumption
    <3> QED  BY <3>1, <3>2, SeqDef
  <2>2. CASE ~exists
    <3>1. file = <<>>  BY <2>2
    <3> QED  BY <3>1
  <2> QED  BY <2>1, <2>2
<1>2. step = <<"sink", 1>> /\ step \in Steps /\ step[1] = "sink"  BY DEF Steps
<1>4. maps \in Maps
  <2> DEFINE o == [i \in 1 .. 4 |-> {}]
             a == [x \in Allowlists |-> {}]
             f == [i \in 1 .. 3 |-> FALSE]
  <2>1. /\ o \in [1 .. 4 -> SUBSET (Probes \cup Kinds)] /\ a \in [Allowlists -> SUBSET Nat]
        /\ f \in [1 .. 3 -> BOOLEAN] /\ FALSE \in BOOLEAN
    OBVIOUS
  <2>2. maps = [on |-> o, allow |-> a, filter |-> f, suppress |-> FALSE]  BY Sizes
  <2> HIDE DEF o, a, f, Init
  <2> QED  BY ONLY <2>1, <2>2 DEF Maps
<1>5. ConfigTypeOK  BY <1>1, <1>2, <1>4, DefaultsTyped DEF ConfigTypeOK
<1> HIDE DEF Init
<1>7. ReadInv  BY <1>2 DEF ReadInv
<1>8. ToggleInv  BY <1>2 DEF ToggleInv, TogglesDone
<1>9. ListInv  BY <1>2 DEF ListInv, ListsDone
<1>10. FilterInv  BY <1>2 DEF FilterInv, FiltersDone
<1>11. SuppressInv  BY <1>2 DEF SuppressInv
<1> QED  BY <1>5, <1>7, <1>8, <1>9, <1>10, <1>11 DEF ConfigInv

\* Reading the file leaves the maps alone.
LEMMA ReadingStep ==
  ASSUME ConfigInv, LoadSink \/ Load \/ Close PROVE ConfigInv'
<1> USE DEF ConfigInv, ConfigTypeOK
<1>0. maps' = maps /\ exists' = exists  BY DEF LoadSink, Load, Close
<1>1. CASE LoadSink
  <2>1. step = <<"sink", 1>> /\ step[1] = "sink" /\ step' = <<"load", 1>> /\ step'[1] = "load"
    BY <1>1 DEF LoadSink
  <2>2. file' = file /\ cfg' = cfg /\ degraded' = degraded /\ sink' = LoadSinkRuntimeConfig(file)
    BY <1>1 DEF LoadSink
  <2>3. ConfigTypeOK'
    <3>1. step' \in Steps  BY <2>1 DEF Steps
    <3> QED  BY <1>0, <2>2, <3>1
  <2>4. ReadInv'  BY <2>1, <2>2 DEF ReadInv
  <2>5. ToggleInv'  BY <2>1 DEF ToggleInv, TogglesDone
  <2>6. ListInv' /\ FilterInv' /\ SuppressInv'
    BY <2>1 DEF ListInv, ListsDone, FilterInv, FiltersDone, SuppressInv
  <2> QED  BY <2>3, <2>4, <2>5, <2>6
<1>2. CASE Load
  <2>1. step = <<"load", 1>> /\ step[1] = "load" /\ step' = <<"loaded", 1>> /\ step'[1] = "loaded"
    BY <1>2 DEF Load
  <2>2. file' = file /\ sink' = sink /\ degraded' = ~exists /\ cfg' = LoadRuntimeConfig(file)
    BY <1>2 DEF Load
  <2>3. ConfigTypeOK'
    <3>1. step' \in Steps  BY <2>1 DEF Steps
    <3>2. cfg' \in Config
      <4>1. file \in Seq(Line) /\ Len(file) \in 0 .. Len(file)  BY LinesAssumption
      <4>2. PICK G \in [0 .. Len(file) -> Config] : LoadRuntimeConfig(file) = G[Len(file)]
        BY <4>1, LoadTable
      <4> QED  BY <2>2, <4>1, <4>2
    <3>3. degraded' \in BOOLEAN  BY <2>2
    <3> QED  BY <1>0, <2>2, <3>1, <3>2, <3>3
  <2>4. ReadInv'  BY <1>0, <2>1, <2>2 DEF ReadInv
  <2>5. ToggleInv'  BY <2>1 DEF ToggleInv, TogglesDone
  <2>6. ListInv' /\ FilterInv' /\ SuppressInv'
    BY <2>1 DEF ListInv, ListsDone, FilterInv, FiltersDone, SuppressInv
  <2> QED  BY <2>3, <2>4, <2>5, <2>6
<1>3. CASE Close
  <2>1. /\ step = <<"loaded", 1>> /\ step[1] = "loaded" /\ step' = <<"toggle", 1>>
        /\ step'[1] = "toggle" /\ step'[2] = 1
    BY <1>3 DEF Close
  <2>2. file' = <<>> /\ sink' = sink /\ degraded' = degraded /\ cfg' = cfg  BY <1>3 DEF Close
  <2>3. ConfigTypeOK'
    <3>1. step' \in Steps  BY <2>1 DEF Steps
    <3>2. file' \in Seq(Lines)  BY <2>2
    <3> QED  BY <1>0, <2>2, <3>1, <3>2
  <2>4. ReadInv'  BY <1>0, <2>1, <2>2 DEF ReadInv
  <2>5. ToggleInv'
    <3>1. \A i \in 1 .. 4 : ~(i < 1)  OBVIOUS
    <3> QED  BY <2>1, <3>1 DEF ToggleInv, TogglesDone
  <2>6. ListInv' /\ FilterInv' /\ SuppressInv'
    BY <2>1 DEF ListInv, ListsDone, FilterInv, FiltersDone, SuppressInv
  <2> QED  BY <2>3, <2>4, <2>5, <2>6
<1> QED  BY <1>1, <1>2, <1>3

\* Every step of Start that writes maps: what was read stays, and what was reported
\* stays reported.
LEMMA WritingFrame ==
  ASSUME ConfigInv, ApplyToggles \/ ApplyLists \/ ApplyFilters \/ SuppressSelf
  PROVE  /\ file' = file /\ exists' = exists /\ sink' = sink /\ cfg' = cfg
         /\ degraded' \in BOOLEAN /\ (degraded => degraded')
         /\ \A i \in 1 .. 4 : Effective(i)' = Effective(i) /\ EffectiveList(i)' = EffectiveList(i)
         /\ \A i \in 1 .. 3 : (cfg.allow[Filters[i]])' = cfg.allow[Filters[i]]
<1> USE DEF ConfigInv, ConfigTypeOK
<1>1. /\ file' = file /\ exists' = exists /\ sink' = sink /\ cfg' = cfg
  BY DEF ApplyToggles, ApplyLists, ApplyFilters, SuppressSelf
<1>2. degraded' \in BOOLEAN /\ (degraded => degraded')
  BY DEF ApplyToggles, ApplyLists, ApplyFilters, SuppressSelf
<1>3. \A i \in 1 .. 4 : Effective(i)' = Effective(i) /\ EffectiveList(i)' = EffectiveList(i)
  BY <1>1 DEF Effective, EffectiveList
<1>4. \A i \in 1 .. 3 : (cfg.allow[Filters[i]])' = cfg.allow[Filters[i]]  BY <1>1
<1> QED  BY <1>1, <1>2, <1>3, <1>4

LEMMA TogglesStep ==
  ASSUME ConfigInv, ApplyToggles PROVE ConfigInv'
<1> USE DEF ConfigInv, ConfigTypeOK
<1>0. /\ file' = file /\ exists' = exists /\ sink' = sink /\ cfg' = cfg
      /\ degraded' \in BOOLEAN /\ (degraded => degraded')
      /\ \A i \in 1 .. 4 : Effective(i)' = Effective(i)
  BY WritingFrame
<1>1. PICK k : step[1] = "toggle" /\ step[2] = k /\ k \in 1 .. 4  BY DEF Steps, ApplyToggles
<1>2. PICK set \in (SUBSET Effective(k)) \cup {Gated(k)}, ok \in BOOLEAN :
        /\ ok => set = Effective(k)
        /\ maps' = [maps EXCEPT !.on[k] = set]
        /\ degraded' = (degraded \/ ~ok)
  BY <1>1 DEF ApplyToggles
<1>3. step' = IF k < 4 THEN <<"toggle", k + 1>> ELSE <<"list", 1>>
  BY <1>1, Sizes DEF ApplyToggles
<1>4. /\ step'[1] \in {"toggle", "list"} /\ step' \in Steps
      /\ step'[1] = "toggle" => step'[2] = k + 1
      /\ step'[1] = "list" => k = 4 /\ step'[2] = 1
  BY <1>1, <1>3 DEF Steps
<1>5. set \subseteq Probes \cup Kinds  BY <1>1, <1>2, EffectiveTyped
<1>6. maps' \in Maps /\ \A i \in 1 .. 4 : maps'.on[i] = IF i = k THEN set ELSE maps.on[i]
  <2> DEFINE o == [maps.on EXCEPT ![k] = set]
  <2>1. maps.on \in [1 .. 4 -> SUBSET (Probes \cup Kinds)]  BY DEF Maps
  <2>2. o \in [1 .. 4 -> SUBSET (Probes \cup Kinds)]  BY <1>5, <2>1
  <2>3. \A i \in 1 .. 4 : o[i] = IF i = k THEN set ELSE maps.on[i]  BY <2>1
  <2>4. maps' = [maps EXCEPT !.on = o]  BY <1>2
  <2> HIDE DEF o
  <2>5. maps' \in Maps /\ maps'.on = o  BY <2>2, <2>4 DEF Maps
  <2> QED  BY <2>3, <2>5
<1>7. ConfigTypeOK'  BY <1>0, <1>4, <1>6
<1>8. ReadInv'  BY <1>0, <1>1, <1>4 DEF ReadInv
<1>9. ToggleInv'
  <2>2. ASSUME ~degraded', NEW i \in 1 .. 4, TogglesDone(i)' PROVE maps'.on[i] = Effective(i)
    <3>1. ok /\ ~degraded  BY <1>2, <2>2
    <3>2. CASE i = k  BY <1>2, <1>6, <3>1, <3>2
    <3>3. CASE i # k
      <4>1. step'[1] = "toggle" => i < step'[2]  BY <1>4, <2>2 DEF TogglesDone
      <4>2. i < k  BY <1>1, <1>4, <3>3, <4>1
      <4>3. TogglesDone(i)  BY <1>1, <4>2 DEF TogglesDone
      <4> QED  BY <1>6, <3>1, <3>3, <4>3 DEF ToggleInv
    <3> QED  BY <3>2, <3>3
  <2> QED  BY <1>0, <2>2 DEF ToggleInv
<1>10. ListInv' /\ FilterInv' /\ SuppressInv'
  <2>1. \A i \in 1 .. 4 : ~(i < 1)  OBVIOUS
  <2> QED  BY <1>4, <2>1 DEF ListInv, ListsDone, FilterInv, FiltersDone, SuppressInv
<1> QED  BY <1>7, <1>8, <1>9, <1>10

LEMMA ListsStep ==
  ASSUME ConfigInv, ApplyLists PROVE ConfigInv'
<1> USE DEF ConfigInv, ConfigTypeOK
<1>0. /\ file' = file /\ exists' = exists /\ sink' = sink /\ cfg' = cfg
      /\ degraded' \in BOOLEAN /\ (degraded => degraded')
      /\ \A i \in 1 .. 4 : Effective(i)' = Effective(i) /\ EffectiveList(i)' = EffectiveList(i)
  BY WritingFrame
<1>1. PICK k : step[1] = "list" /\ step[2] = k /\ k \in 1 .. 4  BY DEF Steps, ApplyLists
<1>2. PICK set \in SUBSET EffectiveList(k), found \in BOOLEAN :
        /\ ~found => set = {}
        /\ maps' = [maps EXCEPT !.allow[Lists[k]] = set]
        /\ degraded' = (degraded \/ ~found \/ (EffectiveList(k) # {} /\ set = {}))
  BY <1>1 DEF ApplyLists
<1>3. step' = IF k < 4 THEN <<"list", k + 1>> ELSE <<"filter", 1>>
  BY <1>1, Sizes DEF ApplyLists
<1>4. /\ step'[1] \in {"list", "filter"} /\ step' \in Steps
      /\ step'[1] = "list" => step'[2] = k + 1
      /\ step'[1] = "filter" => k = 4 /\ step'[2] = 1
  BY <1>1, <1>3 DEF Steps
<1>5. set \subseteq Nat  BY <1>1, <1>2, EffectiveTyped
<1>6. /\ maps' \in Maps /\ maps'.on = maps.on
      /\ \A i \in 1 .. 4 : maps'.allow[Lists[i]] = IF i = k THEN set ELSE maps.allow[Lists[i]]
  <2> DEFINE w == [maps.allow EXCEPT ![Lists[k]] = set]
  <2>1. maps.allow \in [Allowlists -> SUBSET Nat] /\ Lists[k] \in Allowlists
    BY <1>1, ListNames DEF Maps
  <2>2. w \in [Allowlists -> SUBSET Nat]  BY <1>5, <2>1
  <2>3. \A i \in 1 .. 4 : w[Lists[i]] = IF i = k THEN set ELSE maps.allow[Lists[i]]
    BY <1>1, <2>1, ListNames
  <2>4. maps' = [maps EXCEPT !.allow = w]  BY <1>2
  <2> HIDE DEF w
  <2>5. maps' \in Maps /\ maps'.allow = w /\ maps'.on = maps.on  BY <2>2, <2>4 DEF Maps
  <2> QED  BY <2>3, <2>5
<1>7. ConfigTypeOK'  BY <1>0, <1>4, <1>6
<1>8. ReadInv'  BY <1>0, <1>1, <1>4 DEF ReadInv
<1>9. ToggleInv'
  <2>1. \A i \in 1 .. 4 : TogglesDone(i)  BY <1>1 DEF TogglesDone
  <2>2. ~degraded' => \A i \in 1 .. 4 : maps'.on[i] = Effective(i)
    BY <1>0, <1>6, <2>1 DEF ToggleInv
  <2> QED  BY <1>0, <2>2 DEF ToggleInv
<1>10. ListInv'
  <2>1. ASSUME ~degraded', NEW i \in 1 .. 4, ListsDone(i)'
        PROVE  (maps'.allow[Lists[i]] = {}) <=> (EffectiveList(i) = {})
    <3>1. ~degraded /\ ~(EffectiveList(k) # {} /\ set = {})  BY <1>2, <2>1
    <3>2. CASE i = k
      <4>1. set = {} <=> EffectiveList(k) = {}  BY <1>2, <3>1
      <4>2. maps'.allow[Lists[i]] = set  BY <1>6, <3>2
      <4> QED  BY <3>2, <4>1, <4>2
    <3>3. CASE i # k
      <4>1. step'[1] = "list" => i < step'[2]  BY <1>4, <2>1 DEF ListsDone
      <4>2. i < k  BY <1>1, <1>4, <3>3, <4>1
      <4>3. ListsDone(i)  BY <1>1, <4>2 DEF ListsDone
      <4> QED  BY <1>6, <3>1, <3>3, <4>3 DEF ListInv
    <3> QED  BY <3>2, <3>3
  <2>2. \A i \in 1 .. 4 : (maps.allow[Lists[i]])' = maps'.allow[Lists[i]]  BY DEF Lists
  <2> QED  BY <1>0, <2>1, <2>2 DEF ListInv
<1>11. FilterInv' /\ SuppressInv'
  <2>1. \A i \in 1 .. 3 : ~(i < 1)  OBVIOUS
  <2> QED  BY <1>4, <2>1 DEF FilterInv, FiltersDone, SuppressInv
<1> QED  BY <1>7, <1>8, <1>9, <1>10, <1>11

LEMMA FiltersStep ==
  ASSUME ConfigInv, ApplyFilters PROVE ConfigInv'
<1> USE DEF ConfigInv, ConfigTypeOK
<1>0. /\ file' = file /\ exists' = exists /\ sink' = sink /\ cfg' = cfg
      /\ degraded' \in BOOLEAN /\ (degraded => degraded')
      /\ \A i \in 1 .. 4 : Effective(i)' = Effective(i) /\ EffectiveList(i)' = EffectiveList(i)
      /\ \A i \in 1 .. 3 : (cfg.allow[Filters[i]])' = cfg.allow[Filters[i]]
  BY WritingFrame
<1>1. PICK k : step[1] = "filter" /\ step[2] = k /\ k \in 1 .. 3  BY DEF Steps, ApplyFilters
<1>2. PICK ok \in BOOLEAN :
        /\ maps' = [maps EXCEPT !.filter[k] = ok /\ cfg.allow[Filters[k]] # {}]
        /\ degraded' = (degraded \/ ~ok)
  BY <1>1 DEF ApplyFilters
<1>3. step' = IF k < 3 THEN <<"filter", k + 1>> ELSE <<"suppress", 1>>
  BY <1>1, Sizes DEF ApplyFilters
<1>4. /\ step'[1] \in {"filter", "suppress"} /\ step' \in Steps
      /\ step'[1] = "filter" => step'[2] = k + 1
      /\ step'[1] = "suppress" => k = 3
  BY <1>1, <1>3 DEF Steps
<1>5. PICK v \in BOOLEAN : v = (ok /\ cfg.allow[Filters[k]] # {})  OBVIOUS
<1>6. /\ maps' \in Maps /\ maps'.on = maps.on /\ maps'.allow = maps.allow
      /\ \A i \in 1 .. 3 : maps'.filter[i] = IF i = k THEN v ELSE maps.filter[i]
  <2> DEFINE w == [maps.filter EXCEPT ![k] = v]
  <2>1. maps.filter \in [1 .. 3 -> BOOLEAN]  BY DEF Maps
  <2>2. w \in [1 .. 3 -> BOOLEAN]  BY <1>1, <1>5, <2>1
  <2>3. \A i \in 1 .. 3 : w[i] = IF i = k THEN v ELSE maps.filter[i]  BY <1>1, <2>1
  <2>4. maps' = [maps EXCEPT !.filter = w]  BY <1>2, <1>5
  <2> HIDE DEF w
  <2>5. maps' \in Maps /\ maps'.filter = w /\ maps'.on = maps.on /\ maps'.allow = maps.allow
    BY <2>2, <2>4 DEF Maps
  <2> QED  BY <2>3, <2>5
<1>7. ConfigTypeOK'  BY <1>0, <1>4, <1>6
<1>8. ReadInv'  BY <1>0, <1>1, <1>4 DEF ReadInv
<1>9. ToggleInv'
  <2>1. \A i \in 1 .. 4 : TogglesDone(i)  BY <1>1 DEF TogglesDone
  <2>2. ~degraded' => \A i \in 1 .. 4 : maps'.on[i] = Effective(i)
    BY <1>0, <1>6, <2>1 DEF ToggleInv
  <2> QED  BY <1>0, <2>2 DEF ToggleInv
<1>10. ListInv'
  <2>1. \A i \in 1 .. 4 : ListsDone(i)  BY <1>1 DEF ListsDone
  <2>2. ~degraded' => \A i \in 1 .. 4 : (maps'.allow[Lists[i]] = {}) <=> (EffectiveList(i) = {})
    BY <1>0, <1>6, <2>1 DEF ListInv
  <2>3. \A i \in 1 .. 4 : (maps.allow[Lists[i]])' = maps'.allow[Lists[i]]  BY DEF Lists
  <2> QED  BY <1>0, <2>2, <2>3 DEF ListInv
<1>11. FilterInv'
  <2>1. ASSUME ~degraded', NEW i \in 1 .. 3, FiltersDone(i)'
        PROVE  maps'.filter[i] <=> cfg.allow[Filters[i]] # {}
    <3>1. ok /\ ~degraded  BY <1>2, <2>1
    <3>2. CASE i = k
      <4>1. maps'.filter[i] = v  BY <1>6, <3>2
      <4> QED  BY <1>5, <3>1, <3>2, <4>1
    <3>3. CASE i # k
      <4>1. step'[1] = "filter" => i < step'[2]  BY <1>4, <2>1 DEF FiltersDone
      <4>2. i < k  BY <1>1, <1>4, <3>3, <4>1
      <4>3. FiltersDone(i)  BY <1>1, <4>2 DEF FiltersDone
      <4> QED  BY <1>6, <3>1, <3>3, <4>3 DEF FilterInv
    <3> QED  BY <3>2, <3>3
  <2> QED  BY <1>0, <2>1 DEF FilterInv
<1>12. SuppressInv'  BY <1>4 DEF SuppressInv
<1> QED  BY <1>7, <1>8, <1>9, <1>10, <1>11, <1>12

LEMMA SuppressStep ==
  ASSUME ConfigInv, SuppressSelf PROVE ConfigInv'
<1> USE DEF ConfigInv, ConfigTypeOK
<1>0. /\ file' = file /\ exists' = exists /\ sink' = sink /\ cfg' = cfg
      /\ degraded' \in BOOLEAN /\ (degraded => degraded')
      /\ \A i \in 1 .. 4 : Effective(i)' = Effective(i) /\ EffectiveList(i)' = EffectiveList(i)
      /\ \A i \in 1 .. 3 : (cfg.allow[Filters[i]])' = cfg.allow[Filters[i]]
  BY WritingFrame
<1>1. PICK ok \in BOOLEAN :
        /\ maps' = [maps EXCEPT !.suppress = ok]
        /\ degraded' = (degraded \/ ~ok)
  BY DEF SuppressSelf
<1>2. /\ step[1] = "suppress" /\ step' = <<"applied", 1>> /\ step'[1] = "applied"
      /\ step' \in Steps
  BY DEF SuppressSelf, Steps
<1>3. /\ maps' \in Maps /\ maps'.suppress = ok /\ maps'.on = maps.on
      /\ maps'.allow = maps.allow /\ maps'.filter = maps.filter
  BY <1>1 DEF Maps
<1>4. ConfigTypeOK'  BY <1>0, <1>2, <1>3
<1>5. ReadInv'  BY <1>0, <1>2 DEF ReadInv
<1>6. ToggleInv'
  <2>1. \A i \in 1 .. 4 : TogglesDone(i)  BY <1>2 DEF TogglesDone
  <2>2. ~degraded' => \A i \in 1 .. 4 : maps'.on[i] = Effective(i)
    BY <1>0, <1>3, <2>1 DEF ToggleInv
  <2> QED  BY <1>0, <2>2 DEF ToggleInv
<1>7. ListInv'
  <2>1. \A i \in 1 .. 4 : ListsDone(i)  BY <1>2 DEF ListsDone
  <2>2. ~degraded' => \A i \in 1 .. 4 : (maps'.allow[Lists[i]] = {}) <=> (EffectiveList(i) = {})
    BY <1>0, <1>3, <2>1 DEF ListInv
  <2>3. \A i \in 1 .. 4 : (maps.allow[Lists[i]])' = maps'.allow[Lists[i]]  BY DEF Lists
  <2> QED  BY <1>0, <2>2, <2>3 DEF ListInv
<1>8. FilterInv'
  <2>1. \A i \in 1 .. 3 : FiltersDone(i)  BY <1>2 DEF FiltersDone
  <2>2. ~degraded' => \A i \in 1 .. 3 : maps'.filter[i] <=> cfg.allow[Filters[i]] # {}
    BY <1>0, <1>3, <2>1 DEF FilterInv
  <2> QED  BY <1>0, <2>2 DEF FilterInv
<1>9. SuppressInv'
  <2>1. ~degraded' => maps'.suppress  BY <1>1, <1>3
  <2> QED  BY <2>1 DEF SuppressInv
<1> QED  BY <1>4, <1>5, <1>6, <1>7, <1>8, <1>9

LEMMA ConfigNext == ConfigInv /\ [Next]_vars => ConfigInv'
<1> SUFFICES ASSUME ConfigInv, [Next]_vars PROVE ConfigInv'  OBVIOUS
<1>1. CASE LoadSink \/ Load \/ Close  BY <1>1, ReadingStep
<1>2. CASE ApplyToggles  BY <1>2, TogglesStep
<1>3. CASE ApplyLists  BY <1>3, ListsStep
<1>4. CASE ApplyFilters  BY <1>4, FiltersStep
<1>5. CASE SuppressSelf  BY <1>5, SuppressStep
<1>6. CASE UNCHANGED vars
  <2>1. /\ file' = file /\ exists' = exists /\ step' = step /\ sink' = sink /\ cfg' = cfg
        /\ maps' = maps /\ degraded' = degraded
    BY <1>6 DEF vars
  <2>2. ConfigTypeOK' /\ ReadInv'  BY <2>1 DEF ConfigInv, ConfigTypeOK, ReadInv
  <2>3. ToggleInv'  BY <2>1 DEF ConfigInv, ToggleInv, TogglesDone, Effective
  <2>4. ListInv'  BY <2>1 DEF ConfigInv, ListInv, ListsDone, EffectiveList
  <2>5. FilterInv'  BY <2>1 DEF ConfigInv, FilterInv, FiltersDone
  <2>6. SuppressInv'  BY <2>1 DEF ConfigInv, SuppressInv
  <2> QED  BY <2>2, <2>3, <2>4, <2>5, <2>6 DEF ConfigInv
<1> QED  BY <1>1, <1>2, <1>3, <1>4, <1>5, <1>6 DEF Next

\* What Start has read and written so far is always accounted for.
THEOREM ConfigInvariant == Spec => []ConfigInv
BY ConfigInit, ConfigNext, PTL DEF Spec

-----------------------------------------------------------------------------
(* The properties.                                                         *)

\* LoadRuntimeConfig and LoadSinkRuntimeConfig, which ignore indentation, find what
\* the indentation says, in every file in block style of any length: toggles, inline
\* lists, and the path and the limit of the sink.
THEOREM ConfigParseMeans == Spec => []ParseMeans
<1>1. ConfigInv => ParseMeans
  <2> SUFFICES ASSUME ConfigInv, Loaded, BlockStyle PROVE
        /\ \A d \in Domains : cfg.domains[d] = Flag("domains", d, Defaults.domains[d])
        /\ \A p \in Probes : cfg.probes[p] = Flag("file_probes", p, TRUE)
        /\ \A a \in Allowlists : cfg.allow[a] = UNION {file[i].nums : i \in Listed(a)}
        /\ sink.path = Setting("sink", "path", {l.text : l \in Lines}, "default")
        /\ sink.max_file_size_bytes =
             Setting("sink", "max_file_size_bytes", {l.text : l \in Lines} \ {"bad"}, "default")
    BY DEF ParseMeans
  <2>1. file \in Seq(Lines) /\ file \in Seq(Line)
    BY LinesAssumption DEF ConfigInv, ConfigTypeOK
  <2>2. cfg = LoadRuntimeConfig(file) /\ sink = LoadSinkRuntimeConfig(file)
    BY DEF ConfigInv, ReadInv, Loaded
  <2>3. PICK G, S : /\ Tables(G, S)
                    /\ LoadRuntimeConfig(file) = G[Len(file)]
                    /\ LoadSinkRuntimeConfig(file) = S[Len(file)]
    BY <2>1, Read
  <2>4. cfg = G[Len(file)] /\ sink = S[Len(file)]  BY <2>2, <2>3, Zenon
  <2>5. \A d \in Domains : cfg.domains[d] = Flag("domains", d, Defaults.domains[d])
    BY <2>1, <2>3, <2>4, DomainsMean
  <2>6. \A p \in Probes : cfg.probes[p] = Flag("file_probes", p, TRUE)
    BY <2>1, <2>3, <2>4, ProbesMean
  <2>7. \A a \in Allowlists : cfg.allow[a] = UNION {file[i].nums : i \in Listed(a)}
    BY <2>1, <2>3, <2>4, ListsMean
  <2>8. sink.max_file_size_bytes =
          Setting("sink", "max_file_size_bytes", {l.text : l \in Lines} \ {"bad"}, "default")
    BY <2>1, <2>3, <2>4, SinkMeans
  <2>9. sink.path = Setting("sink", "path", {l.text : l \in Lines}, "default")
    BY <2>1, <2>3, <2>4, SinkPathMeans
  <2> QED  BY <2>5, <2>6, <2>7, <2>8, <2>9
<1> QED  BY <1>1, ConfigInvariant, PTL

\* Whatever the file looks like, a domain leaves its default only because of a line
\* in the section of the domains.
THEOREM ConfigOnlyInSection == Spec => []OnlyInSection
<1>1. ConfigInv => OnlyInSection
  <2> SUFFICES ASSUME ConfigInv, Loaded, NEW d \in Domains,
                      cfg.domains[d] # Defaults.domains[d]
               PROVE  \E h, i \in DOMAIN file :
                        /\ file[h].shape = "header" /\ file[h].key = "domains" /\ h < i
                        /\ \A j \in h + 1 .. i : file[j].shape # "header"
                        /\ file[i].key = d
                        /\ file[i].text = IF cfg.domains[d] THEN "true" ELSE "false"
    BY DEF OnlyInSection
  <2>1. file \in Seq(Line)  BY LinesAssumption DEF ConfigInv, ConfigTypeOK
  <2>2. cfg = LoadRuntimeConfig(file)  BY DEF ConfigInv, ReadInv, Loaded
  <2>3. PICK G, S : Tables(G, S) /\ LoadRuntimeConfig(file) = G[Len(file)]  BY <2>1, Read
  <2>4. cfg = G[Len(file)]  BY <2>2, <2>3, Zenon
  <2> QED  BY <2>1, <2>3, <2>4, DomainsInSection
<1> QED  BY <1>1, ConfigInvariant, PTL

\* A startup report that is not degraded is honest: the file was read, exactly the
\* configured probes are on, every configured filter is active and has an entry, and
\* the programs know whom to leave out.
THEOREM ConfigHonest == Spec => []Honest
<1>1. ConfigInv => Honest
  <2> SUFFICES ASSUME ConfigInv, step[1] = "applied", ~degraded
               PROVE  /\ exists
                      /\ \A i \in 1 .. 4 : maps.on[i] = Effective(i)
                      /\ \A i \in 1 .. 4 : (maps.allow[Lists[i]] = {}) <=> (EffectiveList(i) = {})
                      /\ \A i \in 1 .. 3 : maps.filter[i] <=> cfg.allow[Filters[i]] # {}
                      /\ maps.suppress
    BY Sizes DEF Honest
  <2>1. exists /\ maps.suppress  BY DEF ConfigInv, ReadInv, SuppressInv
  <2>2. \A i \in 1 .. 4 : maps.on[i] = Effective(i)  BY DEF ConfigInv, ToggleInv, TogglesDone
  <2>3. \A i \in 1 .. 4 : (maps.allow[Lists[i]] = {}) <=> (EffectiveList(i) = {})
    BY DEF ConfigInv, ListInv, ListsDone
  <2>4. \A i \in 1 .. 3 : maps.filter[i] <=> cfg.allow[Filters[i]] # {}
    BY DEF ConfigInv, FilterInv, FiltersDone
  <2> QED  BY <2>1, <2>2, <2>3, <2>4
<1> QED  BY <1>1, ConfigInvariant, PTL
=============================================================================
