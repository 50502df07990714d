------------------------- MODULE SocketFdMapProofs --------------------------
(***************************************************************************)
(* Proofs about SocketFdMap, for every number of threads and descriptors,  *)
(* every set of handlers and every interleaving of the three steps of a    *)
(* call.                                                                   *)
(*                                                                         *)
(* OpenInv holds whatever goes wrong: descriptor arguments are saved only  *)
(* for calls in progress, what the calls in progress mention was created   *)
(* by the tgid, and so was what the map and the saved arguments of gated   *)
(* calls mention unless the array of a socketpair was overwritten.         *)
(* CalmInv says, as long as nothing has gone wrong, how far the map may be *)
(* from the real table: by what calls that are done and have not returned  *)
(* have created or closed.                                                 *)
(***************************************************************************)
EXTENDS SocketFdMap, TLAPS

CallRec == [kind : Kinds, fd : Fds \cup {NoFd}, done : BOOLEAN, ok : BOOLEAN,
            new : Seq(Fds), target : Things]

\* The descriptors call c has created.
News(c) == {c.new[i] : i \in DOMAIN c.new}

\* A call in progress: it has a descriptor argument or makes descriptors, and
\* those it has made are there only once it has succeeded.
CallOK(c) ==
  /\ c \in CallRec
  /\ c.fd = NoFd <=> c.kind \in Creating
  /\ News(c) \subseteq opened
  /\ c.new # <<>> => c.done /\ c.ok /\ c.kind \in Creating \cup Accepting
  /\ c.ok => c.done
  /\ c.ok /\ c.kind \in Creating \cup Accepting => Len(c.new) \in {1, 2}

\* A saved argument is that of a call in progress.
SavedOK(t, k) ==
  /\ call[t] # Idle
  /\ call[t].kind = k
  /\ network_enter_state[<<t, k>>] = call[t].fd
  /\ PairsIntact /\ k \in Gated => call[t].fd \in opened

OpenInv ==
  /\ fds \in [Fds -> Things]
  /\ call \in [Threads -> CallRec \cup {Idle}]
  /\ \A t \in Threads : call[t] # Idle => CallOK(call[t])
  /\ DOMAIN network_enter_state \subseteq Threads \X Kinds
  /\ \A t \in Threads, k \in Kinds : <<t, k>> \in DOMAIN network_enter_state => SavedOK(t, k)
  /\ opened \subseteq Fds
  /\ OnlyOpened

\* Thread t has closed f in a call that has not returned.
Closing(t, f) == call[t] # Idle /\ call[t].kind = "close" /\ call[t].ok /\ call[t].fd = f

\* Thread t has created f in a call that has not returned.
Opening(t, f) == call[t] # Idle /\ f \in News(call[t])

Saved(t) == <<t, call[t].kind>> \in DOMAIN network_enter_state

\* What each handler has saved or will find.
ThreadOK(t) ==
  /\ call[t].kind \notin Gated => Saved(t)
  /\ call[t].kind \in Gated => (Saved(t) <=> call[t].fd \in socket_fd_state)
  /\ call[t].kind \in Gated /\ call[t].done => (Saved(t) <=> call[t].target = "sock")

\* How the map and the real table differ at f.
FdOK(f) ==
  /\ (\A t \in Threads : ~Closing(t, f) /\ ~Opening(t, f)) =>
       (f \in socket_fd_state <=> fds[f] = "sock")
  /\ \A t \in Threads : Opening(t, f) => fds[f] = "sock" /\ f \notin socket_fd_state
  /\ \A t \in Threads : Closing(t, f) => fds[f] = "none"

CalmInv ==
  Calm => /\ ~Contended
          /\ \A t \in Threads : call[t] # Idle => ThreadOK(t)
          /\ \A f \in Fds : FdOK(f)
          /\ NoMislabel /\ NothingMissed

-----------------------------------------------------------------------------
(* Calls.                                                                  *)

\* A call in progress is not Idle, and -1 is not a descriptor.
LEMMA CallFacts ==
  /\ \A c \in CallRec : c # Idle
  /\ NoFd \notin Fds
  /\ Gated \cap (Creating \cup Accepting) = {}
  /\ Creating \cap Accepting = {}
<1>1. "none" \notin Kinds
  BY KindsAssumption DEF Creating, Ungated, Gated, Accepting, Addressing, Controlling, Messaging,
                         Streaming, Batching
<1>2. \A c \in CallRec : c # Idle
  BY <1>1 DEF CallRec, Idle
<1>3. NoFd \notin Fds
  BY SocketAssumption DEF NoFd
<1>4. Gated \cap (Creating \cup Accepting) = {} /\ Creating \cap Accepting = {}
  BY DEF Gated, Creating, Accepting, Streaming, Batching
<1> QED BY <1>2, <1>3, <1>4

\* The record of a call that has just entered.
LEMMA EnteredFacts ==
  ASSUME NEW k \in Kinds, NEW f \in Fds \cup {NoFd}
  PROVE  /\ Entered(k, f) \in CallRec
         /\ Entered(k, f).kind = k /\ Entered(k, f).fd = f
         /\ ~Entered(k, f).done /\ ~Entered(k, f).ok
         /\ Entered(k, f).new = <<>> /\ News(Entered(k, f)) = {}
<1>1. <<>> \in Seq(Fds) /\ DOMAIN <<>> = {} /\ "none" \in Things
  BY DEF Things
<1> QED BY <1>1 DEF Entered, CallRec, News

\* The record of a call whose kernel part is over.
LEMMA ReturnFacts ==
  ASSUME call \in [Threads -> CallRec \cup {Idle}], NEW t \in Threads, call[t] \in CallRec,
         NEW ok \in BOOLEAN, NEW new \in Seq(Fds), NEW target \in Things,
         Return(t, ok, new, target)
  PROVE  /\ call' \in [Threads -> CallRec \cup {Idle}]
         /\ call'[t] \in CallRec
         /\ call'[t].kind = call[t].kind /\ call'[t].fd = call[t].fd
         /\ call'[t].done = TRUE /\ call'[t].ok = ok
         /\ call'[t].new = new /\ call'[t].target = target
         /\ \A u \in Threads : u # t => call'[u] = call[u]
<1> DEFINE c == call[t]
           d == [c EXCEPT !.done = TRUE, !.ok = ok, !.new = new, !.target = target]
<1>1. call' = [call EXCEPT ![t] = d]
  BY DEF Return
<1>2. /\ d \in CallRec /\ d.kind = c.kind /\ d.fd = c.fd /\ d.done = TRUE /\ d.ok = ok
      /\ d.new = new /\ d.target = target
  BY DEF CallRec
<1> HIDE DEF d, c
<1>3. call'[t] = d /\ \A u \in Threads : u # t => call'[u] = call[u]
  BY <1>1
<1>4. call' \in [Threads -> CallRec \cup {Idle}]
  BY <1>1, <1>2
<1> QED BY <1>2, <1>3, <1>4 DEF c

-----------------------------------------------------------------------------
(* What each step does.                                                    *)

\* An enter handler saves the argument of its own call, of a gated one only if it
\* found the descriptor in the map.
EnterEffect(t, k, f) ==
  /\ call' \in [Threads -> CallRec \cup {Idle}]
  /\ call'[t] = Entered(k, f)
  /\ \A u \in Threads : u # t => call'[u] = call[u]
  /\ \A x \in DOMAIN network_enter_state' :
       \/ x \in DOMAIN network_enter_state /\ network_enter_state'[x] = network_enter_state[x]
       \/ /\ x = <<t, k>> /\ network_enter_state'[x] = f
          /\ k \in Gated => f \in socket_fd_state
  /\ upsets \subseteq upsets'
  /\ upsets' = {} =>
       /\ k \in Gated /\ f \notin socket_fd_state =>
            network_enter_state' = network_enter_state
       /\ ~(k \in Gated /\ f \notin socket_fd_state) =>
            DOMAIN network_enter_state' = DOMAIN network_enter_state \cup {<<t, k>>}

\* SysEnter does that.
LEMMA EnterDoes ==
  ASSUME OpenInv, NEW t \in Threads, NEW k \in Kinds, NEW f \in Fds \cup {NoFd},
         SysEnter(t, k, f)
  PROVE  EnterEffect(t, k, f)
<1> DEFINE x == <<t, k>>
           nes == network_enter_state
<1>1. /\ call' \in [Threads -> CallRec \cup {Idle}]
      /\ call'[t] = Entered(k, f)
      /\ \A u \in Threads : u # t => call'[u] = call[u]
  BY EnteredFacts DEF OpenInv, SysEnter
<1>2. x \notin DOMAIN nes
  BY DEF OpenInv, SavedOK, SysEnter
<1> HIDE DEF x
<1>3. /\ \A y \in DOMAIN nes' :
           \/ y \in DOMAIN nes /\ nes'[y] = nes[y]
           \/ y = x /\ nes'[y] = f /\ (k \in Gated => f \in socket_fd_state)
      /\ upsets \subseteq upsets'
      /\ upsets' = {} => /\ k \in Gated /\ f \notin socket_fd_state => nes' = nes
                         /\ ~(k \in Gated /\ f \notin socket_fd_state) =>
                              DOMAIN nes' = DOMAIN nes \cup {x}
  <2>1. CASE k \in Gated /\ f \notin socket_fd_state
    BY <2>1 DEF SysEnter, EnterHandler, is_socket_fd
  <2>2. CASE ~(k \in Gated /\ f \notin socket_fd_state)
    <3>1. SaveNetworkEnterState(x, f)
      BY <2>2 DEF SysEnter, EnterHandler, is_socket_fd, x
    <3>2. CASE nes' = With(nes, x, f) /\ UNCHANGED upsets
      BY <2>2, <3>2 DEF With
    <3>3. CASE Strike("loss") /\ UNCHANGED nes
      BY <3>3 DEF Strike
    <3>4. CASE Strike("loss") /\ \E y \in DOMAIN nes : nes' = With(Without(nes, y), x, f)
      BY <2>2, <3>4 DEF Strike, With, Without
    <3> QED BY <1>2, <3>1, <3>2, <3>3, <3>4 DEF SaveNetworkEnterState
  <2> QED BY <2>1, <2>2
<1> QED
  BY <1>1, <1>3 DEF x, EnterEffect

\* The kernel's part changes the call record and the real table, nothing else.  A
\* call that has made descriptors has succeeded, and they were free.
LEMMA KernelDoes ==
  ASSUME OpenInv, NEW t \in Threads, Kernel(t)
  PROVE  /\ call' \in [Threads -> CallRec \cup {Idle}]
         /\ call[t] # Idle /\ ~call[t].done /\ CallOK(call[t]) /\ CallOK(call[t])'
         /\ call'[t].kind = call[t].kind /\ call'[t].fd = call[t].fd /\ call'[t].done
         /\ \A u \in Threads : u # t => call'[u] = call[u]
         /\ opened \subseteq opened' /\ opened' \subseteq Fds
         /\ fds' \in [Fds -> Things]
         /\ call[t].fd \in Fds => call'[t].target = fds[call[t].fd]
         /\ \A f \in News(call'[t]) : fds[f] = "none" /\ fds'[f] = "sock"
         /\ \A f \in Fds \ News(call'[t]) :
              \/ fds'[f] = fds[f] /\ ~Closing(t, f)'
              \/ fds'[f] = "none" /\ Closing(t, f)'
<1> DEFINE c == call[t]
           d == call'[t]
<1>1. /\ c # Idle /\ ~c.done /\ CallOK(c) /\ c \in CallRec
      /\ call \in [Threads -> CallRec \cup {Idle}] /\ fds \in [Fds -> Things] /\ opened \subseteq Fds
  BY DEF OpenInv, Kernel, Fail, Create, Close, Use, InKernel, CallOK
<1>2. /\ c.kind \in Kinds /\ c.fd \in Fds \cup {NoFd} /\ (c.fd = NoFd <=> c.kind \in Creating)
      /\ <<>> \in Seq(Fds) /\ "none" \in Things /\ "sock" \in Things
  BY <1>1 DEF CallOK, CallRec, Things
<1> DEFINE Same == /\ call' \in [Threads -> CallRec \cup {Idle}]
                   /\ d \in CallRec /\ d.kind = c.kind /\ d.fd = c.fd /\ d.done = TRUE
                   /\ \A u \in Threads : u # t => call'[u] = call[u]
                   /\ c.fd \in Fds => d.target = fds[c.fd]
           Table == /\ opened \subseteq opened' /\ opened' \subseteq Fds
                    /\ fds' \in [Fds -> Things]
                    /\ \A f \in News(d) : fds[f] = "none" /\ fds'[f] = "sock"
                    /\ \A f \in Fds \ News(d) :
                         \/ fds'[f] = fds[f] /\ ~Closing(t, f)'
                         \/ fds'[f] = "none" /\ Closing(t, f)'
<1>4. ASSUME NEW ok \in BOOLEAN, NEW target \in Things, Return(t, ok, <<>>, target),
             c.fd \in Fds => target = fds[c.fd],
             ok => c.kind \notin Creating \cup Accepting
      PROVE  Same /\ CallOK(call[t])' /\ News(d) = {} /\ d.ok = ok
  <2>1. /\ call' \in [Threads -> CallRec \cup {Idle}]
        /\ d \in CallRec /\ d.kind = c.kind /\ d.fd = c.fd /\ d.done = TRUE
        /\ d.ok = ok /\ d.new = <<>> /\ d.target = target
        /\ \A u \in Threads : u # t => call'[u] = call[u]
    <3>1. PICK new \in Seq(Fds) : new = <<>>
      BY <1>2
    <3>2. Return(t, ok, new, target)
      BY <1>4, <3>1
    <3>3. call \in [Threads -> CallRec \cup {Idle}] /\ call[t] \in CallRec
      BY <1>1
    <3>4. /\ call' \in [Threads -> CallRec \cup {Idle}]
          /\ d \in CallRec /\ d.kind = c.kind /\ d.fd = c.fd /\ d.done = TRUE
          /\ d.ok = ok /\ d.new = new /\ d.target = target
          /\ \A u \in Threads : u # t => call'[u] = call[u]
      BY <3>2, <3>3, ReturnFacts
    <3> QED BY ONLY <3>1, <3>4
  <2>2. News(d) = {}
    BY <2>1 DEF News
  <2> QED BY <1>2, <1>4, <2>1, <2>2 DEF CallOK, News
<1>5. CASE Fail(t)
  <2>1. UNCHANGED <<fds, opened>> /\ FALSE \in BOOLEAN
    BY <1>5 DEF Fail
  <2>2. PICK target \in Things : /\ Return(t, FALSE, <<>>, target)
                                 /\ c.fd \in Fds => target = fds[c.fd]
    <3>1. (IF c.fd \in Fds THEN fds[c.fd] ELSE "none") \in Things
      BY <1>1, <1>2
    <3> QED BY <1>5, <3>1 DEF Fail
  <2>3. Same /\ CallOK(call[t])' /\ News(d) = {} /\ d.ok = FALSE
    BY <1>4, <2>1, <2>2
  <2>4. Table
    BY <1>1, <2>1, <2>3 DEF Closing
  <2> QED BY <1>1, <2>3, <2>4
<1>6. CASE Close(t)
  <2>1. /\ c.kind = "close" /\ fds' = [fds EXCEPT ![c.fd] = "none"] /\ UNCHANGED opened
        /\ Return(t, TRUE, <<>>, fds[c.fd]) /\ TRUE \in BOOLEAN
    BY <1>6 DEF Close
  <2>2. c.kind \notin Creating \cup Accepting /\ c.fd \in Fds
    BY <1>2, <2>1 DEF Creating, Accepting
  <2>3. fds[c.fd] \in Things
    BY <1>1, <2>2
  <2>4. Same /\ CallOK(call[t])' /\ News(d) = {} /\ d.ok = TRUE
    BY <1>4, <2>1, <2>2, <2>3
  <2>5. d # Idle
    BY <2>4, CallFacts
  <2>6. Table
    BY <1>1, <1>2, <2>1, <2>2, <2>4, <2>5 DEF Closing
  <2> QED BY <1>1, <2>4, <2>6
<1>7. CASE Use(t)
  <2>1. /\ c.kind \notin Creating \cup Accepting \cup {"close"} /\ UNCHANGED <<fds, opened>>
        /\ Return(t, TRUE, <<>>, fds[c.fd]) /\ TRUE \in BOOLEAN
    BY <1>7 DEF Use
  <2>2. c.fd \in Fds
    BY <1>2, <2>1
  <2>3. fds[c.fd] \in Things
    BY <1>1, <2>2
  <2>4. Same /\ CallOK(call[t])' /\ News(d) = {} /\ d.ok = TRUE
    BY <1>4, <2>1, <2>2, <2>3
  <2>5. Table
    BY <1>1, <2>1, <2>4 DEF Closing
  <2> QED BY <1>1, <2>4, <2>5
<1>8. CASE Create(t)
  <2>1. PICK f \in LowestFree(fds) :
        \E g \in IF c.kind = "socketpair" THEN LowestFree([fds EXCEPT ![f] = "sock"]) ELSE {f} :
          /\ fds' = [fds EXCEPT ![f] = "sock", ![g] = "sock"]
          /\ opened' = opened \cup {f, g}
          /\ Return(t, TRUE, IF g = f THEN <<f>> ELSE <<f, g>>,
                    IF c.fd \in Fds THEN fds[c.fd] ELSE "sock")
    BY <1>8 DEF Create
  <2>2. PICK g \in IF c.kind = "socketpair" THEN LowestFree([fds EXCEPT ![f] = "sock"]) ELSE {f} :
          /\ fds' = [fds EXCEPT ![f] = "sock", ![g] = "sock"]
          /\ opened' = opened \cup {f, g}
          /\ Return(t, TRUE, IF g = f THEN <<f>> ELSE <<f, g>>,
                    IF c.fd \in Fds THEN fds[c.fd] ELSE "sock")
    BY <2>1
  <2>3. f \in Fds /\ fds[f] = "none" /\ g \in Fds /\ fds[g] = "none"
    <3>1. f \in Fds /\ fds[f] = "none"
      BY DEF LowestFree
    <3>2. CASE c.kind = "socketpair"
      <4>1. g \in Fds /\ [fds EXCEPT ![f] = "sock"][g] = "none"
        BY <2>2, <3>2 DEF LowestFree
      <4> QED BY <1>1, <3>1, <4>1
    <3>3. CASE c.kind # "socketpair"
      BY <2>2, <3>1, <3>3
    <3> QED BY <3>1, <3>2, <3>3
  <2> DEFINE new == IF g = f THEN <<f>> ELSE <<f, g>>
             target == IF c.fd \in Fds THEN fds[c.fd] ELSE "sock"
  <2>4. new \in Seq(Fds) /\ target \in Things /\ TRUE \in BOOLEAN
    BY <1>1, <1>2, <2>3
  <2>5. Len(new) \in {1, 2} /\ {new[i] : i \in DOMAIN new} = {f, g} /\ new # <<>>
    <3>1. CASE g = f
      <4>1. new = <<f>>
        BY <3>1
      <4> HIDE DEF new
      <4> QED BY <3>1, <4>1
    <3>2. CASE g # f
      <4>1. new = <<f, g>>
        BY <3>2
      <4> HIDE DEF new
      <4>2. DOMAIN new = {1, 2} /\ new[1] = f /\ new[2] = g /\ Len(new) = 2
        BY <4>1
      <4> QED BY <4>1, <4>2
    <3> QED BY <3>1, <3>2
  <2>6. Return(t, TRUE, new, target) /\ (c.fd \in Fds => target = fds[c.fd])
    BY <2>2
  <2> HIDE DEF new, target
  <2>7. /\ call' \in [Threads -> CallRec \cup {Idle}]
        /\ d \in CallRec /\ d.kind = c.kind /\ d.fd = c.fd /\ d.done = TRUE
        /\ d.ok = TRUE /\ d.new = new /\ d.target = target
        /\ \A u \in Threads : u # t => call'[u] = call[u]
    BY <1>1, <2>4, <2>6, ReturnFacts
  <2>8. News(d) = {f, g}
    BY <2>5, <2>7 DEF News
  <2>9. c.kind \in Creating \cup Accepting /\ c.kind # "close"
    BY <1>8 DEF Create, Creating, Accepting
  <2>10. CallOK(call[t])'
    BY <1>2, <2>2, <2>5, <2>7, <2>8, <2>9 DEF CallOK, News
  <2>11. \A h \in Fds : fds'[h] = IF h \in {f, g} THEN "sock" ELSE fds[h]
    BY <1>1, <2>2, <2>3
  <2>12. fds' \in [Fds -> Things]
    BY <1>1, <1>2, <2>2, <2>3
  <2>13. Table
    BY <2>2, <2>3, <1>1, <2>7, <2>8, <2>9, <2>11, <2>12 DEF Closing
  <2> QED BY <1>1, <2>6, <2>7, <2>10, <2>13
<1> QED
  BY <1>5, <1>6, <1>7, <1>8 DEF Kernel

\* TrackNew adds the descriptors a call has made.
LEMMA TrackNewAdds ==
  ASSUME NEW S, NEW c \in CallRec, Len(c.new) \in {1, 2}
  PROVE  TrackNew(S, c.new) = S \cup News(c)
<1> DEFINE new == c.new
<1>1. new \in Seq(Fds) /\ DOMAIN new = 1 .. Len(new)
  BY DEF CallRec
<1>2. CASE Len(new) = 1
  <2>1. News(c) = {new[1]}
    BY <1>1, <1>2 DEF News
  <2> QED BY <1>2, <2>1 DEF TrackNew, add_socket_fd
<1>3. CASE Len(new) = 2
  <2>1. DOMAIN new = {1, 2}
    BY <1>1, <1>3
  <2>2. News(c) = {new[1], new[2]}
    BY <2>1 DEF News
  <2> QED BY <1>3, <2>2 DEF TrackNew, add_socket_fd
<1> QED BY <1>2, <1>3

\* An exit handler takes its saved argument out and reports the call; if nothing
\* goes wrong it also brings the map up to date.
LEMMA ExitDoes ==
  ASSUME OpenInv, NEW t \in Threads, SysExit(t)
  PROVE  /\ call[t] # Idle /\ call[t].done /\ CallOK(call[t])
         /\ call' \in [Threads -> CallRec \cup {Idle}] /\ call'[t] = Idle
         /\ \A u \in Threads : u # t => call'[u] = call[u]
         /\ DOMAIN network_enter_state' = DOMAIN network_enter_state \ {<<t, call[t].kind>>}
         /\ \A x \in DOMAIN network_enter_state' : network_enter_state'[x] = network_enter_state[x]
         /\ PairsIntact' => socket_fd_state' \subseteq socket_fd_state \cup News(call[t])
         /\ last'.kind = call[t].kind /\ last'.target = call[t].target
         /\ last'.emitted \in BOOLEAN
         /\ last'.emitted => Saved(t) /\ last'.fd = call[t].fd
         /\ upsets \subseteq upsets'
         /\ upsets' = {} =>
              /\ Saved(t) => last'.emitted
              /\ ~Saved(t) => socket_fd_state' = socket_fd_state
              /\ Saved(t) /\ Closing(t, call[t].fd) =>
                   socket_fd_state' = socket_fd_state \ {call[t].fd}
              /\ Saved(t) /\ ~Closing(t, call[t].fd) =>
                   socket_fd_state' = socket_fd_state \cup News(call[t])
<1> DEFINE c == call[t]
           x == <<t, c.kind>>
           nes == network_enter_state
<1>1. c # Idle /\ c.done /\ CallOK(c) /\ c \in CallRec /\ c.kind \in Kinds
  BY DEF OpenInv, SysExit, CallOK, CallRec
<1>2. /\ call' \in [Threads -> CallRec \cup {Idle}] /\ call'[t] = Idle
      /\ \A u \in Threads : u # t => call'[u] = call[u]
  BY DEF OpenInv, SysExit
<1>3. x \in DOMAIN nes => nes[x] = c.fd
  BY <1>1 DEF OpenInv, SavedOK
<1>4. Saved(t) <=> x \in DOMAIN nes
  BY DEF Saved
<1>5. Tracking(c, c.fd) = IF Closing(t, c.fd) THEN socket_fd_state \ {c.fd}
                          ELSE socket_fd_state \cup News(c)
  <2>1. CASE c.ok /\ c.kind \in Creating \cup Accepting
    <3>1. ~Closing(t, c.fd)
      BY <2>1 DEF Closing, Creating, Accepting
    <3>2. TrackNew(socket_fd_state, c.new) = socket_fd_state \cup News(c)
      BY <1>1, <2>1, TrackNewAdds DEF CallOK
    <3> QED BY <2>1, <3>1, <3>2 DEF Tracking
  <2>2. CASE ~(c.ok /\ c.kind \in Creating \cup Accepting)
    <3>1. c.new = <<>>
      BY <1>1, <2>2 DEF CallOK
    <3>2. News(c) = {}
      BY <3>1 DEF News
    <3> QED BY <1>1, <2>2, <3>2 DEF Tracking, Closing, delete_socket_fd
  <2> QED BY <2>1, <2>2
<1>6. EmitNetworkExitEvent(t)
  BY DEF SysExit
<1> DEFINE Out(sent) == last' = [kind |-> c.kind, target |-> c.target, emitted |-> sent,
                                 fd |-> IF sent THEN nes[x] ELSE c.fd]
<1>7. /\ Out(TRUE) => /\ last'.kind = c.kind /\ last'.target = c.target
                      /\ last'.emitted = TRUE /\ last'.fd = nes[x]
      /\ Out(FALSE) => /\ last'.kind = c.kind /\ last'.target = c.target
                       /\ last'.emitted = FALSE
  OBVIOUS
<1>8. \/ /\ x \notin DOMAIN nes /\ Out(FALSE)
         /\ UNCHANGED <<network_enter_state, socket_fd_state, upsets>>
      \/ /\ x \in DOMAIN nes /\ nes' = Without(nes, x)
         /\ Out(TRUE) /\ socket_fd_state' = Tracking(c, nes[x]) /\ UNCHANGED upsets
      \/ /\ x \in DOMAIN nes /\ nes' = Without(nes, x)
         /\ Strike("loss") /\ Out(FALSE) /\ UNCHANGED socket_fd_state
      \/ /\ x \in DOMAIN nes /\ nes' = Without(nes, x)
         /\ Strike("loss") /\ Out(TRUE)
         /\ \E i \in DOMAIN c.new :
              socket_fd_state' \in {socket_fd_state, add_socket_fd(socket_fd_state, c.new[i])}
      \/ /\ x \in DOMAIN nes /\ nes' = Without(nes, x)
         /\ Strike("overwrite") /\ Out(TRUE)
  BY <1>6 DEF EmitNetworkExitEvent
<1>9. nes' = Without(nes, x) => /\ DOMAIN nes' = DOMAIN nes \ {x}
                                /\ \A y \in DOMAIN nes' : nes'[y] = nes[y]
  BY DEF Without
<1>10. /\ Strike("loss") => upsets \subseteq upsets' /\ upsets' # {}
       /\ Strike("overwrite") => upsets \subseteq upsets' /\ upsets' # {} /\ ~PairsIntact'
  BY DEF Strike, PairsIntact
<1> HIDE DEF Out, x
<1>11. /\ DOMAIN nes' = DOMAIN nes \ {x} /\ \A y \in DOMAIN nes' : nes'[y] = nes[y]
       /\ last'.kind = c.kind /\ last'.target = c.target
       /\ last'.emitted \in BOOLEAN
       /\ last'.emitted => x \in DOMAIN nes /\ last'.fd = c.fd
       /\ upsets \subseteq upsets'
  BY <1>3, <1>7, <1>8, <1>9, <1>10
<1>12. PairsIntact' => socket_fd_state' \subseteq socket_fd_state \cup News(c)
  <2>1. \A i \in DOMAIN c.new : add_socket_fd(socket_fd_state, c.new[i]) \subseteq
                                  socket_fd_state \cup News(c)
    BY DEF add_socket_fd, News
  <2>2. Tracking(c, c.fd) \subseteq socket_fd_state \cup News(c)
    BY <1>5
  <2> QED BY <1>3, <1>8, <1>10, <2>1, <2>2
<1>13. upsets' = {} =>
         /\ x \in DOMAIN nes => last'.emitted /\ socket_fd_state' = Tracking(c, c.fd)
         /\ x \notin DOMAIN nes => socket_fd_state' = socket_fd_state
  BY <1>3, <1>7, <1>8, <1>10
<1> QED
  BY <1>1, <1>2, <1>4, <1>5, <1>11, <1>12, <1>13 DEF x

-----------------------------------------------------------------------------
(* OpenInv is inductive.                                                   *)

\* Nothing is tracked, saved or in progress at first.
LEMMA OpenInit == Init => OpenInv
<1> SUFFICES ASSUME Init PROVE OpenInv
  OBVIOUS
<1>1. fds \in [Fds -> Things]
  BY DEF Init, Things
<1>2. \A t \in Threads : call[t] = Idle
  BY DEF Init
<1>3. DOMAIN network_enter_state = {}
  BY DEF Init
<1>4. OnlyOpened
  BY DEF Init, OnlyOpened, NoCall
<1> QED
  BY <1>1, <1>2, <1>3, <1>4 DEF Init, OpenInv

\* A call in progress stays well formed as more descriptors are created.
LEMMA CallOKGrows ==
  ASSUME NEW t \in Threads, CallOK(call[t]), call'[t] = call[t], opened \subseteq opened'
  PROVE  CallOK(call[t])'
  BY DEF CallOK

\* OpenInv through each kind of step.
LEMMA OpenStep == OpenInv /\ [Next]_vars => OpenInv'
<1> SUFFICES ASSUME OpenInv, [Next]_vars PROVE OpenInv'
  OBVIOUS
<1>1. /\ fds \in [Fds -> Things]
      /\ call \in [Threads -> CallRec \cup {Idle}]
      /\ \A t \in Threads : call[t] # Idle => CallOK(call[t])
      /\ DOMAIN network_enter_state \subseteq Threads \X Kinds
      /\ \A t \in Threads, k \in Kinds : <<t, k>> \in DOMAIN network_enter_state => SavedOK(t, k)
      /\ opened \subseteq Fds /\ (PairsIntact => socket_fd_state \subseteq opened)
      /\ OnlyOpened
  BY DEF OpenInv, OnlyOpened
<1>2. ASSUME UNCHANGED <<call, network_enter_state, socket_fd_state, opened>>, PairsIntact' => PairsIntact,
             fds' \in [Fds -> Things],
             last' = NoCall \/ UNCHANGED last
      PROVE  OpenInv'
  <2>1. OnlyOpened'
    BY <1>1, <1>2 DEF OnlyOpened, NoCall
  <2>2. ASSUME NEW t \in Threads, call[t] # Idle PROVE CallOK(call[t])'
    BY <1>1, <1>2, <2>2, CallOKGrows
  <2>3. ASSUME NEW t \in Threads, NEW k \in Kinds, <<t, k>> \in DOMAIN network_enter_state
        PROVE  SavedOK(t, k)'
    BY <1>1, <1>2, <2>3 DEF SavedOK
  <2> QED BY <1>1, <1>2, <2>1, <2>2, <2>3 DEF OpenInv
<1>3. CASE UNCHANGED vars
  BY <1>1, <1>2, <1>3 DEF vars, PairsIntact
<1>4. ASSUME NEW t \in Threads, NEW k \in Kinds, NEW f \in Fds \cup {NoFd}, SysEnter(t, k, f)
      PROVE  OpenInv'
  <2>1. /\ call' \in [Threads -> CallRec \cup {Idle}]
        /\ call'[t] = Entered(k, f)
        /\ \A u \in Threads : u # t => call'[u] = call[u]
        /\ \A x \in DOMAIN network_enter_state' :
             \/ x \in DOMAIN network_enter_state /\ network_enter_state'[x] = network_enter_state[x]
             \/ /\ x = <<t, k>> /\ network_enter_state'[x] = f
                /\ k \in Gated => f \in socket_fd_state
        /\ PairsIntact' => PairsIntact
    <3>1. EnterEffect(t, k, f)
      BY <1>4, EnterDoes
    <3> QED BY <3>1 DEF EnterEffect, PairsIntact
  <2>2. /\ call[t] = Idle /\ (f = NoFd <=> k \in Creating)
        /\ UNCHANGED <<fds, socket_fd_state, opened>> /\ last' = NoCall
    BY <1>4 DEF SysEnter
  <2>3. CallOK(call[t])' /\ call'[t] # Idle
    BY <2>1, <2>2, EnteredFacts, CallFacts DEF CallOK
  <2>4. ASSUME NEW u \in Threads, u # t, call'[u] # Idle PROVE CallOK(call[u])'
    BY <1>1, <2>1, <2>2, <2>4, CallOKGrows
  <2>5. DOMAIN network_enter_state' \subseteq Threads \X Kinds
    BY <1>1, <2>1
  <2>6. ASSUME NEW u \in Threads, NEW l \in Kinds, <<u, l>> \in DOMAIN network_enter_state'
        PROVE  SavedOK(u, l)'
    <3>1. CASE <<u, l>> \in DOMAIN network_enter_state
               /\ network_enter_state'[<<u, l>>] = network_enter_state[<<u, l>>]
      <4>1. SavedOK(u, l) /\ u # t
        BY <1>1, <2>2, <3>1 DEF SavedOK
      <4> QED BY <2>1, <2>2, <3>1, <4>1 DEF SavedOK
    <3>2. CASE /\ <<u, l>> = <<t, k>> /\ network_enter_state'[<<u, l>>] = f
               /\ k \in Gated => f \in socket_fd_state
      <4>1. u = t /\ l = k
        BY <3>2
      <4> QED BY <1>1, <2>1, <2>2, <2>3, <3>2, <4>1, EnteredFacts DEF SavedOK
    <3> QED BY <2>1, <2>6, <3>1, <3>2
  <2>7. OnlyOpened'
    BY <1>1, <2>1, <2>2 DEF OnlyOpened, NoCall
  <2> QED BY <1>1, <2>1, <2>2, <2>3, <2>4, <2>5, <2>6, <2>7 DEF OpenInv
<1>5. ASSUME NEW t \in Threads, Kernel(t) PROVE OpenInv'
  <2>1. /\ call' \in [Threads -> CallRec \cup {Idle}]
        /\ call[t] # Idle /\ CallOK(call[t])' /\ call'[t] \in CallRec
        /\ call'[t].kind = call[t].kind /\ call'[t].fd = call[t].fd
        /\ \A u \in Threads : u # t => call'[u] = call[u]
        /\ opened \subseteq opened' /\ opened' \subseteq Fds
        /\ fds' \in [Fds -> Things]
    BY <1>5, KernelDoes DEF CallOK
  <2>2. /\ UNCHANGED <<network_enter_state, socket_fd_state>> /\ last' = NoCall
        /\ PairsIntact' => PairsIntact
    BY <1>5 DEF Kernel, PairsIntact
  <2>3. ASSUME NEW u \in Threads, u # t, call'[u] # Idle PROVE CallOK(call[u])'
    BY <1>1, <2>1, <2>3, CallOKGrows
  <2>4. ASSUME NEW u \in Threads, NEW l \in Kinds, <<u, l>> \in DOMAIN network_enter_state
        PROVE  SavedOK(u, l)'
    <3>1. SavedOK(u, l)
      BY <1>1, <2>4
    <3>2. call'[t] # Idle
      BY <2>1, CallFacts
    <3> QED BY <2>1, <2>2, <3>1, <3>2 DEF SavedOK
  <2>5. OnlyOpened'
    BY <1>1, <2>1, <2>2 DEF OnlyOpened, NoCall
  <2> QED BY <1>1, <2>1, <2>2, <2>3, <2>4, <2>5 DEF OpenInv
<1>6. ASSUME NEW t \in Threads, SysExit(t) PROVE OpenInv'
  <2>1. /\ call[t] # Idle /\ CallOK(call[t])
        /\ call' \in [Threads -> CallRec \cup {Idle}] /\ call'[t] = Idle
        /\ \A u \in Threads : u # t => call'[u] = call[u]
        /\ DOMAIN network_enter_state' = DOMAIN network_enter_state \ {<<t, call[t].kind>>}
        /\ \A x \in DOMAIN network_enter_state' : network_enter_state'[x] = network_enter_state[x]
        /\ PairsIntact' => socket_fd_state' \subseteq socket_fd_state \cup News(call[t])
        /\ last'.kind = call[t].kind
        /\ last'.emitted => Saved(t) /\ last'.fd = call[t].fd
        /\ upsets \subseteq upsets'
    BY <1>6, ExitDoes
  <2>2. UNCHANGED <<fds, opened>> /\ (PairsIntact' => PairsIntact)
    BY <1>6, <2>1 DEF SysExit, PairsIntact
  <2>3. ASSUME NEW u \in Threads, call'[u] # Idle PROVE CallOK(call[u])'
    BY <1>1, <2>1, <2>2, <2>3, CallOKGrows
  <2>4. ASSUME NEW u \in Threads, NEW l \in Kinds, <<u, l>> \in DOMAIN network_enter_state'
        PROVE  SavedOK(u, l)'
    <3>1. SavedOK(u, l) /\ <<u, l>> # <<t, call[t].kind>>
      BY <1>1, <2>1, <2>4
    <3>2. u # t
      BY <3>1 DEF SavedOK
    <3> QED BY <2>1, <2>2, <2>4, <3>1, <3>2 DEF SavedOK
  <2>5. OnlyOpened'
    <3>1. PairsIntact' => socket_fd_state' \subseteq opened'
      BY <1>1, <2>1, <2>2 DEF CallOK
    <3>2. ASSUME PairsIntact', last'.emitted, last'.kind \in Gated PROVE last'.fd \in opened'
      <4>1. call[t].kind \in Kinds /\ <<t, call[t].kind>> \in DOMAIN network_enter_state
        BY <2>1, <3>2 DEF Saved, CallOK, CallRec
      <4>2. SavedOK(t, call[t].kind)
        BY <1>1, <4>1
      <4> QED BY <2>1, <2>2, <3>2, <4>2 DEF SavedOK
    <3> QED BY <3>1, <3>2 DEF OnlyOpened
  <2> QED BY <1>1, <2>1, <2>2, <2>3, <2>4, <2>5 DEF OpenInv
<1>7. ASSUME NEW t \in Threads, OpenFile(t) PROVE OpenInv'
  <2>1. fds' \in [Fds -> Things]
    BY <1>1, <1>7 DEF OpenFile, Things
  <2> QED BY <1>2, <1>7, <2>1 DEF OpenFile, PairsIntact
<1>8. ASSUME NEW t \in Threads, NEW from \in Fds, NEW to \in Fds, Dup2(t, from, to) PROVE OpenInv'
  <2>1. fds' \in [Fds -> Things]
    BY <1>1, <1>8 DEF Dup2, Things
  <2> QED BY <1>2, <1>8, <2>1 DEF Dup2, Strike, PairsIntact
<1>9. CASE ProcessExit
  <2>1. fds' \in [Fds -> Things]
    BY <1>9 DEF ProcessExit, Things
  <2> QED BY <1>2, <1>9, <2>1 DEF ProcessExit, Strike, PairsIntact
<1> QED
  BY <1>3, <1>4, <1>5, <1>6, <1>7, <1>8, <1>9 DEF Next

\* Whatever is lost, replaced, reused or raced for, and for every number of
\* threads: a descriptor is in the map, and a gated event is reported for it, only
\* if the tgid created a socket under that number, unless the array of a socketpair
\* was overwritten before its exit handler (emit_network_exit_event) read it.
THEOREM SocketOnlyOpened == Spec => []OnlyOpened
<1>1. OpenInv => OnlyOpened
  BY DEF OpenInv
<1> QED
  BY <1>1, OpenInit, OpenStep, PTL DEF Spec

-----------------------------------------------------------------------------
(* CalmInv is inductive.                                                   *)

\* What a call has made or is closing is what it changes.
LEMMA ChangedFacts ==
  ASSUME NEW c \in CallRec, c.new # <<>> => c.kind \in Creating \cup Accepting
  PROVE  /\ c.fd \in Concerned(c) /\ News(c) \subseteq Concerned(c)
         /\ News(c) \subseteq Changed(c)
         /\ c.kind = "close" => c.fd \in Changed(c)
         /\ c.kind = "close" => News(c) = {}
<1>1. c # Idle
  BY CallFacts
<1>2. c.kind = "close" => News(c) = {}
  BY DEF News, Creating, Accepting
<1> QED
  BY <1>1, <1>2 DEF Concerned, Changed, News

\* Without contention the descriptors a call changes concern no other call.
LEMMA Apart ==
  ASSUME OpenInv, ~Contended, NEW t \in Threads, NEW u \in Threads, u # t, NEW f,
         Closing(t, f) \/ Opening(t, f)
  PROVE  /\ ~Closing(u, f) /\ ~Opening(u, f)
         /\ call[u] # Idle => call[u].fd # f
<1>1. Changed(call[t]) \cap Concerned(call[u]) = {}
  BY DEF Contended
<1>2. call[t] # Idle /\ CallOK(call[t])
  BY DEF Closing, Opening, OpenInv
<1>3. f \in Changed(call[t])
  BY <1>2, ChangedFacts DEF Closing, Opening, CallOK
<1>4. call[u] # Idle => CallOK(call[u])
  BY DEF OpenInv
<1>5. call[u] # Idle => call[u].fd \in Concerned(call[u]) /\ News(call[u]) \subseteq Concerned(call[u])
  BY <1>4, ChangedFacts DEF CallOK
<1> QED
  BY <1>1, <1>3, <1>5 DEF Closing, Opening

\* The same after a step of t that leaves the other calls alone.
LEMMA ApartNext ==
  ASSUME OpenInv, ~Contended', NEW t \in Threads, NEW u \in Threads, u # t, NEW f,
         call'[u] = call[u], call[t]' # Idle, CallOK(call[t])',
         Closing(t, f)' \/ Opening(t, f)'
  PROVE  /\ ~Closing(u, f) /\ ~Opening(u, f)
         /\ ~Closing(u, f)' /\ ~Opening(u, f)'
<1>1. Changed(call'[t]) \cap Concerned(call'[u]) = {}
  BY DEF Contended
<1>2. f \in Changed(call'[t])
  BY ChangedFacts DEF Closing, Opening, CallOK
<1>3. call[u] # Idle => CallOK(call[u])
  BY DEF OpenInv
<1>4. call[u] # Idle => call[u].fd \in Concerned(call[u]) /\ News(call[u]) \subseteq Concerned(call[u])
  BY <1>3, ChangedFacts DEF CallOK
<1> QED
  BY <1>1, <1>2, <1>4 DEF Closing, Opening

\* What CalmInv says when nothing has happened.
Orderly == /\ ~Contended
           /\ \A t \in Threads : call[t] # Idle => ThreadOK(t)
           /\ \A f \in Fds : FdOK(f)

\* A thread's call before the kernel has done its part changes nothing yet.
LEMMA Undone ==
  ASSUME OpenInv, NEW t \in Threads, call[t] = Idle \/ ~call[t].done, NEW f
  PROVE  ~Closing(t, f) /\ ~Opening(t, f)
<1>1. CASE call[t] = Idle
  BY <1>1 DEF Closing, Opening
<1>2. CASE call[t] # Idle /\ ~call[t].done
  <2>1. CallOK(call[t])
    BY <1>2 DEF OpenInv
  <2>2. ~call[t].ok /\ call[t].new = <<>>
    BY <1>2, <2>1 DEF CallOK, CallRec
  <2>3. News(call[t]) = {}
    BY <2>2 DEF News
  <2> QED BY <2>2, <2>3 DEF Closing, Opening
<1> QED BY <1>1, <1>2

\* Entering a call keeps the map and the table as they were.
LEMMA EnterCalm ==
  ASSUME OpenInv, Orderly, NEW t \in Threads, NEW k \in Kinds, NEW f \in Fds \cup {NoFd},
         SysEnter(t, k, f), Calm'
  PROVE  Orderly'
<1>1. EnterEffect(t, k, f)
  BY EnterDoes
<1>2. /\ call[t] = Idle /\ ~Contended' /\ upsets' = {}
      /\ UNCHANGED <<fds, socket_fd_state, opened>>
  BY DEF SysEnter, Calm
<1>3. /\ call'[t].kind = k /\ call'[t].fd = f /\ ~call'[t].done /\ ~call'[t].ok
      /\ News(call'[t]) = {}
  BY <1>1, EnteredFacts DEF EnterEffect
<1>4. \A u \in Threads : u # t => call'[u] = call[u]
  BY <1>1 DEF EnterEffect
<1>5. /\ k \in Gated /\ f \notin socket_fd_state => network_enter_state' = network_enter_state
      /\ ~(k \in Gated /\ f \notin socket_fd_state) =>
           DOMAIN network_enter_state' = DOMAIN network_enter_state \cup {<<t, k>>}
  BY <1>1, <1>2 DEF EnterEffect
<1>6. ASSUME NEW u \in Threads, call'[u] # Idle PROVE ThreadOK(u)'
  <2>1. CASE u # t
    <3>1. ThreadOK(u) /\ call'[u] = call[u]
      BY <1>4, <1>6, <2>1 DEF Orderly
    <3>2. Saved(u)' <=> Saved(u)
      BY <1>5, <2>1, <3>1 DEF Saved
    <3> QED BY <1>2, <3>1, <3>2 DEF ThreadOK
  <2>2. CASE u = t
    <3>1. <<t, k>> \notin DOMAIN network_enter_state
      BY <1>2 DEF OpenInv, SavedOK
    <3>2. Saved(t)' <=> ~(k \in Gated /\ f \notin socket_fd_state)
      BY <1>3, <1>5, <3>1 DEF Saved
    <3> QED BY <1>2, <1>3, <2>2, <3>2 DEF ThreadOK
  <2> QED BY <2>1, <2>2
<1>7. ASSUME NEW g \in Fds PROVE FdOK(g)'
  <2>1. \A u \in Threads : (Closing(u, g)' <=> Closing(u, g)) /\ (Opening(u, g)' <=> Opening(u, g))
    BY <1>2, <1>3, <1>4 DEF Closing, Opening
  <2>2. FdOK(g)
    BY DEF Orderly
  <2> QED BY <1>2, <2>1, <2>2 DEF FdOK
<1> QED
  BY <1>2, <1>6, <1>7 DEF Orderly

\* The kernel's part: a descriptor it makes or closes is now ahead of the map.
LEMMA KernelCalm ==
  ASSUME OpenInv, Orderly, NEW t \in Threads, Kernel(t), Calm'
  PROVE  Orderly'
<1> DEFINE c == call[t]
           d == call'[t]
<1>1. /\ c # Idle /\ ~c.done /\ CallOK(c) /\ CallOK(call[t])'
      /\ d.kind = c.kind /\ d.fd = c.fd /\ d.done
      /\ \A u \in Threads : u # t => call'[u] = call[u]
      /\ c.fd \in Fds => d.target = fds[c.fd]
      /\ \A f \in News(d) : fds[f] = "none" /\ fds'[f] = "sock"
      /\ \A f \in Fds \ News(d) :
           \/ fds'[f] = fds[f] /\ ~Closing(t, f)'
           \/ fds'[f] = "none" /\ Closing(t, f)'
  BY KernelDoes
<1>2. d \in CallRec /\ d # Idle
  BY <1>1, CallFacts DEF CallOK
<1>3. ~Contended' /\ UNCHANGED <<network_enter_state, socket_fd_state>>
  BY DEF Kernel, Calm
<1>4. \A f : ~Closing(t, f) /\ ~Opening(t, f)
  BY <1>1, Undone
<1>5. ASSUME NEW u \in Threads, call'[u] # Idle PROVE ThreadOK(u)'
  <2>1. CASE u # t
    <3>1. ThreadOK(u) /\ call'[u] = call[u]
      BY <1>1, <1>5, <2>1 DEF Orderly
    <3> QED BY <1>3, <3>1 DEF ThreadOK, Saved
  <2>2. CASE u = t
    <3>1. ThreadOK(t) /\ (Saved(t)' <=> Saved(t))
      BY <1>1, <1>3 DEF Orderly, Saved
    <3>2. ASSUME c.kind \in Gated PROVE Saved(t) <=> d.target = "sock"
      <4>1. c.fd \in Fds
        BY <1>1, <3>2, CallFacts DEF CallOK, CallRec
      <4>2. \A v \in Threads : ~Closing(v, c.fd) /\ ~Opening(v, c.fd)
        BY <1>1, <1>4, Apart DEF Orderly
      <4>3. c.fd \in socket_fd_state <=> fds[c.fd] = "sock"
        BY <4>1, <4>2 DEF Orderly, FdOK
      <4>4. Saved(t) <=> c.fd \in socket_fd_state
        BY <3>1, <3>2 DEF ThreadOK
      <4> QED BY <1>1, <4>1, <4>3, <4>4
    <3> QED BY <1>1, <1>3, <2>2, <3>1, <3>2 DEF ThreadOK
  <2> QED BY <2>1, <2>2
<1>6. ASSUME NEW f \in Fds PROVE FdOK(f)'
  <2>1. FdOK(f)
    BY DEF Orderly
  <2>2. \A u \in Threads : u # t => /\ Closing(u, f)' <=> Closing(u, f)
                                    /\ Opening(u, f)' <=> Opening(u, f)
    BY <1>1 DEF Closing, Opening
  <2>3. Opening(t, f)' <=> f \in News(d)
    BY <1>2 DEF Opening
  <2>4. ASSUME Closing(t, f)' \/ Opening(t, f)'
        PROVE  \A u \in Threads : u # t => /\ ~Closing(u, f) /\ ~Opening(u, f)
                                           /\ ~Closing(u, f)' /\ ~Opening(u, f)'
    BY <1>1, <1>2, <1>3, <2>4, ApartNext
  <2>5. CASE f \in News(d)
    <3>1. /\ Opening(t, f)' /\ fds[f] = "none" /\ fds'[f] = "sock"
      BY <1>1, <2>3, <2>5
    <3>2. f \notin socket_fd_state
      BY <1>4, <2>1, <2>4, <3>1 DEF FdOK
    <3>3. ~Closing(t, f)'
      <4>1. d.new # <<>>
        BY <2>5 DEF News
      <4>2. d.kind \in Creating \cup Accepting
        BY <1>1, <4>1 DEF CallOK
      <4> QED BY <4>2 DEF Closing, Creating, Accepting
    <3> QED BY <1>3, <2>4, <3>1, <3>2, <3>3 DEF FdOK
  <2>6. CASE f \notin News(d) /\ fds'[f] = fds[f] /\ ~Closing(t, f)'
    BY <1>3, <1>4, <2>1, <2>2, <2>3, <2>6 DEF FdOK
  <2>7. CASE f \notin News(d) /\ fds'[f] = "none" /\ Closing(t, f)'
    BY <1>3, <2>3, <2>4, <2>7 DEF FdOK
  <2> QED BY <1>1, <2>5, <2>6, <2>7
<1> QED
  BY <1>3, <1>5, <1>6 DEF Orderly

\* Returning from a call brings the map up to date with what the call has done.
LEMMA ExitCalm ==
  ASSUME OpenInv, Orderly, NEW t \in Threads, SysExit(t), Calm'
  PROVE  Orderly' /\ NoMislabel' /\ NothingMissed'
<1> DEFINE c == call[t]
<1>1. /\ c # Idle /\ c.done /\ CallOK(c)
      /\ call'[t] = Idle
      /\ \A u \in Threads : u # t => call'[u] = call[u]
      /\ DOMAIN network_enter_state' = DOMAIN network_enter_state \ {<<t, c.kind>>}
      /\ last'.kind = c.kind /\ last'.target = c.target
      /\ last'.emitted => Saved(t)
  BY ExitDoes
<1>2. UNCHANGED <<fds, raced>> /\ upsets' = {}
  BY DEF SysExit, Calm
<1>3. /\ Saved(t) => last'.emitted
      /\ ~Saved(t) => socket_fd_state' = socket_fd_state
      /\ Saved(t) /\ Closing(t, c.fd) => socket_fd_state' = socket_fd_state \ {c.fd}
      /\ Saved(t) /\ ~Closing(t, c.fd) => socket_fd_state' = socket_fd_state \cup News(c)
  BY <1>2, ExitDoes
<1>4. ThreadOK(t) /\ ~Contended
  BY <1>1 DEF Orderly
<1>5. \A f : ~Closing(t, f) /\ ~Opening(t, f) =>
               (f \in socket_fd_state' <=> f \in socket_fd_state)
  <2>1. \A f : Opening(t, f) <=> f \in News(c)
    BY <1>1 DEF Opening
  <2>2. CASE Saved(t) /\ Closing(t, c.fd)
    BY <1>3, <2>2
  <2>3. CASE Saved(t) /\ ~Closing(t, c.fd)
    BY <1>3, <2>1, <2>3
  <2>4. CASE ~Saved(t)
    BY <1>3, <2>4
  <2> QED BY <2>2, <2>3, <2>4
<1>6. ~Contended'
  <2>1. \A u \in Threads : \/ call'[u] = call[u]
                           \/ Changed(call'[u]) = {} /\ Concerned(call'[u]) = {}
    BY <1>1 DEF Changed, Concerned
  <2> QED BY <1>4, <2>1 DEF Contended
<1>7. ASSUME NEW u \in Threads, call'[u] # Idle PROVE ThreadOK(u)'
  <2>1. u # t /\ call'[u] = call[u] /\ ThreadOK(u)
    BY <1>1, <1>7 DEF Orderly
  <2>2. Saved(u)' <=> Saved(u)
    BY <1>1, <2>1 DEF Saved
  <2>3. call[u].fd \in socket_fd_state' <=> call[u].fd \in socket_fd_state
    <3>1. ~Closing(t, call[u].fd) /\ ~Opening(t, call[u].fd)
      BY <1>4, <1>7, <2>1, Apart
    <3> QED BY <1>5, <3>1
  <2> QED BY <2>1, <2>2, <2>3 DEF ThreadOK
<1>8. ASSUME NEW f \in Fds PROVE FdOK(f)'
  <2>1. FdOK(f)
    BY DEF Orderly
  <2>2. ~Closing(t, f)' /\ ~Opening(t, f)'
    BY <1>1 DEF Closing, Opening
  <2>3. \A u \in Threads : u # t => /\ Closing(u, f)' <=> Closing(u, f)
                                    /\ Opening(u, f)' <=> Opening(u, f)
    BY <1>1 DEF Closing, Opening
  <2>4. CASE ~Closing(t, f) /\ ~Opening(t, f)
    BY <1>2, <1>5, <2>1, <2>2, <2>3, <2>4 DEF FdOK
  <2>5. CASE Opening(t, f)
    <3>1. fds[f] = "sock" /\ f \in News(c) /\ c.new # <<>>
      BY <2>1, <2>5 DEF FdOK, Opening, News
    <3>2. c.kind \in Creating \cup Accepting
      BY <1>1, <3>1 DEF CallOK
    <3>3. Saved(t)
      BY <1>4, <3>2, CallFacts DEF ThreadOK
    <3>4. ~Closing(t, c.fd)
      BY <3>2 DEF Closing, Creating, Accepting
    <3>5. f \in socket_fd_state'
      BY <1>3, <3>1, <3>3, <3>4
    <3>6. \A u \in Threads : ~Closing(u, f)' /\ ~Opening(u, f)'
      BY <1>4, <2>2, <2>3, <2>5, Apart
    <3> QED BY <1>2, <3>1, <3>5, <3>6 DEF FdOK
  <2>6. CASE Closing(t, f)
    <3>1. fds[f] = "none" /\ f = c.fd /\ c.kind \in Gated
      BY <2>1, <2>6 DEF FdOK, Closing, Gated
    <3>2. f \notin socket_fd_state'
      BY <1>3, <1>4, <2>6, <3>1 DEF ThreadOK
    <3>3. \A u \in Threads : ~Closing(u, f)' /\ ~Opening(u, f)'
      BY <1>4, <2>2, <2>3, <2>6, Apart
    <3> QED BY <1>2, <3>1, <3>2, <3>3 DEF FdOK
  <2> QED BY <2>4, <2>5, <2>6
<1>9. NoMislabel' /\ NothingMissed'
  BY <1>1, <1>3, <1>4 DEF NoMislabel, NothingMissed, ThreadOK
<1> QED
  BY <1>6, <1>7, <1>8, <1>9 DEF Orderly

\* A file takes a free number that no call is about.
LEMMA OpenFileCalm ==
  ASSUME OpenInv, Orderly, NEW t \in Threads, OpenFile(t), Calm'
  PROVE  Orderly'
<1>1. PICK f \in LowestFree(fds) : /\ fds' = [fds EXCEPT ![f] = "file"]
                                   /\ raced' = (raced \/ \E u \in Threads : f \in Concerned(call[u]))
  BY DEF OpenFile
<1>2. f \in Fds /\ fds[f] = "none" /\ \A u \in Threads : f \notin Concerned(call[u])
  BY <1>1 DEF LowestFree, Calm
<1>3. UNCHANGED <<call, network_enter_state, socket_fd_state>>
  BY DEF OpenFile
<1>4. \A u \in Threads : ~Closing(u, f) /\ ~Opening(u, f)
  <2> SUFFICES ASSUME NEW u \in Threads, call[u] # Idle
               PROVE  ~Closing(u, f) /\ ~Opening(u, f)
    BY DEF Closing, Opening
  <2>1. CallOK(call[u])
    BY DEF OpenInv
  <2>2. call[u].fd \in Concerned(call[u]) /\ News(call[u]) \subseteq Concerned(call[u])
    BY <2>1, ChangedFacts DEF CallOK
  <2> QED BY <1>2, <2>2 DEF Closing, Opening
<1>5. ASSUME NEW g \in Fds PROVE FdOK(g)'
  <2>1. FdOK(g) /\ fds'[g] = IF g = f THEN "file" ELSE fds[g]
    BY <1>1, <1>2 DEF Orderly, OpenInv
  <2>2. \A u \in Threads : (Closing(u, g)' <=> Closing(u, g)) /\ (Opening(u, g)' <=> Opening(u, g))
    BY <1>3 DEF Closing, Opening
  <2>3. CASE g # f
    BY <1>3, <2>1, <2>2, <2>3 DEF FdOK
  <2>4. CASE g = f
    BY <1>2, <1>3, <1>4, <2>1, <2>2, <2>4 DEF FdOK
  <2> QED BY <2>3, <2>4
<1>6. \A u \in Threads : call'[u] # Idle => ThreadOK(u)'
  BY <1>3 DEF Orderly, ThreadOK, Saved
<1>7. ~Contended'
  BY <1>3 DEF Orderly, Contended
<1> QED
  BY <1>5, <1>6, <1>7 DEF Orderly

\* CalmInv through each kind of step.
LEMMA CalmStep == OpenInv /\ CalmInv /\ [Next]_vars => CalmInv'
<1> SUFFICES ASSUME OpenInv, CalmInv, [Next]_vars, Calm'
             PROVE  Orderly' /\ NoMislabel' /\ NothingMissed'
  BY DEF CalmInv, Orderly
<1>1. \A h : Strike(h) => FALSE
  BY DEF Strike, Calm
<1>2. ASSUME Calm PROVE Orderly /\ NoMislabel /\ NothingMissed
  BY <1>2 DEF CalmInv, Orderly
<1>3. ASSUME last' = NoCall PROVE NoMislabel' /\ NothingMissed'
  BY <1>3 DEF NoMislabel, NothingMissed, NoCall
<1>4. CASE UNCHANGED vars
  <2>1. Calm /\ UNCHANGED <<fds, call, network_enter_state, socket_fd_state, last, upsets, raced>>
    BY <1>4 DEF vars, Calm
  <2>2. Orderly /\ NoMislabel /\ NothingMissed
    BY <1>2, <2>1
  <2>3. \A f \in Fds : FdOK(f)'
    BY <2>1, <2>2 DEF Orderly, FdOK, Closing, Opening
  <2>4. \A t \in Threads : call'[t] # Idle => ThreadOK(t)'
    BY <2>1, <2>2 DEF Orderly, ThreadOK, Saved
  <2>5. ~Contended'
    BY <2>1, <2>2 DEF Orderly, Contended
  <2>6. NoMislabel' /\ NothingMissed'
    BY <2>1, <2>2 DEF NoMislabel, NothingMissed, Calm
  <2> QED BY <2>3, <2>4, <2>5, <2>6 DEF Orderly
<1>5. ASSUME NEW t \in Threads, NEW k \in Kinds, NEW f \in Fds \cup {NoFd}, SysEnter(t, k, f)
      PROVE  Orderly' /\ NoMislabel' /\ NothingMissed'
  <2>1. EnterEffect(t, k, f)
    BY <1>5, EnterDoes
  <2>2. upsets \subseteq upsets'
    BY <2>1 DEF EnterEffect
  <2>3. Calm /\ last' = NoCall
    BY <1>5, <2>2 DEF Calm, SysEnter
  <2> QED BY <1>2, <1>3, <1>5, <2>3, EnterCalm
<1>6. ASSUME NEW t \in Threads, Kernel(t) PROVE Orderly' /\ NoMislabel' /\ NothingMissed'
  <2>1. Calm /\ last' = NoCall
    BY <1>6 DEF Calm, Kernel
  <2> QED BY <1>2, <1>3, <1>6, <2>1, KernelCalm
<1>7. ASSUME NEW t \in Threads, SysExit(t) PROVE Orderly' /\ NoMislabel' /\ NothingMissed'
  <2>1. upsets \subseteq upsets'
    BY <1>7, ExitDoes
  <2>2. Calm
    BY <1>7, <2>1 DEF Calm, SysExit
  <2> QED BY <1>2, <1>7, <2>2, ExitCalm
<1>8. ASSUME NEW t \in Threads, OpenFile(t) PROVE Orderly' /\ NoMislabel' /\ NothingMissed'
  <2>1. Calm /\ last' = NoCall
    BY <1>8 DEF Calm, OpenFile
  <2> QED BY <1>2, <1>3, <1>8, <2>1, OpenFileCalm
<1>9. ASSUME NEW t \in Threads, NEW from \in Fds, NEW to \in Fds, Dup2(t, from, to) PROVE FALSE
  BY <1>1, <1>9 DEF Dup2
<1>10. CASE ProcessExit
  BY <1>1, <1>10 DEF ProcessExit
<1> QED
  BY <1>4, <1>5, <1>6, <1>7, <1>8, <1>9, <1>10 DEF Next

\* In the beginning the map and the set of created sockets are empty.
LEMMA CalmInit == Init => CalmInv
<1> SUFFICES ASSUME Init PROVE CalmInv
  OBVIOUS
<1>1. \A t \in Threads : call[t] = Idle
  BY DEF Init
<1>2. ~Contended
  BY <1>1 DEF Contended, Changed
<1>3. \A f \in Fds : FdOK(f)
  BY <1>1 DEF Init, FdOK, Closing, Opening
<1>4. NoMislabel /\ NothingMissed
  BY DEF Init, NoCall, NoMislabel, NothingMissed
<1> QED
  BY <1>1, <1>2, <1>3, <1>4 DEF CalmInv

\* As long as nothing has gone wrong the map is exact whenever no call is in
\* progress, for every number of threads and however their calls interleave.
THEOREM SocketTracked == Spec => []TrackedExact
<1>1. OpenInv /\ CalmInv => TrackedExact
  <2> SUFFICES ASSUME OpenInv, CalmInv, Calm, \A t \in Threads : call[t] = Idle
               PROVE  socket_fd_state = {f \in Fds : fds[f] = "sock"}
    BY DEF TrackedExact
  <2>1. \A f \in Fds : f \in socket_fd_state <=> fds[f] = "sock"
    BY DEF CalmInv, FdOK, Closing, Opening
  <2>2. socket_fd_state \subseteq Fds
    BY DEF OpenInv, OnlyOpened, PairsIntact, Calm
  <2> QED BY <2>1, <2>2
<1> QED
  BY <1>1, OpenInit, OpenStep, CalmInit, CalmStep, PTL DEF Spec

\* And no read, write or close of a regular file is reported as network activity.
THEOREM SocketNoMislabel == Spec => []NoMislabel
<1>1. CalmInv => NoMislabel
  BY DEF CalmInv, NoMislabel
<1> QED
  BY <1>1, OpenInit, OpenStep, CalmInit, CalmStep, PTL DEF Spec

\* And no call on a socket whose creation was seen goes unreported.
THEOREM SocketNothingMissed == Spec => []NothingMissed
<1>1. CalmInv => NothingMissed
  BY DEF CalmInv, NothingMissed
<1> QED
  BY <1>1, OpenInit, OpenStep, CalmInit, CalmStep, PTL DEF Spec
=============================================================================
