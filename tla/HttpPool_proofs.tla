--------------------------- MODULE HttpPool_proofs ---------------------------
(***************************************************************************)
(* ConnExclusive and NothingLost of HttpPool, for any number of workers,   *)
(* slots and descriptors.  As long as no slot was taken while its release  *)
(* was under way, a slot in use has one owner, and every open socket is in *)
(* one live slot or in one worker's hand; a slot whose socket was closed,  *)
(* and whose descriptor the kernel may have handed out again, is not live. *)
(***************************************************************************)
EXTENDS HttpPool, TLAPS

Owning == {"using", "closed", "emptied"}

\* Worker w owns a slot of the pool.
Owner(w) == pc[w] \in Owning /\ conn[w] # Heap

\* The slot's descriptor is that of its socket.
Live(s) == cfd[s] # "none" /\ \A w \in Workers : ~(pc[w] = "closed" /\ conn[w] = s)

\* Worker w has a socket that is in no slot.
InHand(w) == pc[w] \in {"place", "evict"} \/ (pc[w] = "using" /\ conn[w] = Heap)

\* A slot marked as in use has a user.
Users ==
  \A s \in Slots : in_use[s] = 1 => \E w \in Workers : conn[w] = s /\ pc[w] \in Owning

\* Slots have one owner, which is marked and finds its socket there.
Owners ==
  /\ \A w \in Workers : Owner(w) => in_use[conn[w]] = 1
  /\ \A v, w \in Workers : v # w /\ Owner(v) /\ Owner(w) => conn[v] # conn[w]
  /\ \A w \in Workers : pc[w] \in {"closed", "emptied"} => conn[w] # Heap
  /\ \A w \in Workers : pc[w] = "emptied" => cfd[conn[w]] = "none"
  /\ \A w \in Workers : pc[w] = "using" /\ conn[w] # Heap =>
       cfd[conn[w]] = fd[w] /\ cfd[conn[w]] # "none" /\ host[conn[w]] = up[w]

\* Sockets in slots are open and different.
Sockets ==
  /\ \A s \in Slots : Live(s) => cfd[s] \in open
  /\ \A r, s \in Slots : r # s /\ Live(r) /\ Live(s) => cfd[r] # cfd[s]

\* Sockets in hand are open, and different from each other and from those in slots.
Hands ==
  /\ \A w \in Workers : InHand(w) => fd[w] \in open
  /\ \A w \in Workers, s \in Slots : InHand(w) /\ Live(s) => cfd[s] # fd[w]
  /\ \A v, w \in Workers : v # w /\ InHand(v) /\ InHand(w) => fd[v] # fd[w]

\* An open socket is in a slot or in hand.
Accounted ==
  \A f \in open : \/ \E s \in Slots : Live(s) /\ cfd[s] = f
                  \/ \E w \in Workers : InHand(w) /\ fd[w] = f

\* What holds until a slot is taken in the middle of its release.
Sound == Owners /\ Sockets /\ Hands /\ Accounted

IInv == TypeOK /\ Users /\ (stolen \in BOOLEAN) /\ (~stolen => Sound)

\* The heap is no slot, and the host of an empty slot is an upstream.
LEMMA SlotFacts == Heap \notin Slots /\ SomeUpstream \in Upstreams
BY PoolAssumption DEF Heap, Slots, SomeUpstream

\* The initial states satisfy the invariant.
LEMMA InitInv == Init => IInv
<1> SUFFICES ASSUME Init PROVE IInv
  OBVIOUS
<1>1. TypeOK
  BY SlotFacts, PoolAssumption DEF Init, TypeOK, Points
<1>2. Users /\ stolen = FALSE
  BY DEF Init, Users
<1>3. Owners /\ Sockets /\ Hands /\ Accounted
  BY Zenon DEF Init, Owners, Owner, Owning, Sockets, Live, Hands, InHand, Accounted
<1>4. QED
  BY Zenon, <1>1, <1>2, <1>3 DEF IInv, Sound

\* What a worker that leaves the pool assigns.
LEMMA LeaveType ==
  ASSUME TypeOK, NEW w \in Workers, Leave(w)
  PROVE  /\ up' \in [Workers -> Upstreams] /\ exempt' \in [Workers -> BOOLEAN]
         /\ t0' \in [Workers -> 0 .. MaxTime] /\ fd' \in [Workers -> Fds \cup {"none"}]
         /\ conn' \in [Workers -> {Heap} \cup Slots] /\ pc' \in [Workers -> Points]
         /\ pc'[w] = "idle" /\ conn'[w] = Heap
         /\ \A v \in Workers : v # w => /\ pc'[v] = pc[v] /\ conn'[v] = conn[v]
                                        /\ fd'[v] = fd[v] /\ up'[v] = up[v]
BY SlotFacts, PoolAssumption DEF TypeOK, Leave, Points

-----------------------------------------------------------------------------
(* Acquire *)

\* The search for an idle connection, with its outcome.
LEMMA LookupInv ==
  ASSUME IInv, NEW w \in Workers, Begin(w) \/ Reuse(w) \/ NoReuse(w)
  PROVE  IInv'
<1> USE DEF Owning
<1>1. CASE Begin(w)
  <2>1. TypeOK' /\ stolen' = stolen
    BY Zenon, <1>1 DEF IInv, TypeOK, Begin, connVars, Points
  <2>2. Users'
    BY ZenonT(40), <1>1 DEF IInv, TypeOK, Begin, connVars, Users
  <2>3. ASSUME Sound PROVE Sound'
    <3>1. \A v \in Workers : /\ Owner(v)' <=> Owner(v)
                             /\ InHand(v)' <=> InHand(v)
                             /\ pc'[v] = "closed" <=> pc[v] = "closed"
                             /\ pc'[v] = "emptied" <=> pc[v] = "emptied"
                             /\ pc'[v] = "using" <=> pc[v] = "using"
                             /\ pc[v] = "using" => up'[v] = up[v]
      BY ZenonT(40), <1>1 DEF IInv, TypeOK, Begin, Owner, InHand
    <3>2. \A s \in Slots : Live(s)' <=> Live(s)
      BY Zenon, <1>1, <3>1 DEF Begin, connVars, Live
    <3>3. QED
      BY <1>1, <2>3, <3>1, <3>2 DEF Begin, connVars, Sound, Owners, Sockets, Hands, Accounted
  <2>4. QED
    BY Zenon, <2>1, <2>2, <2>3 DEF IInv
<1>2. CASE Reuse(w)
  <2> PICK s \in Candidates(w) :
         LET worn == {x \in Candidates(w) : x < s} IN
         /\ open' = open \ {cfd[x] : x \in worn}
         /\ cfd' = [x \in Slots |-> IF x \in worn THEN "none" ELSE cfd[x]]
         /\ in_use' = [in_use EXCEPT ![s] = 1]
         /\ last_used' = [last_used EXCEPT ![s] = t0[w]]
         /\ fd' = [fd EXCEPT ![w] = cfd[s]]
         /\ conn' = [conn EXCEPT ![w] = s]
    BY Zenon, <1>2 DEF Reuse
  <2> DEFINE worn == {x \in Candidates(w) : x < s}
  <2>1. /\ s \in Slots /\ cfd[s] # "none" /\ in_use[s] = 0 /\ host[s] = up[w] /\ s \notin worn
        /\ worn \subseteq {x \in Slots : cfd[x] # "none" /\ in_use[x] = 0}
        /\ pc[w] = "lookup" /\ pc' = [pc EXCEPT ![w] = "using"]
        /\ host' = host /\ up' = up /\ stolen' = stolen
    BY <1>2 DEF Candidates, Reuse, Slots
  <2>2. TypeOK'
    BY <1>2, <2>1 DEF IInv, TypeOK, Reuse, Points
  <2>3. Users'
    BY <2>1, SlotFacts DEF IInv, TypeOK, Users
  <2>4. ASSUME Sound PROVE Sound'
    <3>1. \A v \in Workers : v # w /\ Owner(v) => conn[v] # s /\ conn[v] \notin worn
      BY <2>1, <2>4 DEF Sound, Owners
    <3>2. \A v \in Workers : v # w => /\ pc'[v] = pc[v] /\ conn'[v] = conn[v] /\ fd'[v] = fd[v]
                                      /\ Owner(v)' <=> Owner(v)
                                      /\ InHand(v)' <=> InHand(v)
      BY ZenonT(40), <2>1 DEF IInv, TypeOK, Owner, InHand
    <3>3. /\ pc'[w] = "using" /\ conn'[w] = s /\ fd'[w] = cfd[s] /\ conn'[w] # Heap
          /\ ~InHand(w) /\ ~InHand(w)' /\ ~Owner(w) /\ Owner(w)'
      BY Zenon, <2>1, SlotFacts DEF IInv, TypeOK, InHand, Owner
    <3>4. /\ \A x \in Slots : x \in worn => Live(x) /\ cfd'[x] = "none"
          /\ \A x \in Slots : x \notin worn => cfd'[x] = cfd[x]
          /\ \A x \in Slots : Live(x)' <=> Live(x) /\ x \notin worn
      <4>1. \A x \in worn, v \in Workers : ~(pc[v] = "closed" /\ conn[v] = x)
        BY <2>1, <2>4, SlotFacts DEF Sound, Owners, Owner
      <4>2. \A x \in Slots : cfd'[x] = IF x \in worn THEN "none" ELSE cfd[x]
        OBVIOUS
      <4>3. \A v \in Workers : pc'[v] = "closed" <=> pc[v] = "closed"
        BY ZenonT(40), <2>1, <3>2, <3>3
      <4>4. QED
        BY <2>1, <3>2, <3>3, <4>1, <4>2, <4>3 DEF Live
    <3>5. Owners'
      BY SMTT(30), <2>1, <2>4, <3>1, <3>2, <3>3, <3>4 DEF IInv, TypeOK, Sound, Owners, Owner
    <3>6. open' = open \ {cfd[x] : x \in worn}
      BY SMTT(30)
    <3>7. Sockets' /\ Hands'
      BY SMTT(30), <2>1, <2>4, <3>2, <3>3, <3>4, <3>6 DEF Sound, Sockets, Hands
    <3>8. Accounted'
      BY <2>1, <2>4, <3>2, <3>3, <3>4, <3>6 DEF Sound, Accounted
    <3>9. QED
      BY Zenon, <3>5, <3>7, <3>8 DEF Sound
  <2>5. QED
    BY Zenon, <2>1, <2>2, <2>3, <2>4 DEF IInv
<1>3. CASE NoReuse(w)
  <2> DEFINE worn == Candidates(w)
  <2>1. /\ worn \subseteq {x \in Slots : cfd[x] # "none" /\ in_use[x] = 0}
        /\ pc[w] = "lookup" /\ pc' = [pc EXCEPT ![w] = "connect"]
        /\ open' = open \ {cfd[x] : x \in worn}
        /\ cfd' = [x \in Slots |-> IF x \in worn THEN "none" ELSE cfd[x]]
        /\ in_use' = in_use /\ host' = host /\ up' = up /\ fd' = fd /\ conn' = conn /\ stolen' = stolen
    BY Zenon, <1>3 DEF Candidates, NoReuse
  <2>2. TypeOK'
    BY Zenon, <1>3, <2>1 DEF IInv, TypeOK, NoReuse, Points
  <2>3. Users'
    BY ZenonT(40), <2>1 DEF IInv, TypeOK, Users
  <2> HIDE DEF worn
  <2>4. ASSUME Sound PROVE Sound'
    <3>1. \A v \in Workers : Owner(v) => conn[v] \notin worn
      BY <2>1, <2>4 DEF Sound, Owners
    <3>2. \A v \in Workers : /\ Owner(v)' <=> Owner(v)
                             /\ InHand(v)' <=> InHand(v)
                             /\ pc'[v] = "closed" <=> pc[v] = "closed"
                             /\ pc'[v] = "emptied" <=> pc[v] = "emptied"
                             /\ pc'[v] = "using" <=> pc[v] = "using"
      BY Zenon, <2>1 DEF IInv, TypeOK, Owner, InHand
    <3>3. /\ \A x \in Slots : x \in worn => Live(x) /\ cfd'[x] = "none"
          /\ \A x \in Slots : x \notin worn => cfd'[x] = cfd[x]
          /\ \A x \in Slots : Live(x)' <=> Live(x) /\ x \notin worn
      <4>1. \A x \in worn, v \in Workers : ~(pc[v] = "closed" /\ conn[v] = x)
        BY <2>1, <2>4, SlotFacts DEF Sound, Owners, Owner
      <4>2. QED
        BY Zenon, <2>1, <3>2, <4>1 DEF Live
    <3>4. Owners'
      BY <2>1, <2>4, <3>1, <3>2, <3>3 DEF IInv, TypeOK, Sound, Owners, Owner
    <3>5. Sockets' /\ Hands'
      BY <2>1, <2>4, <3>2, <3>3 DEF Sound, Sockets, Hands
    <3>6. Accounted'
      BY <2>1, <2>4, <3>2, <3>3 DEF Sound, Accounted
    <3>7. QED
      BY Zenon, <3>4, <3>5, <3>6 DEF Sound
  <2>5. QED
    BY Zenon, <2>1, <2>2, <2>3, <2>4 DEF IInv
<1>4. QED
  BY Zenon, <1>1, <1>2, <1>3

\* A step of w that leaves the slots alone, and neither opens nor closes a
\* socket, nor ends or begins the use of a slot.
LEMMA QuietInv ==
  ASSUME IInv, NEW w \in Workers, TypeOK',
         open' = open, cfd' = cfd, in_use' = in_use, host' = host, stolen' = stolen,
         pc[w] \notin Owning, pc'[w] \notin Owning,
         InHand(w)' <=> InHand(w), InHand(w) => fd'[w] = fd[w],
         \A v \in Workers : v # w => /\ pc'[v] = pc[v] /\ conn'[v] = conn[v]
                                     /\ fd'[v] = fd[v] /\ up'[v] = up[v]
  PROVE  IInv'
<1>1. Users'
  BY DEF IInv, Users
<1>2. ASSUME Sound PROVE Sound'
  <2>1. /\ ~Owner(w) /\ ~Owner(w)'
        /\ \A v \in Workers : v # w => (Owner(v)' <=> Owner(v)) /\ (InHand(v)' <=> InHand(v))
        /\ \A v \in Workers : (pc'[v] = "closed" <=> pc[v] = "closed")
                              /\ (pc[v] = "closed" => conn'[v] = conn[v])
    BY Zenon DEF Owner, InHand, Owning
  <2>2. \A s \in Slots : Live(s)' <=> Live(s)
    BY Zenon, <2>1 DEF Live
  <2>3. Owners'
    BY <1>2, <2>1 DEF Sound, Owners, Owning
  <2>4. Sockets' /\ Hands' /\ Accounted'
    BY <1>2, <2>1, <2>2 DEF Sound, Sockets, Hands, Accounted
  <2>5. QED
    BY Zenon, <2>3, <2>4 DEF Sound
<1>3. QED
  BY Zenon, <1>1, <1>2 DEF IInv

\* A step that takes slot s for the socket in w's hand: s has no live socket
\* any more, and unless that is a theft no owner either.
LEMMA TakeInv ==
  ASSUME IInv, NEW w \in Workers, NEW s \in Slots, TypeOK', Take(w, s),
         pc[w] \in {"place", "evict"}, fd' = fd, up' = up, stolen' \in BOOLEAN,
         ~stolen' => /\ ~stolen /\ in_use[s] = 0
                     /\ open' = IF Live(s) THEN open \ {cfd[s]} ELSE open
  PROVE  IInv'
<1> USE DEF Owning
<1>1. /\ pc' = [pc EXCEPT ![w] = "using"] /\ conn' = [conn EXCEPT ![w] = s]
      /\ cfd' = [cfd EXCEPT ![s] = fd[w]] /\ host' = [host EXCEPT ![s] = up[w]]
      /\ in_use' = [in_use EXCEPT ![s] = 1]
  BY Zenon DEF Take
<1>2. /\ pc'[w] = "using" /\ conn'[w] = s /\ s # Heap
      /\ \A v \in Workers : v # w => pc'[v] = pc[v] /\ conn'[v] = conn[v]
      /\ cfd'[s] = fd[w] /\ host'[s] = up[w] /\ in_use'[s] = 1
      /\ \A x \in Slots : x # s => cfd'[x] = cfd[x] /\ host'[x] = host[x] /\ in_use'[x] = in_use[x]
  BY <1>1, SlotFacts DEF IInv, TypeOK
<1>3. Users'
  BY <1>2 DEF IInv, Users
<1>4. ASSUME ~stolen' PROVE Sound'
  <2>1. /\ Sound /\ in_use[s] = 0 /\ fd[w] \in open /\ fd[w] # "none"
        /\ open' = IF Live(s) THEN open \ {cfd[s]} ELSE open
    BY Zenon, <1>4, PoolAssumption DEF IInv, TypeOK, Sound, Hands, InHand
  <2>2. \A v \in Workers : Owner(v) => conn[v] # s /\ v # w
    BY <2>1 DEF Sound, Owners, Owner
  <2>3. /\ Owner(w)' /\ InHand(w) /\ ~InHand(w)'
        /\ \A v \in Workers : v # w => (Owner(v)' <=> Owner(v)) /\ (InHand(v)' <=> InHand(v))
    BY Zenon, <1>2 DEF Owner, InHand
  <2>4. /\ Live(s)'
        /\ \A x \in Slots : x # s => (Live(x)' <=> Live(x))
    <3>1. \A v \in Workers : ~(pc'[v] = "closed" /\ conn'[v] = s)
      BY <1>2, <2>1, <2>2 DEF Sound, Owners, Owner
    <3>2. \A v \in Workers, x \in Slots : x # s =>
            (pc'[v] = "closed" /\ conn'[v] = x <=> pc[v] = "closed" /\ conn[v] = x)
      BY ZenonT(40), <1>2
    <3>3. QED
      BY <1>2, <2>1, <3>1, <3>2 DEF Live
  <2>5. Owners'
    <3>a. Owners /\ \A v \in Workers : Owner(v) => conn[v] \in Slots
      BY <2>1 DEF IInv, TypeOK, Sound, Owner
    <3>b. \A v \in Workers : v # w /\ Owner(v)' => conn'[v] = conn[v] /\ Owner(v) /\ conn[v] # s
      BY Zenon, <1>2, <2>2, <2>3
    <3>1. \A v \in Workers : Owner(v)' => in_use'[conn'[v]] = 1
      <4>1. ASSUME NEW v \in Workers, v # w, Owner(v)' PROVE in_use'[conn'[v]] = 1
        <5>1. conn'[v] = conn[v] /\ conn[v] \in Slots /\ conn[v] # s /\ in_use[conn[v]] = 1
          BY Zenon, <3>a, <3>b, <4>1 DEF Owners
        <5>2. QED
          BY <1>2, <5>1
      <4>2. QED
        BY <1>2, <4>1
    <3>2. \A u, v \in Workers : u # v /\ Owner(u)' /\ Owner(v)' => conn'[u] # conn'[v]
      <4>1. \A u, v \in Workers : u # v /\ Owner(u) /\ Owner(v) => conn[u] # conn[v]
        BY Zenon, <3>a DEF Owners
      <4>2. conn'[w] = s
        BY Zenon, <1>2
      <4>3. QED
        BY <3>b, <4>1, <4>2
    <3>3. \A v \in Workers : pc'[v] \in {"closed", "emptied"} => conn'[v] # Heap
      BY SMTT(30), <1>2, <3>a DEF Owners
    <3>4. \A v \in Workers : pc'[v] = "emptied" => cfd'[conn'[v]] = "none"
      BY SMTT(30), <1>2, <2>2, <3>a DEF Owners, Owner
    <3>5. \A v \in Workers : pc'[v] = "using" /\ conn'[v] # Heap =>
            cfd'[conn'[v]] = fd'[v] /\ cfd'[conn'[v]] # "none" /\ host'[conn'[v]] = up'[v]
      <4>1. ASSUME NEW v \in Workers, v # w, pc'[v] = "using", conn'[v] # Heap
            PROVE  cfd'[conn'[v]] = fd'[v] /\ cfd'[conn'[v]] # "none" /\ host'[conn'[v]] = up'[v]
        <5>1. pc[v] = "using" /\ conn'[v] = conn[v] /\ conn[v] # Heap
          BY Zenon, <1>2, <4>1
        <5>2. /\ conn[v] \in Slots /\ conn[v] # s
              /\ cfd[conn[v]] = fd[v] /\ cfd[conn[v]] # "none" /\ host[conn[v]] = up[v]
          BY Zenon, <2>2, <3>a, <5>1 DEF Owners, Owner
        <5>3. QED
          BY <1>2, <5>1, <5>2
      <4>2. fd[w] # "none"
        BY Zenon, <2>1
      <4>3. QED
        BY <1>2, <4>1, <4>2
    <3>6. QED
      BY Zenon, <3>1, <3>2, <3>3, <3>4, <3>5 DEF Owners
  <2>6. Sockets'
    BY SMTT(30), <1>2, <2>1, <2>3, <2>4 DEF Sound, Sockets, Hands
  <2>7. Hands'
    BY SMTT(30), <1>2, <2>1, <2>3, <2>4 DEF Sound, Sockets, Hands
  <2>8. Accounted'
    BY <1>2, <2>1, <2>3, <2>4 DEF Sound, Accounted
  <2>9. QED
    BY Zenon, <2>5, <2>6, <2>7, <2>8 DEF Sound
<1>5. QED
  BY Zenon, <1>3, <1>4 DEF IInv

\* Connecting, and the first search for an empty slot failing.
LEMMA ConnectInv ==
  ASSUME IInv, NEW w \in Workers, NoConnection(w) \/ Connect(w) \/ NoPlace(w)
  PROVE  IInv'
<1> USE DEF Owning
<1>1. CASE NoConnection(w)
  <2>1. Leave(w) /\ pc[w] = "connect" /\ UNCHANGED <<now, open, connVars, stolen>>
    BY Zenon, <1>1 DEF NoConnection
  <2>2. TypeOK'
    BY Zenon, <2>1, LeaveType DEF IInv, TypeOK, connVars
  <2>3. /\ pc'[w] = "idle" /\ ~InHand(w) /\ ~InHand(w)'
        /\ \A v \in Workers : v # w => /\ pc'[v] = pc[v] /\ conn'[v] = conn[v]
                                       /\ fd'[v] = fd[v] /\ up'[v] = up[v]
    BY Zenon, <2>1, LeaveType DEF IInv, InHand
  <2>4. QED
    BY Zenon, <2>1, <2>2, <2>3, QuietInv DEF connVars
<1>2. CASE Connect(w)
  <2> PICK f \in Fds \ open : open' = open \cup {f} /\ fd' = [fd EXCEPT ![w] = f]
    BY Zenon, <1>2 DEF Connect
  <2>1. /\ pc[w] = "connect" /\ pc' = [pc EXCEPT ![w] = "place"] /\ conn' = conn /\ up' = up
        /\ cfd' = cfd /\ in_use' = in_use /\ host' = host /\ stolen' = stolen
    BY Zenon, <1>2 DEF Connect, connVars
  <2>2. TypeOK'
    BY Zenon, <1>2, <2>1 DEF IInv, TypeOK, Connect, connVars, Points
  <2>3. Users'
    BY ZenonT(40), <2>1 DEF IInv, TypeOK, Users
  <2>4. ASSUME Sound PROVE Sound'
    <3>1. /\ ~Owner(w) /\ ~Owner(w)' /\ ~InHand(w) /\ InHand(w)' /\ fd'[w] = f /\ pc'[w] = "place"
          /\ \A v \in Workers : v # w => /\ pc'[v] = pc[v] /\ fd'[v] = fd[v]
                                         /\ Owner(v)' <=> Owner(v)
                                         /\ InHand(v)' <=> InHand(v)
      BY Zenon, <2>1 DEF IInv, TypeOK, Owner, InHand
    <3>2. \A s \in Slots : Live(s)' <=> Live(s)
      BY ZenonT(40), <2>1, <3>1 DEF Live
    <3>3. Owners'
      BY <2>1, <2>4, <3>1 DEF Sound, Owners
    <3>4. Sockets' /\ Hands'
      BY SMTT(30), <2>1, <2>4, <3>1, <3>2 DEF Sound, Sockets, Hands
    <3>5. Accounted'
      BY <2>1, <2>4, <3>1, <3>2 DEF Sound, Accounted
    <3>6. QED
      BY Zenon, <3>3, <3>4, <3>5 DEF Sound
  <2>5. QED
    BY Zenon, <2>1, <2>2, <2>3, <2>4 DEF IInv
<1>3. CASE NoPlace(w)
  <2>1. TypeOK'
    BY Zenon, <1>3 DEF IInv, TypeOK, NoPlace, connVars, Points
  <2>2. /\ pc[w] = "place" /\ pc'[w] = "evict" /\ InHand(w) /\ InHand(w)'
        /\ \A v \in Workers : v # w => pc'[v] = pc[v]
    BY Zenon, <1>3 DEF IInv, TypeOK, NoPlace, InHand
  <2>3. QED
    BY Zenon, <1>3, <2>1, <2>2, QuietInv DEF NoPlace, connVars
<1>4. QED
  BY Zenon, <1>1, <1>2, <1>3

\* A new socket goes to an empty slot or to one that is evicted.
LEMMA PlaceInv ==
  ASSUME IInv, NEW w \in Workers, Place(w) \/ Evict(w)
  PROVE  IInv'
<1>1. CASE Place(w)
  <2> PICK s \in Slots : /\ cfd[s] = "none" /\ Take(w, s)
                         /\ stolen' = (stolen \/ in_use[s] = 1)
    BY Zenon, <1>1 DEF Place
  <2>1. /\ pc[w] = "place" /\ open' = open /\ fd' = fd /\ up' = up /\ ~Live(s)
        /\ stolen' \in BOOLEAN /\ (~stolen' => ~stolen /\ in_use[s] = 0)
    BY Zenon, <1>1 DEF Place, Live, IInv, TypeOK
  <2>2. TypeOK'
    BY Zenon, <1>1 DEF IInv, TypeOK, Place, Take, Points
  <2>3. QED
    BY Zenon, <2>1, <2>2, TakeInv
<1>2. CASE Evict(w)
  <2> PICK s \in Evictable(w) : open' = open \ {cfd[s]} /\ Take(w, s)
    BY Zenon, <1>2 DEF Evict
  <2>1. s \in Slots /\ cfd[s] # "none" /\ in_use[s] = 0
    BY Zenon DEF Evictable
  <2>2. TypeOK'
    BY Zenon, <1>2, <2>1 DEF IInv, TypeOK, Evict, Take, Points
  <2>3. ~stolen => Live(s)
    BY <2>1, SlotFacts DEF IInv, Sound, Owners, Owner, Owning, Live
  <2>4. pc[w] = "evict" /\ fd' = fd /\ up' = up /\ stolen' = stolen /\ stolen \in BOOLEAN
    BY Zenon, <1>2 DEF Evict, IInv
  <2>5. QED
    BY Zenon, <2>1, <2>2, <2>3, <2>4, TakeInv
<1>3. QED
  BY Zenon, <1>1, <1>2

\* The worker closes the socket in its hand and leaves.
LEMMA DropInv ==
  ASSUME IInv, NEW w \in Workers, InHand(w), Leave(w), open' = open \ {fd[w]},
         UNCHANGED <<now, connVars, stolen>>
  PROVE  IInv'
<1>1. TypeOK'
  BY Zenon, LeaveType DEF IInv, TypeOK, connVars
<1>2. /\ pc'[w] = "idle" /\ conn'[w] = Heap
      /\ \A v \in Workers : v # w => /\ pc'[v] = pc[v] /\ conn'[v] = conn[v]
                                     /\ fd'[v] = fd[v] /\ up'[v] = up[v]
  BY Zenon, LeaveType DEF IInv
<1>3. /\ ~Owner(w) /\ ~Owner(w)' /\ ~InHand(w)'
      /\ \A v \in Workers : v # w => (Owner(v)' <=> Owner(v)) /\ (InHand(v)' <=> InHand(v))
  BY Zenon, <1>2 DEF Owner, Owning, InHand
<1>4. Users'
  <2>1. \A s \in Slots : conn[w] = s => pc[w] \notin Owning
    BY Zenon, SlotFacts DEF InHand, Owning
  <2>2. QED
    BY <1>2, <2>1 DEF IInv, Users, connVars
<1>5. ASSUME Sound PROVE Sound'
  <2>1. \A s \in Slots : Live(s)' <=> Live(s)
    BY ZenonT(40), <1>2 DEF Live, InHand, connVars
  <2>2. Owners'
    BY SMTT(30), <1>2, <1>3, <1>5 DEF Sound, Owners, connVars
  <2>3. Sockets' /\ Hands'
    BY <1>2, <1>3, <1>5, <2>1 DEF Sound, Sockets, Hands, connVars
  <2>4. Accounted'
    BY ZenonT(40), <1>2, <1>3, <1>5, <2>1 DEF Sound, Accounted, connVars
  <2>5. QED
    BY Zenon, <2>2, <2>3, <2>4 DEF Sound
<1>6. QED
  BY Zenon, <1>1, <1>4, <1>5 DEF IInv

\* A new socket stays outside the pool.
LEMMA OverflowInv ==
  ASSUME IInv, NEW w \in Workers, Overflow(w)
  PROVE  IInv'
<1>1. TypeOK' /\ stolen' = stolen
  BY Zenon DEF IInv, TypeOK, Overflow, connVars, Points
<1>2. /\ pc[w] = "evict" /\ pc'[w] = "using" /\ conn'[w] = Heap /\ fd' = fd /\ up' = up
      /\ \A v \in Workers : v # w => pc'[v] = pc[v] /\ conn'[v] = conn[v]
      /\ open' = open /\ cfd' = cfd /\ in_use' = in_use /\ host' = host
  BY Zenon DEF IInv, TypeOK, Overflow, connVars
<1>3. /\ ~Owner(w) /\ ~Owner(w)' /\ InHand(w) /\ InHand(w)'
      /\ \A v \in Workers : v # w => (Owner(v)' <=> Owner(v)) /\ (InHand(v)' <=> InHand(v))
  BY Zenon, <1>2 DEF Owner, Owning, InHand
<1>4. Users'
  BY <1>2 DEF IInv, Users, Owning
<1>5. ASSUME Sound PROVE Sound'
  <2>1. \A s \in Slots : Live(s)' <=> Live(s)
    BY Zenon, <1>2 DEF Live
  <2>2. Owners'
    BY <1>2, <1>3, <1>5 DEF Sound, Owners
  <2>3. Sockets' /\ Hands' /\ Accounted'
    BY <1>2, <1>3, <1>5, <2>1 DEF Sound, Sockets, Hands, Accounted
  <2>4. QED
    BY Zenon, <2>2, <2>3 DEF Sound
<1>6. QED
  BY Zenon, <1>1, <1>4, <1>5 DEF IInv

-----------------------------------------------------------------------------
(* Release *)

\* The owner of a slot marks it free and is its owner no longer: the slot has a
\* live socket that is returned, or none.
LEMMA FreeInv ==
  ASSUME IInv, NEW w \in Workers, NEW s \in Slots, TypeOK',
         Owner(w), conn[w] = s, pc[w] # "closed",
         pc'[w] \in {"returned", "idle"}, in_use' = [in_use EXCEPT ![s] = 0],
         \A v \in Workers : v # w => /\ pc'[v] = pc[v] /\ conn'[v] = conn[v]
                                     /\ fd'[v] = fd[v] /\ up'[v] = up[v],
         open' = open, cfd' = cfd, host' = host, stolen' = stolen
  PROVE  IInv'
<1>1. Users'
  BY DEF IInv, TypeOK, Users
<1>2. /\ ~Owner(w)' /\ ~InHand(w) /\ ~InHand(w)'
      /\ \A v \in Workers : v # w => (Owner(v)' <=> Owner(v)) /\ (InHand(v)' <=> InHand(v))
  BY Zenon, SlotFacts DEF Owner, Owning, InHand
<1>3. ASSUME Sound PROVE Sound'
  <2>1. \A x \in Slots : Live(x)' <=> Live(x)
    BY ZenonT(40) DEF Live
  <2>2. Owners'
    <3>1. \A v \in Workers : Owner(v)' => v # w /\ conn[v] # s /\ conn[v] \in Slots
      BY SMTT(30), <1>2, <1>3 DEF IInv, TypeOK, Sound, Owners, Owner
    <3>2. pc'[w] \notin {"closed", "emptied", "using"}
      BY SMTT(30)
    <3>3. \A v \in Workers : Owner(v)' => in_use'[conn'[v]] = 1
      <4>1. \A v \in Workers : Owner(v)' => conn'[v] = conn[v] /\ in_use[conn[v]] = 1
        BY Zenon, <1>2, <1>3, <3>1 DEF Sound, Owners
      <4>2. \A x \in Slots : x # s => in_use'[x] = in_use[x]
        BY Zenon DEF IInv, TypeOK
      <4>3. QED
        BY <3>1, <4>1, <4>2
    <3>4. \A u, v \in Workers : u # v /\ Owner(u)' /\ Owner(v)' => conn'[u] # conn'[v]
      BY SMTT(30), <1>2, <1>3, <3>1 DEF Sound, Owners
    <3>5. QED
      BY SMTT(30), <1>3, <3>2, <3>3, <3>4 DEF Sound, Owners
  <2>3. Sockets' /\ Hands' /\ Accounted'
    BY <1>2, <1>3, <2>1 DEF Sound, Sockets, Hands, Accounted
  <2>4. QED
    BY Zenon, <2>2, <2>3 DEF Sound
<1>4. QED
  BY Zenon, <1>1, <1>3 DEF IInv

\* Release returns a connection that may be used again.
LEMMA ReturnInv ==
  ASSUME IInv, NEW w \in Workers, ReturnConn(w) \/ StampConn(w)
  PROVE  IInv'
<1>1. CASE ReturnConn(w)
  <2>1. conn[w] \in Slots /\ Owner(w)
    BY Zenon, <1>1 DEF IInv, TypeOK, ReturnConn, Owner, Owning
  <2>2. TypeOK'
    BY Zenon, <1>1, <2>1 DEF IInv, TypeOK, ReturnConn, Points
  <2>3. /\ pc[w] = "using" /\ pc'[w] = "returned"
        /\ \A v \in Workers : v # w => /\ pc'[v] = pc[v] /\ conn'[v] = conn[v]
                                       /\ fd'[v] = fd[v] /\ up'[v] = up[v]
    BY Zenon, <1>1 DEF IInv, TypeOK, ReturnConn
  <2>4. QED
    BY Zenon, <1>1, <2>1, <2>2, <2>3, FreeInv DEF ReturnConn
<1>2. CASE StampConn(w)
  <2>1. Leave(w) /\ pc[w] = "returned"
    BY Zenon, <1>2 DEF StampConn
  <2>2. TypeOK'
    BY Zenon, <1>2, <2>1, LeaveType DEF IInv, TypeOK, StampConn
  <2>3. /\ pc'[w] = "idle" /\ ~InHand(w) /\ ~InHand(w)'
        /\ \A v \in Workers : v # w => /\ pc'[v] = pc[v] /\ conn'[v] = conn[v]
                                       /\ fd'[v] = fd[v] /\ up'[v] = up[v]
    BY Zenon, <2>1, LeaveType DEF IInv, InHand
  <2>4. QED
    BY Zenon, <1>2, <2>1, <2>2, <2>3, QuietInv DEF StampConn, Owning
<1>3. QED
  BY Zenon, <1>1, <1>2

\* Release closes the socket, the slot still naming it.
LEMMA CloseInv ==
  ASSUME IInv, NEW w \in Workers, CloseConn(w)
  PROVE  IInv'
<1> DEFINE s == conn[w]
<1>1. /\ s \in Slots /\ pc[w] = "using" /\ s # Heap
      /\ conn' = conn /\ up' = up /\ open' = open \ {cfd[s]}
      /\ cfd' = cfd /\ in_use' = in_use /\ host' = host /\ stolen' = stolen
      /\ pc'[w] = IF cfd[s] = "none" THEN "emptied" ELSE "closed"
      /\ \A v \in Workers : v # w => pc'[v] = pc[v] /\ fd'[v] = fd[v]
  BY Zenon DEF IInv, TypeOK, CloseConn, connVars
<1>2. TypeOK'
  BY ZenonT(40), <1>1 DEF IInv, TypeOK, CloseConn, connVars, Points
<1>3. Users'
  BY <1>1 DEF IInv, Users, Owning
<1>4. ASSUME Sound PROVE Sound'
  <2>1. cfd[s] # "none" /\ pc'[w] = "closed" /\ Live(s)
    BY Zenon, <1>1, <1>4 DEF Sound, Owners, Owner, Owning, Live
  <2>2. /\ Owner(w) /\ Owner(w)' /\ ~InHand(w) /\ ~InHand(w)'
        /\ \A v \in Workers : v # w => (Owner(v)' <=> Owner(v)) /\ (InHand(v)' <=> InHand(v))
    BY Zenon, <1>1, <2>1 DEF Owner, Owning, InHand
  <2>3. \A x \in Slots : Live(x)' <=> Live(x) /\ x # s
    BY ZenonT(60), <1>1, <2>1 DEF Live
  <2>4. Owners'
    <3>1. /\ \A v \in Workers : Owner(v)' => in_use'[conn'[v]] = 1
          /\ \A u, v \in Workers : u # v /\ Owner(u)' /\ Owner(v)' => conn'[u] # conn'[v]
      BY <1>1, <1>4, <2>2 DEF Sound, Owners
    <3>2. \A v \in Workers : pc'[v] \in {"closed", "emptied"} => conn'[v] # Heap
      BY Zenon, <1>1, <1>4, <2>1 DEF Sound, Owners
    <3>3. \A v \in Workers : pc'[v] = "emptied" => cfd'[conn'[v]] = "none"
      BY <1>1, <1>4, <2>1 DEF Sound, Owners
    <3>4. \A v \in Workers : pc'[v] = "using" /\ conn'[v] # Heap =>
            /\ cfd'[conn'[v]] = fd'[v] /\ cfd'[conn'[v]] # "none"
            /\ host'[conn'[v]] = up'[v]
      BY SMTT(30), <1>1, <1>4, <2>1 DEF Sound, Owners
    <3>5. QED
      BY ZenonT(40), <3>1, <3>2, <3>3, <3>4 DEF Owners
  <2>5. Sockets' /\ Hands'
    BY SMTT(30), <1>1, <1>4, <2>1, <2>2, <2>3 DEF Sound, Sockets, Hands
  <2>6. Accounted'
    BY <1>1, <1>4, <2>1, <2>2, <2>3 DEF Sound, Accounted
  <2>7. QED
    BY Zenon, <2>4, <2>5, <2>6 DEF Sound
<1>5. QED
  BY Zenon, <1>1, <1>2, <1>3, <1>4 DEF IInv

\* Release clears the slot's descriptor.
LEMMA EmptyInv ==
  ASSUME IInv, NEW w \in Workers, EmptyConn(w)
  PROVE  IInv'
<1> DEFINE s == conn[w]
<1>1. /\ pc[w] = "closed" /\ pc'[w] = "emptied"
      /\ conn' = conn /\ up' = up /\ fd' = fd /\ open' = open
      /\ cfd' = [cfd EXCEPT ![s] = "none"]
      /\ in_use' = in_use /\ host' = host /\ stolen' = stolen
      /\ \A v \in Workers : v # w => pc'[v] = pc[v]
  BY Zenon DEF IInv, TypeOK, EmptyConn
<1>2. TypeOK'
  <2>1. cfd' \in [Slots -> Fds \cup {"none"}]
    BY Zenon, <1>1 DEF IInv, TypeOK
  <2>2. pc' \in [Workers -> Points]
    BY Zenon DEF IInv, TypeOK, EmptyConn, Points
  <2>3. QED
    BY Zenon, <2>1, <2>2 DEF IInv, TypeOK, EmptyConn
<1>3. Users'
  BY <1>1 DEF IInv, Users, Owning
<1>4. ASSUME Sound PROVE Sound'
  <2>1. /\ s \in Slots /\ s # Heap /\ cfd'[s] = "none"
        /\ \A x \in Slots : x # s => cfd'[x] = cfd[x]
    BY Zenon, <1>1, <1>4 DEF IInv, TypeOK, Sound, Owners
  <2>2. /\ Owner(w) /\ Owner(w)' /\ ~InHand(w) /\ ~InHand(w)'
        /\ \A v \in Workers : v # w => (Owner(v)' <=> Owner(v)) /\ (InHand(v)' <=> InHand(v))
    BY Zenon, <1>1, <2>1 DEF Owner, Owning, InHand
  <2>3. \A x \in Slots : Live(x)' <=> Live(x)
    BY ZenonT(60), <1>1, <2>1 DEF Live
  <2>4. ~Live(s)
    BY Zenon, <1>1 DEF Live
  <2>5. Owners'
    <3>1. \A v \in Workers : v # w /\ Owner(v) => conn[v] # s /\ conn[v] \in Slots
      BY ZenonT(40), <1>4, <2>2 DEF IInv, TypeOK, Sound, Owners, Owner
    <3>2. \A v \in Workers : pc[v] \in Owning /\ conn[v] # Heap <=> Owner(v)
      BY Zenon DEF Owner
    <3>3. (\A v \in Workers : Owner(v)' => in_use'[conn'[v]] = 1)
          /\ \A u, v \in Workers : u # v /\ Owner(u)' /\ Owner(v)' => conn'[u] # conn'[v]
      BY ZenonT(60), <1>1, <1>4, <2>2 DEF Sound, Owners
    <3>4. \A v \in Workers : pc'[v] \in {"closed", "emptied"} => conn'[v] # Heap
      BY ZenonT(60), <1>1, <1>4, <2>1 DEF Sound, Owners
    <3>5. \A v \in Workers : pc'[v] = "emptied" => cfd'[conn'[v]] = "none"
      BY SMTT(30), <1>1, <1>4, <2>1, <3>1, <3>2 DEF Sound, Owners, Owning
    <3>6. \A v \in Workers : pc'[v] = "using" /\ conn'[v] # Heap =>
            /\ cfd'[conn'[v]] = fd'[v] /\ cfd'[conn'[v]] # "none"
            /\ host'[conn'[v]] = up'[v]
      BY SMTT(30), <1>1, <1>4, <2>1, <3>1, <3>2 DEF Sound, Owners, Owning
    <3>7. QED
      BY ZenonT(60), <3>3, <3>4, <3>5, <3>6 DEF Owners
  <2>6. \A x \in Slots : Live(x)' => Live(x) /\ x # s /\ cfd'[x] = cfd[x]
    BY Zenon, <2>1, <2>3, <2>4
  <2>7. Sockets'
    BY <1>1, <1>4, <2>6 DEF Sound, Sockets
  <2>8. Hands'
    BY SMTT(30), <1>1, <1>4, <2>2, <2>6 DEF Sound, Hands
  <2>9. Accounted'
    BY <1>1, <1>4, <2>1, <2>2, <2>3, <2>4 DEF Sound, Accounted
  <2>10. QED
    BY Zenon, <2>5, <2>7, <2>8, <2>9 DEF Sound
<1>5. QED
  BY Zenon, <1>1, <1>2, <1>3, <1>4 DEF IInv

\* Release clears the slot's in_use.
LEMMA FreeConnInv ==
  ASSUME IInv, NEW w \in Workers, FreeConn(w)
  PROVE  IInv'
<1>1. Leave(w) /\ pc[w] = "emptied"
  BY Zenon DEF FreeConn
<1>2. TypeOK'
  BY Zenon, <1>1, LeaveType DEF IInv, TypeOK, FreeConn
<1>3. /\ pc'[w] = "idle"
      /\ \A v \in Workers : v # w => /\ pc'[v] = pc[v] /\ conn'[v] = conn[v]
                                     /\ fd'[v] = fd[v] /\ up'[v] = up[v]
  BY Zenon, <1>1, LeaveType DEF IInv
<1>4. CASE conn[w] \in Slots
  <2>1. Owner(w)
    BY Zenon, <1>1, <1>4, SlotFacts DEF Owner, Owning
  <2>2. QED
    BY Zenon, <1>1, <1>2, <1>3, <1>4, <2>1, FreeInv DEF FreeConn
<1>5. CASE conn[w] \notin Slots
  <2>1. stolen /\ stolen' = stolen
    BY Zenon, <1>1, <1>5 DEF IInv, TypeOK, Sound, Owners, FreeConn
  <2>2. in_use' = in_use
    BY <1>5 DEF FreeConn, IInv, TypeOK
  <2>3. Users'
    BY <1>3, <1>5, <2>2 DEF IInv, Users
  <2>4. QED
    BY Zenon, <1>2, <2>1, <2>3 DEF IInv
<1>6. QED
  BY Zenon, <1>4, <1>5

-----------------------------------------------------------------------------
\* Every step preserves the invariant.
LEMMA NextInv == IInv /\ [Next]_vars => IInv'
<1> SUFFICES ASSUME IInv, [Next]_vars PROVE IInv'
  OBVIOUS
<1>1. ASSUME NEW w \in Workers, Acquire(w) PROVE IInv'
  <2>1. CASE Begin(w) \/ Reuse(w) \/ NoReuse(w)
    BY Zenon, <2>1, LookupInv
  <2>2. CASE NoConnection(w) \/ Connect(w) \/ NoPlace(w)
    BY Zenon, <2>2, ConnectInv
  <2>3. CASE Place(w) \/ Evict(w)
    BY Zenon, <2>3, PlaceInv
  <2>4. CASE Overflow(w)
    BY Zenon, <2>4, OverflowInv
  <2>5. CASE OverflowFails(w)
    BY Zenon, <2>5, DropInv DEF OverflowFails, InHand
  <2>6. QED
    BY Zenon, <1>1, <2>1, <2>2, <2>3, <2>4, <2>5 DEF Acquire
<1>2. ASSUME NEW w \in Workers, Release(w) PROVE IInv'
  <2>1. CASE ReleaseHeap(w)
    BY Zenon, <2>1, DropInv DEF ReleaseHeap, InHand
  <2>2. CASE ReturnConn(w) \/ StampConn(w)
    BY Zenon, <2>2, ReturnInv
  <2>3. QED
    BY Zenon, <1>2, <2>1, <2>2, CloseInv, EmptyInv, FreeConnInv DEF Release
<1>3. CASE Tick \/ UNCHANGED vars
  <2>1. UNCHANGED <<open, connVars, pc, up, exempt, t0, fd, conn, stolen>>
    BY ZenonT(40), <1>3 DEF Tick, vars
  <2>2. TypeOK'
    BY <1>3, <2>1, PoolAssumption DEF IInv, TypeOK, Tick, vars, connVars
  <2>3. Users' /\ (Owners => Owners')
    BY ZenonT(40), <2>1 DEF IInv, connVars, Users, Owners, Owner
  <2>4. /\ \A s \in Slots : Live(s)' <=> Live(s)
        /\ \A w \in Workers : InHand(w)' <=> InHand(w)
        /\ cfd' = cfd /\ fd' = fd /\ open' = open
    BY Zenon, <2>1 DEF connVars, Live, InHand
  <2>5. (Sockets => Sockets') /\ (Hands => Hands') /\ (Accounted => Accounted')
    BY Zenon, <2>4 DEF Sockets, Hands, Accounted
  <2>6. QED
    BY Zenon, <2>1, <2>2, <2>3, <2>5 DEF IInv, Sound
<1>4. QED
  BY Zenon, <1>1, <1>2, <1>3 DEF Next

\* The inductive invariant of the pool holds of every behaviour.
THEOREM Invariance == Spec => []IInv
<1>1. QED
  BY InitInv, NextInv, PTL DEF Spec

\* Until a slot is taken in the middle of its release, no two workers exchange
\* requests over one socket, and a worker's socket is open and that of the
\* upstream it asked for.
THEOREM Exclusive == Spec => []ConnExclusive
<1>1. IInv => ConnExclusive
  <2> SUFFICES ASSUME IInv, ~stolen, NEW w \in Workers, pc[w] = "using"
               PROVE  /\ fd[w] \in open
                      /\ conn[w] # Heap => cfd[conn[w]] = fd[w] /\ host[conn[w]] = up[w]
                      /\ \A v \in Workers \ {w} : pc[v] = "using" => fd[v] # fd[w]
    BY Zenon DEF ConnExclusive
  <2>1. Sound
    BY Zenon DEF IInv
  <2>2. ASSUME NEW v \in Workers, pc[v] = "using", conn[v] # Heap
        PROVE  /\ conn[v] \in Slots /\ Live(conn[v]) /\ Owner(v)
               /\ cfd[conn[v]] = fd[v] /\ host[conn[v]] = up[v]
    BY ZenonT(60), <2>1, <2>2 DEF IInv, TypeOK, Sound, Owners, Owner, Owning, Live
  <2>3. ASSUME NEW v \in Workers, pc[v] = "using", conn[v] = Heap
        PROVE  InHand(v)
    BY Zenon, <2>3 DEF InHand
  <2>4. fd[w] \in open
    BY Zenon, <2>1, <2>2, <2>3 DEF Sound, Sockets, Hands
  <2>5. ASSUME NEW v \in Workers \ {w}, pc[v] = "using" PROVE fd[v] # fd[w]
    BY <2>1, <2>2, <2>3, <2>5 DEF Sound, Owners, Sockets, Hands
  <2>6. QED
    BY Zenon, <2>2, <2>4, <2>5
<1>2. QED
  BY <1>1, Invariance, PTL

\* No slot stays in use without a user, and no open socket is forgotten.
THEOREM Kept == Spec => []NothingLost
<1>1. IInv => NothingLost
  BY Zenon DEF IInv, Users, Owning, Sound, Accounted, InHand, NothingLost
<1>2. QED
  BY <1>1, Invariance, PTL
=============================================================================
