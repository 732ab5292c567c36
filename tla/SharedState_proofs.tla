-------------------------- MODULE SharedState_proofs --------------------------
(***************************************************************************)
(* What the executions share, proved for any number of them, of keys, of   *)
(* names and of messages: a get of the shared data sees the last set and   *)
(* no update is lost, for every width of the counter; the shared queues    *)
(* are first-in first-out, and their messages are neither lost nor shared. *)
(***************************************************************************)
EXTENDS SharedData, SharedQueue, WellFoundedInduction, TLAPS

(***************************************************************************)
(* The data.                                                               *)
(***************************************************************************)

Entry == [key : Keys, value : 1 .. MaxWrites, cas : 0 .. CasModulus - 1]

\* The C strings of the entries.
Strs == [i \in DOMAIN bucket |-> CString[bucket[i].key]]

\* Every set adds an entry at most.
Filled == Len(bucket) <= writes

\* The entry that a lookup of its C string finds.
First(i) == \A j \in DOMAIN bucket : j < i => Strs[j] # Strs[i]

\* An entry alone with its C string.
Sole(i) == \A j \in DOMAIN bucket : Strs[j] = Strs[i] => j = i

\* The entry found has the value of the last set, and there is one once a set was
\* made.
Current ==
  /\ \A i \in DOMAIN bucket : First(i) => bucket[i].value = stored[Strs[i]]
  /\ \A s \in Kept : stored[s] # 0 => \E i \in DOMAIN bucket : Strs[i] = s

\* Only a key with a NUL byte adds an entry for a C string that has one.
Added ==
  \A i, j \in DOMAIN bucket : i < j /\ Strs[i] = Strs[j] => Strs[i] # bucket[i].key

\* What a client got is from an entry that is still there.
Seen ==
  \A c \in Clients : got[c] # Nothing =>
    \E i \in DOMAIN bucket : Strs[i] = got[c].key

\* Until it can have wrapped, a counter counts the sets of its entry, so that equal
\* counters mean equal values; but not once there are two entries to count for.
Counted ==
  writes < CasModulus =>
    \A i \in DOMAIN bucket :
      /\ 1 <= bucket[i].cas /\ bucket[i].cas <= writes
      /\ Sole(i) => \A c \in Clients : got[c] # Nothing /\ got[c].key = Strs[i] =>
           /\ 1 <= got[c].cas /\ got[c].cas <= bucket[i].cas
           /\ got[c].cas = bucket[i].cas => got[c].value = bucket[i].value

\* NoLostUpdate, in terms of Strs.
Twice(s) == \E i, j \in DOMAIN bucket : i # j /\ Strs[i] = s /\ Strs[j] = s

Kindly == swap.expected # swap.replaced => writes >= CasModulus \/ Twice(swap.key)

IInv ==
  TypeOK /\ Filled /\ Current /\ Added /\ Seen /\ Counted /\ Kindly

-----------------------------------------------------------------------------
\* A set of numbers that is not empty has a least one.
LEMMA LeastOf ==
  ASSUME NEW S, S \subseteq Nat, S # {}
  PROVE  \E x \in S : \A y \in S : x <= y
<1>1. PICK x \in S : \A y \in S : ~ (<<y, x>> \in OpToRel(<, Nat))
  BY Zenon, NatLessThanWellFounded, WFMin
<1>2. \A y \in S : ~ (y < x)
  BY Zenon, <1>1 DEF OpToRel
<1>3. QED
  BY <1>2

\* The entries of the chain, and what clients got, have their types.
LEMMA Shape ==
  ASSUME TypeOK
  PROVE  /\ bucket \in Seq(Entry)
         /\ DOMAIN bucket = 1 .. Len(bucket) /\ Len(bucket) \in Nat
         /\ \A i \in DOMAIN bucket :
              /\ bucket[i] \in Entry
              /\ bucket[i].key \in Keys /\ bucket[i].value \in Nat \ {0}
              /\ bucket[i].cas \in Nat /\ bucket[i].cas < CasModulus
         /\ \A c \in Clients :
              /\ got[c] \in {Nothing} \cup Entry
              /\ got[c].cas \in Nat /\ got[c].value \in 0 .. MaxWrites
              /\ got[c].key \in Keys => got[c] # Nothing
<1> USE SharedDataAssumption
<1>1. bucket \in Seq(Entry) /\ got \in [Clients -> {Nothing} \cup Entry]
  BY Zenon DEF TypeOK, Entry
<1>2. DOMAIN bucket = 1 .. Len(bucket) /\ Len(bucket) \in Nat
  BY <1>1
<1>3. \A i \in DOMAIN bucket : bucket[i] \in Entry
  BY <1>1
<1>4. \A c \in Clients : got[c] \in {Nothing} \cup Entry
  BY ZenonT(40), <1>1
<1>5. \A e \in Entry : /\ e.key \in Keys /\ e.value \in 1 .. MaxWrites
                       /\ e.cas \in Nat /\ e.cas < CasModulus
  BY DEF Entry
<1>6. Nothing.cas = 0 /\ Nothing.value = 0 /\ Nothing.key \notin Keys
  BY Zenon DEF Nothing
<1>7. \A c \in Clients : /\ got[c].cas \in Nat /\ got[c].value \in 0 .. MaxWrites
                         /\ got[c].key \in Keys => got[c] # Nothing
  <2> SUFFICES ASSUME NEW c \in Clients
               PROVE  /\ got[c].cas \in Nat /\ got[c].value \in 0 .. MaxWrites
                      /\ got[c].key \in Keys => got[c] # Nothing
    BY Zenon
  <2>1. CASE got[c] = Nothing
    <3>1. 0 \in Nat /\ 0 \in 0 .. MaxWrites
      OBVIOUS
    <3>2. QED
      BY Zenon, <1>6, <2>1, <3>1
  <2>2. CASE got[c] \in Entry
    <3>1. 1 .. MaxWrites \subseteq 0 .. MaxWrites
      OBVIOUS
    <3>2. got[c].value # 0
      BY <1>5, <2>2
    <3>3. QED
      BY Zenon, <1>5, <1>6, <2>2, <3>1, <3>2
  <2>3. QED
    BY Zenon, <1>4, <2>1, <2>2
<1>8. \A i \in DOMAIN bucket :
        /\ bucket[i].key \in Keys /\ bucket[i].value \in Nat \ {0}
        /\ bucket[i].cas \in Nat /\ bucket[i].cas < CasModulus
  BY <1>3, <1>5
<1> QED
  BY <1>1, <1>2, <1>3, <1>4, <1>7, <1>8

\* The C strings are those of keys.
LEMMA StrsAre ==
  ASSUME TypeOK
  PROVE  \A i \in DOMAIN bucket : Strs[i] = CString[bucket[i].key] /\ Strs[i] \in Kept
<1>1. \A i \in DOMAIN bucket : bucket[i].key \in Keys
  BY Zenon, Shape
<1>2. QED
  BY Zenon, <1>1 DEF Strs, Kept

\* Find is the place of the first entry with a C string, or 0; and what is found has
\* no NUL byte inside.
LEMMA FindFacts ==
  ASSUME TypeOK, NEW k \in Keys
  PROVE  /\ Find(k) \in {0} \cup DOMAIN bucket
         /\ Find(k) = 0 => \A i \in DOMAIN bucket : Strs[i] # k
         /\ Find(k) # 0 => /\ Find(k) \in DOMAIN bucket /\ Strs[Find(k)] = k
                           /\ \A j \in DOMAIN bucket : Strs[j] = k => Find(k) <= j
                           /\ CString[k] = k
<1> DEFINE matches == {i \in DOMAIN bucket : Matches(bucket[i].key, k)}
<1>1. DOMAIN bucket = 1 .. Len(bucket) /\ \A i \in DOMAIN bucket : bucket[i].key \in Keys
  BY Zenon, Shape
<1>2. \A i \in DOMAIN bucket : i \in Nat \ {0}
  BY <1>1, Shape
<1>3. Find(k) = IF matches = {} THEN 0
                ELSE CHOOSE i \in matches : \A j \in matches : i <= j
  BY Zenon DEF Find
<1>4. \A i \in DOMAIN bucket : i \in matches <=> Strs[i] = k
  BY Zenon, StrsAre DEF Matches
<1>5. CASE matches = {}
  BY Zenon, <1>3, <1>4, <1>5
<1>6. CASE matches # {}
  <2>1. matches \subseteq DOMAIN bucket
    BY Zenon
  <2>2. matches \subseteq Nat
    BY Zenon, <1>2, <2>1
  <2>3. \E x \in matches : \A y \in matches : x <= y
    BY Zenon, <1>6, <2>2, LeastOf
  <2>4. Find(k) \in matches /\ \A j \in matches : Find(k) <= j
    BY Zenon, <1>3, <1>6, <2>3
  <2>5. Find(k) \in DOMAIN bucket /\ Strs[Find(k)] = k /\ Find(k) # 0
    BY Zenon, <1>2, <1>4, <2>1, <2>4
  <2>6. CString[k] = k
    <3>1. CString[bucket[Find(k)].key] = k /\ bucket[Find(k)].key \in Keys
      BY Zenon, <1>1, <2>5, StrsAre
    <3>2. QED
      BY Zenon, <3>1, CStringAssumption, SharedDataAssumption
  <2>7. QED
    BY Zenon, <1>4, <2>4, <2>5, <2>6
<1>7. QED
  BY Zenon, <1>5, <1>6

\* A sequence with one more element in front.
LEMMA InFront ==
  ASSUME NEW S, NEW s \in Seq(S), NEW x \in S
  PROVE  LET t == <<x>> \o s IN
         /\ t \in Seq(S)
         /\ Len(t) = Len(s) + 1
         /\ DOMAIN t = 1 .. Len(s) + 1
         /\ t[1] = x
         /\ \A i \in 1 .. Len(s) : t[i + 1] = s[i]
         /\ \A j \in DOMAIN t : j # 1 => j - 1 \in DOMAIN s /\ t[j] = s[j - 1]
OBVIOUS

\* The initial states satisfy the invariant.
LEMMA InitInv == Init => IInv
<1> SUFFICES ASSUME Init PROVE IInv
  OBVIOUS
<1>1. DOMAIN bucket = {} /\ Len(bucket) = 0 /\ writes = 0
  BY DEF Init
<1>2. TypeOK
  BY SharedDataAssumption DEF Init, TypeOK, Nothing
<1>3. Filled
  BY <1>1 DEF Filled
<1>4. Current
  BY Zenon, <1>1 DEF Current, Init
<1>5. Added /\ Seen /\ Counted
  BY Zenon, <1>1, SharedDataAssumption DEF Added, Seen, Counted, Init
<1>6. Kindly
  BY Zenon DEF Kindly, Init
<1> QED
  BY Zenon, <1>2, <1>3, <1>4, <1>5, <1>6 DEF IInv

\* A get changes what the client has seen.
LEMMA GetInv ==
  ASSUME IInv, NEW c \in Clients, NEW k \in Keys, Get(c, k)
  PROVE  IInv'
<1> USE SharedDataAssumption
<1> DEFINE f == Find(k)
<1>1. /\ f \in {0} \cup DOMAIN bucket
      /\ f # 0 => f \in DOMAIN bucket /\ Strs[f] = k
  BY Zenon, FindFacts DEF IInv
<1>2. /\ got' = [got EXCEPT ![c] = IF f = 0 THEN Nothing ELSE [bucket[f] EXCEPT !.key = k]]
      /\ UNCHANGED <<bucket, writes, stored, swap>>
  BY Zenon DEF Get
<1>3. /\ \A d \in Clients : d # c => got'[d] = got[d]
      /\ got'[c] = IF f = 0 THEN Nothing ELSE [bucket[f] EXCEPT !.key = k]
  BY ZenonT(40), <1>2 DEF IInv, TypeOK
<1> HIDE DEF f
<1>4. \A i \in DOMAIN bucket : bucket[i] \in Entry /\ bucket[i].cas \in Nat
  BY ZenonT(40), Shape DEF IInv
<1>5. ASSUME f # 0
      PROVE  /\ got'[c] \in Entry /\ got'[c].key = k
             /\ got'[c].value = bucket[f].value /\ got'[c].cas = bucket[f].cas
  <2>1. bucket[f] \in Entry /\ got'[c] = [bucket[f] EXCEPT !.key = k]
    BY Zenon, <1>1, <1>3, <1>4, <1>5
  <2>2. QED
    BY <2>1 DEF Entry
<1>6. TypeOK'
  <2>1. got'[c] \in {Nothing} \cup Entry
    BY Zenon, <1>3, <1>5
  <2>2. got \in [Clients -> {Nothing} \cup Entry]
    BY Zenon DEF IInv, TypeOK, Entry
  <2>3. got' \in [Clients -> {Nothing} \cup Entry]
    BY Zenon, <1>2, <1>3, <2>1, <2>2
  <2>4. QED
    BY Zenon, <1>2, <2>3 DEF IInv, TypeOK, Entry
<1>7. Strs' = Strs
  BY Zenon, <1>2 DEF Strs
<1>8. Filled' /\ Current' /\ Added' /\ Kindly'
  BY ZenonT(40), <1>2, <1>7 DEF IInv, Filled, Current, First, Added, Kindly, Twice
<1>9. Seen'
  BY ZenonT(60), <1>1, <1>2, <1>3, <1>5, <1>7 DEF IInv, Seen
<1>10. Counted'
  <2> DEFINE Agrees(i, d) == /\ 1 <= got'[d].cas /\ got'[d].cas <= bucket[i].cas
                             /\ got'[d].cas = bucket[i].cas => got'[d].value = bucket[i].value
  <2>0. ASSUME \A i \in DOMAIN bucket, d \in Clients :
                 /\ writes < CasModulus /\ Sole(i)
                 /\ got'[d] # Nothing /\ got'[d].key = Strs[i]
                 => Agrees(i, d)
        PROVE  Counted'
    <3> SUFFICES ASSUME writes' < CasModulus, NEW i \in DOMAIN bucket'
                 PROVE  /\ 1 <= bucket'[i].cas /\ bucket'[i].cas <= writes'
                        /\ Sole(i)' => \A d \in Clients : got'[d] # Nothing /\ got'[d].key = Strs'[i] =>
                             /\ 1 <= got'[d].cas /\ got'[d].cas <= bucket'[i].cas
                             /\ got'[d].cas = bucket'[i].cas => got'[d].value = bucket'[i].value
      BY ZenonT(40) DEF Counted
    <3>1. /\ writes < CasModulus /\ i \in DOMAIN bucket /\ bucket'[i] = bucket[i]
          /\ writes' = writes /\ Strs'[i] = Strs[i]
      BY Zenon, <1>2, <1>7
    <3>2. Sole(i)' => Sole(i)
      BY Zenon, <1>2, <1>7 DEF Sole
    <3>3. 1 <= bucket[i].cas /\ bucket[i].cas <= writes
      BY Zenon, <3>1 DEF IInv, Counted
    <3> QED
      BY Zenon, <2>0, <3>1, <3>2, <3>3
  <2> SUFFICES ASSUME writes < CasModulus, NEW i \in DOMAIN bucket, Sole(i), NEW d \in Clients,
                      got'[d] # Nothing, got'[d].key = Strs[i]
               PROVE  Agrees(i, d)
    BY Zenon, <2>0
  <2>1. CASE d # c
    BY Zenon, <2>1, <1>3 DEF IInv, Counted
  <2>2. CASE d = c
    <3>1. f # 0
      BY Zenon, <2>2, <1>3
    <3>2. f = i
      BY Zenon, <2>2, <3>1, <1>1, <1>5 DEF Sole
    <3>3. got'[d].value = bucket[i].value /\ got'[d].cas = bucket[i].cas
      BY Zenon, <2>2, <3>1, <3>2, <1>5
    <3>4. 1 <= bucket[i].cas /\ bucket[i].cas <= bucket[i].cas
      <4>1. 1 <= bucket[i].cas
        BY Zenon DEF IInv, Counted
      <4>2. QED
        BY <1>4, <4>1
    <3> QED
      BY Zenon, <3>3, <3>4
  <2> QED
    BY Zenon, <2>1, <2>2
<1> QED
  BY Zenon, <1>6, <1>8, <1>9, <1>10 DEF IInv

\* A set, refused or made, whose guest has in mind what is stored, at least as
\* long as no counter can have wrapped and its C string has one entry.
LEMMA SetInv ==
  ASSUME IInv, NEW k \in Keys, NEW cas, NEW expected \in 0 .. MaxWrites,
         Set(k, cas, expected),
         writes < CasModulus /\ ~Mismatch(k, cas) =>
           expected = stored[CString[k]] \/ Twice(CString[k])
  PROVE  IInv'
<1> USE SharedDataAssumption
<1>4. PICK s0 \in Kept : s0 = CString[k]
  BY Zenon DEF Kept
<1>1. /\ Find(k) \in {0} \cup DOMAIN bucket
      /\ Find(k) = 0 => \A i \in DOMAIN bucket : Strs[i] # k
      /\ Find(k) # 0 => /\ Find(k) \in DOMAIN bucket /\ Strs[Find(k)] = s0
                        /\ \A j \in DOMAIN bucket : Strs[j] = s0 => Find(k) <= j
  BY ZenonT(40), <1>4, FindFacts DEF IInv
<1>2. /\ writes < MaxWrites /\ writes' = writes + 1 /\ UNCHANGED got
      /\ writes \in Nat /\ writes' \in 1 .. MaxWrites
  BY DEF Set, IInv, TypeOK
<1>3. /\ bucket \in Seq(Entry)
      /\ DOMAIN bucket = 1 .. Len(bucket) /\ Len(bucket) \in Nat
      /\ \A i \in DOMAIN bucket :
           /\ bucket[i] \in Entry
           /\ bucket[i].key \in Keys /\ bucket[i].value \in Nat \ {0}
           /\ bucket[i].cas \in Nat /\ bucket[i].cas < CasModulus
      /\ \A c \in Clients : got[c].cas \in Nat
  BY ZenonT(40), Shape DEF IInv
<1>5. CASE Mismatch(k, cas)
  <2>1. UNCHANGED <<bucket, stored, swap>>
    BY ZenonT(40), <1>5 DEF Set
  <2>2. Strs' = Strs
    BY Zenon, <2>1 DEF Strs
  <2>3. TypeOK' /\ Filled'
    BY <2>1, <1>2 DEF IInv, TypeOK, Filled
  <2>4. Current' /\ Added' /\ Seen'
    BY ZenonT(40), <2>1, <2>2, <1>2 DEF IInv, Current, First, Added, Seen
  <2>5. Kindly'
    <3>1. writes >= CasModulus => writes' >= CasModulus
      BY <1>2
    <3>2. QED
      BY Zenon, <2>1, <2>2, <3>1 DEF IInv, Kindly, Twice
  <2>6. Counted'
    <3>1. /\ writes' < CasModulus => writes < CasModulus
          /\ \A i \in DOMAIN bucket : bucket[i].cas <= writes => bucket[i].cas <= writes'
      BY <1>2, <1>3
    <3>2. QED
      BY ZenonT(40), <2>1, <2>2, <3>1, <1>2 DEF IInv, Counted, Sole
  <2> QED
    BY Zenon, <2>3, <2>4, <2>5, <2>6 DEF IInv
<1>6. CASE ~Mismatch(k, cas)
  <2>1. /\ Store(k, writes')
        /\ stored' = [stored EXCEPT ![s0] = writes']
        /\ swap' = [key |-> s0, expected |-> expected, replaced |-> stored[s0]]
    BY ZenonT(40), <1>6, <1>2, <1>4 DEF Set
  <2>2. /\ stored' \in [Kept -> 0 .. MaxWrites]
        /\ swap' \in [key : {"none"} \cup Kept, expected : 0 .. MaxWrites, replaced : 0 .. MaxWrites]
    <3>1. stored \in [Kept -> 0 .. MaxWrites] /\ writes' \in 0 .. MaxWrites
      BY <1>2 DEF IInv, TypeOK
    <3>2. stored[s0] \in 0 .. MaxWrites
      BY Zenon, <3>1, <1>4
    <3>3. QED
      BY <2>1, <3>1, <3>2, <1>4
  <2>3. stored'[s0] = writes' /\ \A s \in Kept : s # s0 => stored'[s] = stored[s]
    BY Zenon, <2>1, <1>4 DEF IInv, TypeOK
  <2>4. ASSUME Twice(s0) => Twice(s0)' PROVE Kindly'
    <3>1. swap'.expected = expected /\ swap'.replaced = stored[s0] /\ swap'.key = s0
      BY <2>1
    <3>2. writes' >= CasModulus \/ writes < CasModulus
      BY <1>2
    <3>3. expected # stored[s0] => writes' >= CasModulus \/ Twice(s0)
      BY Zenon, <3>2, <1>4, <1>6
    <3>4. QED
      BY Zenon, <2>4, <3>1, <3>3 DEF Kindly, Twice
  <2>5. CASE Find(k) # 0
    <3> DEFINE i0 == Find(k)
               y == [key |-> bucket[i0].key, value |-> writes', cas |-> Bump(bucket[i0].cas)]
    <3>1. bucket' = [bucket EXCEPT ![i0] = y]
      BY ZenonT(40), <2>1, <2>5 DEF Store
    <3>2. /\ i0 \in DOMAIN bucket /\ Strs[i0] = s0
          /\ \A j \in DOMAIN bucket : Strs[j] = s0 => i0 <= j
      BY ZenonT(40), <2>5, <1>1
    <3>3. Bump(bucket[i0].cas) \in 0 .. CasModulus - 1
      BY SMTT(30), <3>2, <1>3 DEF Bump
    <3>4. /\ DOMAIN bucket' = DOMAIN bucket /\ Len(bucket') = Len(bucket)
          /\ \A i \in DOMAIN bucket : i # i0 => bucket'[i] = bucket[i]
          /\ bucket'[i0].key = bucket[i0].key /\ bucket'[i0].value = writes'
          /\ bucket'[i0].cas = Bump(bucket[i0].cas)
          /\ bucket' \in Seq(Entry)
      <4>1. /\ y \in Entry /\ y.key = bucket[i0].key /\ y.value = writes'
            /\ y.cas = Bump(bucket[i0].cas)
        BY ZenonT(40), <3>2, <3>3, <1>2, <1>3 DEF Entry
      <4> HIDE DEF y
      <4>2. bucket'[i0] = y /\ \A i \in DOMAIN bucket : i # i0 => bucket'[i] = bucket[i]
        BY <3>1, <3>2, <1>3
      <4>3. DOMAIN bucket' = DOMAIN bucket /\ Len(bucket') = Len(bucket) /\ bucket' \in Seq(Entry)
        BY <3>1, <4>1, <3>2, <1>3
      <4> QED
        BY <4>1, <4>2, <4>3
    <3> HIDE DEF i0
    <3>5. \A i \in DOMAIN bucket : bucket'[i].key = bucket[i].key
      BY ZenonT(40), <3>2, <3>4
    <3>6. Strs' = Strs
      BY Zenon, <3>4, <3>5 DEF Strs
    <3>7. TypeOK' /\ Filled'
      <4>1. writes' \in 0 .. MaxWrites /\ Len(bucket') <= MaxWrites /\ Len(bucket') <= writes'
        BY <3>4, <1>2, <1>3 DEF IInv, Filled
      <4>2. QED
        BY ZenonT(60), <3>4, <4>1, <2>2, <1>2 DEF IInv, TypeOK, Filled, Entry
    <3>8. Added' /\ Seen'
      BY Zenon, <3>4, <3>5, <3>6, <1>2 DEF IInv, Added, Seen
    <3>9. Kindly'
      BY Zenon, <2>4, <3>4, <3>6 DEF Twice
    <3>10. Current'
      <4>1. ASSUME NEW j \in DOMAIN bucket, First(j)'
            PROVE  bucket'[j].value = stored'[Strs'[j]]
        <5>1. CASE j = i0
          BY Zenon, <5>1, <3>2, <3>4, <3>6, <2>3
        <5>2. CASE j # i0
          <6>1. Strs[j] = s0 => i0 < j
            BY <5>2, <3>2, <1>3
          <6>2. Strs[j] # s0
            BY Zenon, <4>1, <6>1, <3>2, <3>4, <3>6 DEF First
          <6>3. First(j) /\ bucket'[j] = bucket[j]
            BY Zenon, <4>1, <5>2, <3>4, <3>6 DEF First
          <6>4. Strs[j] \in Kept
            BY Zenon, StrsAre DEF IInv
          <6> QED
            BY Zenon, <6>2, <6>3, <6>4, <3>6, <2>3 DEF IInv, Current
        <5> QED
          BY Zenon, <5>1, <5>2
      <4>2. ASSUME NEW s \in Kept, stored'[s] # 0
            PROVE  \E i \in DOMAIN bucket' : Strs'[i] = s
        BY Zenon, <4>2, <3>2, <3>4, <3>6, <2>3 DEF IInv, Current
      <4> QED
        BY Zenon, <4>1, <4>2, <3>4 DEF Current
    <3>11. Counted'
      <4> SUFFICES ASSUME writes' < CasModulus, NEW i \in DOMAIN bucket
                   PROVE  /\ 1 <= bucket'[i].cas /\ bucket'[i].cas <= writes'
                          /\ Sole(i) => \A c \in Clients : got[c] # Nothing /\ got[c].key = Strs[i] =>
                               /\ 1 <= got[c].cas /\ got[c].cas <= bucket'[i].cas
                               /\ got[c].cas = bucket'[i].cas => got[c].value = bucket'[i].value
        BY ZenonT(40), <3>4, <3>6, <1>2 DEF Counted, Sole
      <4>1. writes < CasModulus
        BY <1>2
      <4>2. /\ bucket[i].cas \in Nat /\ 1 <= bucket[i].cas /\ bucket[i].cas <= writes
            /\ Sole(i) => \A c \in Clients : got[c] # Nothing /\ got[c].key = Strs[i] =>
                 /\ 1 <= got[c].cas /\ got[c].cas <= bucket[i].cas /\ got[c].cas \in Nat
                 /\ got[c].cas = bucket[i].cas => got[c].value = bucket[i].value
        BY Zenon, <4>1, <1>3 DEF IInv, Counted
      <4>3. CASE i # i0
        <5>1. bucket'[i] = bucket[i] /\ (bucket[i].cas <= writes => bucket[i].cas <= writes')
          BY <4>2, <4>3, <3>4, <1>2
        <5> QED
          BY Zenon, <5>1, <4>2
      <4>4. CASE i = i0
        <5>1. (bucket[i].cas + 1) % CasModulus = bucket[i].cas + 1
          BY <4>2, <1>2
        <5>2. bucket'[i].cas = bucket[i].cas + 1
          BY ZenonT(40), <5>1, <4>4, <3>4 DEF Bump
        <5>3. /\ 1 <= bucket'[i].cas /\ bucket'[i].cas <= writes'
              /\ \A x \in Nat : x <= bucket[i].cas => x <= bucket'[i].cas /\ x # bucket'[i].cas
          BY <4>2, <5>2, <1>2
        <5> QED
          BY Zenon, <5>3, <4>2
      <4> QED
        BY Zenon, <4>3, <4>4
    <3> QED
      BY Zenon, <3>7, <3>8, <3>9, <3>10, <3>11 DEF IInv
  <2>6. CASE Find(k) = 0
    <3> DEFINE x == [key |-> k, value |-> writes', cas |-> 1]
    <3>1. bucket' = <<x>> \o bucket /\ x \in Entry
      BY <2>1, <2>6, <1>2 DEF Store, Entry
    <3>2. /\ bucket' \in Seq(Entry)
          /\ Len(bucket') = Len(bucket) + 1
          /\ DOMAIN bucket' = 1 .. Len(bucket) + 1
          /\ bucket'[1] = x
          /\ \A i \in 1 .. Len(bucket) : bucket'[i + 1] = bucket[i]
          /\ \A j \in DOMAIN bucket' : j # 1 =>
               j - 1 \in DOMAIN bucket /\ bucket'[j] = bucket[j - 1]
      <4> HIDE DEF x
      <4> QED
        BY SMTT(30), <3>1, <1>3, InFront
    <3>3. bucket'[1].key = k /\ bucket'[1].value = writes' /\ bucket'[1].cas = 1
      <4>1. x.key = k /\ x.value = writes' /\ x.cas = 1
        BY Zenon
      <4> HIDE DEF x
      <4>2. QED
        BY Zenon, <4>1, <3>2
    <3> HIDE DEF x
    <3>4. /\ 1 \in DOMAIN bucket'
          /\ \A i \in DOMAIN bucket : /\ i + 1 \in DOMAIN bucket' /\ bucket'[i + 1] = bucket[i]
                                      /\ i \in Int /\ 1 < i + 1
          /\ \A j \in DOMAIN bucket' : j \in Int /\ (j # 1 => 1 < j)
      BY <3>2, <1>3
    <3>5. /\ Strs'[1] = s0
          /\ \A i \in DOMAIN bucket : Strs'[i + 1] = Strs[i]
          /\ \A j \in DOMAIN bucket' : j # 1 => Strs'[j] = Strs[j - 1]
      <4>1. \A j \in DOMAIN bucket' : Strs'[j] = CString[bucket'[j].key]
        BY Zenon DEF Strs
      <4>2. \A j \in DOMAIN bucket : Strs[j] = CString[bucket[j].key]
        BY Zenon DEF Strs
      <4>3. Strs'[1] = s0
        BY Zenon, <4>1, <3>3, <3>4, <1>4
      <4>4. ASSUME NEW i \in DOMAIN bucket PROVE Strs'[i + 1] = Strs[i]
        <5>1. PICK j \in DOMAIN bucket' : j = i + 1 /\ bucket'[j] = bucket[i]
          BY Zenon, <3>4
        <5>2. Strs'[j] = Strs[i]
          BY Zenon, <4>1, <4>2, <5>1
        <5> QED
          BY Zenon, <5>1, <5>2
      <4>5. ASSUME NEW j \in DOMAIN bucket', j # 1 PROVE Strs'[j] = Strs[j - 1]
        <5>1. PICK i \in DOMAIN bucket : i = j - 1 /\ bucket'[j] = bucket[i]
          BY Zenon, <4>5, <3>2
        <5>2. Strs'[j] = Strs[i]
          BY Zenon, <4>1, <4>2, <5>1
        <5> QED
          BY Zenon, <5>1, <5>2
      <4> QED
        BY Zenon, <4>3, <4>4, <4>5
    <3>6. TypeOK' /\ Filled'
      <4>1. Len(bucket') <= writes' /\ Len(bucket') <= MaxWrites
        BY <3>2, <1>2, <1>3 DEF IInv, Filled
      <4>2. bucket' \in Seq([key : Keys, value : 1 .. MaxWrites, cas : 0 .. CasModulus - 1])
        BY ZenonT(40), <3>2 DEF Entry
      <4>3. writes' \in 0 .. MaxWrites /\ UNCHANGED got
        BY <1>2
      <4>4. TypeOK'
        BY ZenonT(60), <4>1, <4>2, <4>3, <2>2 DEF IInv, TypeOK
      <4>5. Filled'
        BY Zenon, <4>1 DEF Filled
      <4> QED
        BY Zenon, <4>4, <4>5
    <3>7. Added'
      <4> SUFFICES ASSUME NEW i \in DOMAIN bucket', NEW j \in DOMAIN bucket',
                          i < j, Strs'[i] = Strs'[j]
                   PROVE  Strs'[i] # bucket'[i].key
        BY Zenon DEF Added
      <4>1. CASE i = 1
        <5>1. j # 1
          BY <4>1, <3>4
        <5>2. j - 1 \in DOMAIN bucket /\ Strs[j - 1] = s0
          BY Zenon, <4>1, <5>1, <3>2, <3>5
        <5>3. s0 # k
          BY Zenon, <5>2, <2>6, <1>1
        <5> QED
          BY Zenon, <4>1, <5>3, <3>3, <3>5
      <4>2. CASE i # 1
        <5>1. j # 1 /\ i - 1 < j - 1
          BY <4>2, <3>4
        <5>2. /\ i - 1 \in DOMAIN bucket /\ j - 1 \in DOMAIN bucket
              /\ Strs[i - 1] = Strs[j - 1] /\ bucket'[i] = bucket[i - 1]
              /\ Strs'[i] = Strs[i - 1]
          BY Zenon, <4>2, <5>1, <3>2, <3>5
        <5>3. Strs[i - 1] # bucket[i - 1].key
          BY Zenon, <5>1, <5>2 DEF IInv, Added
        <5> QED
          BY Zenon, <5>2, <5>3
      <4> QED
        BY Zenon, <4>1, <4>2
    <3>8. Seen'
      <4>1. got' = got
        BY Zenon, <1>2
      <4>2. SUFFICES ASSUME NEW c \in Clients, got[c] # Nothing
                     PROVE  \E u \in DOMAIN bucket' : Strs'[u] = got[c].key
        BY Zenon, <4>1 DEF Seen
      <4>3. PICK i \in DOMAIN bucket : Strs[i] = got[c].key
        BY Zenon, <4>2 DEF IInv, Seen
      <4>4. i + 1 \in DOMAIN bucket' /\ Strs'[i + 1] = got[c].key
        BY ZenonT(60), <4>3, <3>4, <3>5
      <4>5. QED
        BY Zenon, <4>4
    <3>9. Kindly'
      <4>0. ASSUME NEW i \in DOMAIN bucket, Strs[i] = s0
            PROVE  \E u \in DOMAIN bucket' : u = i + 1 /\ Strs'[u] = s0
        BY ZenonT(60), <4>0, <3>4, <3>5
      <4>1. ASSUME Twice(s0) PROVE Twice(s0)'
        <5>1. PICK i \in DOMAIN bucket, j \in DOMAIN bucket : i # j /\ Strs[i] = s0 /\ Strs[j] = s0
          BY Zenon, <4>1 DEF Twice
        <5>2. i + 1 # j + 1
          BY <5>1, <3>4
        <5>3. PICK u \in DOMAIN bucket' : u = i + 1 /\ Strs'[u] = s0
          BY Zenon, <5>1, <4>0
        <5>4. PICK v \in DOMAIN bucket' : v = j + 1 /\ Strs'[v] = s0
          BY Zenon, <5>1, <4>0
        <5>5. u # v
          BY Zenon, <5>2, <5>3, <5>4
        <5>6. QED
          BY Zenon, <5>3, <5>4, <5>5 DEF Twice
      <4>2. QED
        BY Zenon, <4>1, <2>4
    <3>10. Current'
      <4>1. ASSUME NEW j \in DOMAIN bucket', First(j)'
            PROVE  bucket'[j].value = stored'[Strs'[j]]
        <5>1. CASE j = 1
          BY Zenon, <5>1, <3>3, <3>5, <2>3
        <5>2. CASE j # 1
          <6>1. j - 1 \in DOMAIN bucket /\ bucket'[j] = bucket[j - 1] /\ Strs'[j] = Strs[j - 1]
            BY Zenon, <5>2, <3>2, <3>5
          <6>2. Strs[j - 1] # s0
            BY Zenon, <4>1, <5>2, <6>1, <3>4, <3>5 DEF First
          <6>3. First(j - 1)
            <7> SUFFICES ASSUME NEW i \in DOMAIN bucket, i < j - 1
                         PROVE  Strs[i] # Strs[j - 1]
              BY Zenon DEF First
            <7>1. i + 1 \in DOMAIN bucket' /\ i + 1 < j /\ Strs'[i + 1] = Strs[i]
              <8>1. i + 1 < j
                BY <3>4
              <8>2. QED
                BY Zenon, <8>1, <3>4, <3>5
            <7>2. QED
              BY Zenon, <4>1, <6>1, <7>1 DEF First
          <6>4. Strs[j - 1] \in Kept
            BY Zenon, <6>1, StrsAre DEF IInv
          <6>5. bucket[j - 1].value = stored[Strs[j - 1]]
            BY Zenon, <6>1, <6>3 DEF IInv, Current
          <6> QED
            BY Zenon, <6>1, <6>2, <6>4, <6>5, <2>3
        <5> QED
          BY Zenon, <5>1, <5>2
      <4>2. ASSUME NEW s \in Kept, stored'[s] # 0
            PROVE  \E i \in DOMAIN bucket' : Strs'[i] = s
        <5>1. CASE s = s0
          BY Zenon, <5>1, <3>4, <3>5
        <5>2. CASE s # s0
          <6>1. PICK i \in DOMAIN bucket : Strs[i] = s
            BY Zenon, <5>2, <4>2, <2>3 DEF IInv, Current
          <6>2. QED
            BY Zenon, <6>1, <3>4, <3>5
        <5> QED
          BY Zenon, <5>1, <5>2
      <4> QED
        BY Zenon, <4>1, <4>2 DEF Current
    <3>11. Counted'
      <4> SUFFICES ASSUME writes' < CasModulus, NEW j \in DOMAIN bucket'
                   PROVE  /\ 1 <= bucket'[j].cas /\ bucket'[j].cas <= writes'
                          /\ Sole(j)' => \A c \in Clients : got[c] # Nothing /\ got[c].key = Strs'[j] =>
                               /\ 1 <= got[c].cas /\ got[c].cas <= bucket'[j].cas
                               /\ got[c].cas = bucket'[j].cas => got[c].value = bucket'[j].value
        BY ZenonT(40), <1>2 DEF Counted
      <4>1. writes < CasModulus
        BY <1>2
      <4>2. CASE j # 1
        <5>1. j - 1 \in DOMAIN bucket /\ bucket'[j] = bucket[j - 1] /\ Strs'[j] = Strs[j - 1]
          BY Zenon, <4>2, <3>2, <3>5
        <5>2. PICK i \in DOMAIN bucket : i = j - 1
          BY Zenon, <5>1
        <5>3. bucket'[j] = bucket[i] /\ Strs'[j] = Strs[i]
          BY Zenon, <5>1, <5>2
        <5>4. ASSUME Sole(j)' PROVE Sole(i)
          <6> SUFFICES ASSUME NEW h \in DOMAIN bucket, Strs[h] = Strs[i] PROVE h = i
            BY Zenon DEF Sole
          <6>1. PICK u \in DOMAIN bucket' : u = h + 1 /\ Strs'[u] = Strs'[j]
            BY Zenon, <5>3, <3>4, <3>5
          <6>2. u = j
            BY Zenon, <5>4, <6>1 DEF Sole
          <6>3. QED
            BY <6>1, <6>2, <5>2, <3>4
        <5>5. 1 <= bucket[i].cas /\ bucket[i].cas <= writes /\ bucket[i].cas \in Nat
          BY Zenon, <4>1, <1>3 DEF IInv, Counted
        <5>6. bucket[i].cas <= writes'
          BY <5>5, <1>2
        <5> QED
          BY Zenon, <4>1, <5>3, <5>4, <5>5, <5>6 DEF IInv, Counted
      <4>3. CASE j = 1
        <5>1. ASSUME Sole(1)', NEW c \in Clients, got[c] # Nothing PROVE got[c].key # s0
          <6>1. PICK i \in DOMAIN bucket : Strs[i] = got[c].key
            BY Zenon, <5>1 DEF IInv, Seen
          <6>2. i + 1 # 1
            BY <3>4
          <6>3. QED
            BY Zenon, <5>1, <6>1, <6>2, <3>4, <3>5 DEF Sole
        <5>2. 1 <= bucket'[j].cas /\ bucket'[j].cas <= writes'
          BY <4>3, <3>3, <1>2
        <5> QED
          BY Zenon, <5>1, <5>2, <4>3, <3>5
      <4> QED
        BY Zenon, <4>2, <4>3
    <3> QED
      BY Zenon, <3>6, <3>7, <3>8, <3>9, <3>10, <3>11 DEF IInv
  <2> QED
    BY Zenon, <2>5, <2>6
<1> QED
  BY Zenon, <1>5, <1>6

\* Every step preserves the invariant.
LEMMA NextInv == IInv /\ [Next]_vars => IInv'
<1> SUFFICES ASSUME IInv, [Next]_vars PROVE IInv'
  OBVIOUS
<1> USE SharedDataAssumption
<1>1. CASE UNCHANGED vars
  <2>1. UNCHANGED <<bucket, writes, got, stored, swap>>
    BY Zenon, <1>1 DEF vars
  <2>2. Strs' = Strs
    BY Zenon, <2>1 DEF Strs
  <2>3. TypeOK' /\ Filled' /\ Seen' /\ Kindly'
    BY ZenonT(40), <2>1, <2>2 DEF IInv, TypeOK, Filled, Seen, Kindly, Twice
  <2>4. Current' /\ Added' /\ Counted'
    BY ZenonT(40), <2>1, <2>2 DEF IInv, Current, First, Added, Counted, Sole
  <2> QED
    BY Zenon, <2>3, <2>4 DEF IInv
<1>2. ASSUME NEW k \in Keys, SetAnyway(k)
      PROVE  IInv'
  <2>1. CString[k] \in Kept
    BY Zenon DEF Kept
  <2>2. Set(k, 0, stored[CString[k]]) /\ stored[CString[k]] \in 0 .. MaxWrites
    BY ZenonT(40), <1>2, <2>1 DEF SetAnyway, IInv, TypeOK
  <2> QED
    BY ZenonT(40), <2>2, SetInv
<1>3. ASSUME NEW k \in Keys, NEW c \in Clients, SetIfUnchanged(c, k)
      PROVE  IInv'
  <2>1. got[c].key = k /\ Set(k, got[c].cas, got[c].value)
    BY Zenon, <1>3 DEF SetIfUnchanged
  <2>2. got[c] # Nothing /\ got[c].value \in 0 .. MaxWrites /\ got[c].cas \in Nat
    BY ZenonT(40), <2>1, Shape DEF IInv
  <2>3. PICK i \in DOMAIN bucket : i = Find(k) /\ Strs[i] = k /\ i # 0 /\ CString[k] = k
    BY ZenonT(40), <2>1, <2>2, FindFacts DEF IInv, Seen
  <2>4. ASSUME writes < CasModulus, ~Mismatch(k, got[c].cas), Sole(i)
        PROVE  got[c].value = stored[k]
    <3>1. 1 <= got[c].cas /\ (got[c].cas = bucket[i].cas => got[c].value = bucket[i].value)
      BY Zenon, <2>1, <2>2, <2>3, <2>4 DEF IInv, Counted
    <3>2. got[c].cas # 0
      BY <2>2, <3>1
    <3>3. got[c].cas = bucket[i].cas
      BY Zenon, <2>3, <2>4, <3>2 DEF Mismatch
    <3>4. First(i)
      <4>1. \A j \in DOMAIN bucket : j \in Int
        BY Shape DEF IInv
      <4>2. ~ (i < i)
        BY <4>1
      <4>3. QED
        BY Zenon, <4>2, <2>4 DEF First, Sole
    <3>5. QED
      BY Zenon, <2>3, <3>1, <3>3, <3>4 DEF IInv, Current
  <2>5. ASSUME ~ Sole(i) PROVE Twice(k)
    BY Zenon, <2>3, <2>5 DEF Sole, Twice
  <2>6. writes < CasModulus /\ ~Mismatch(k, got[c].cas) =>
          got[c].value = stored[CString[k]] \/ Twice(CString[k])
    BY Zenon, <2>3, <2>4, <2>5
  <2> QED
    BY Zenon, <2>1, <2>2, <2>6, SetInv
<1> QED
  BY ZenonT(40), <1>1, <1>2, <1>3, GetInv DEF Next

\* The invariant holds of every reachable state.
LEMMA Invariance == Spec => []IInv
BY InitInv, NextInv, PTL DEF Spec

\* A get returns what the last successful set of its key, or of a key that
\* continues it after a NUL byte, has stored; and an entry hides another only if
\* such a key made it.
THEOREM LastSet == Spec => []GetSeesLastSet
<1>1. ASSUME IInv PROVE GetSeesLastSet
  <2>1. ASSUME NEW k \in Keys, CString[k] = k, stored[k] # 0
        PROVE  Find(k) # 0 /\ bucket[Find(k)].value = stored[k]
    <3>1. k \in Kept
      BY Zenon, <2>1 DEF Kept
    <3>2. PICK i \in DOMAIN bucket : Strs[i] = k
      BY Zenon, <1>1, <2>1, <3>1 DEF IInv, Current
    <3>3. PICK f \in DOMAIN bucket : /\ f = Find(k) /\ f # 0 /\ Strs[f] = k
                                     /\ \A j \in DOMAIN bucket : Strs[j] = k => f <= j
      BY Zenon, <1>1, <3>2, FindFacts DEF IInv
    <3>4. First(f)
      <4>1. \A j \in DOMAIN bucket : j \in Int
        BY <1>1, Shape DEF IInv
      <4>2. \A j \in DOMAIN bucket : j < f => ~ (f <= j)
        BY <4>1
      <4>3. QED
        BY Zenon, <3>3, <4>2 DEF First
    <3>5. QED
      BY Zenon, <1>1, <3>3, <3>4 DEF IInv, Current
  <2>2. \A i \in DOMAIN bucket : Strs[i] = CString[bucket[i].key]
    BY Zenon, <1>1, StrsAre DEF IInv
  <2>3. \A i, j \in DOMAIN bucket :
          i < j /\ CString[bucket[i].key] = CString[bucket[j].key] =>
            CString[bucket[i].key] # bucket[i].key
    BY Zenon, <1>1, <2>2 DEF IInv, Added
  <2>4. QED
    BY Zenon, <2>1, <2>3 DEF GetSeesLastSet
<1> QED
  BY <1>1, Invariance, PTL

\* A conditional set replaces the value its guest has seen, for every width of
\* the counter, until as many sets were made as it counts or a key with a NUL byte
\* has added a second entry.
THEOREM NoneLost == Spec => []NoLostUpdate
<1>1. ASSUME IInv PROVE NoLostUpdate
  <2>1. \A i \in DOMAIN bucket : Strs[i] = CString[bucket[i].key]
    BY Zenon, <1>1, StrsAre DEF IInv
  <2>2. Twice(swap.key) => Hiding(swap.key)
    BY Zenon, <2>1 DEF Twice, Hiding
  <2>3. QED
    BY Zenon, <1>1, <2>2 DEF IInv, Kindly, NoLostUpdate
<1> QED
  BY <1>1, Invariance, PTL

-----------------------------------------------------------------------------
(***************************************************************************)
(* The queues.  That the lists are queues is not inductive by itself: an   *)
(* enqueue reaches the end of a list through the tail, not along the       *)
(* links, and a dequeue finds the tail by the end of the links.            *)
(***************************************************************************)

\* The addresses on the lists.
Lists == [i \in Ids |-> Listed(i)]

\* The nodes on a list are allocated, and its tail and its last link agree with it.
ListsEnd ==
  \A i \in Ids :
    /\ \A p \in 1 .. depth[i] : Lists[i][p] \in Nodes /\ data[Lists[i][p]] # 0
    /\ depth[i] = 0 => head[i] = "NULL" /\ tail[i] = "NULL"
    /\ depth[i] > 0 => tail[i] = Lists[i][depth[i]] /\ link[tail[i]] = "NULL"

\* No node is on two lists or twice on one.
ListsApart ==
  \A i, j \in Ids : \A p \in 1 .. depth[i], q \in 1 .. depth[j] :
    Lists[i][p] = Lists[j][q] => i = j /\ p = q

\* A message in the hands of a dequeue is allocated, on no list, and in nobody
\* else's hands.
HandsApart ==
  \A c \in Executions : msg[c] # "NULL" =>
    /\ data[msg[c]] # 0
    /\ \A i \in Ids : \A p \in 1 .. depth[i] : Lists[i][p] # msg[c]
    /\ \A d \in Executions : msg[d] = msg[c] => d = c

\* What is allocated can be reached.
NoneStray ==
  \A a \in Nodes : data[a] # 0 =>
    \/ \E i \in Ids : \E p \in 1 .. depth[i] : Lists[i][p] = a
    \/ \E c \in Executions : msg[c] = a

QueueInv ==
  QueueTypeOK /\ ListsEnd /\ ListsApart /\ HandsApart /\ NoneStray

-----------------------------------------------------------------------------
(* The walk along the links *)

\* f is the walk of n steps.
IsWalk(f, a, l, n) == f = [p \in 1 .. n |-> IF p = 1 THEN a ELSE l[f[p - 1]]]

\* There is a walk of any number of steps, whatever the links lead to.
LEMMA WalkExists ==
  ASSUME NEW a, NEW l, NEW n \in Nat
  PROVE  \E f : IsWalk(f, a, l, n)
<1> DEFINE S == {m \in Nat : ~ \E f : IsWalk(f, a, l, m)}
<1> SUFFICES ASSUME n \in S PROVE FALSE
  BY Zenon
<1>1. S \subseteq Nat /\ S # {}
  BY Zenon
<1>2. PICK m \in S : \A y \in S : m <= y
  BY Zenon, <1>1, LeastOf
<1>3. m \in Nat /\ ~ \E f : IsWalk(f, a, l, m)
  BY Zenon
<1>4. CASE m = 0
  <2> DEFINE f == [p \in 1 .. 0 |-> a]
  <2>1. IsWalk(f, a, l, 0)
    BY DEF IsWalk
  <2>2. QED
    BY Zenon, <1>3, <1>4, <2>1
<1>5. CASE m # 0
  <2>1. m - 1 \in Nat /\ ~ (m <= m - 1)
    BY <1>3, <1>5
  <2>2. PICK f : IsWalk(f, a, l, m - 1)
    BY ZenonT(60), <1>2, <2>1
  <2> DEFINE g == [p \in 1 .. m |-> IF p = 1 THEN a ELSE l[f[p - 1]]]
  <2>3. \A p \in 1 .. m - 1 : g[p] = f[p]
    BY <1>3, <2>2 DEF IsWalk
  <2>4. IsWalk(g, a, l, m)
    <3>1. \A p \in 1 .. m : p # 1 => p - 1 \in 1 .. m - 1
      BY <1>3
    <3>2. \A p \in 1 .. m : p # 1 => f[p - 1] = g[p - 1]
      BY Zenon, <2>3, <3>1
    <3> HIDE DEF g
    <3>3. g = [p \in 1 .. m |-> IF p = 1 THEN a ELSE l[f[p - 1]]]
      BY Zenon DEF g
    <3>4. QED
      BY Zenon, <3>2, <3>3 DEF IsWalk
  <2>5. QED
    BY Zenon, <1>3, <2>4
<1>6. QED
  BY Zenon, <1>4, <1>5

\* s goes from a along the links, for n steps.
Goes(s, a, l, n) ==
  \A p \in 1 .. n : /\ p = 1 => s[p] = a
                    /\ p # 1 => s[p] = l[s[p - 1]]

\* The walk from a queue's head goes along the links.
LEMMA WalkSteps ==
  ASSUME NEW a, NEW l
  PROVE  Goes(Walk(a, l), a, l, MaxDepth)
<1>1. MaxDepth \in Nat
  BY SharedQueueAssumption
<1>2. \E f : IsWalk(f, a, l, MaxDepth)
  BY Zenon, <1>1, WalkExists
<1>3. Walk(a, l) = CHOOSE f : IsWalk(f, a, l, MaxDepth)
  BY Zenon DEF Walk, IsWalk
<1> DEFINE w == Walk(a, l)
<1>4. IsWalk(w, a, l, MaxDepth)
  BY Zenon, <1>2, <1>3
<1> HIDE DEF w
<1>5. \A p \in 1 .. MaxDepth : w[p] = IF p = 1 THEN a ELSE l[w[p - 1]]
  BY Zenon, <1>4 DEF IsWalk
<1>6. Goes(w, a, l, MaxDepth)
  BY Zenon, <1>5 DEF Goes
<1>7. QED
  BY Zenon, <1>6 DEF w

\* Whatever goes along the links from the same head is the walk.
LEMMA WalkUnique ==
  ASSUME NEW a, NEW l, NEW n \in 0 .. MaxDepth, NEW s, Goes(s, a, l, n)
  PROVE  \A p \in 1 .. n : Walk(a, l)[p] = s[p]
<1> DEFINE w == Walk(a, l)
<1>w. Goes(w, a, l, MaxDepth)
  BY Zenon, WalkSteps
<1> HIDE DEF w
<1> DEFINE S == {p \in 1 .. n : w[p] # s[p]}
<1> SUFFICES ASSUME S # {} PROVE FALSE
  BY Zenon DEF w
<1>0. MaxDepth \in Nat /\ n \in Nat /\ n <= MaxDepth
  BY SharedQueueAssumption
<1>1. S \subseteq Nat /\ 1 .. n \subseteq 1 .. MaxDepth
  BY <1>0
<1>2. PICK m \in S : \A y \in S : m <= y
  BY Zenon, <1>1, LeastOf
<1>3. /\ m = 1 => w[m] = a /\ s[m] = a
      /\ m # 1 => w[m] = l[w[m - 1]] /\ s[m] = l[s[m - 1]]
  BY Zenon, <1>w, <1>1 DEF Goes
<1>4. m # 1 => m - 1 \in 1 .. n /\ ~ (m <= m - 1)
  <2>1. m \in 1 .. n
    BY Zenon
  <2> HIDE DEF S
  <2>2. QED
    BY <1>0, <2>1
<1>5. m # 1 => w[m - 1] = s[m - 1]
  BY Zenon, <1>2, <1>4
<1>6. w[m] # s[m]
  BY Zenon
<1> HIDE DEF S
<1>7. QED
  BY <1>3, <1>5, <1>6

\* A list goes from its head along the links.
LEMMA ListSteps ==
  ASSUME QueueTypeOK, NEW i \in Ids
  PROVE  Goes(Lists[i], head[i], link, depth[i])
<1>0. depth[i] \in Nat /\ depth[i] <= MaxDepth /\ MaxDepth \in Nat
  BY SharedQueueAssumption DEF QueueTypeOK
<1>1. 1 .. depth[i] \subseteq 1 .. MaxDepth
  BY <1>0
<1>2. \A p \in 1 .. depth[i] : Lists[i][p] = Walk(head[i], link)[p]
  BY Zenon DEF Lists, Listed
<1>3. \A p \in 1 .. depth[i] : p # 1 => p - 1 \in 1 .. depth[i]
  BY <1>0
<1>4. Goes(Walk(head[i], link), head[i], link, MaxDepth)
  BY Zenon, WalkSteps
<1>5. QED
  BY Zenon, <1>1, <1>2, <1>3, <1>4 DEF Goes

\* A list after a step.
LEMMA ListAfter ==
  ASSUME NEW i \in Ids, NEW n \in 0 .. MaxDepth, depth'[i] = n, NEW s,
         Goes(s, head'[i], link', n)
  PROVE  \A p \in 1 .. n : Lists'[i][p] = s[p]
<1>1. \A p \in 1 .. n : Walk(head'[i], link')[p] = s[p]
  BY WalkUnique
<1>2. \A p \in 1 .. n : Lists'[i][p] = Walk(head'[i], link')[p]
  BY Zenon DEF Lists, Listed
<1>3. QED
  BY Zenon, <1>1, <1>2

\* A queue's numbers.
LEMMA QueueTypes ==
  ASSUME QueueTypeOK
  PROVE  /\ \A i \in Ids : /\ depth[i] \in Nat /\ depth[i] <= MaxDepth
                           /\ head[i] \in Nodes \cup {"NULL"}
                           /\ tail[i] \in Nodes \cup {"NULL"}
         /\ \A a \in Nodes : data[a] \in Nat /\ link[a] \in Nodes \cup {"NULL"}
         /\ \A c \in Executions : msg[c] \in Nodes \cup {"NULL"}
         /\ sent \in Nat /\ MaxSent \in Nat /\ MaxDepth \in Nat /\ "NULL" \notin Nodes
         /\ DOMAIN names = 1 .. Len(names) /\ Len(names) \in Nat /\ DOMAIN names \subseteq Ids
<1>1. /\ \A i \in Ids : /\ depth[i] \in 0 .. MaxDepth
                        /\ head[i] \in Nodes \cup {"NULL"}
                        /\ tail[i] \in Nodes \cup {"NULL"}
      /\ \A a \in Nodes : data[a] \in 0 .. MaxSent /\ link[a] \in Nodes \cup {"NULL"}
      /\ \A c \in Executions : msg[c] \in Nodes \cup {"NULL"}
  BY Zenon DEF QueueTypeOK
<1>2. MaxSent \in Nat /\ MaxDepth \in Nat /\ MaxCount \in Nat /\ "NULL" \notin Nodes
  BY Zenon, SharedQueueAssumption
<1>3. names \in Seq(Names) /\ Len(names) <= MaxCount /\ sent \in 0 .. MaxSent
  BY Zenon DEF QueueTypeOK
<1>4. DOMAIN names = 1 .. Len(names) /\ Len(names) \in Nat
  BY <1>3
<1>5. DOMAIN names \subseteq Ids
  BY <1>2, <1>3, <1>4 DEF Ids
<1>6. (\A i \in Ids : depth[i] \in Nat /\ depth[i] <= MaxDepth)
      /\ (\A a \in Nodes : data[a] \in Nat) /\ sent \in Nat
  BY <1>1, <1>2, <1>3
<1>7. QED
  BY Zenon, <1>1, <1>2, <1>4, <1>5, <1>6

\* The nodes on the lists.
LEMMA OnLists ==
  ASSUME QueueInv, NEW i \in Ids
  PROVE  /\ head[i] = "NULL" <=> depth[i] = 0
         /\ tail[i] = "NULL" <=> depth[i] = 0
         /\ depth[i] # 0 => /\ 1 \in 1 .. depth[i] /\ depth[i] \in 1 .. depth[i]
                            /\ Lists[i][1] = head[i] /\ Lists[i][depth[i]] = tail[i]
                            /\ link[tail[i]] = "NULL"
         /\ \A p \in 1 .. depth[i] :
              /\ p # 1 => p - 1 \in 1 .. depth[i] /\ Lists[i][p] = link[Lists[i][p - 1]]
              /\ p # depth[i] => /\ p + 1 \in 1 .. depth[i] /\ (p + 1) - 1 = p /\ p + 1 # 1
                                 /\ Lists[i][p + 1] = link[Lists[i][p]]
                                 /\ link[Lists[i][p]] # "NULL"
<1>0. depth[i] \in Nat /\ "NULL" \notin Nodes
  BY Zenon, QueueTypes DEF QueueInv
<1>1. /\ \A p \in 1 .. depth[i] : p # 1 => p - 1 \in 1 .. depth[i]
      /\ \A p \in 1 .. depth[i] : p # depth[i] =>
           p + 1 \in 1 .. depth[i] /\ (p + 1) - 1 = p /\ p + 1 # 1
      /\ depth[i] # 0 => 1 \in 1 .. depth[i] /\ depth[i] \in 1 .. depth[i] /\ depth[i] > 0
  BY <1>0
<1>2. Goes(Lists[i], head[i], link, depth[i])
  BY Zenon, ListSteps DEF QueueInv
<1>3. \A p \in 1 .. depth[i] : Lists[i][p] \in Nodes
  BY Zenon DEF QueueInv, ListsEnd
<1>4. depth[i] = 0 => head[i] = "NULL" /\ tail[i] = "NULL"
  BY Zenon DEF QueueInv, ListsEnd
<1>5. depth[i] # 0 => Lists[i][depth[i]] = tail[i] /\ link[tail[i]] = "NULL"
  BY Zenon, <1>1 DEF QueueInv, ListsEnd
<1>6. depth[i] # 0 => Lists[i][1] = head[i]
  BY Zenon, <1>1, <1>2 DEF Goes
<1>7. depth[i] # 0 => head[i] # "NULL" /\ tail[i] # "NULL"
  BY ZenonT(60), <1>0, <1>1, <1>3, <1>5, <1>6
<1>8. \A p \in 1 .. depth[i] : p # 1 => Lists[i][p] = link[Lists[i][p - 1]]
  BY Zenon, <1>2 DEF Goes
<1>9. \A p \in 1 .. depth[i] : p # depth[i] =>
        Lists[i][p + 1] = link[Lists[i][p]] /\ link[Lists[i][p]] # "NULL"
  <2> SUFFICES ASSUME NEW p \in 1 .. depth[i], p # depth[i]
               PROVE  Lists[i][p + 1] = link[Lists[i][p]] /\ link[Lists[i][p]] # "NULL"
    BY Zenon
  <2>1. p + 1 \in 1 .. depth[i] /\ (p + 1) - 1 = p /\ p + 1 # 1
    BY Zenon, <1>1
  <2>2. Lists[i][p + 1] = link[Lists[i][p]]
    BY Zenon, <1>8, <2>1
  <2>3. QED
    BY Zenon, <1>0, <1>3, <2>1, <2>2
<1>10. QED
  BY Zenon, <1>1, <1>4, <1>5, <1>6, <1>7, <1>8, <1>9

-----------------------------------------------------------------------------
(* The invariant holds at first and is kept by every operation *)

\* The program starts without queues.
LEMMA QueueInitInv == QueueInit => QueueInv
<1> SUFFICES ASSUME QueueInit PROVE QueueInv
  OBVIOUS
<1>1. QueueTypeOK
  <2>1. 0 \in 0 .. MaxDepth /\ 0 \in 0 .. MaxSent /\ names \in Seq(Names)
        /\ Len(names) <= MaxCount
    BY SharedQueueAssumption DEF QueueInit
  <2>2. QED
    BY Zenon, <2>1 DEF QueueInit, QueueTypeOK
<1>2. \A i \in Ids : depth[i] = 0 /\ 1 .. depth[i] = {} /\ ~ (depth[i] > 0)
                     /\ head[i] = "NULL" /\ tail[i] = "NULL"
  BY DEF QueueInit
<1>3. ListsEnd /\ ListsApart
  BY Zenon, <1>2 DEF ListsEnd, ListsApart
<1>4. HandsApart /\ NoneStray
  BY Zenon DEF QueueInit, HandsApart, NoneStray
<1>5. QED
  BY Zenon, <1>1, <1>3, <1>4 DEF QueueInv

\* The lists stay as they are when their heads, depths and links do.
LEMMA SameLists ==
  ASSUME UNCHANGED <<head, depth, link>>
  PROVE  Lists' = Lists
BY Zenon DEF Lists, Listed

\* A queue is registered.
LEMMA RegisterInv ==
  ASSUME QueueInv, NEW n \in Names, Register(n)
  PROVE  QueueInv'
<1>1. UNCHANGED <<head, tail, depth, data, link, msg, sent>>
  BY Zenon DEF Register, listVars
<1>2. Lists' = Lists
  BY Zenon, <1>1, SameLists
<1>3. names \in Seq(Names) /\ names' = Append(names, n) /\ Len(names) < MaxCount
  BY Zenon DEF QueueInv, QueueTypeOK, Register
<1>4. /\ names' \in Seq(Names) /\ Len(names') <= MaxCount
      /\ DOMAIN names = 1 .. Len(names) /\ DOMAIN names' = 1 .. Len(names) + 1
      /\ Len(names) \in Nat
      /\ \A i \in 1 .. Len(names) : names'[i] = names[i]
      /\ names'[Len(names) + 1] = n
  BY <1>3, SharedQueueAssumption
<1>5. QueueTypeOK'
  BY Zenon, <1>1, <1>4 DEF QueueInv, QueueTypeOK
<1>6. ListsEnd' /\ ListsApart' /\ HandsApart' /\ NoneStray'
  <2>1. ListsEnd /\ ListsApart /\ HandsApart /\ NoneStray
    BY Zenon DEF QueueInv
  <2>2. ListsEnd'
    BY <1>1, <1>2, <2>1 DEF ListsEnd
  <2>3. ListsApart'
    BY <1>1, <1>2, <2>1 DEF ListsApart
  <2>4. HandsApart'
    BY <1>1, <1>2, <2>1 DEF HandsApart
  <2>5. NoneStray'
    BY <1>1, <1>2, <2>1 DEF NoneStray
  <2>6. QED
    BY Zenon, <2>2, <2>3, <2>4, <2>5
<1>7. QED
  BY Zenon, <1>5, <1>6 DEF QueueInv

\* What pw_return_bytes frees is on no list and in no other hands.
LEMMA ReturnBytesInv ==
  ASSUME QueueInv, NEW c \in Executions, ReturnBytes(c)
  PROVE  QueueInv'
<1>0. PICK a : a = msg[c]
  BY Zenon
<1>1. /\ UNCHANGED <<names, head, tail, depth, link, sent>>
      /\ data' = [data EXCEPT ![a] = 0] /\ msg' = [msg EXCEPT ![c] = "NULL"] /\ a # "NULL"
  BY Zenon, <1>0 DEF ReturnBytes
<1>2. Lists' = Lists /\ depth' = depth /\ head' = head /\ tail' = tail /\ link' = link
  BY Zenon, <1>1, SameLists
<1>3. a \in Nodes /\ data \in [Nodes -> 0 .. MaxSent]
      /\ msg \in [Executions -> Nodes \cup {"NULL"}] /\ 0 \in 0 .. MaxSent
  <2>1. 0 \in 0 .. MaxSent
    BY SharedQueueAssumption
  <2>2. QED
    BY Zenon, <1>0, <1>1, <2>1 DEF QueueInv, QueueTypeOK
<1>4. /\ \A b \in Nodes : b # a => data'[b] = data[b]
      /\ data'[a] = 0
      /\ \A d \in Executions : d # c => msg'[d] = msg[d]
      /\ msg'[c] = "NULL"
  BY Zenon, <1>1, <1>3
<1>5. QueueTypeOK'
  BY Zenon, <1>1, <1>3 DEF QueueInv, QueueTypeOK
<1>6. \A i \in Ids : \A p \in 1 .. depth[i] : Lists[i][p] # a /\ Lists[i][p] \in Nodes
  BY ZenonT(40), <1>0, <1>1 DEF QueueInv, HandsApart, ListsEnd
<1>7. \A d \in Executions : d # c /\ msg[d] # "NULL" => msg[d] # a /\ msg[d] \in Nodes
  BY Zenon, <1>0, <1>1, <1>3 DEF QueueInv, HandsApart
<1>8. ListsEnd /\ ListsApart /\ HandsApart /\ NoneStray
  BY ZenonT(60) DEF QueueInv
<1>9. ListsEnd'
  BY <1>2, <1>4, <1>6, <1>8 DEF ListsEnd
<1>10. ListsApart'
  BY <1>2, <1>8 DEF ListsApart
<1>11. HandsApart'
  BY <1>2, <1>4, <1>7, <1>8 DEF HandsApart
<1>12. NoneStray'
  BY <1>0, <1>2, <1>4, <1>8 DEF NoneStray
<1>13. QED
  BY Zenon, <1>5, <1>9, <1>10, <1>11, <1>12 DEF QueueInv

\* The step of an enqueue of the node a.
EnqueueStep(i, a) ==
  /\ data[a] = 0
  /\ data' = [data EXCEPT ![a] = sent + 1]
  /\ link' = Linked(i, a)
  /\ head' = IF tail[i] # "NULL" THEN head ELSE [head EXCEPT ![i] = a]
  /\ tail' = [tail EXCEPT ![i] = a]
  /\ depth' = [depth EXCEPT ![i] = @ + 1]
  /\ depth[i] < MaxDepth /\ sent < MaxSent
  /\ sent' = sent + 1
  /\ UNCHANGED <<names, msg>>

\* What it assigns.
LEMMA EnqueueSets ==
  ASSUME QueueInv, NEW i \in Ids, NEW a \in Nodes, EnqueueStep(i, a)
  PROVE  /\ depth'[i] = depth[i] + 1 /\ depth'[i] \in 0 .. MaxDepth
         /\ tail'[i] = a /\ data'[a] = sent + 1 /\ link'[a] = "NULL"
         /\ depth[i] = 0 => head'[i] = a
         /\ depth[i] # 0 => head'[i] = head[i] /\ tail[i] \in Nodes /\ tail[i] # a
                            /\ link'[tail[i]] = a
         /\ \A j \in Ids : j # i => depth'[j] = depth[j] /\ head'[j] = head[j]
                                    /\ tail'[j] = tail[j]
         /\ \A b \in Nodes : b # a => data'[b] = data[b]
         /\ \A b \in Nodes : b # a /\ b # tail[i] => link'[b] = link[b]
<1>1. /\ head \in [Ids -> Nodes \cup {"NULL"}] /\ tail \in [Ids -> Nodes \cup {"NULL"}]
      /\ depth \in [Ids -> 0 .. MaxDepth] /\ data \in [Nodes -> 0 .. MaxSent]
      /\ link \in [Nodes -> Nodes \cup {"NULL"}] /\ "NULL" \notin Nodes /\ MaxDepth \in Nat
  BY Zenon, SharedQueueAssumption DEF QueueInv, QueueTypeOK
<1>2. tail[i] = "NULL" <=> depth[i] = 0
  BY Zenon, OnLists
<1>3. depth[i] # 0 => tail[i] \in Nodes /\ tail[i] # a
  <2>1. depth[i] # 0 => depth[i] \in 1 .. depth[i] /\ Lists[i][depth[i]] = tail[i]
    BY Zenon, OnLists
  <2>2. \A p \in 1 .. depth[i] : Lists[i][p] \in Nodes /\ data[Lists[i][p]] # 0
    BY Zenon DEF QueueInv, ListsEnd
  <2>3. QED
    BY Zenon, <2>1, <2>2 DEF EnqueueStep
<1>4. /\ depth'[i] = depth[i] + 1 /\ tail'[i] = a /\ data'[a] = sent + 1
      /\ \A j \in Ids : j # i => depth'[j] = depth[j] /\ tail'[j] = tail[j]
      /\ \A b \in Nodes : b # a => data'[b] = data[b]
  BY Zenon, <1>1 DEF EnqueueStep
<1>5. depth'[i] \in 0 .. MaxDepth
  <2>1. depth[i] \in 0 .. MaxDepth /\ depth[i] < MaxDepth
    BY Zenon, <1>1 DEF EnqueueStep
  <2>2. QED
    BY <1>1, <1>4, <2>1
<1>6. CASE depth[i] = 0
  <2>1. head' = [head EXCEPT ![i] = a] /\ link' = [link EXCEPT ![a] = "NULL"]
    BY Zenon, <1>2, <1>6 DEF EnqueueStep, Linked
  <2>2. /\ head'[i] = a /\ \A j \in Ids : j # i => head'[j] = head[j]
        /\ link'[a] = "NULL" /\ \A b \in Nodes : b # a => link'[b] = link[b]
    BY Zenon, <1>1, <2>1
  <2>3. QED
    BY Zenon, <1>4, <1>5, <1>6, <2>2
<1>7. CASE depth[i] # 0
  <2>1. head' = head /\ link' = [link EXCEPT ![tail[i]] = a, ![a] = "NULL"]
    BY Zenon, <1>2, <1>7 DEF EnqueueStep, Linked
  <2>2. /\ link'[tail[i]] = a /\ link'[a] = "NULL"
        /\ \A b \in Nodes : b # a /\ b # tail[i] => link'[b] = link[b]
    BY <1>1, <1>3, <1>7, <2>1
  <2>3. QED
    BY Zenon, <1>3, <1>4, <1>5, <1>7, <2>1, <2>2
<1>8. QED
  BY Zenon, <1>6, <1>7

\* The node is at the end of its list, and nothing else moves.
LEMMA EnqueueLists ==
  ASSUME QueueInv, NEW i \in Ids, NEW a \in Nodes, EnqueueStep(i, a)
  PROVE  /\ \A j \in Ids : \A p \in 1 .. depth[j] : Lists'[j][p] = Lists[j][p]
         /\ Lists'[i][depth[i] + 1] = a
<1>1. \A j \in Ids : depth[j] \in Nat /\ depth[j] <= MaxDepth
  BY Zenon, QueueTypes DEF QueueInv
<1>2. PICK t : t = tail[i]
  BY Zenon
<1>3. \A j \in Ids : \A p \in 1 .. depth[j] : Lists[j][p] \in Nodes /\ Lists[j][p] # a
  BY Zenon DEF QueueInv, ListsEnd, EnqueueStep
<1>4. \A j \in Ids : \A p \in 1 .. depth[j] : p # 1 =>
        /\ p - 1 \in 1 .. depth[j] /\ p - 1 # depth[j]
        /\ Lists[j][p] = link[Lists[j][p - 1]]
  <2>1. \A j \in Ids : \A p \in 1 .. depth[j] : p # 1 =>
          p - 1 \in 1 .. depth[j] /\ Lists[j][p] = link[Lists[j][p - 1]]
    BY Zenon, OnLists
  <2>2. \A j \in Ids : \A p \in 1 .. depth[j] : p - 1 # depth[j]
    BY <1>1
  <2>3. QED
    BY Zenon, <2>1, <2>2
<1>5. /\ depth'[i] = depth[i] + 1 /\ depth'[i] \in 0 .. MaxDepth
      /\ depth[i] = 0 => head'[i] = a
      /\ depth[i] # 0 => head'[i] = head[i] /\ link'[t] = a
      /\ \A j \in Ids : j # i => depth'[j] = depth[j] /\ head'[j] = head[j]
      /\ \A b \in Nodes : b # a /\ b # t => link'[b] = link[b]
  <2>1. /\ depth'[i] = depth[i] + 1 /\ depth'[i] \in 0 .. MaxDepth
        /\ depth[i] = 0 => head'[i] = a
        /\ depth[i] # 0 => head'[i] = head[i] /\ link'[tail[i]] = a
        /\ \A j \in Ids : j # i => depth'[j] = depth[j] /\ head'[j] = head[j]
        /\ \A b \in Nodes : b # a /\ b # tail[i] => link'[b] = link[b]
    BY EnqueueSets
  <2>2. QED
    BY Zenon, <1>2, <2>1
<1>6. depth[i] # 0 => depth[i] \in 1 .. depth[i] /\ Lists[i][depth[i]] = t
  <2>1. depth[i] # 0 => depth[i] \in 1 .. depth[i] /\ Lists[i][depth[i]] = tail[i]
    BY Zenon, OnLists
  <2>2. QED
    BY <1>2, <2>1
<1>7. \A j \in Ids : \A p \in 1 .. depth[j] : p # 1 =>
        /\ Lists[j][p - 1] # t
        /\ Lists[j][p] = link'[Lists[j][p - 1]]
  <2>0. ASSUME NEW j \in Ids, NEW p \in 1 .. depth[j], p # 1
        PROVE  Lists[j][p - 1] # t
    <3>0. PICK r : r = p - 1
      BY Zenon
    <3>1. r \in 1 .. depth[j] /\ r # depth[j]
      BY Zenon, <1>4, <2>0, <3>0
    <3>2. Lists[j][r] \in Nodes
      BY Zenon, <1>3, <3>1
    <3>3. CASE depth[i] = 0
      <4>1. tail[i] = "NULL" /\ "NULL" \notin Nodes
        BY Zenon, <3>3, OnLists, SharedQueueAssumption
      <4>2. QED
        BY <1>2, <3>0, <3>2, <4>1
    <3>4. CASE depth[i] # 0
      <4>1. Lists[j][r] = Lists[i][depth[i]] => j = i /\ r = depth[i]
        BY Zenon, <1>6, <3>1, <3>4 DEF QueueInv, ListsApart
      <4>2. QED
        BY <1>6, <3>0, <3>1, <3>4, <4>1
    <3>5. QED
      BY Zenon, <3>3, <3>4
  <2>1. \A j \in Ids : \A p \in 1 .. depth[j] : p # 1 => Lists[j][p - 1] # t
    BY Zenon, <2>0
  <2>2. \A j \in Ids : \A p \in 1 .. depth[j] : p # 1 => link'[Lists[j][p - 1]] = link[Lists[j][p - 1]]
    <3>1. \A j \in Ids : \A p \in 1 .. depth[j] : p # 1 =>
            Lists[j][p - 1] \in Nodes /\ Lists[j][p - 1] # a
      BY Zenon, <1>3, <1>4
    <3>2. \A b \in Nodes : b # a /\ b # t => link'[b] = link[b]
      BY Zenon, <1>5
    <3>3. QED
      BY Zenon, <2>1, <3>1, <3>2
  <2>3. \A j \in Ids : \A p \in 1 .. depth[j] : p # 1 => Lists[j][p] = link[Lists[j][p - 1]]
    BY Zenon, <1>4
  <2>4. QED
    BY <2>1, <2>2, <2>3
<1>8. \A j \in Ids : depth[j] # 0 => Lists[j][1] = head[j]
  BY Zenon, OnLists
<1>9. ASSUME NEW j \in Ids, j # i
      PROVE  \A p \in 1 .. depth[j] : Lists'[j][p] = Lists[j][p]
  <2>1. Goes(Lists[j], head'[j], link', depth[j])
    <3>1. \A p \in 1 .. depth[j] : depth[j] # 0
      BY <1>1
    <3>2. QED
      BY Zenon, <1>5, <1>7, <1>8, <1>9, <3>1 DEF Goes
  <2>2. depth'[j] = depth[j] /\ depth[j] \in 0 .. MaxDepth
    <3>1. depth[j] \in 0 .. MaxDepth
      BY <1>1, SharedQueueAssumption
    <3>2. QED
      BY Zenon, <1>5, <1>9, <3>1
  <2>3. QED
    BY ZenonT(60), <2>1, <2>2, ListAfter
<1>10. PICK n : n = depth[i]
  BY Zenon
<1>11. n \in Nat /\ n + 1 \in 0 .. MaxDepth /\ depth'[i] = n + 1
  BY Zenon, <1>1, <1>5, <1>10
<1> DEFINE s == [p \in 1 .. n + 1 |-> IF p = n + 1 THEN a ELSE Lists[i][p]]
<1>12. /\ s[n + 1] = a
       /\ \A p \in 1 .. n : s[p] = Lists[i][p]
       /\ \A p \in 1 .. n + 1 : p = n + 1 \/ p \in 1 .. n
       /\ \A p \in 1 .. n : p \in 1 .. n + 1
       /\ n # 0 => n \in 1 .. n /\ 1 \in 1 .. n
       /\ (n + 1) - 1 = n /\ (n = 0 <=> n + 1 = 1) /\ n + 1 \in 1 .. n + 1
  BY <1>11
<1> HIDE DEF s
<1>13. Goes(s, head'[i], link', n + 1)
  <2>1. ASSUME NEW p \in 1 .. n + 1 PROVE /\ p = 1 => s[p] = head'[i]
                                          /\ p # 1 => s[p] = link'[s[p - 1]]
    <3>1. CASE p = n + 1
      BY <1>5, <1>6, <1>10, <1>12, <3>1
    <3>2. CASE p \in 1 .. n
      <4>1. n # 0
        BY <1>11, <3>2
      <4>2. s[p] = Lists[i][p] /\ (p # 1 => p - 1 \in 1 .. n /\ s[p - 1] = Lists[i][p - 1])
        BY Zenon, <1>4, <1>10, <1>12, <3>2
      <4>3. p = 1 => s[p] = head'[i]
        BY Zenon, <1>5, <1>8, <1>10, <4>1, <4>2
      <4>4. p # 1 => Lists[i][p] = link'[Lists[i][p - 1]]
        BY Zenon, <1>7, <1>10, <3>2
      <4>5. QED
        BY Zenon, <4>2, <4>3, <4>4
    <3>3. QED
      BY ZenonT(60), <1>12, <3>1, <3>2
  <2>2. QED
    BY Zenon, <2>1 DEF Goes
<1>14. \A p \in 1 .. n + 1 : Lists'[i][p] = s[p]
  BY Zenon, <1>11, <1>13, ListAfter
<1>15. Lists'[i][n + 1] = a /\ \A p \in 1 .. n : Lists'[i][p] = Lists[i][p]
  BY Zenon, <1>12, <1>14
<1>16. QED
  BY Zenon, <1>9, <1>10, <1>15
\* Where a node is after an enqueue.
LEMMA EnqueuePlaces ==
  ASSUME QueueInv, NEW i \in Ids, NEW a \in Nodes, EnqueueStep(i, a)
  PROVE  /\ \A j \in Ids : \A p \in 1 .. depth'[j] :
              \/ p \in 1 .. depth[j] /\ Lists'[j][p] = Lists[j][p]
              \/ j = i /\ p = depth[i] + 1 /\ Lists'[j][p] = a
         /\ \A j \in Ids : 1 .. depth[j] \subseteq 1 .. depth'[j]
         /\ depth[i] + 1 \in 1 .. depth'[i]
         /\ \A j \in Ids : \A p \in 1 .. depth[j] : Lists[j][p] \in Nodes /\ Lists[j][p] # a
<1>1. /\ \A j \in Ids : depth[j] \in Nat
      /\ depth'[i] = depth[i] + 1
      /\ \A j \in Ids : j # i => depth'[j] = depth[j]
  BY EnqueueSets, QueueTypes DEF QueueInv
<1>2. /\ \A j \in Ids : \A p \in 1 .. depth'[j] :
           p \in 1 .. depth[j] \/ (j = i /\ p = depth[i] + 1)
      /\ \A j \in Ids : 1 .. depth[j] \subseteq 1 .. depth'[j]
      /\ depth[i] + 1 \in 1 .. depth'[i]
  BY <1>1
<1>3. /\ \A j \in Ids : \A p \in 1 .. depth[j] : Lists'[j][p] = Lists[j][p]
      /\ Lists'[i][depth[i] + 1] = a
  BY Zenon, EnqueueLists
<1>4. \A j \in Ids : \A p \in 1 .. depth[j] : Lists[j][p] \in Nodes /\ Lists[j][p] # a
  BY Zenon DEF QueueInv, ListsEnd, EnqueueStep
<1>5. QED
  BY <1>2, <1>3, <1>4

\* A message is appended to a queue.
LEMMA EnqueueInv ==
  ASSUME QueueInv, NEW i \in Ids, NEW a \in Nodes, EnqueueStep(i, a)
  PROVE  QueueInv'
<1>1. /\ \A j \in Ids : \A p \in 1 .. depth'[j] :
           \/ p \in 1 .. depth[j] /\ Lists'[j][p] = Lists[j][p]
           \/ j = i /\ p = depth[i] + 1 /\ Lists'[j][p] = a
      /\ \A j \in Ids : 1 .. depth[j] \subseteq 1 .. depth'[j]
      /\ depth[i] + 1 \in 1 .. depth'[i]
      /\ \A j \in Ids : \A p \in 1 .. depth[j] : Lists[j][p] \in Nodes /\ Lists[j][p] # a
  BY Zenon, EnqueuePlaces
<1>2. /\ \A j \in Ids : \A p \in 1 .. depth[j] : Lists'[j][p] = Lists[j][p]
      /\ Lists'[i][depth[i] + 1] = a
  BY Zenon, EnqueueLists
<1>3. /\ depth'[i] = depth[i] + 1
      /\ tail'[i] = a /\ data'[a] = sent + 1 /\ link'[a] = "NULL"
      /\ \A j \in Ids : j # i => depth'[j] = depth[j] /\ head'[j] = head[j]
                                 /\ tail'[j] = tail[j]
      /\ \A b \in Nodes : b # a => data'[b] = data[b]
      /\ \A b \in Nodes : b # a /\ b # tail[i] => link'[b] = link[b]
  BY EnqueueSets
<1>4. ListsEnd /\ ListsApart /\ HandsApart /\ NoneStray
  BY Zenon DEF QueueInv
<1>5. /\ \A j \in Ids : depth[j] \in Nat
      /\ \A c \in Executions : msg[c] \in Nodes \cup {"NULL"}
      /\ sent \in Nat /\ "NULL" \notin Nodes
  BY Zenon, QueueTypes DEF QueueInv
<1>6. data[a] = 0 /\ names' = names /\ msg' = msg
  BY Zenon DEF EnqueueStep
<1>7. sent + 1 # 0 /\ depth[i] + 1 # 0
  BY <1>5
<1>8. QueueTypeOK'
  <2>1. /\ head \in [Ids -> Nodes \cup {"NULL"}] /\ tail \in [Ids -> Nodes \cup {"NULL"}]
        /\ depth \in [Ids -> 0 .. MaxDepth] /\ data \in [Nodes -> 0 .. MaxSent]
        /\ link \in [Nodes -> Nodes \cup {"NULL"}]
        /\ sent \in 0 .. MaxSent /\ sent < MaxSent /\ MaxSent \in Nat
    BY Zenon, SharedQueueAssumption DEF QueueInv, QueueTypeOK, EnqueueStep
  <2>2. sent + 1 \in 0 .. MaxSent
    BY <2>1
  <2>3. depth[i] + 1 \in 0 .. MaxDepth
    BY <1>3, EnqueueSets
  <2>4. /\ data' \in [Nodes -> 0 .. MaxSent] /\ tail' \in [Ids -> Nodes \cup {"NULL"}]
        /\ depth' \in [Ids -> 0 .. MaxDepth] /\ sent' \in 0 .. MaxSent
    BY Zenon, <2>1, <2>2, <2>3 DEF EnqueueStep
  <2>5. head' \in [Ids -> Nodes \cup {"NULL"}]
    BY Zenon, <2>1 DEF EnqueueStep
  <2>6. link' \in [Nodes -> Nodes \cup {"NULL"}]
    BY Zenon, <2>1 DEF EnqueueStep, Linked
  <2>7. QED
    BY Zenon, <1>6, <2>4, <2>5, <2>6 DEF QueueInv, QueueTypeOK
<1>9. ListsEnd'
  <2>1. ASSUME NEW j \in Ids, NEW p \in 1 .. depth'[j]
        PROVE  Lists'[j][p] \in Nodes /\ data'[Lists'[j][p]] # 0
    <3>1. PICK x : x = Lists'[j][p]
      BY Zenon
    <3>2. x = a \/ (p \in 1 .. depth[j] /\ x = Lists[j][p])
      BY Zenon, <1>1, <3>1
    <3>3. CASE x = a
      <4>1. data'[a] # 0
        BY Zenon, <1>3, <1>7
      <4>2. QED
        BY Zenon, <3>1, <3>3, <4>1
    <3>4. CASE p \in 1 .. depth[j] /\ x = Lists[j][p]
      <4>0. p \in 1 .. depth[j] /\ x = Lists[j][p] /\ data[Lists[j][p]] # 0
        BY Zenon, <1>4, <3>4 DEF ListsEnd
      <4>1. x \in Nodes /\ x # a /\ data[x] # 0
        BY Zenon, <1>1, <4>0
      <4>2. data'[x] = data[x]
        BY Zenon, <1>3, <4>1
      <4>3. QED
        BY Zenon, <3>1, <4>1, <4>2
    <3>5. QED
      BY Zenon, <3>2, <3>3, <3>4
  <2>2. \A j \in Ids : depth'[j] = 0 => head'[j] = "NULL" /\ tail'[j] = "NULL"
    <3>1. depth'[i] # 0
      BY <1>3, <1>7
    <3>2. \A j \in Ids : depth[j] = 0 => head[j] = "NULL" /\ tail[j] = "NULL"
      BY Zenon, <1>4 DEF ListsEnd
    <3>3. QED
      BY <1>3, <3>1, <3>2
  <2>3. ASSUME NEW j \in Ids, depth'[j] > 0
        PROVE  tail'[j] = Lists'[j][depth'[j]] /\ link'[tail'[j]] = "NULL"
    <3>1. CASE j = i
      BY <1>2, <1>3, <3>1
    <3>2. CASE j # i
      <4>0. PICK n : n = depth[j]
        BY Zenon
      <4>1. n \in 1 .. n /\ n > 0 /\ depth'[j] = n
        BY SMTT(30), <1>3, <1>5, <2>3, <3>2, <4>0
      <4>2. Lists'[j][n] = Lists[j][n] /\ Lists[j][n] # a /\ Lists[j][n] \in Nodes
        BY <1>1, <1>2, <4>0, <4>1
      <4>3. tail[j] = Lists[j][n] /\ link[tail[j]] = "NULL" /\ tail'[j] = tail[j]
        BY <1>3, <1>4, <3>2, <4>0, <4>1 DEF ListsEnd
      <4>4. Lists[j][n] # tail[i]
        <5>1. CASE depth[i] = 0
          BY <1>4, <1>5, <4>2, <5>1 DEF ListsEnd
        <5>2. CASE depth[i] # 0
          <6>1. depth[i] \in 1 .. depth[i] /\ Lists[i][depth[i]] = tail[i]
            BY Zenon, <5>2, OnLists
          <6>2. QED
            BY <1>4, <3>2, <4>0, <4>1, <6>1 DEF ListsApart
        <5>3. QED
          BY Zenon, <5>1, <5>2
      <4>5. QED
        BY <1>3, <4>1, <4>2, <4>3, <4>4
    <3>3. QED
      BY Zenon, <3>1, <3>2
  <2>4. QED
    BY SMTT(30), <2>1, <2>2, <2>3 DEF ListsEnd
<1>10. ListsApart'
  <2>1. ASSUME NEW j \in Ids, NEW k \in Ids, NEW p \in 1 .. depth'[j], NEW q \in 1 .. depth'[k],
               Lists'[j][p] = Lists'[k][q]
        PROVE  j = k /\ p = q
    BY SMTT(30), <1>1, <1>4, <2>1 DEF ListsApart
  <2>2. QED
    BY <2>1 DEF ListsApart
<1>11. HandsApart'
  <2>1. \A c \in Executions : msg[c] # "NULL" => msg[c] # a /\ msg[c] \in Nodes
    BY Zenon, <1>4, <1>5, <1>6 DEF HandsApart
  <2>2. QED
    BY <1>1, <1>3, <1>4, <1>6, <2>1 DEF HandsApart
<1>12. NoneStray'
  <2>1. ASSUME NEW b \in Nodes, data'[b] # 0
        PROVE  \/ \E j \in Ids : \E p \in 1 .. depth'[j] : Lists'[j][p] = b
               \/ \E c \in Executions : msg'[c] = b
    <3>1. CASE b = a
      BY SMTT(30), <1>1, <1>2, <3>1
    <3>2. CASE b # a
      <4>1. \/ \E j \in Ids : \E p \in 1 .. depth[j] : Lists[j][p] = b
            \/ \E c \in Executions : msg[c] = b
        BY <1>3, <1>4, <2>1, <3>2 DEF NoneStray
      <4>2. QED
        <5>1. ASSUME NEW j \in Ids, NEW p \in 1 .. depth[j], Lists[j][p] = b
              PROVE  \E k \in Ids : \E q \in 1 .. depth'[k] : Lists'[k][q] = b
          <6>1. p \in 1 .. depth'[j] /\ Lists'[j][p] = Lists[j][p]
            BY Zenon, <1>1, <1>2
          <6>2. QED
            BY Zenon, <5>1, <6>1
        <5>2. msg' = msg
          BY Zenon, <1>6
        <5>3. QED
          BY ZenonT(60), <4>1, <5>1, <5>2
    <3>3. QED
      BY ZenonT(60), <3>1, <3>2
  <2>2. QED
    BY <2>1 DEF NoneStray
<1>13. QED
  BY Zenon, <1>8, <1>9, <1>10, <1>11, <1>12 DEF QueueInv

\* What a dequeue assigns: the first node is unlinked, and the tail is reset
\* just when it was the only one.
LEMMA DequeueSets ==
  ASSUME QueueInv, NEW c \in Executions, NEW i \in Ids, Dequeue(c, i)
  PROVE  /\ depth[i] # 0 /\ depth[i] \in Nat
         /\ depth'[i] = depth[i] - 1 /\ head'[i] = link[head[i]]
         /\ link[head[i]] = "NULL" <=> depth[i] = 1
         /\ tail'[i] = IF depth[i] = 1 THEN "NULL" ELSE tail[i]
         /\ head[i] \in Nodes /\ Lists[i][1] = head[i] /\ 1 \in 1 .. depth[i]
         /\ msg'[c] = head[i] /\ msg[c] = "NULL"
         /\ \A j \in Ids : j # i => depth'[j] = depth[j] /\ head'[j] = head[j]
                                    /\ tail'[j] = tail[j]
         /\ \A d \in Executions : d # c => msg'[d] = msg[d]
         /\ data' = data /\ link' = link /\ names' = names /\ sent' = sent
<1>1. /\ head \in [Ids -> Nodes \cup {"NULL"}] /\ tail \in [Ids -> Nodes \cup {"NULL"}]
      /\ depth \in [Ids -> 0 .. MaxDepth] /\ msg \in [Executions -> Nodes \cup {"NULL"}]
  BY Zenon DEF QueueInv, QueueTypeOK
<1>2. depth[i] \in Nat /\ "NULL" \notin Nodes
  BY Zenon, QueueTypes DEF QueueInv
<1>3. /\ head[i] # "NULL" /\ msg[c] = "NULL"
      /\ head' = [head EXCEPT ![i] = link[head[i]]]
      /\ tail' = IF link[head[i]] = "NULL" THEN [tail EXCEPT ![i] = "NULL"] ELSE tail
      /\ depth' = [depth EXCEPT ![i] = @ - 1]
      /\ msg' = [msg EXCEPT ![c] = head[i]]
      /\ data' = data /\ link' = link /\ names' = names /\ sent' = sent
  BY Zenon DEF Dequeue
<1>4. /\ depth[i] # 0 /\ 1 \in 1 .. depth[i]
      /\ Lists[i][1] = head[i] /\ Lists[i][depth[i]] = tail[i]
      /\ link[tail[i]] = "NULL"
      /\ 1 # depth[i] => link[Lists[i][1]] # "NULL"
  BY ZenonT(60), <1>3, OnLists
<1>5. link[head[i]] = "NULL" <=> depth[i] = 1
  BY <1>4
<1>6. /\ depth'[i] = depth[i] - 1 /\ head'[i] = link[head[i]] /\ msg'[c] = head[i]
      /\ \A j \in Ids : j # i => depth'[j] = depth[j] /\ head'[j] = head[j]
      /\ \A d \in Executions : d # c => msg'[d] = msg[d]
      /\ head[i] \in Nodes
  BY Zenon, <1>1, <1>3
<1>7. /\ tail'[i] = IF depth[i] = 1 THEN "NULL" ELSE tail[i]
      /\ \A j \in Ids : j # i => tail'[j] = tail[j]
  BY <1>1, <1>3, <1>5
<1>8. QED
  BY Zenon, <1>2, <1>3, <1>4, <1>5, <1>6, <1>7

\* The list moves up by one place, and nothing else moves.
LEMMA DequeueLists ==
  ASSUME QueueInv, NEW c \in Executions, NEW i \in Ids, Dequeue(c, i)
  PROVE  /\ \A j \in Ids : j # i => \A p \in 1 .. depth[j] : Lists'[j][p] = Lists[j][p]
         /\ \A p \in 1 .. depth[i] - 1 : Lists'[i][p] = Lists[i][p + 1]
<1>1. \A j \in Ids : depth[j] \in Nat /\ depth[j] <= MaxDepth
  BY Zenon, QueueTypes DEF QueueInv
<1>2. /\ depth[i] # 0 /\ depth'[i] = depth[i] - 1 /\ head'[i] = link[head[i]]
      /\ Lists[i][1] = head[i] /\ link' = link
      /\ \A j \in Ids : j # i => depth'[j] = depth[j] /\ head'[j] = head[j]
  BY DequeueSets
<1>3. ASSUME NEW j \in Ids, j # i
      PROVE  \A p \in 1 .. depth[j] : Lists'[j][p] = Lists[j][p]
  <2>1. Goes(Lists[j], head[j], link, depth[j])
    BY Zenon, ListSteps DEF QueueInv
  <2>2. Goes(Lists[j], head'[j], link', depth[j])
    BY <1>2, <1>3, <2>1
  <2>3. depth'[j] = depth[j] /\ depth[j] \in 0 .. MaxDepth
    BY <1>1, <1>2, <1>3, SharedQueueAssumption
  <2>4. QED
    BY ZenonT(40), <2>2, <2>3, ListAfter
<1>4. PICK m : m = depth[i] - 1
  BY Zenon
<1>5. m \in Nat /\ m \in 0 .. MaxDepth /\ depth[i] = m + 1 /\ depth'[i] = m
  BY <1>1, <1>2, <1>4, SharedQueueAssumption
<1>6. \A p \in 1 .. m : /\ p \in 1 .. depth[i] /\ p # depth[i]
                        /\ p + 1 \in 1 .. depth[i]
                        /\ p # 1 => p - 1 \in 1 .. m /\ (p - 1) + 1 = p
  BY <1>5
<1>7. \A p \in 1 .. m : Lists[i][p + 1] = link[Lists[i][p]]
  <2>1. \A p \in 1 .. depth[i] : p # depth[i] => Lists[i][p + 1] = link[Lists[i][p]]
    BY Zenon, OnLists
  <2>2. QED
    BY Zenon, <1>6, <2>1
<1> DEFINE s == [p \in 1 .. m |-> Lists[i][p + 1]]
<1>8. \A p \in 1 .. m : s[p] = Lists[i][p + 1]
  BY Zenon
<1> HIDE DEF s
<1>9. Goes(s, head'[i], link', m)
  <2>1. ASSUME NEW p \in 1 .. m, p = 1 PROVE s[p] = head'[i]
    BY <1>2, <1>7, <1>8, <2>1
  <2>2. ASSUME NEW p \in 1 .. m, p # 1 PROVE s[p] = link'[s[p - 1]]
    <3>1. s[p] = link[Lists[i][p]]
      BY Zenon, <1>7, <1>8
    <3>2. s[p - 1] = Lists[i][(p - 1) + 1] /\ (p - 1) + 1 = p
      BY Zenon, <1>6, <1>8, <2>2
    <3>3. QED
      BY <1>2, <3>1, <3>2
  <2>3. QED
    BY Zenon, <2>1, <2>2 DEF Goes
<1>10. \A p \in 1 .. m : Lists'[i][p] = s[p]
  BY ZenonT(40), <1>5, <1>9, ListAfter
<1>11. QED
  BY Zenon, <1>3, <1>4, <1>8, <1>10

\* A message is unlinked from a queue.
LEMMA DequeueInv ==
  ASSUME QueueInv, NEW c \in Executions, NEW i \in Ids, Dequeue(c, i)
  PROVE  QueueInv'
<1>1. /\ depth[i] # 0 /\ depth[i] \in Nat /\ depth'[i] = depth[i] - 1
      /\ link[head[i]] = "NULL" <=> depth[i] = 1
      /\ head'[i] = link[head[i]]
      /\ tail'[i] = IF depth[i] = 1 THEN "NULL" ELSE tail[i]
      /\ head[i] \in Nodes /\ Lists[i][1] = head[i] /\ 1 \in 1 .. depth[i]
      /\ msg'[c] = head[i] /\ msg[c] = "NULL"
  BY DequeueSets
<1>2. /\ \A j \in Ids : j # i => depth'[j] = depth[j] /\ head'[j] = head[j]
                                 /\ tail'[j] = tail[j]
      /\ \A d \in Executions : d # c => msg'[d] = msg[d]
      /\ data' = data /\ link' = link /\ names' = names /\ sent' = sent
  BY DequeueSets
<1>3. /\ \A j \in Ids : j # i => \A p \in 1 .. depth[j] : Lists'[j][p] = Lists[j][p]
      /\ \A p \in 1 .. depth[i] - 1 : Lists'[i][p] = Lists[i][p + 1]
  BY Zenon, DequeueLists
<1>4. ListsEnd /\ ListsApart /\ HandsApart /\ NoneStray
  BY Zenon DEF QueueInv
<1>5. /\ \A j \in Ids : depth[j] \in Nat
      /\ \A d \in Executions : msg[d] \in Nodes \cup {"NULL"}
      /\ "NULL" \notin Nodes
  BY ZenonT(60), QueueTypes DEF QueueInv
<1>6. \A j \in Ids : \A p \in 1 .. depth'[j] :
        \/ j # i /\ p \in 1 .. depth[j] /\ Lists'[j][p] = Lists[j][p]
        \/ j = i /\ p + 1 \in 1 .. depth[i] /\ p + 1 # 1 /\ Lists'[i][p] = Lists[i][p + 1]
  BY <1>1, <1>2, <1>3, <1>5
<1>7. QueueTypeOK'
  <2>1. /\ head \in [Ids -> Nodes \cup {"NULL"}] /\ tail \in [Ids -> Nodes \cup {"NULL"}]
        /\ depth \in [Ids -> 0 .. MaxDepth] /\ msg \in [Executions -> Nodes \cup {"NULL"}]
        /\ link \in [Nodes -> Nodes \cup {"NULL"}]
    BY ZenonT(60) DEF QueueInv, QueueTypeOK
  <2>2. depth[i] - 1 \in 0 .. MaxDepth
    <3>1. depth[i] \in 0 .. MaxDepth /\ MaxDepth \in Nat
      BY Zenon, <2>1, SharedQueueAssumption
    <3>2. QED
      BY <1>1, <3>1
  <2>3. /\ depth' \in [Ids -> 0 .. MaxDepth]
        /\ head' \in [Ids -> Nodes \cup {"NULL"}]
        /\ msg' \in [Executions -> Nodes \cup {"NULL"}]
    BY Zenon, <1>1, <2>1, <2>2 DEF Dequeue
  <2>4. tail' \in [Ids -> Nodes \cup {"NULL"}]
    BY ZenonT(40), <2>1 DEF Dequeue
  <2>5. QED
    BY Zenon, <1>2, <2>3, <2>4 DEF QueueInv, QueueTypeOK
<1>8. ListsEnd'
  <2>1. ASSUME NEW j \in Ids, NEW p \in 1 .. depth'[j]
        PROVE  Lists'[j][p] \in Nodes /\ data'[Lists'[j][p]] # 0
    <3>1. PICK k \in Ids : \E q \in 1 .. depth[k] : Lists'[j][p] = Lists[k][q]
      BY SMTT(30), <1>6, <2>1
    <3>2. PICK q \in 1 .. depth[k] : Lists'[j][p] = Lists[k][q]
      BY Zenon, <3>1
    <3>3. Lists[k][q] \in Nodes /\ data[Lists[k][q]] # 0
      BY Zenon, <1>4 DEF ListsEnd
    <3>4. QED
      BY SMTT(30), <1>2, <3>2, <3>3
  <2>2. ASSUME NEW j \in Ids, depth'[j] = 0 PROVE head'[j] = "NULL" /\ tail'[j] = "NULL"
    <3>1. CASE j = i
      <4>1. depth[i] = 1
        <5>1. depth[i] \in Nat /\ depth'[i] = depth[i] - 1 /\ depth'[i] = 0
          BY Zenon, <1>1, <2>2, <3>1
        <5>2. QED
          BY <5>1
      <4>2. QED
        BY Zenon, <1>1, <3>1, <4>1
    <3>2. CASE j # i
      <4>1. depth'[j] = depth[j] /\ head'[j] = head[j] /\ tail'[j] = tail[j]
        BY Zenon, <1>2, <3>2
      <4>2. depth[j] = 0
        BY Zenon, <2>2, <4>1
      <4>3. head[j] = "NULL" /\ tail[j] = "NULL"
        BY Zenon, <1>4, <4>2 DEF ListsEnd
      <4>4. QED
        BY Zenon, <4>1, <4>3
    <3>3. QED
      BY Zenon, <3>1, <3>2
  <2>3. ASSUME NEW j \in Ids, depth'[j] > 0
        PROVE  tail'[j] = Lists'[j][depth'[j]] /\ link'[tail'[j]] = "NULL"
    <3>1. CASE j = i
      <4>0. PICK m : m = depth[i] - 1
        BY Zenon
      <4>1. m \in 1 .. m /\ m + 1 = depth[i] /\ depth[i] # 1 /\ depth'[i] = m
        <5>1. depth[i] \in Nat /\ depth'[i] = depth[i] - 1 /\ depth'[i] > 0
          BY Zenon, <1>1, <2>3, <3>1
        <5>2. QED
          BY <4>0, <5>1
      <4>2. Lists'[i][m] = Lists[i][m + 1] /\ tail'[i] = tail[i]
        BY <1>1, <1>3, <4>0, <4>1
      <4>3. tail[i] = Lists[i][depth[i]] /\ link[tail[i]] = "NULL"
        BY ZenonT(60), <1>1, OnLists
      <4>4. QED
        BY Zenon, <1>2, <3>1, <4>1, <4>2, <4>3
    <3>2. CASE j # i
      <4>1. depth'[j] = depth[j] /\ depth[j] > 0 /\ depth[j] \in 1 .. depth[j]
        BY <1>2, <1>5, <2>3, <3>2
      <4>2. tail[j] = Lists[j][depth[j]] /\ link[tail[j]] = "NULL"
        BY Zenon, <1>4, <4>1 DEF ListsEnd
      <4>3. QED
        BY SMTT(30), <1>2, <1>3, <3>2, <4>1, <4>2
    <3>3. QED
      BY ZenonT(40), <3>1, <3>2
  <2>4. QED
    <3>1. \A j \in Ids : \A p \in 1 .. depth'[j] : Lists'[j][p] \in Nodes /\ data'[Lists'[j][p]] # 0
      BY Zenon, <2>1
    <3>2. \A j \in Ids : depth'[j] = 0 => head'[j] = "NULL" /\ tail'[j] = "NULL"
      BY Zenon, <2>2
    <3>3. \A j \in Ids : depth'[j] > 0 =>
            tail'[j] = Lists'[j][depth'[j]] /\ link'[tail'[j]] = "NULL"
      BY Zenon, <2>3
    <3>4. QED
      BY Zenon, <3>1, <3>2, <3>3 DEF ListsEnd
<1>9. ListsApart'
  <2>1. ASSUME NEW j \in Ids, NEW k \in Ids, NEW p \in 1 .. depth'[j], NEW q \in 1 .. depth'[k],
               Lists'[j][p] = Lists'[k][q]
        PROVE  j = k /\ p = q
    <3>1. p \in Int /\ q \in Int
      OBVIOUS
    <3>2. QED
      BY <1>4, <1>6, <2>1, <3>1 DEF ListsApart
  <2>2. QED
    BY <2>1 DEF ListsApart
<1>10. HandsApart'
  <2>1. \A j \in Ids : \A p \in 1 .. depth'[j] : Lists'[j][p] # head[i]
    <3>1. head[i] = Lists[i][1] /\ 1 \in 1 .. depth[i]
      BY Zenon, <1>1
    <3>2. ASSUME NEW j \in Ids, NEW p \in 1 .. depth'[j] PROVE Lists'[j][p] # head[i]
      <4>1. PICK x : x = Lists'[j][p]
        BY Zenon
      <4>2. \/ j # i /\ p \in 1 .. depth[j] /\ x = Lists[j][p]
            \/ p + 1 \in 1 .. depth[i] /\ p + 1 # 1 /\ x = Lists[i][p + 1]
        BY Zenon, <1>6, <4>1
      <4>3. x # Lists[i][1]
        <5>1. CASE j # i /\ p \in 1 .. depth[j] /\ x = Lists[j][p]
          BY Zenon, <1>4, <3>1, <5>1 DEF ListsApart
        <5>2. CASE p + 1 \in 1 .. depth[i] /\ p + 1 # 1 /\ x = Lists[i][p + 1]
          <6>1. PICK q : q = p + 1
            BY Zenon
          <6>2. q \in 1 .. depth[i] /\ q # 1 /\ x = Lists[i][q]
            BY <5>2, <6>1
          <6>3. QED
            BY Zenon, <1>4, <3>1, <6>2 DEF ListsApart
        <5>3. QED
          BY Zenon, <4>2, <5>1, <5>2
      <4>4. QED
        BY Zenon, <3>1, <4>1, <4>3
    <3>3. QED
      BY Zenon, <3>2
  <2>2. \A d \in Executions : msg[d] # head[i]
    <3>1. ASSUME NEW d \in Executions, msg[d] = head[i] PROVE FALSE
      <4>1. msg[d] # "NULL" /\ Lists[i][1] = msg[d] /\ 1 \in 1 .. depth[i]
        BY Zenon, <1>1, <1>5, <3>1
      <4>2. QED
        BY Zenon, <1>4, <4>1 DEF HandsApart
    <3>2. QED
      BY Zenon, <3>1
  <2>3. data[head[i]] # 0
    BY SMTT(30), <1>1, <1>4 DEF ListsEnd
  <2>4. ASSUME NEW d \in Executions, d # c, msg[d] # "NULL"
        PROVE  \A j \in Ids : \A p \in 1 .. depth'[j] : Lists'[j][p] # msg[d]
    BY <1>4, <1>6, <2>4 DEF HandsApart
  <2>5. ASSUME NEW d \in Executions, msg'[d] # "NULL"
        PROVE  /\ data[msg'[d]] # 0
               /\ \A j \in Ids : \A p \in 1 .. depth'[j] : Lists'[j][p] # msg'[d]
               /\ \A e \in Executions : msg'[e] = msg'[d] => e = d
    <3>1. CASE d = c
      <4>1. msg'[c] = head[i]
        BY Zenon, <1>1
      <4>2. \A e \in Executions : e # c => msg'[e] # head[i]
        BY Zenon, <1>2, <2>2
      <4>3. QED
        BY SMTT(30), <2>1, <2>3, <3>1, <4>1, <4>2
    <3>2. CASE d # c
      <4>1. msg'[d] = msg[d] /\ data[msg[d]] # 0
            /\ \A e \in Executions : msg[e] = msg[d] => e = d
        <5>1. msg'[d] = msg[d]
          BY Zenon, <1>2, <3>2
        <5>2. msg[d] # "NULL"
          BY Zenon, <2>5, <5>1
        <5>3. QED
          BY Zenon, <1>4, <5>1, <5>2 DEF HandsApart
      <4>2. msg[d] # "NULL"
        BY Zenon, <2>5, <4>1
      <4>3. \A j \in Ids : \A p \in 1 .. depth'[j] : Lists'[j][p] # msg[d]
        BY Zenon, <2>4, <3>2, <4>2
      <4>4. ASSUME NEW e \in Executions, msg'[e] = msg[d] PROVE e = d
        <5>1. CASE e = c
          <6>1. msg[d] = head[i]
            BY Zenon, <1>1, <4>4, <5>1
          <6>2. QED
            BY Zenon, <2>2, <6>1
        <5>2. CASE e # c
          <6>1. msg[e] = msg[d]
            BY Zenon, <1>2, <4>4, <5>2
          <6>2. QED
            BY Zenon, <4>1, <6>1
        <5>3. QED
          BY Zenon, <5>1, <5>2
      <4>5. QED
        <5>1. PICK x : x = msg[d]
          BY Zenon
        <5>2. msg'[d] = x /\ data[x] # 0
          BY Zenon, <4>1, <5>1
        <5>3. \A j \in Ids : \A p \in 1 .. depth'[j] : Lists'[j][p] # x
          BY Zenon, <4>3, <5>1
        <5>4. \A e \in Executions : msg'[e] = x => e = d
          BY Zenon, <4>4, <5>1
        <5>5. QED
          BY SMTT(30), <5>2, <5>3, <5>4
    <3>3. QED
      BY ZenonT(60), <3>1, <3>2
  <2>6. QED
    BY SMTT(30), <1>2, <2>5 DEF HandsApart
<1>11. NoneStray'
  <2>1. ASSUME NEW b \in Nodes, data[b] # 0
        PROVE  \/ \E j \in Ids : \E p \in 1 .. depth'[j] : Lists'[j][p] = b
               \/ \E d \in Executions : msg'[d] = b
    <3>1. CASE \E d \in Executions : msg[d] = b
      BY <1>1, <1>2, <1>5, <3>1
    <3>2. ASSUME NEW j \in Ids, NEW p \in 1 .. depth[j], Lists[j][p] = b
          PROVE  \/ \E k \in Ids : \E q \in 1 .. depth'[k] : Lists'[k][q] = b
                 \/ \E d \in Executions : msg'[d] = b
      <4>1. CASE j # i
        BY SMTT(30), <1>2, <1>3, <3>2, <4>1
      <4>2. CASE j = i /\ p = 1
        BY <1>1, <3>2, <4>2
      <4>3. CASE j = i /\ p # 1
        <5>1. p - 1 \in 1 .. depth[i] - 1 /\ (p - 1) + 1 = p
          <6>1. depth[i] \in Nat
            BY Zenon, <1>1
          <6>2. QED
            BY <6>1, <3>2, <4>3
        <5>2. Lists'[i][p - 1] = b /\ p - 1 \in 1 .. depth'[i]
          BY <1>1, <1>3, <3>2, <4>3, <5>1
        <5>3. QED
          BY ZenonT(60), <5>2
      <4>4. QED
        BY ZenonT(60), <4>1, <4>2, <4>3
    <3>3. QED
      BY ZenonT(60), <1>4, <2>1, <3>1, <3>2 DEF NoneStray
  <2>2. QED
    BY <1>2, <2>1 DEF NoneStray
<1>12. QED
  BY Zenon, <1>7, <1>8, <1>9, <1>10, <1>11 DEF QueueInv

\* Every step keeps the invariant.
LEMMA QueueNextInv == QueueInv /\ [QueueNext]_queueVars => QueueInv'
<1> SUFFICES ASSUME QueueInv, [QueueNext]_queueVars PROVE QueueInv'
  OBVIOUS
<1>1. ASSUME NEW n \in Names, Register(n) PROVE QueueInv'
  BY Zenon, <1>1, RegisterInv
<1>2. ASSUME NEW i \in Ids, Enqueue(i) PROVE QueueInv'
  <2>1. PICK a \in Nodes : EnqueueStep(i, a)
    BY Zenon, <1>2 DEF Enqueue, EnqueueStep
  <2>2. QED
    BY Zenon, <2>1, EnqueueInv
<1>3. ASSUME NEW c \in Executions, NEW i \in Ids, Dequeue(c, i) PROVE QueueInv'
  BY Zenon, <1>3, DequeueInv
<1>4. ASSUME NEW c \in Executions, ReturnBytes(c) PROVE QueueInv'
  BY Zenon, <1>4, ReturnBytesInv
<1>5. CASE UNCHANGED queueVars
  <2>1. UNCHANGED <<names, head, tail, depth, data, link, msg, sent>>
    BY Zenon, <1>5 DEF queueVars, listVars
  <2>2. Lists' = Lists
    BY Zenon, <2>1, SameLists
  <2>3. QueueTypeOK /\ ListsEnd /\ ListsApart /\ HandsApart /\ NoneStray
    BY Zenon DEF QueueInv
  <2>4. QueueTypeOK'
    BY ZenonT(60), <2>1, <2>3 DEF QueueTypeOK
  <2>5. ListsEnd'
    <3>1. ListsEnd /\ UNCHANGED <<head, tail, depth, data, link>>
      BY Zenon, <2>1, <2>3
    <3>2. QED
      BY SMTT(30), <3>1, <2>2 DEF ListsEnd
  <2>6. ListsApart'
    <3>1. ListsApart /\ UNCHANGED depth
      BY Zenon, <2>1, <2>3
    <3>2. QED
      BY SMTT(30), <3>1, <2>2 DEF ListsApart
  <2>7. HandsApart'
    BY SMTT(30), <2>1, <2>2, <2>3 DEF HandsApart
  <2>8. NoneStray'
    BY <2>1, <2>2, <2>3 DEF NoneStray
  <2>9. QED
    BY Zenon, <2>4, <2>5, <2>6, <2>7, <2>8 DEF QueueInv
<1>6. QED
  BY Zenon, <1>1, <1>2, <1>3, <1>4, <1>5 DEF QueueNext

\* The invariant holds throughout.
LEMMA QueueInvariance == QueueSpec => []QueueInv
BY QueueInitInv, QueueNextInv, PTL DEF QueueSpec

\* The variables of the queues keep their types, and the limits are kept.
THEOREM QueueTypeCorrect == QueueSpec => []QueueTypeOK
<1>1. QueueInv => QueueTypeOK
  BY Zenon DEF QueueInv
<1>2. QED
  BY <1>1, QueueInvariance, PTL

\* The queues of a name, and the newest of a set of them.
Found(n) == {i \in DOMAIN names : Matches(names[i], n)}

Newest(S) == IF S = {} THEN 0 ELSE CHOOSE i \in S : \A j \in S : j <= i

\* A name that keeps its queues keeps the one it is resolved to.
LEMMA SameResolved ==
  ASSUME NEW n, Found(n)' = Found(n)
  PROVE  Resolved(n)' = Resolved(n)
<1>1. Resolved(n) = Newest(Found(n))
  BY Zenon DEF Resolved, Newest, Found
<1>2. Resolved(n)' = Newest(Found(n)')
  BY Zenon DEF Resolved, Newest, Found
<1>3. Newest(Found(n)') = Newest(Found(n))
  BY Zenon
<1>4. QED
  BY Zenon, <1>1, <1>2, <1>3

\* vwasm_queue_register never makes a second queue for a name that the search
\* can find, nor more queues than VWASM_QUEUE_MAX_COUNT.
THEOREM NameHasOneQueue == QueueSpec => OneQueuePerName
<1> DEFINE Stays(n) == \/ Resolved(n)' = Resolved(n)
                       \/ \E m \in Names \ {n} : Matches(m, n) /\ names' = Append(names, m)
           Step == Len(names') <= MaxCount /\ \A n \in Names : Resolved(n) # 0 => Stays(n)
<1>1. ASSUME QueueInv, [QueueNext]_queueVars PROVE [Step]_queueVars
  <2>1. CASE UNCHANGED names
    <3>1. \A n \in Names : Resolved(n)' = Resolved(n)
      <4>1. \A n \in Names : Found(n)' = Found(n)
        BY Zenon, <2>1 DEF Found
      <4>2. QED
        BY Zenon, <4>1, SameResolved
    <3>2. Len(names') <= MaxCount
      BY Zenon, <1>1, <2>1 DEF QueueInv, QueueTypeOK
    <3>3. QED
      BY Zenon, <3>1, <3>2
  <2>2. ASSUME NEW m \in Names, Register(m) PROVE Step
    <3>1. /\ names \in Seq(Names) /\ names' = Append(names, m) /\ Len(names) < MaxCount
          /\ Resolved(m) = 0
      BY Zenon, <1>1, <2>2 DEF QueueInv, QueueTypeOK, Register
    <3>2. /\ Len(names') <= MaxCount
          /\ DOMAIN names \subseteq DOMAIN names'
          /\ \A i \in DOMAIN names : names'[i] = names[i]
          /\ \A i \in DOMAIN names' : i \in DOMAIN names \/ names'[i] = m
      BY <3>1, SharedQueueAssumption
    <3>3. ASSUME NEW n \in Names, Resolved(n) # 0 PROVE Stays(n)
      <4>1. CASE Matches(m, n)
        <5>1. m # n
          BY Zenon, <3>1, <3>3
        <5>2. QED
          BY Zenon, <3>1, <4>1, <5>1
      <4>2. CASE ~ Matches(m, n)
        <5>1. \A i : i \in DOMAIN names /\ Matches(names[i], n) <=>
                      i \in DOMAIN names' /\ Matches(names'[i], n)
          BY Zenon, <3>2, <4>2
        <5>2. Found(n)' = Found(n)
          BY Zenon, <5>1 DEF Found
        <5>3. Resolved(n)' = Resolved(n)
          BY Zenon, <5>2, SameResolved
        <5>4. QED
          BY Zenon, <5>3
      <4>3. QED
        BY Zenon, <4>1, <4>2
    <3>4. QED
      BY Zenon, <3>2, <3>3
  <2>3. ASSUME NEW i \in Ids, Enqueue(i) \/ \E c \in Executions : Dequeue(c, i)
        PROVE  UNCHANGED names
    BY Zenon, <2>3 DEF Enqueue, Dequeue
  <2>4. ASSUME NEW c \in Executions, ReturnBytes(c) PROVE UNCHANGED names
    BY Zenon, <2>4 DEF ReturnBytes
  <2>5. QED
    BY Zenon, <1>1, <2>1, <2>2, <2>3, <2>4 DEF QueueNext
<1>2. QED
  BY <1>1, QueueInvariance, PTL DEF QueueSpec, OneQueuePerName

\* Where an address is in use.
Users(a) ==
  {q \in {r \in Ids \X (1 .. MaxDepth) : r[2] <= depth[r[1]]} : Listed(q[1])[q[2]] = a} \cup
  {c \in Executions : msg[c] = a}

\* They are the places of the address on the lists, and the hands it is in.
LEMMA UsersAre ==
  ASSUME QueueTypeOK, NEW a, NEW x
  PROVE  x \in Users(a) <=>
           \/ \E i \in Ids : \E p \in 1 .. depth[i] : x = <<i, p>> /\ Lists[i][p] = a
           \/ x \in Executions /\ msg[x] = a
<1>1. \A i \in Ids : depth[i] \in Nat /\ depth[i] <= MaxDepth /\ MaxDepth \in Nat
  BY Zenon, QueueTypes
<1>2. \A i \in Ids : \A p : p \in 1 .. depth[i] <=> p \in 1 .. MaxDepth /\ p <= depth[i]
  BY <1>1
<1>3. \A i \in Ids : Lists[i] = Listed(i)
  BY Zenon DEF Lists
<1>4. ASSUME NEW q \in Ids \X (1 .. MaxDepth), q[2] <= depth[q[1]], Listed(q[1])[q[2]] = a
      PROVE  \E i \in Ids : \E p \in 1 .. depth[i] : q = <<i, p>> /\ Lists[i][p] = a
  <2>1. PICK i \in Ids, p \in 1 .. MaxDepth : q = <<i, p>>
    OBVIOUS
  <2>2. q[1] = i /\ q[2] = p
    BY <2>1
  <2>3. p \in 1 .. depth[i]
    BY <1>2, <1>4, <2>2
  <2>4. Lists[i][p] = a
    BY <1>3, <1>4, <2>2
  <2>5. QED
    BY Zenon, <2>1, <2>3, <2>4
<1>5. ASSUME NEW i \in Ids, NEW p \in 1 .. depth[i], Lists[i][p] = a
      PROVE  <<i, p>> \in Users(a)
  <2>1. PICK q : q = <<i, p>>
    BY Zenon
  <2>2. q[1] = i /\ q[2] = p
    BY <2>1
  <2>3. q \in Ids \X (1 .. MaxDepth) /\ q[2] <= depth[q[1]]
    BY <1>2, <2>1, <2>2
  <2>4. Listed(q[1])[q[2]] = a
    BY <1>3, <1>5, <2>2
  <2>5. QED
    BY Zenon, <2>1, <2>3, <2>4 DEF Users
<1>6. QED
  BY ZenonT(60), <1>4, <1>5 DEF Users

\* An allocated message is in use once, and a free address nowhere.
LEMMA UsedOnce ==
  ASSUME QueueInv, NEW a \in Nodes
  PROVE  IF data[a] = 0 THEN Users(a) = {} ELSE \E u \in Users(a) : Users(a) = {u}
<1>1. QueueTypeOK /\ ListsEnd /\ ListsApart /\ HandsApart /\ NoneStray
  BY Zenon DEF QueueInv
<1>2. \A x : x \in Users(a) <=>
        \/ \E i \in Ids : \E p \in 1 .. depth[i] : x = <<i, p>> /\ Lists[i][p] = a
        \/ x \in Executions /\ msg[x] = a
  BY Zenon, <1>1, UsersAre
<1>3. a # "NULL"
  BY Zenon, SharedQueueAssumption
<1>4. CASE data[a] = 0
  <2>1. \A i \in Ids : \A p \in 1 .. depth[i] : Lists[i][p] # a
    BY Zenon, <1>1, <1>4 DEF ListsEnd
  <2>2. \A c \in Executions : msg[c] # a
    BY Zenon, <1>1, <1>3, <1>4 DEF HandsApart
  <2>3. Users(a) = {}
    BY Zenon, <1>2, <2>1, <2>2
  <2>4. QED
    BY Zenon, <1>4, <2>3
<1>5. CASE data[a] # 0
  <2>1. \E y : Users(a) = {y}
    <3>1. ASSUME NEW i \in Ids, NEW p \in 1 .. depth[i], Lists[i][p] = a
          PROVE  \E y : Users(a) = {y}
      <4>1. \A c \in Executions : msg[c] # a
        BY <1>1, <1>3, <3>1 DEF HandsApart
      <4>2. \A j \in Ids : \A q \in 1 .. depth[j] : Lists[j][q] = a => j = i /\ q = p
        BY <1>1, <3>1 DEF ListsApart
      <4>3. ASSUME NEW x \in Users(a) PROVE x = <<i, p>>
        <5>1. PICK j \in Ids : \E q \in 1 .. depth[j] : x = <<j, q>> /\ Lists[j][q] = a
          BY Zenon, <1>2, <4>1, <4>3
        <5>2. PICK q \in 1 .. depth[j] : x = <<j, q>> /\ Lists[j][q] = a
          BY Zenon, <5>1
        <5>3. j = i /\ q = p
          BY Zenon, <4>2, <5>2
        <5>4. QED
          BY Zenon, <5>2, <5>3
      <4>0. <<i, p>> \in Users(a)
        BY Zenon, <1>2, <3>1
      <4>4. Users(a) = {<<i, p>>}
        BY Zenon, <4>3, <4>0
      <4>5. QED
        BY Zenon, <4>4
    <3>2. ASSUME NEW c \in Executions, msg[c] = a
          PROVE  \E y : Users(a) = {y}
      <4>1. \A i \in Ids : \A p \in 1 .. depth[i] : Lists[i][p] # a
        BY <1>1, <1>3, <3>2 DEF HandsApart
      <4>2. \A d \in Executions : msg[d] = a => d = c
        BY <1>1, <1>3, <3>2 DEF HandsApart
      <4>3. \A x : x \in Users(a) => x = c
        BY Zenon, <1>2, <4>1, <4>2
      <4>0. c \in Users(a)
        BY Zenon, <1>2, <3>2
      <4>4. Users(a) = {c}
        BY Zenon, <4>3, <4>0
      <4>5. QED
        BY Zenon, <4>4
    <3>3. QED
      BY Zenon, <1>1, <1>5, <3>1, <3>2 DEF NoneStray
  <2>2. QED
    BY Zenon, <1>5, <2>1
<1>6. QED
  BY Zenon, <1>4, <1>5

\* No message is lost and none is freed while it can be reached: what
\* vwasm_queue_enqueue allocates is on one list, or held by one dequeue.
THEOREM MessagesAccountedFor == QueueSpec => []NoMessageLeaked
<1>1. QueueInv => NoMessageLeaked
  <2>1. (\A a \in Nodes : IF data[a] = 0 THEN Users(a) = {}
                                           ELSE \E u \in Users(a) : Users(a) = {u})
          => NoMessageLeaked
    BY Zenon DEF NoMessageLeaked, Users
  <2>2. QED
    BY Zenon, <2>1, UsedOnce
<1>2. QED
  BY <1>1, QueueInvariance, PTL

-----------------------------------------------------------------------------
(* The lists implement first-in first-out queues *)

\* A sequence is appended to, and loses its first element.
LEMMA AppendIs ==
  ASSUME NEW S, NEW n \in Nat, NEW s \in [1 .. n -> S], NEW m \in S, NEW t \in [1 .. n + 1 -> S],
         t[n + 1] = m, \A p \in 1 .. n : t[p] = s[p]
  PROVE  s \in Seq(S) /\ Len(s) = n /\ t = Append(s, m)
OBVIOUS

LEMMA TailIs ==
  ASSUME NEW S, NEW n \in Nat, n # 0, NEW s \in [1 .. n -> S], NEW t \in [1 .. n - 1 -> S],
         \A p \in 1 .. n - 1 : t[p] = s[p + 1]
  PROVE  s # <<>> /\ Head(s) = s[1] /\ t = Tail(s)
OBVIOUS

\* The abstract queues and hands: what Fifo puts for its variables.
Queues == [i \in Ids |-> [p \in 1 .. depth[i] |-> Datum(Listed(i)[p])]]
Hands == [c \in Executions |-> Datum(msg[c])]

\* A queue consists of the data of the messages on its list.
LEMMA QueueIs ==
  ASSUME QueueInv, NEW i \in Ids
  PROVE  /\ Queues[i] \in [1 .. depth[i] -> 1 .. MaxSent]
         /\ \A p \in 1 .. depth[i] : Queues[i][p] = data[Lists[i][p]]
<1>1. /\ "NULL" \notin Nodes /\ Lists[i] = Listed(i)
      /\ Queues[i] = [p \in 1 .. depth[i] |-> Datum(Listed(i)[p])]
  BY Zenon, SharedQueueAssumption DEF Lists, Queues
<1>2. \A p \in 1 .. depth[i] : /\ Lists[i][p] \in Nodes /\ data[Lists[i][p]] # 0
                               /\ data[Lists[i][p]] \in 0 .. MaxSent
  BY Zenon DEF QueueInv, QueueTypeOK, ListsEnd
<1>3. \A p \in 1 .. depth[i] : data[Lists[i][p]] \in 1 .. MaxSent
  BY <1>2
<1>4. \A p \in 1 .. depth[i] : Datum(Lists[i][p]) = data[Lists[i][p]]
  BY SMTT(30), <1>1, <1>2 DEF Datum
<1>5. QED
  BY <1>1, <1>3, <1>4

\* So it does after a step.
LEMMA QueueWillBe ==
  ASSUME QueueInv', NEW i \in Ids
  PROVE  /\ Queues'[i] \in [1 .. depth'[i] -> 1 .. MaxSent]
         /\ \A p \in 1 .. depth'[i] : Queues'[i][p] = data'[Lists'[i][p]]
<1>1. /\ "NULL" \notin Nodes /\ Lists'[i] = Listed(i)'
      /\ Queues'[i] = [p \in 1 .. depth'[i] |-> Datum(Listed(i)[p])']
  BY Zenon, SharedQueueAssumption DEF Lists, Queues
<1>2. \A p \in 1 .. depth'[i] : /\ Lists'[i][p] \in Nodes /\ data'[Lists'[i][p]] # 0
                                /\ data'[Lists'[i][p]] \in 0 .. MaxSent
  BY Zenon DEF QueueInv, QueueTypeOK, ListsEnd
<1>3. \A p \in 1 .. depth'[i] : data'[Lists'[i][p]] \in 1 .. MaxSent
  BY <1>2
<1>4. ASSUME NEW p \in 1 .. depth'[i] PROVE Datum(Listed(i)[p])' = data'[Lists'[i][p]]
  <2>1. Listed(i)'[p] = Lists'[i][p]
    BY Zenon, <1>1
  <2>2. Datum(Listed(i)[p])' = IF Listed(i)'[p] = "NULL" THEN 0 ELSE data'[Listed(i)'[p]]
    BY Zenon DEF Datum
  <2>3. Lists'[i][p] # "NULL"
    BY ZenonT(60), <1>1, <1>2
  <2>4. QED
    BY Zenon, <2>1, <2>2, <2>3
<1>5. QED
  BY <1>1, <1>3, <1>4

\* A queue whose list and data stay is the same.
LEMMA QueueStays ==
  ASSUME QueueInv, QueueInv', NEW j \in Ids, depth'[j] = depth[j],
         \A p \in 1 .. depth[j] : Lists'[j][p] = Lists[j][p] /\ data'[Lists[j][p]] = data[Lists[j][p]]
  PROVE  Queues'[j] = Queues[j]
<1>1. /\ Queues[j] \in [1 .. depth[j] -> 1 .. MaxSent]
      /\ \A p \in 1 .. depth[j] : Queues[j][p] = data[Lists[j][p]]
  BY Zenon, QueueIs
<1>2. /\ Queues'[j] \in [1 .. depth'[j] -> 1 .. MaxSent]
      /\ \A p \in 1 .. depth'[j] : Queues'[j][p] = data'[Lists'[j][p]]
  BY Zenon, QueueWillBe
<1>n. PICK n \in Nat : n = depth[j]
  BY Zenon, QueueTypes DEF QueueInv
<1>3. PICK f, g : f = Queues'[j] /\ g = Queues[j]
  BY Zenon
<1>4. f \in [1 .. n -> 1 .. MaxSent] /\ g \in [1 .. n -> 1 .. MaxSent]
  BY SMTT(30), <1>n, <1>1, <1>2, <1>3
<1>5. \A p \in 1 .. n : f[p] = g[p]
  BY SMTT(30), <1>n, <1>1, <1>2, <1>3
<1>6. f = g
  BY <1>4, <1>5
<1>7. QED
  BY <1>3, <1>6

\* The hands are a function.
LEMMA HandsAre ==
  /\ Queues = [i \in Ids |-> Queues[i]] /\ Queues' = [i \in Ids |-> Queues'[i]]
  /\ Hands = [c \in Executions |-> Hands[c]] /\ Hands' = [c \in Executions |-> Hands'[c]]
  /\ \A c \in Executions : Hands[c] = Datum(msg[c]) /\ Hands'[c] = Datum(msg[c])'
BY Zenon DEF Queues, Hands
\* The initial states are those of the abstract queues.
LEMMA FifoInit == QueueInit => Fifo!Init
<1> SUFFICES ASSUME QueueInit PROVE Fifo!Init
  OBVIOUS
<1>1. \A i \in Ids : depth[i] = 0
  BY DEF QueueInit
<1>2. \A i \in Ids : [p \in 1 .. depth[i] |-> Datum(Listed(i)[p])] = <<>>
  BY <1>1
<1>3. \A c \in Executions : Datum(msg[c]) = 0
  BY Zenon DEF QueueInit, Datum
<1>4. QED
  BY Zenon, <1>2, <1>3 DEF Fifo!Init

\* An enqueue is a send.
LEMMA FifoSend ==
  ASSUME QueueInv, QueueInv', NEW i \in Ids, NEW a \in Nodes, EnqueueStep(i, a)
  PROVE  Fifo!Send(i)
<1>1. /\ \A j \in Ids : \A p \in 1 .. depth[j] : Lists'[j][p] = Lists[j][p]
      /\ Lists'[i][depth[i] + 1] = a
  BY Zenon, EnqueueLists
<1>2. \A j \in Ids : \A p \in 1 .. depth[j] : Lists[j][p] \in Nodes /\ Lists[j][p] # a
  BY Zenon, EnqueuePlaces
<1>3. /\ depth'[i] = depth[i] + 1 /\ data'[a] = sent + 1
      /\ \A j \in Ids : j # i => depth'[j] = depth[j]
      /\ \A b \in Nodes : b # a => data'[b] = data[b]
  BY EnqueueSets
<1>4. depth[i] < MaxDepth /\ msg' = msg /\ data[a] = 0
  BY Zenon DEF EnqueueStep
<1>5. \A j \in Ids : j # i => Queues'[j] = Queues[j]
  BY ZenonT(60), <1>1, <1>2, <1>3, QueueStays
<1>6. PICK n \in Nat : n = depth[i]
  BY Zenon, QueueTypes DEF QueueInv
<1>7. PICK m \in 1 .. MaxSent : m = sent + 1
  <2>1. sent \in 0 .. MaxSent /\ sent < MaxSent /\ MaxSent \in Nat
    BY Zenon, SharedQueueAssumption DEF QueueInv, QueueTypeOK, EnqueueStep
  <2>2. sent + 1 \in 1 .. MaxSent
    BY <2>1
  <2>3. QED
    BY Zenon, <2>2
<1>8. /\ Queues[i] \in [1 .. n -> 1 .. MaxSent]
      /\ \A p \in 1 .. n : Queues[i][p] = data[Lists[i][p]]
  BY Zenon, <1>6, QueueIs
<1>9. /\ Queues'[i] \in [1 .. n + 1 -> 1 .. MaxSent]
      /\ \A p \in 1 .. n + 1 : Queues'[i][p] = data'[Lists'[i][p]]
  <2>1. depth'[i] = n + 1
    BY Zenon, <1>3, <1>6
  <2>2. QED
    BY Zenon, <2>1, QueueWillBe
<1>10. Queues'[i][n + 1] = m
  BY SMTT(30), <1>1, <1>3, <1>6, <1>7, <1>9
<1>11. \A p \in 1 .. n : Queues'[i][p] = Queues[i][p]
  <2>1. \A p \in 1 .. n : p \in 1 .. n + 1
    OBVIOUS
  <2>2. \A p \in 1 .. n : /\ Lists'[i][p] = Lists[i][p]
                          /\ data'[Lists[i][p]] = data[Lists[i][p]]
    BY <1>1, <1>2, <1>3, <1>6
  <2>3. \A p \in 1 .. n : Queues'[i][p] = data'[Lists'[i][p]]
    BY Zenon, <1>9, <2>1
  <2>4. QED
    BY <1>8, <2>2, <2>3
<1>12. Len(Queues[i]) = n /\ Queues'[i] = Append(Queues[i], m)
  <2>1. PICK s, t : s = Queues[i] /\ t = Queues'[i]
    BY Zenon
  <2>2. s \in [1 .. n -> 1 .. MaxSent] /\ t \in [1 .. n + 1 -> 1 .. MaxSent]
    BY SMTT(30), <1>8, <1>9, <2>1
  <2>3. t[n + 1] = m /\ \A p \in 1 .. n : t[p] = s[p]
    BY <1>10, <1>11, <2>1
  <2>4. Len(s) = n /\ t = Append(s, m)
    BY <2>2, <2>3, AppendIs
  <2>5. QED
    BY <2>1, <2>4
<1>13. Queues' = [Queues EXCEPT ![i] = Append(@, m)]
  BY <1>5, <1>12, HandsAre
<1>14. Hands' = Hands
  <2>1. ASSUME NEW c \in Executions PROVE Hands'[c] = Hands[c]
    <3>1. msg[c] # "NULL" => msg[c] \in Nodes /\ msg[c] # a
      BY Zenon, <1>4, QueueTypes DEF QueueInv, HandsApart
    <3>2. Hands[c] = IF msg[c] = "NULL" THEN 0 ELSE data[msg[c]]
      BY Zenon, HandsAre DEF Datum
    <3>3. Hands'[c] = IF msg'[c] = "NULL" THEN 0 ELSE data'[msg'[c]]
      BY Zenon, HandsAre DEF Datum
    <3>4. QED
      BY <1>3, <1>4, <3>1, <3>2, <3>3
  <2>2. QED
    BY ZenonT(60), <2>1, HandsAre
<1>15. Len(Queues[i]) < MaxDepth
  BY <1>4, <1>6, <1>12
<1>16. QED
  BY Zenon, <1>13, <1>14, <1>15 DEF Fifo!Send, Queues, Hands

\* A dequeue is a receive.
LEMMA FifoReceive ==
  ASSUME QueueInv, QueueInv', NEW c \in Executions, NEW i \in Ids, Dequeue(c, i)
  PROVE  Fifo!Receive(c, i)
<1>1. /\ \A j \in Ids : j # i => \A p \in 1 .. depth[j] : Lists'[j][p] = Lists[j][p]
      /\ \A p \in 1 .. depth[i] - 1 : Lists'[i][p] = Lists[i][p + 1]
  BY ZenonT(60), DequeueLists
<1>2. /\ depth[i] # 0 /\ depth[i] \in Nat /\ depth'[i] = depth[i] - 1
      /\ head[i] \in Nodes /\ Lists[i][1] = head[i] /\ 1 \in 1 .. depth[i]
      /\ msg'[c] = head[i] /\ msg[c] = "NULL"
  BY SMTT(30), DequeueSets
<1>3. /\ \A j \in Ids : j # i => depth'[j] = depth[j]
      /\ \A d \in Executions : d # c => msg'[d] = msg[d]
      /\ data' = data
  BY DequeueSets
<1>4. "NULL" \notin Nodes
  BY ZenonT(40), SharedQueueAssumption
<1>5. \A j \in Ids : j # i => Queues'[j] = Queues[j]
  BY <1>1, <1>3, QueueStays
<1>6. PICK n \in Nat : n = depth[i]
  BY Zenon, <1>2
<1>7. /\ Queues[i] \in [1 .. n -> 1 .. MaxSent]
      /\ \A p \in 1 .. n : Queues[i][p] = data[Lists[i][p]]
  BY Zenon, <1>6, QueueIs
<1>8. /\ Queues'[i] \in [1 .. n - 1 -> 1 .. MaxSent]
      /\ \A p \in 1 .. n - 1 : Queues'[i][p] = data'[Lists'[i][p]]
  <2>1. depth'[i] = n - 1
    BY SMTT(30), <1>2, <1>6
  <2>2. QED
    BY Zenon, <2>1, QueueWillBe
<1>9. \A p \in 1 .. n - 1 : Queues'[i][p] = Queues[i][p + 1]
  <2>1. \A p \in 1 .. n - 1 : p + 1 \in 1 .. n
    OBVIOUS
  <2>2. \A p \in 1 .. n - 1 : Lists'[i][p] = Lists[i][p + 1]
    BY <1>1, <1>6
  <2>3. \A p \in 1 .. n - 1 : Queues[i][p + 1] = data[Lists[i][p + 1]]
    BY Zenon, <1>7, <2>1
  <2>4. \A p \in 1 .. n - 1 : Queues'[i][p] = data'[Lists'[i][p]]
    BY Zenon, <1>8
  <2>5. data' = data
    BY Zenon, <1>3
  <2>6. QED
    BY <2>2, <2>3, <2>4, <2>5
<1>10. Queues[i] # <<>> /\ Head(Queues[i]) = Queues[i][1] /\ Queues'[i] = Tail(Queues[i])
  <2>1. PICK s, t : s = Queues[i] /\ t = Queues'[i]
    BY Zenon
  <2>2. n # 0
    BY SMTT(30), <1>2, <1>6
  <2>3. s \in [1 .. n -> 1 .. MaxSent] /\ t \in [1 .. n - 1 -> 1 .. MaxSent]
    BY <1>7, <1>8, <2>1
  <2>4. \A p \in 1 .. n - 1 : t[p] = s[p + 1]
    BY <1>9, <2>1
  <2>5. s # <<>> /\ Head(s) = s[1] /\ t = Tail(s)
    BY <2>2, <2>3, <2>4, TailIs
  <2>6. QED
    BY <2>1, <2>5
<1>11. Queues' = [Queues EXCEPT ![i] = Tail(@)]
  BY <1>5, <1>10, HandsAre
<1>12. Hands[c] = 0
  BY Zenon, <1>2, HandsAre DEF Datum
<1>13. /\ \A d \in Executions : Hands[d] = IF msg[d] = "NULL" THEN 0 ELSE data[msg[d]]
       /\ \A d \in Executions : Hands'[d] = IF msg'[d] = "NULL" THEN 0 ELSE data'[msg'[d]]
  BY ZenonT(60), HandsAre DEF Datum
<1>14. Hands'[c] = Head(Queues[i])
  <2>1. 1 \in 1 .. n
    <3>1. depth[i] # 0
      BY Zenon, <1>2
    <3>2. QED
      BY <1>6, <3>1
  <2>2. Head(Queues[i]) = data[Lists[i][1]]
    BY Zenon, <1>7, <1>10, <2>1
  <2>3. Lists[i][1] = head[i] /\ msg'[c] = head[i] /\ head[i] # "NULL" /\ data' = data
    BY Zenon, <1>2, <1>3, <1>4
  <2>4. Hands'[c] = IF msg'[c] = "NULL" THEN 0 ELSE data'[msg'[c]]
    BY Zenon, <1>13
  <2>5. QED
    BY SMTT(30), <2>2, <2>3, <2>4
<1>15. \A d \in Executions : d # c => Hands'[d] = Hands[d]
  BY <1>3, <1>13
<1>16. Hands' = [Hands EXCEPT ![c] = Head(Queues[i])]
  BY <1>14, <1>15, HandsAre
<1>17. QED
  BY Zenon, <1>10, <1>11, <1>12, <1>16 DEF Fifo!Receive, Queues, Hands

\* The end of a dequeue empties the hands.
LEMMA FifoFinish ==
  ASSUME QueueInv, QueueInv', NEW c \in Executions, ReturnBytes(c)
  PROVE  Fifo!Finish(c)
<1>0. PICK a : a = msg[c]
  BY Zenon
<1>1. /\ UNCHANGED <<head, depth, link>>
      /\ data' = [data EXCEPT ![a] = 0] /\ msg' = [msg EXCEPT ![c] = "NULL"] /\ a # "NULL"
  BY Zenon, <1>0 DEF ReturnBytes
<1>2. Lists' = Lists /\ depth' = depth
  BY Zenon, <1>1, SameLists
<1>3. a \in Nodes /\ data \in [Nodes -> 0 .. MaxSent]
      /\ msg \in [Executions -> Nodes \cup {"NULL"}]
  BY Zenon, <1>0, <1>1 DEF QueueInv, QueueTypeOK
<1>4. /\ \A b \in Nodes : b # a => data'[b] = data[b]
      /\ \A d \in Executions : d # c => msg'[d] = msg[d]
      /\ msg'[c] = "NULL"
  BY ZenonT(40), <1>1, <1>3
<1>5. \A j \in Ids : \A p \in 1 .. depth[j] : Lists[j][p] # a /\ Lists[j][p] \in Nodes
  <2>1. ListsEnd /\ HandsApart
    BY Zenon DEF QueueInv
  <2>2. QED
    BY <1>0, <1>1, <2>1 DEF HandsApart, ListsEnd
<1>6. \A j \in Ids : Queues'[j] = Queues[j]
  <2>1. \A j \in Ids :
          /\ depth'[j] = depth[j]
          /\ \A p \in 1 .. depth[j] : Lists'[j][p] = Lists[j][p]
                                      /\ data'[Lists[j][p]] = data[Lists[j][p]]
    BY <1>2, <1>4, <1>5
  <2>2. QED
    BY ZenonT(60), <2>1, QueueStays
<1>7. Queues' = Queues
  BY Zenon, <1>6, HandsAre
<1>8. \A d \in Executions : d # c /\ msg[d] # "NULL" => msg[d] # a /\ msg[d] \in Nodes
  BY Zenon, <1>0, <1>1, <1>3 DEF QueueInv, HandsApart
<1>9. /\ \A d \in Executions : Hands[d] = IF msg[d] = "NULL" THEN 0 ELSE data[msg[d]]
      /\ \A d \in Executions : Hands'[d] = IF msg'[d] = "NULL" THEN 0 ELSE data'[msg'[d]]
  BY Zenon, HandsAre DEF Datum
<1>10. Hands'[c] = 0 /\ \A d \in Executions : d # c => Hands'[d] = Hands[d]
  BY <1>4, <1>8, <1>9
<1>11. Hands' = [Hands EXCEPT ![c] = 0]
  BY <1>10, HandsAre
<1>12. QED
  BY Zenon, <1>7, <1>11 DEF Fifo!Finish, Queues, Hands

\* Every step is one of the abstract queues', or none.
LEMMA FifoStep ==
  QueueInv /\ QueueInv' /\ [QueueNext]_queueVars =>
    [Fifo!Next]_<<[i \in Ids |-> [p \in 1 .. depth[i] |-> Datum(Listed(i)[p])]],
                  [c \in Executions |-> Datum(msg[c])]>>
<1> SUFFICES ASSUME QueueInv, QueueInv', [QueueNext]_queueVars
             PROVE  Fifo!Next \/ UNCHANGED <<Queues, Hands>>
  BY Zenon DEF Queues, Hands
<1>1. ASSUME NEW n \in Names, Register(n) PROVE UNCHANGED <<Queues, Hands>>
  BY Zenon, <1>1 DEF Register, listVars, Queues, Hands, Datum, Listed
<1>2. ASSUME NEW i \in Ids, Enqueue(i) PROVE Fifo!Next
  <2>1. PICK a \in Nodes : EnqueueStep(i, a)
    BY Zenon, <1>2 DEF Enqueue, EnqueueStep
  <2>2. Fifo!Send(i)
    BY Zenon, <2>1, FifoSend
  <2>3. QED
    BY Zenon, <2>2 DEF Fifo!Next
<1>3. ASSUME NEW c \in Executions, NEW i \in Ids, Dequeue(c, i) PROVE Fifo!Next
  <2>1. Fifo!Receive(c, i)
    BY Zenon, <1>3, FifoReceive
  <2>2. QED
    BY Zenon, <2>1 DEF Fifo!Next
<1>4. ASSUME NEW c \in Executions, ReturnBytes(c) PROVE Fifo!Next
  <2>1. Fifo!Finish(c)
    BY Zenon, <1>4, FifoFinish
  <2>2. QED
    BY Zenon, <2>1 DEF Fifo!Next
<1>5. CASE UNCHANGED queueVars
  BY Zenon, <1>5 DEF queueVars, listVars, Queues, Hands, Datum, Listed
<1>6. QED
  BY Zenon, <1>1, <1>2, <1>3, <1>4, <1>5 DEF QueueNext

\* The linked lists, with their heads, tails and depths, are bounded first-in
\* first-out queues, whatever executions send, receive and free, and in
\* whatever order.
THEOREM ListsAreQueues == QueueSpec => ImplementsFifo
BY FifoInit, FifoStep, QueueInvariance, PTL DEF QueueSpec, ImplementsFifo, Fifo!Spec

=============================================================================
