------------------------------ MODULE SharedData ------------------------------
(***************************************************************************)
(* The key-value store that all executions share (proxy_wasm_shared.c and  *)
(* the host functions proxy_get_shared_data, proxy_set_shared_data): a     *)
(* hash table of chained entries, each with a CAS counter, behind one      *)
(* reader-writer lock, so that a get or a set is one step.  One bucket is  *)
(* modelled, with the keys that fall into it; no operation looks into      *)
(* another.  A value is the number of the write that stored it.            *)
(*                                                                         *)
(* A set that fails for its size or for want of memory, and a get whose    *)
(* result does not fit the guest's memory, change nothing and are left     *)
(* out.                                                                    *)
(***************************************************************************)
EXTENDS Integers, Sequences, CStrings

CONSTANTS
  Clients,     \* executions
  Keys,        \* the keys of one bucket, byte strings of the guests' choice
  CasModulus,  \* the counter is a uint32_t: 2^32 in the code
  MaxWrites    \* bound on the sets explored

ASSUME SharedDataAssumption ==
  /\ Keys \subseteq DOMAIN CString
  /\ "none" \notin Keys
  /\ CasModulus \in Nat \ {0, 1}
  /\ MaxWrites \in Nat

VARIABLES
  bucket,  \* sequence of [key, value, cas], the newest entry first
  writes,  \* number of sets that were made
  got,     \* [Clients -> [key, value, cas] of the client's last get]
  stored,  \* history: by C string, the value of the last set that returned OK,
           \* of any key with that C string, or 0
  swap     \* history: the C string that the last set was for, and the values it
           \* expected to replace and replaced

vars == <<bucket, writes, got, stored, swap>>

Nothing == [key |-> "none", value |-> 0, cas |-> 0]

\* The C strings that keys are found under.
Kept == {CString[k] : k \in Keys}

Init ==
  /\ bucket = <<>>
  /\ writes = 0
  /\ got = [c \in Clients |-> Nothing]
  /\ stored = [s \in Kept |-> 0]
  /\ swap = [key |-> "none", expected |-> 0, replaced |-> 0]

-----------------------------------------------------------------------------
(* An operator named Faulty... is a mutated form of the definition after it. *)

\* The lookup looks at the first entry only.
FaultyFind(k) == IF bucket # <<>> /\ Matches(bucket[1].key, k) THEN 1 ELSE 0

\* The walk along the chain ends at the first match, 0 if there is none.
Find(k) ==
  LET matches == {i \in DOMAIN bucket : Matches(bucket[i].key, k)}
  IN IF matches = {} THEN 0 ELSE CHOOSE i \in matches : \A j \in matches : i <= j

\* vwasm_shared_data_get
Get(c, k) ==
  /\ got' = [got EXCEPT ![c] = IF Find(k) = 0 THEN Nothing
                               ELSE [bucket[Find(k)] EXCEPT !.key = k]]
  /\ UNCHANGED <<bucket, writes, stored, swap>>

\* entry->cas++
Bump(cas) == (cas + 1) % CasModulus

\* The counters are not compared.
FaultyMismatch(k, cas) == FALSE

\* The CAS check fails.
Mismatch(k, cas) == Find(k) # 0 /\ cas # 0 /\ bucket[Find(k)].cas # cas

\* The value of an entry found is replaced, its key stays; otherwise a new entry
\* is put in front, and the cas argument means nothing.
Store(k, v) ==
  LET i == Find(k) IN
  bucket' = IF i # 0
            THEN [bucket EXCEPT ![i] = [key |-> @.key, value |-> v, cas |-> Bump(@.cas)]]
            ELSE <<[key |-> k, value |-> v, cas |-> 1]>> \o bucket

\* vwasm_shared_data_set; expected is the value the guest has in mind.
Set(k, cas, expected) ==
  /\ writes < MaxWrites
  /\ writes' = writes + 1
  /\ IF Mismatch(k, cas)
     THEN UNCHANGED <<bucket, stored, swap>>
     ELSE /\ Store(k, writes + 1)
          /\ stored' = [stored EXCEPT ![CString[k]] = writes + 1]
          /\ swap' = [key |-> CString[k], expected |-> expected,
                      replaced |-> stored[CString[k]]]
  /\ UNCHANGED got

\* A guest sets without a condition, or on the condition that nobody has set
\* the key since its own get.
SetAnyway(k) == Set(k, 0, stored[CString[k]])

SetIfUnchanged(c, k) == got[c].key = k /\ Set(k, got[c].cas, got[c].value)

Next ==
  \E k \in Keys :
    SetAnyway(k) \/ \E c \in Clients : Get(c, k) \/ SetIfUnchanged(c, k)

Spec == Init /\ [][Next]_vars

-----------------------------------------------------------------------------
(* Properties *)

\* Every variable keeps its type.
TypeOK ==
  /\ bucket \in Seq([key : Keys, value : 1 .. MaxWrites, cas : 0 .. CasModulus - 1])
  /\ Len(bucket) <= MaxWrites
  /\ writes \in 0 .. MaxWrites
  /\ got \in [Clients -> {Nothing} \cup
                [key : Keys, value : 1 .. MaxWrites, cas : 0 .. CasModulus - 1]]
  /\ stored \in [Kept -> 0 .. MaxWrites]
  /\ swap \in [key : {"none"} \cup Kept, expected : 0 .. MaxWrites, replaced : 0 .. MaxWrites]

\* A get returns what the last successful set stored: the last of the key itself
\* or of a key that continues it after a NUL byte.  An entry hides an older one of
\* the same C string only if a key with a NUL byte made it, so that a key which
\* no other key continues has one entry.
GetSeesLastSet ==
  /\ \A k \in Keys : CString[k] = k /\ stored[k] # 0 =>
       Find(k) # 0 /\ bucket[Find(k)].value = stored[k]
  /\ \A i, j \in DOMAIN bucket :
       i < j /\ CString[bucket[i].key] = CString[bucket[j].key] =>
         CString[bucket[i].key] # bucket[i].key

\* A C string with an entry that no lookup finds any more.
Hiding(s) ==
  \E i, j \in DOMAIN bucket :
    i # j /\ CString[bucket[i].key] = s /\ CString[bucket[j].key] = s

\* No update is lost: a set with the counter of an earlier get replaces exactly
\* the value that the get returned, unless the counter has wrapped since, which
\* takes as many sets as it counts, or a key with a NUL byte has put a second
\* entry, with a counter of its own, in front of the first.
NoLostUpdate ==
  swap.expected # swap.replaced => writes >= CasModulus \/ Hiding(swap.key)

=============================================================================
