------------------------------- MODULE CStrings -------------------------------
(***************************************************************************)
(* The keys of the shared store and the names of the shared queues.  A     *)
(* guest passes one as bytes with a length, and the host keeps it as a C   *)
(* string: a later lookup compares the length it is given with strlen of   *)
(* what was kept.  A key with a NUL byte inside is thus found under what   *)
(* comes before the NUL, and never under itself.                           *)
(***************************************************************************)

CONSTANT CString  \* what strlen sees of a key or a name, by key or name

\* What comes before the first NUL has no NUL itself.
ASSUME CStringAssumption ==
  \A x \in DOMAIN CString :
    CString[x] \in DOMAIN CString => CString[CString[x]] = CString[x]

\* strlen(kept) == len && memcmp(kept, asked, len) == 0
Matches(kept, asked) == CString[kept] = asked

=============================================================================
