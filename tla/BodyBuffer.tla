------------------------------ MODULE BodyBuffer ------------------------------
(***************************************************************************)
(* The bodies a guest reads and rewrites (src/proxy_wasm.c) and the        *)
(* delivery processor that hands it the response chunk by chunk            *)
(* (src/vdp_wasm.c).  A callback is numbered; 0 is what runs before the    *)
(* body.  A byte is the i-th of the chunk that callback k is about, or one *)
(* the guest wrote in callback k.                                          *)
(*                                                                         *)
(* The request's body is not there any more when a response is delivered,  *)
(* but the guest may still write it: both bodies have one rewrite.         *)
(***************************************************************************)
EXTENDS Integers, Sequences

CONSTANTS
  MaxChunk,       \* bound on the length of a chunk
  MaxChunks       \* bound on the number of callbacks

ASSUME BodyAssumption == MaxChunk \in Nat

VARIABLES
  callback,   \* the number of the callback that runs, or ran last
  chunk,      \* response_body, or <<>>
  modified,   \* body_modified
  body,       \* modified_body
  passed,     \* what the last VDP_bytes passed on: [of, own, bytes] (history)
  act         \* the action of the bytes call that runs: "data", "end", "none"

bodyVars == <<callback, chunk, modified, body, passed, act>>

Original(k, i) == [callback |-> k, at |-> i]
Written(k) == [callback |-> k, at |-> 0]

BodyInit ==
  /\ callback = 0 /\ chunk = <<>> /\ modified = FALSE /\ body = <<>>
  /\ passed = [of |-> 0, own |-> FALSE, bytes |-> <<>>]
  /\ act = "none"

-----------------------------------------------------------------------------
(* proxy_get_buffer_bytes, proxy_set_buffer_bytes *)

Smaller(a, b) == IF a < b THEN a ELSE b

\* The body as the guest sees it.
Visible(type) ==
  IF modified THEN body ELSE IF type = "response" THEN chunk ELSE <<>>

\* pw_replace_bytes: start and size are cut to the body.
ReplaceBytes(base, start, size, value) ==
  LET from == Smaller(start, Len(base))
      to   == from + Smaller(size, Len(base) - from)
  IN  SubSeq(base, 1, from) \o value \o SubSeq(base, to + 1, Len(base))

SetBytes(type, start, size, value) ==
  /\ body' = ReplaceBytes(Visible(type), start, size, value)
  /\ modified' = TRUE
  /\ UNCHANGED <<callback, chunk, passed, act>>

-----------------------------------------------------------------------------
(* vdp_wasm_bytes.  An operator named Faulty... is a mutated form of the   *)
(* definition after it.                                                    *)

\* There is data, or the end: the rewrite so far is dropped and the callback
\* called on the chunk, ...
Chunk(a, len) ==
  /\ callback < MaxChunks
  /\ len > 0 \/ a = "end"
  /\ callback' = callback + 1
  /\ chunk' = [i \in 1 .. len |-> Original(callback + 1, i)]
  /\ modified' = FALSE /\ body' = <<>>
  /\ act' = a
  /\ UNCHANGED passed

\* The rewrite is kept after it was passed on.
FaultyPassOn(own) ==
  /\ passed' = [of |-> callback, own |-> own,
                 bytes |-> IF modified THEN body ELSE chunk]
  /\ chunk' = <<>>
  /\ UNCHANGED <<modified, body>>

\* The rewrite, or what came, goes to the next processor.
PassOn(own) ==
  /\ passed' = [of |-> callback, own |-> own,
                 bytes |-> IF modified THEN body ELSE chunk]
  /\ chunk' = <<>>
  /\ modified' = FALSE /\ body' = <<>>

\* ... and when it has returned, or trapped, the bytes are passed on.
ChunkDone ==
  /\ PassOn(TRUE)
  /\ act' = "none"
  /\ UNCHANGED callback

\* A flush without data calls nobody.
Flush ==
  /\ PassOn(FALSE)
  /\ UNCHANGED <<callback, act>>

-----------------------------------------------------------------------------
(* Properties *)

\* What was passed on for a chunk is of that chunk, in its order and no byte
\* twice, or was written by the guest while it was called on that chunk; what
\* a flush passes on was written before the first chunk.  No rewrite outlives
\* its chunk.
OnlyItsOwnBytes ==
  /\ \A i \in DOMAIN passed.bytes :
       IF passed.own THEN passed.bytes[i].callback = passed.of
       ELSE passed.of = 0
  /\ \A i, j \in DOMAIN passed.bytes :
       i < j /\ passed.bytes[i].at > 0 /\ passed.bytes[j].at > 0
         => passed.bytes[i].at < passed.bytes[j].at
=============================================================================
