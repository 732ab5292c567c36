------------------------------ MODULE StreamData ------------------------------
(***************************************************************************)
(* The data of one stream, a response under delivery: the header callback, *)
(* the callbacks for callout answers, the body chunks and the last         *)
(* callbacks, with the host calls the guest makes in each.  The header     *)
(* tables are there until the body begins (the delivery processor has no   *)
(* vrt_ctx with headers), the trailers and the bodies until the end.       *)
(***************************************************************************)
EXTENDS HeaderMap, BodyBuffer

CONSTANTS
  InitialHeaders,  \* header tables Varnish starts with: [Sides -> Seq(fields)]
  Answers,         \* what callouts answer
  MaxHostCalls     \* bound on the host calls of a stream that write or list

VARIABLES
  stage,      \* the callback that runs, "stream" between two of them
  hostCalls   \* host calls so far

streamVars == <<mapVars, bodyVars, stage, hostCalls>>

StreamInit ==
  /\ line = [p \in {"method", "path"} |-> IF p = "method" THEN <<"get">> ELSE <<"/a">>]
  /\ headers \in InitialHeaders
  /\ trailers = [s \in Sides |-> <<>>]
  /\ answer = NoAnswer
  /\ held = Nothing
  /\ named = ""
  /\ BodyInit
  /\ stage = "headers"
  /\ hostCalls = 0

InCallback == stage \in {"headers", "answer", "body", "last"}
HasHeaders == stage \in {"headers", "answer"}

-----------------------------------------------------------------------------
(* Host calls *)

HeaderCall ==
  /\ HasHeaders
  /\ \/ \E s \in Sides, n \in GuestNames : RemoveHeader(s, n)
     \/ \E s \in Sides, n \in GuestNames, v \in Texts : AddHeader(s, n, v)
     \/ \E s \in Sides, n \in GuestNames, v \in Texts : ReplaceHeader(s, n, v)
     \/ \E part \in {"method", "path"}, v \in Texts : SetRequestLine(part, v)
     \/ \E v \in Texts : SetHost(v)

TrailerCall ==
  /\ InCallback
  /\ \/ \E s \in Sides, n \in Names : RemoveTrailer(s, n)
     \/ \E s \in Sides, n \in Names, v \in Texts : AddTrailer(s, n, v)
     \/ \E s \in Sides, n \in Names, v \in Texts : ReplaceTrailer(s, n, v)

\* Only the map that is there is listed.
ListCall ==
  /\ InCallback
  /\ \/ HasHeaders /\ \E s \in Sides : GetPairs("headers", s)
     \/ \E s \in Sides : GetPairs("trailers", s)
     \/ stage = "answer" /\ GetPairs("answer", "resp")

\* The guest writes the pairs it has to any map: as they are, with one more, or
\* without the last byte.
PairsCall ==
  /\ InCallback
  /\ LET ps   == held.pairs
         more == {Append(ps, Pair(n, v)) : n \in Names, v \in Texts}
     IN  \E w \in {<<ps, Serialized(ps) - 1>>} \union {<<qs, Serialized(qs)>> : qs \in more \union {ps}},
            s \in Sides :
           \/ HasHeaders /\ SetHeaderPairs(s, w[1], w[2])
           \/ SetTrailerPairs(s, w[1], w[2])

BodyCall ==
  /\ InCallback
  /\ \E type \in {"request", "response"}, start, size \in 0 .. MaxChunk + 1,
        value \in {<<>>, <<Written(callback)>>} :
       SetBytes(type, start, size, value)

HostCall ==
  /\ hostCalls < MaxHostCalls
  /\ hostCalls' = hostCalls + 1
  /\ \/ (HeaderCall \/ TrailerCall \/ ListCall \/ PairsCall) /\ UNCHANGED bodyVars
     \/ BodyCall /\ UNCHANGED mapVars
  /\ UNCHANGED stage

-----------------------------------------------------------------------------
(* Callbacks *)

\* The callouts that the header callback made are answered after it, one by one.
AnswerCallback ==
  /\ stage \in {"headers", "answer"}
  /\ stage' = "answer"
  /\ answer' \in Answers
  /\ named' = ""
  /\ UNCHANGED <<line, headers, trailers, held, bodyVars, hostCalls>>

HeadersDone ==
  /\ stage \in {"headers", "answer"}
  /\ stage' = "stream"
  /\ answer' = NoAnswer
  /\ named' = ""
  /\ UNCHANGED <<line, headers, trailers, held, bodyVars, hostCalls>>

BodyCallback ==
  /\ stage = "stream"
  /\ \E a \in {"data", "end"}, len \in 0 .. MaxChunk : Chunk(a, len)
  /\ stage' = "body"
  /\ named' = ""
  /\ UNCHANGED <<line, headers, trailers, answer, held, hostCalls>>

BodyDone ==
  /\ stage = "body"
  /\ ChunkDone
  /\ stage' = IF act = "end" THEN "last" ELSE "stream"
  /\ named' = ""
  /\ UNCHANGED <<line, headers, trailers, answer, held, hostCalls>>

FlushStep ==
  /\ stage = "stream"
  /\ Flush
  /\ named' = ""
  /\ UNCHANGED <<line, headers, trailers, answer, held, stage, hostCalls>>

\* The client is gone: the processor ends without VDP_END.
Aborted ==
  /\ stage = "stream"
  /\ stage' = "last"
  /\ named' = ""
  /\ UNCHANGED <<line, headers, trailers, answer, held, bodyVars, hostCalls>>

\* proxy_on_log, proxy_on_done and proxy_on_delete have run; vdp_wasm_fini
\* frees what the context has left.  An empty rewrite has no memory, and is not
\* reset.
StreamEnds ==
  /\ stage = "last"
  /\ stage' = "over"
  /\ trailers' = [s \in Sides |-> <<>>]
  /\ modified' = (modified /\ body = <<>>) /\ body' = <<>>
  /\ named' = ""
  /\ UNCHANGED <<line, headers, answer, held, callback, chunk, passed, act, hostCalls>>

StreamNext ==
  \/ HostCall \/ AnswerCallback \/ HeadersDone \/ BodyCallback \/ BodyDone
  \/ FlushStep \/ Aborted \/ StreamEnds

StreamSpec == StreamInit /\ [][StreamNext]_streamVars
=============================================================================
