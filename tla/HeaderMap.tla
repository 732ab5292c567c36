------------------------------ MODULE HeaderMap ------------------------------
(***************************************************************************)
(* The header and trailer maps a guest reads and writes                    *)
(* (src/proxy_wasm_headers.c, src/proxy_wasm_properties.c): the request's  *)
(* and the response's header tables of Varnish, the two trailer maps of    *)
(* the stream, and the headers of the callout answer in hand, which are    *)
(* parsed anew by every call.                                              *)
(*                                                                         *)
(* A text is a sequence of words of known lengths.  A field is the line    *)
(* "name: value".  Varnish finds it by its name; get_header_map_pairs cuts *)
(* it at the first colon, which for a name that starts with a colon leaves *)
(* nothing of the name.  Names compare without regard to case, so a name   *)
(* here is a name in lower case.  It is also one that Varnish looks up as  *)
(* it is: the code passes its length and the colon's in a char, which      *)
(* holds that of a name of up to 126 bytes in every build.                 *)
(***************************************************************************)
EXTENDS Integers, Sequences, FiniteSets, Functions

CONSTANTS
  Names,          \* names of ordinary headers, "host" among them
  GuestNames,     \* names a guest writes: ordinary ones and pseudo-headers
  Texts,          \* values a guest writes
  Paths,          \* those of them that start with a slash
  LenOf,          \* [words -> Nat], the length of every name and word
  Status,         \* the response's status
  MaxFields,      \* the fields a header table of Varnish has room for
  MaxTrailers,    \* VWASM_MAX_TRAILERS
  MaxListed,      \* lines of a callout answer that are listed (64)
  MaxPairs,       \* pairs set_header_map_pairs takes (256)
  MaxKey,         \* a name is shorter (256)
  MaxVal,         \* a value is shorter (4096)
  MaxMethod       \* a method is at most as long (16)

Sides == {"req", "resp"}
Pseudo == {":method", ":path", ":authority", ":status"}
Field(n, v) == [name |-> n, value |-> v]

VARIABLES
  line,       \* the request line: [{"method", "path"} -> texts]
  headers,    \* [Sides -> Seq(fields)], http_req and http_resp
  trailers,   \* [Sides -> Seq(fields)]
  answer,     \* active_http_call->response: [status, lines], or NoAnswer
  held,       \* the pairs the guest has read: [kind, side, pairs]
  named       \* the header the call names that was made last, or "" (history)

NoAnswer == [valid |-> FALSE, status |-> <<>>, lines |-> <<>>]
Nothing == [kind |-> "none", side |-> "req", pairs |-> <<>>]

-----------------------------------------------------------------------------
(* Texts and serialised pairs.  An operator named Faulty... is a mutated   *)
(* form of the definition after it.                                        *)

\* The sum of the sizes of a sequence's elements.
Total(Size(_), s) ==
  LET sum[i \in 0 .. Len(s)] == IF i = 0 THEN 0 ELSE sum[i - 1] + Size(s[i])
  IN  sum[Len(s)]

TextLen(v) == Total(LAMBDA w : LenOf[w], v)

\* A key, a value and the value's length.
Pair(k, v) == [key |-> k, val |-> v, size |-> TextLen(v)]

\* A field cut at its last colon.
FaultyCut(f) == Pair(f.name, f.value)

\* A field cut at its first colon.
Cut(f) ==
  IF f.name \in Pseudo
  THEN [key |-> "", val |-> <<f.name>> \o f.value,
        size |-> LenOf[f.name] + 1 + TextLen(f.value)]
  ELSE Pair(f.name, f.value)

\* The bytes of a serialised sequence of pairs: a count, two sizes each, and
\* the texts, each with its NUL.
PairBytes(p) == LenOf[p.key] + 1 + p.size + 1
Serialized(ps) == 4 + 8 * Len(ps) + Total(PairBytes, ps)

-----------------------------------------------------------------------------
(* proxy_get_header_map_pairs *)

Hosts(fs) == SelectSeq(fs, LAMBDA f : f.name = "host")

\* The pairs put before the fields.
PseudoPairs(s, fs) ==
  IF s = "req"
  THEN <<Pair(":method", line["method"]), Pair(":path", line["path"])>>
       \o (IF Hosts(fs) = <<>> THEN <<>> ELSE <<Pair(":authority", Hosts(fs)[1].value)>>)
  ELSE <<Pair(":status", Status)>>

HeaderPairs(s, fs) == PseudoPairs(s, fs) \o [i \in DOMAIN fs |-> Cut(fs[i])]

TrailerPairs(s) ==
  [i \in DOMAIN trailers[s] |-> Pair(trailers[s][i].name, trailers[s][i].value)]

\* The status, and the lines with a colon as far as there is room.
AnswerPairs ==
  LET status == IF answer.status = <<>> THEN <<>> ELSE <<Pair(":status", answer.status)>>
      lines  == SelectSeq(answer.lines, LAMBDA l : l.colon)
      pairs  == status \o [i \in DOMAIN lines |-> Pair(lines[i].name, lines[i].value)]
  IN  SubSeq(pairs, 1, IF Len(pairs) < MaxListed THEN Len(pairs) ELSE MaxListed)

\* What a guest that asks for the pairs is given.
Pairs(kind, s) ==
  CASE kind = "headers" -> HeaderPairs(s, headers[s])
    [] kind = "trailers" -> TrailerPairs(s)
    [] kind = "answer" -> AnswerPairs

\* An empty map is no bytes; but an answer without a line to list is four.
PairsBytes(kind, s) ==
  IF kind = "trailers" /\ trailers[s] = <<>> THEN 0
  ELSE IF kind = "answer" /\ ~answer.valid THEN 0
  ELSE Serialized(Pairs(kind, s))

-----------------------------------------------------------------------------
(* proxy_get_header_map_size *)

LineBytes(f) ==
  IF f.name \in Pseudo THEN 0 + 1 + (LenOf[f.name] + 1 + TextLen(f.value)) + 1
  ELSE LenOf[f.name] + 1 + TextLen(f.value) + 1

\* Every field with the name is counted as :authority.
FaultyHeaderSize(s) ==
  LET host   == Hosts(headers[s])
      pseudo == IF s = "req" THEN 2 + Len(host) ELSE 1
      first  == IF s = "req"
                THEN LenOf[":method"] + TextLen(line["method"]) + 2
                     + LenOf[":path"] + TextLen(line["path"]) + 2
                     + Total(LAMBDA f : LenOf[":authority"] + TextLen(f.value) + 2, host)
                ELSE LenOf[":status"] + TextLen(Status) + 2
  IN  4 + 8 * (Len(headers[s]) + pseudo) + first
        + Total(LAMBDA f : LineBytes(f), headers[s])

HeaderSize(s) ==
  LET host   == Hosts(headers[s])
      pseudo == IF s = "req" THEN (IF host = <<>> THEN 2 ELSE 3) ELSE 1
      first  == IF s = "req"
                THEN LenOf[":method"] + TextLen(line["method"]) + 2
                     + LenOf[":path"] + TextLen(line["path"]) + 2
                     + (IF host = <<>> THEN 0
                        ELSE LenOf[":authority"] + TextLen(host[1].value) + 2)
                ELSE LenOf[":status"] + TextLen(Status) + 2
  IN  4 + 8 * (Len(headers[s]) + pseudo) + first
        + Total(LAMBDA f : LineBytes(f), headers[s])

TrailerSize(s) ==
  IF trailers[s] = <<>> THEN 0
  ELSE 4 + 8 * Len(trailers[s])
       + Total(LAMBDA f : LenOf[f.name] + 1 + TextLen(f.value) + 1, trailers[s])

\* The lines are counted as they are parsed, up to the same number.
AnswerSize ==
  LET status == IF answer.status = <<>> THEN 0 ELSE 1
      room   == MaxListed - status
      lines  == SelectSeq(answer.lines, LAMBDA l : l.colon)
      listed == SubSeq(lines, 1, IF Len(lines) < room THEN Len(lines) ELSE room)
  IN  IF ~answer.valid \/ status + Len(listed) = 0 THEN 0
      ELSE 4 + status * (8 + LenOf[":status"] + 1 + TextLen(answer.status) + 1)
           + Total(LAMBDA l : 8 + LenOf[l.name] + 1 + TextLen(l.value) + 1, listed)

SizeBytes(kind, s) ==
  CASE kind = "headers" -> HeaderSize(s)
    [] kind = "trailers" -> TrailerSize(s)
    [] kind = "answer" -> AnswerSize

-----------------------------------------------------------------------------
(* proxy_get_header_map_value: the values of the first field of a name, as *)
(* a sequence of at most one.                                              *)

First(fs) == IF fs = <<>> THEN <<>> ELSE <<fs[1].value>>

\* Nothing follows the colon, not even a blank.
Bare(l) == l.colon /\ l.blanks = 0 /\ TextLen(l.value) = 0

\* A line "name:" is too short to match; "name: " is found, with an empty value.
FindAnswer(n) ==
  IF n = ":status" THEN (IF answer.status = <<>> THEN <<>> ELSE <<answer.status>>)
  ELSE First(SelectSeq(answer.lines, LAMBDA l : l.colon /\ l.name = n /\ ~Bare(l)))

GetValue(kind, s, n) ==
  CASE kind = "headers" -> First(SelectSeq(headers[s], LAMBDA f : f.name = n))
    [] kind = "trailers" -> First(SelectSeq(trailers[s], LAMBDA f : f.name = n))
    [] kind = "answer" -> FindAnswer(n)

-----------------------------------------------------------------------------
(* What the calls write.  A call that fails before it has written anything *)
(* changes nothing and is no action here.                                  *)

AllNames == Names \union Pseudo
mapVars == <<line, headers, trailers, answer, held, named>>

\* pw_read_string takes the name and the value.
Short(n, v) == LenOf[n] < MaxKey /\ TextLen(v) < MaxVal

\* Varnish: a full table drops the field and says so in the log only.
http_SetHeader(fs, n, v) == IF Len(fs) < MaxFields THEN Append(fs, Field(n, v)) ELSE fs

\* Varnish: all fields of the name.
http_Unset(fs, n) == SelectSeq(fs, LAMBDA f : f.name # n)

SetFields(s, n, fs) ==
  /\ headers' = [headers EXCEPT ![s] = fs]
  /\ named' = n
  /\ UNCHANGED <<line, trailers, answer, held>>

AddHeader(s, n, v) ==
  /\ Short(n, v)
  /\ SetFields(s, n, http_SetHeader(headers[s], n, v))

\* The old fields are gone by the time the workspace may be full.
ReplaceHeader(s, n, v) ==
  /\ Short(n, v)
  /\ \/ SetFields(s, n, http_SetHeader(http_Unset(headers[s], n), n, v))
     \/ SetFields(s, n, http_Unset(headers[s], n))

RemoveHeader(s, n) == SetFields(s, n, http_Unset(headers[s], n))

\* proxy_set_property: request.path and request.method, and request.host,
\* which is a header.
SetRequestLine(part, v) ==
  /\ TextLen(v) \in 1 .. MaxVal - 1
  /\ part = "path" => v \in Paths
  /\ part = "method" => TextLen(v) <= MaxMethod
  /\ line' = [line EXCEPT ![part] = v]
  /\ named' = ""
  /\ UNCHANGED <<headers, trailers, answer, held>>

SetHost(v) == v # <<>> /\ ReplaceHeader("req", "host", v)

-----------------------------------------------------------------------------
(* Trailers *)

TrailerAdd(ts, n, v) == IF Len(ts) < MaxTrailers THEN Append(ts, Field(n, v)) ELSE ts

\* The count goes down, and the last entry is not moved.
FaultyTrailerRemove(ts, n) ==
  IF \E i \in DOMAIN ts : ts[i].name = n THEN SubSeq(ts, 1, Len(ts) - 1) ELSE ts

\* The last entry takes the place of the first one with the name.
TrailerRemove(ts, n) ==
  IF \E i \in DOMAIN ts : ts[i].name = n
  THEN LET i == CHOOSE i \in DOMAIN ts : ts[i].name = n
                                         /\ \A j \in 1 .. i - 1 : ts[j].name # n
       IN  SubSeq([ts EXCEPT ![i] = ts[Len(ts)]], 1, Len(ts) - 1)
  ELSE ts

SetTrailers(s, n, ts) ==
  /\ trailers' = [trailers EXCEPT ![s] = ts]
  /\ named' = n
  /\ UNCHANGED <<line, headers, answer, held>>

AddTrailer(s, n, v) ==
  /\ Short(n, v)
  /\ SetTrailers(s, n, TrailerAdd(trailers[s], n, v))

\* Whether the entry could be added is not asked.
ReplaceTrailer(s, n, v) ==
  /\ Short(n, v)
  /\ \/ SetTrailers(s, n, TrailerAdd(TrailerRemove(trailers[s], n), n, v))
     \/ SetTrailers(s, n, TrailerRemove(trailers[s], n))

RemoveTrailer(s, n) == SetTrailers(s, n, TrailerRemove(trailers[s], n))

-----------------------------------------------------------------------------
(* proxy_get_header_map_pairs and proxy_set_header_map_pairs *)

GetPairs(kind, s) ==
  /\ held' = [kind |-> kind, side |-> s, pairs |-> Pairs(kind, s)]
  /\ named' = ""
  /\ UNCHANGED <<line, headers, trailers, answer>>

\* The pairs before the first that does not end within the guest's bytes.
Fitting(ps, bytes) ==
  LET End(i) == 4 + 8 * Len(ps) + Total(PairBytes, SubSeq(ps, 1, i))
  IN  SubSeq(ps, 1, Cardinality({i \in DOMAIN ps : End(i) <= bytes}))

\* Those of them that are written, as fields.
Kept(ps) ==
  LET good == SelectSeq(ps, LAMBDA p : p.key # "" /\ LenOf[p.key] < MaxKey /\ p.size < MaxVal)
  IN  [i \in DOMAIN good |-> Field(good[i].key, good[i].val)]

Capped(fs, n) == SubSeq(fs, 1, IF Len(fs) < n THEN Len(fs) ELSE n)

Accepted(ps, bytes) == Len(ps) <= MaxPairs /\ bytes >= 4 + 8 * Len(ps)

\* The table is emptied, then filled until the workspace is full.
SetHeaderPairs(s, ps, bytes) ==
  /\ Accepted(ps, bytes)
  /\ LET fs == Kept(Fitting(ps, bytes))
     IN  \E done \in 0 .. Len(fs) : SetFields(s, "", Capped(SubSeq(fs, 1, done), MaxFields))

Without(fs, lost) ==
  LET stay == SelectSeq([i \in DOMAIN fs |-> i], LAMBDA i : i \notin lost)
  IN  [j \in DOMAIN stay |-> fs[stay[j]]]

\* An entry for which there is no memory is left out; at most one of them is.
SetTrailerPairs(s, ps, bytes) ==
  /\ Accepted(ps, bytes)
  /\ LET fs == Kept(Fitting(ps, bytes))
     IN  \E lost \in {{}} \union {{i} : i \in DOMAIN fs} :
           SetTrailers(s, "", Capped(Without(fs, lost), MaxTrailers))

-----------------------------------------------------------------------------
(* Properties *)

Maps == {"headers", "trailers"} \X Sides \union {<<"answer", "resp">>}

\* The maps hold fields, no more than they have room for.
MapsTyped ==
  /\ line \in [{"method", "path"} -> Seq(DOMAIN LenOf)]
  /\ DOMAIN headers = Sides /\ DOMAIN trailers = Sides
  /\ \A s \in Sides :
       /\ Len(headers[s]) <= MaxFields /\ Len(trailers[s]) <= MaxTrailers
       /\ \A f \in Range(headers[s]) \union Range(trailers[s]) :
            f.name \in AllNames /\ f.value \in Seq(DOMAIN LenOf)

\* Whether the i-th pair of an answer is that of a bare line.
IsBare(i) ==
  LET lines == SelectSeq(answer.lines, LAMBDA l : l.colon)
      l     == IF answer.status = <<>> THEN i ELSE i - 1
  IN  l \in DOMAIN lines /\ Bare(lines[l])

\* The three calls that describe a map agree, whatever was written to it in
\* which order: get_header_map_size is the number of bytes that
\* get_header_map_pairs returns (but for an answer with nothing to list), and
\* get_header_map_value finds the first value that is listed under an ordinary
\* name, or none if none is listed (but for the lines of an answer that end with
\* the colon, and those beyond the last listed one).
CallsAgree ==
  \A m \in Maps :
    /\ \/ SizeBytes(m[1], m[2]) = PairsBytes(m[1], m[2])
       \/ m[1] = "answer" /\ AnswerPairs = <<>>
    /\ \A n \in Names :
         LET pairs  == Pairs(m[1], m[2])
             listed == {i \in DOMAIN pairs : pairs[i].key = n /\ ~(m[1] = "answer" /\ IsBare(i))}
             got    == GetValue(m[1], m[2], n)
         IN  IF listed # {}
             THEN \E i \in listed : got = <<pairs[i].val>> /\ \A j \in listed : i <= j
             ELSE got = <<>> \/ (m[1] = "answer" /\ Len(AnswerPairs) = MaxListed)

\* The fields of a header map that is written back as it was read.
WrittenBack(s, fs) == Kept(HeaderPairs(s, fs))

\* A guest that reads a header map and writes it back keeps the ordinary
\* headers, in their order, and although the pseudo-headers become fields of
\* the map they do not pile up: doing it again changes nothing.  (As far as the
\* table has room for them, and the values are not too long to be written.)
WriteBackStable ==
  \A s \in Sides :
    LET fs       == headers[s]
        back     == WrittenBack(s, fs)
        Plain(f) == f.name \in Names /\ TextLen(f.value) < MaxVal
    IN  /\ SelectSeq(back, LAMBDA f : f.name \in Names) = SelectSeq(fs, Plain)
        /\ Len(Hosts(fs)) = Len(Hosts(back)) => WrittenBack(s, back) = back

\* How often a field is in a sequence of them.
Times(f, fs) == Cardinality({i \in DOMAIN fs : fs[i] = f})

\* The fields of other names are the same after a step: those of a header map
\* in their order.
OthersKept(n) ==
  \A s \in Sides :
    /\ SelectSeq(headers'[s], LAMBDA f : f.name # n)
         = SelectSeq(headers[s], LAMBDA f : f.name # n)
    /\ \A f \in Range(trailers[s]) \union Range(trailers'[s]) :
         f.name # n => Times(f, trailers'[s]) = Times(f, trailers[s])

\* A call that names a header touches the fields of no other: moving the last
\* trailer into the place of a removed one loses and doubles nothing.
OthersUntouched ==
  [][named' # "" => OthersKept(named')]_mapVars
=============================================================================
