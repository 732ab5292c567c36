--------------------------- MODULE ProxyWasm_proofs ---------------------------
(***************************************************************************)
(* Proofs about ProxyWasmCall, for chains of any length and any call       *)
(* limit, and about the bodies of StreamData, for any number and length of *)
(* chunks.                                                                 *)
(***************************************************************************)
EXTENDS ProxyWasmCall, StreamData, WellFoundedInduction, TLAPS

(***************************************************************************)
(* None of the three invariants is inductive.  DeliveredInOrder and        *)
(* SkippedOnlyAtTheEnd follow from what the walk of the tree knows about   *)
(* the response it is at and the successor it has read (Walk);             *)
(* ResultContract from how the end of an execution is recorded in ret,     *)
(* *status_code and the history (Returned).                                *)
(***************************************************************************)

\* The callbacks have run in ascending order, so the n-th ran for a token that
\* is at least n.
Ascending ==
  /\ \A a, b \in 1 .. Len(delivered) : a < b => delivered[a] < delivered[b]
  /\ \A a \in 1 .. Len(delivered) : a <= delivered[a]

\* Of the responses in the tree, those before x were delivered, and no others.
UpTo(x) ==
  /\ \A a \in 1 .. Len(delivered) : delivered[a] < x
  /\ \A c \in calls : c < x => \E a \in 1 .. Len(delivered) : delivered[a] = c

\* The walk is over: what was not delivered was stored by the last callback.
AllPassed ==
  Len(delivered) > 0 =>
    \A c \in calls : (\A a \in 1 .. Len(delivered) : delivered[a] # c) => c > begun

\* Where the walk is: at a response all earlier ones of which were delivered;
\* in its callback, with the successor that was read; or at its end.
Walk ==
  /\ pc = "guest" => delivered = <<>>
  /\ pc = "callback" => ent # 0
  /\ pc \in {"iterate", "callback"} /\ ent # 0 => UpTo(ent)
  /\ pc = "callback" /\ tent # 0 => ent < tent /\ \A c \in calls : c <= ent \/ tent <= c
  /\ pc = "callback" /\ tent = 0 => \A c \in calls : c <= ent \/ c > begun
  /\ pc = "iterate" /\ ent = 0 => AllPassed
  /\ pc = "decide" => AllPassed

Over == pc \in {"returned", "done"}

\* How an execution that was not refused ended.
Returned ==
  Over /\ LastOutcome # "refused" =>
    /\ LastOutcome = "error" <=> ret < 0
    /\ call.entry # "function" /\ ret >= 0 =>
         /\ LastOutcome = "stop" <=> ret > 0
         /\ ret > 0 => ret = action
    /\ call.entry = "module" /\ ret >= 0 =>
         status_code = IF local_response_set THEN local_response_code ELSE 0
    /\ call.entry = "function" /\ ret >= 0 =>
         ret = 0 /\ LastOutcome = "stop"

\* The outcomes after which no other execution follows.
Final == {"refused", "error", "stop"}

\* Only the last execution can have been refused, have failed or have returned an
\* action of its own.
Outcomes ==
  /\ \A j \in 1 .. Len(outcomes) : outcomes[j] \in Final => Over /\ j = Len(outcomes)
  /\ Over => Len(outcomes) > 0
  /\ pc = "returned" => LastOutcome # "refused"
  /\ ~ Over /\ pc # "chain" => call.entry # "function" /\ status_code = 0

\* What VCL got.
Got ==
  pc = "done" =>
    /\ LastOutcome = "refused" => result = -1
    /\ LastOutcome # "refused" =>
         /\ ret < 0 => result = ErrorResult
         /\ ret >= 0 /\ call.entry = "chain" => result = ret
         /\ ret >= 0 /\ call.entry = "function" => result = action
         /\ ret >= 0 /\ call.entry = "module" =>
              result = IF status_code > 0 THEN status_code ELSE ret

IInv == TypeOK /\ Ascending /\ Walk /\ Returned /\ Outcomes /\ Got

-----------------------------------------------------------------------------
(* What the actions have in common *)

EndValues == {"refused", "error", "continue", "stop", "pause", "local"}

\* What TypeOK says of the call.
LEMMA CallTypes ==
  ASSUME TypeOK
  PROVE  /\ call.entry \in {"function", "module", "chain"}
         /\ call.modules \in 0 .. MaxModules /\ call.limit \in Nat
         /\ call.closed \in BOOLEAN
         /\ ErrorResult \in {-1, 0}
BY CallAssumption DEF TypeOK, VclCalls, ErrorResult

\* A response of the tree has a positive token.
LEMMA TokenTypes ==
  ASSUME TypeOK
  PROVE  /\ token \in Nat /\ count \in Nat /\ token <= count
         /\ begun \in Nat /\ begun <= token
         /\ \A c \in calls : c \in Nat /\ c >= 1 /\ c <= token
         /\ ent \in Nat /\ tent \in Nat
BY CallAssumption DEF TypeOK

\* The least of some positive numbers, or 0 if there are none.
LEMMA LeastIs ==
  ASSUME NEW S, S \subseteq Nat \ {0}
  PROVE  /\ S = {} => Least(S) = 0
         /\ S # {} => Least(S) \in S /\ \A y \in S : Least(S) <= y
<1>1. ASSUME S # {} PROVE \E x \in S : \A y \in S : x <= y
  <2>1. PICK x \in S : \A y \in S : ~ (<<y, x>> \in OpToRel(<, Nat))
    BY Zenon, <1>1, NatLessThanWellFounded, WFMin
  <2>2. \A y \in S : ~ (y < x)
    BY Zenon, <2>1 DEF OpToRel
  <2>3. QED
    BY <2>2
<1>2. QED
  BY Zenon, <1>1 DEF Least

\* An execution that has ended without an error leaves only good outcomes; one
\* that has failed leaves its error at the end.
LEMMA FinishOutcomes ==
  ASSUME TypeOK, Outcomes, ~ Over, NEW o \in EndValues \ {"refused"},
         UNCHANGED call, pc' = "returned", outcomes' = Append(outcomes, o)
  PROVE  /\ Outcomes'
         /\ outcomes' \in Seq(EndValues)
         /\ LastOutcome' = o
BY DEF TypeOK, Outcomes, Over, EndValues, Final, LastOutcome

\* What the walk knows matters only while it lasts.
LEMMA NoWalk ==
  ASSUME pc' \notin {"guest", "iterate", "callback", "decide"}
  PROVE  Walk'
BY Zenon DEF Walk

\* What was delivered does not change.
LEMMA SameDelivered ==
  ASSUME Ascending, UNCHANGED delivered
  PROVE  Ascending'
BY Zenon DEF Ascending

\* Steps of an execution that do not end it.
LEMMA GoesOn ==
  ASSUME TypeOK, Outcomes, ~ Over, pc # "chain", pc' \notin {"returned", "done", "chain"},
         UNCHANGED <<call, outcomes, status_code>>
  PROVE  Outcomes' /\ Returned' /\ Got'
BY DEF Outcomes, Over, Returned, Got, LastOutcome

-----------------------------------------------------------------------------
(* The invariant holds at first and is kept by every action *)

\* A call begins with the invariant.
LEMMA InitInv == Init => IInv
<1> SUFFICES ASSUME Init PROVE IInv
  OBVIOUS
<1>1. TypeOK
  <2>1. call \in VclCalls /\ call.limit \in Nat
    BY CallAssumption DEF Init, VclCalls
  <2>2. local_response_set \in BOOLEAN
    BY Zenon DEF Init
  <2>3. QED
    BY <2>1, <2>2, CallAssumption DEF Init, TypeOK, Exports, GuestActions
<1>2. Ascending /\ Walk
  BY DEF Init, Ascending, Walk
<1>3. Returned /\ Outcomes /\ Got
  BY DEF Init, Returned, Outcomes, Got, Over
<1>4. QED
  BY Zenon, <1>1, <1>2, <1>3 DEF IInv

\* The store of an execution cannot be had.
LEMMA CannotStartInv == ASSUME IInv, CannotStart PROVE IInv'
<1>1. TypeOK /\ Outcomes /\ ~ Over
  BY Zenon DEF IInv, CannotStart, Over
<1>2. /\ Outcomes'
      /\ outcomes' \in Seq(EndValues)
      /\ LastOutcome' = "error"
  BY Zenon, <1>1, FinishOutcomes DEF CannotStart, given, EndValues
<1>3. TypeOK'
  BY <1>1, <1>2, CallAssumption
  DEF CannotStart, TypeOK, given, guestVars, localVars, walked, GuestActions, EndValues
<1>4. Ascending' /\ Walk'
  BY Zenon, NoWalk, SameDelivered DEF IInv, CannotStart, walked
<1>5. Returned' /\ Got'
  BY <1>2 DEF CannotStart, Returned, Got
<1>6. QED
  BY Zenon, <1>2, <1>3, <1>4, <1>5 DEF IInv

\* The vmod function refuses the call, or the chain names no module.
LEMMA RefusedInv == ASSUME IInv, Refused \/ EmptyChain PROVE IInv'
<1>1. PICK o \in {"refused", "error"} :
        /\ outcomes' = <<o>>
        /\ IF o = "refused" THEN pc' = "done" /\ result' = -1 /\ ret' = ret
                             ELSE pc' = "returned" /\ ret' = -1 /\ result' = result
  BY Zenon DEF Refused, EmptyChain
<1>2. UNCHANGED <<call, exports, k, action, local_response_set, local_response_code, count,
                  token, calls, ent, tent, status_code, delivered, begun>>
  BY Zenon DEF Refused, EmptyChain, given, guestVars, localVars, walked
<1>3. outcomes' \in Seq(EndValues) /\ Len(outcomes') = 1 /\ LastOutcome' = o
  BY <1>1 DEF EndValues, LastOutcome
<1>4. TypeOK'
  <2>1. ret' \in GuestActions /\ result' \in GuestActions \cup Statuses
    BY <1>1 DEF IInv, TypeOK, GuestActions
  <2>2. QED
    BY Zenon, <1>1, <1>2, <1>3, <2>1 DEF IInv, TypeOK, EndValues
<1>5. Ascending' /\ Walk'
  BY Zenon, <1>1, <1>2, NoWalk, SameDelivered DEF IInv
<1>6. Outcomes'
  BY <1>1, <1>3 DEF Outcomes, Over
<1>7. Returned' /\ Got'
  BY <1>1, <1>3 DEF Returned, Got
<1>8. QED
  BY Zenon, <1>4, <1>5, <1>6, <1>7 DEF IInv

\* A module begins with an empty context.
LEMMA StartInv == ASSUME IInv, Start PROVE IInv'
<1>1. TypeOK'
  <2>1. call.limit \in Nat
    BY Zenon, CallTypes DEF IInv
  <2>2. local_response_set' \in BOOLEAN
    BY Zenon DEF Start
  <2>3. QED
    BY <2>1, <2>2, CallAssumption DEF IInv, Start, TypeOK, GuestActions
<1>2. Ascending' /\ Walk'
  BY SMTT(30) DEF Start, Ascending, Walk
<1>3. Returned' /\ Outcomes' /\ Got'
  BY DEF IInv, Start, Returned, Outcomes, Got, Over, TypeOK
<1>4. QED
  BY Zenon, <1>1, <1>2, <1>3 DEF IInv

\* Guest code makes a callout: a response it stores is later than all others.
LEMMA HttpCallInv == ASSUME IInv, HttpCall PROVE IInv'
<1>1. /\ token' \in Nat /\ token <= token' /\ token' <= count' /\ count' <= MaxAttempts
      /\ count' \in Nat
      /\ call.limit > 0 => count' <= call.limit
      /\ calls \subseteq calls' /\ calls' \subseteq calls \cup {token + 1}
      /\ calls' \subseteq 1 .. token'
  <2>1. /\ token \in Nat /\ count \in Nat /\ token <= count
        /\ calls \subseteq 1 .. token /\ MaxAttempts \in Nat /\ call.limit \in Nat
    BY Zenon, TokenTypes, CallTypes, CallAssumption DEF IInv, TypeOK
  <2>2. /\ count < MaxAttempts /\ count' = count + 1
        /\ call.limit > 0 => count < call.limit
        /\ \/ token' = token /\ calls' = calls
           \/ token' = token + 1 /\ calls' = calls \cup {token + 1}
           \/ token' = token + 1 /\ calls' = calls
    BY Zenon DEF HttpCall, AttemptFails, ResponseStored, ResponseDropped
  <2>3. ASSUME token' = token + 1, calls' = calls \cup {token + 1}
        PROVE  calls' \subseteq 1 .. token'
    BY <2>1, <2>3
  <2>4. 1 .. token \subseteq 1 .. token + 1
    BY <2>1
  <2>5. calls' \subseteq 1 .. token'
    BY Zenon, <2>1, <2>2, <2>3, <2>4
  <2>6. /\ token' \in Nat /\ token <= token' /\ token' <= count' /\ count' <= MaxAttempts
        /\ count' \in Nat
        /\ call.limit > 0 => count' <= call.limit
    BY <2>1, <2>2
  <2>7. calls \subseteq calls' /\ calls' \subseteq calls \cup {token + 1}
    BY Zenon, <2>2
  <2>8. QED
    BY Zenon, <2>5, <2>6, <2>7
<1>2. UNCHANGED <<call, exports, pc, k, action, local_response_set, local_response_code,
                  ent, tent, status_code, ret, result, delivered, begun, outcomes>>
  BY Zenon DEF HttpCall, given, localVars, walked
<1>3. TypeOK'
  <2>1. delivered' \in Seq(1 .. token') /\ begun' \in 0 .. token'
    BY <1>1, <1>2, TokenTypes DEF IInv, TypeOK
  <2>2. ent' \in {0} \cup calls' /\ tent' \in {0} \cup calls'
    BY Zenon, <1>1, <1>2 DEF IInv, TypeOK
  <2>3. count' \in 0 .. MaxAttempts /\ token' \in 0 .. count'
    BY <1>1, CallAssumption
  <2>4. QED
    BY ZenonT(60), <1>1, <1>2, <2>1, <2>2, <2>3 DEF IInv, TypeOK
<1>4. Walk'
  <2>1. \A c \in calls' : c \in calls \/ c = token + 1
    BY Zenon, <1>1
  <2>2. \A a \in 1 .. Len(delivered) : delivered[a] \in 1 .. token
    BY SMTT(30) DEF IInv, TypeOK
  <2>3. /\ token \in Nat /\ ent <= token /\ tent <= token /\ ent \in Nat /\ tent \in Nat
        /\ begun \in Nat /\ begun <= token
    BY TokenTypes DEF IInv, TypeOK
  <2>4. pc \in {"guest", "callback", "tail"}
    BY Zenon DEF HttpCall, InGuest
  <2>5. ASSUME pc = "callback" PROVE UpTo(ent)' /\ ent' # 0
    BY <1>2, <2>1, <2>3, <2>5 DEF IInv, Walk, UpTo
  <2>6. ASSUME pc = "callback", tent # 0
        PROVE  ent' < tent' /\ \A c \in calls' : c <= ent' \/ tent' <= c
    BY <1>2, <2>1, <2>3, <2>6 DEF IInv, Walk
  <2>7. ASSUME pc = "callback", tent = 0
        PROVE  \A c \in calls' : c <= ent' \/ c > begun'
    BY <1>2, <2>1, <2>3, <2>7 DEF IInv, Walk
  <2>8. QED
    BY Zenon, <1>2, <2>4, <2>5, <2>6, <2>7 DEF IInv, Walk
<1>5. Ascending' /\ Returned' /\ Outcomes' /\ Got'
  BY ZenonT(60), <1>2
  DEF IInv, Ascending, Returned, Outcomes, Got, Over, ErrorResult, LastOutcome
<1>6. QED
  BY Zenon, <1>3, <1>4, <1>5 DEF IInv

\* Guest code sends a local response.
LEMMA SendLocalResponseInv == ASSUME IInv, SendLocalResponse PROVE IInv'
<1>1. UNCHANGED <<call, exports, pc, k, action, count, token, calls, ent, tent,
                  status_code, ret, result, delivered, begun, outcomes>>
  BY Zenon DEF SendLocalResponse, given, walked
<1>2. TypeOK'
  BY Zenon, <1>1 DEF IInv, TypeOK, SendLocalResponse
<1>3. Ascending' /\ Walk'
  BY Zenon, <1>1 DEF IInv, Ascending, Walk, UpTo, AllPassed
<1>4. ~ Over /\ pc # "chain"
  BY Zenon DEF SendLocalResponse, InGuest, Over
<1>5. Returned' /\ Outcomes' /\ Got'
  BY Zenon, <1>1, <1>4 DEF IInv, Returned, Outcomes, Got, Over, LastOutcome
<1>6. QED
  BY Zenon, <1>2, <1>3, <1>5 DEF IInv

\* The header function returns: the walk begins at the least token, or there is
\* nothing to deliver.
LEMMA HeadersReturnInv == ASSUME IInv, HeadersReturn PROVE IInv'
<1>1. TypeOK /\ Outcomes /\ ~ Over /\ pc = "guest" /\ delivered = <<>>
  BY Zenon DEF IInv, HeadersReturn, Over, Walk
<1>2. UNCHANGED <<call, exports, k, local_response_set, local_response_code, count, token,
                  calls, tent, status_code, ret, result, delivered, begun, outcomes>>
  BY Zenon DEF HeadersReturn, given, guestVars, localVars, walked
<1>3. action' \in GuestActions
  BY Zenon DEF HeadersReturn
<1>4. calls \subseteq Nat \ {0}
  BY <1>1, TokenTypes
<1>5. \/ pc' = "iterate" /\ ent' \in calls /\ \A c \in calls : ent' <= c
      \/ pc' = "decide" /\ ent' = ent
  BY ZenonT(60), <1>4, LeastIs DEF HeadersReturn
<1>6. TypeOK'
  BY Zenon, <1>1, <1>2, <1>3, <1>5 DEF TypeOK
<1>7. Len(delivered') = 0
  BY <1>1, <1>2
<1>8. Ascending' /\ Walk'
  <2>1. Ascending' /\ AllPassed'
    BY <1>7 DEF Ascending, AllPassed
  <2>2. ASSUME pc' = "iterate" PROVE ent' # 0 /\ UpTo(ent)'
    <3>1. ent' \in calls /\ \A c \in calls : ent' <= c
      BY Zenon, <1>5, <2>2
    <3>2. ent' # 0 /\ \A c \in calls : ~ (c < ent')
      BY <1>4, <3>1
    <3>3. 1 .. Len(delivered') = {}
      BY <1>7
    <3>4. QED
      BY Zenon, <1>2, <3>2, <3>3 DEF UpTo
  <2>3. QED
    BY Zenon, <1>5, <2>1, <2>2 DEF Walk
<1>9. Returned' /\ Outcomes' /\ Got'
  BY Zenon, <1>1, <1>2, <1>5, GoesOn
<1>10. QED
  BY Zenon, <1>6, <1>8, <1>9 DEF IInv

\* The walk reads the successor of the response whose callback comes next.
LEMMA BeginCallbackInv == ASSUME IInv, BeginCallback PROVE IInv'
<1>1. TypeOK /\ Outcomes /\ ~ Over /\ pc = "iterate" /\ ent # 0 /\ UpTo(ent)
  BY Zenon DEF IInv, BeginCallback, Over, Walk
<1>2. /\ UNCHANGED <<call, exports, k, action, local_response_set, local_response_code,
                     count, token, calls, ent, status_code, ret, result, delivered,
                     outcomes>>
      /\ pc' = "callback" /\ begun' = token
  BY Zenon DEF BeginCallback, given, guestVars, localVars, walked
<1>3. {c \in calls : c > ent} \subseteq Nat \ {0}
  BY <1>1, TokenTypes
<1>4. \/ tent' = 0 /\ \A c \in calls : ~ (c > ent)
      \/ tent' \in calls /\ tent' > ent /\ \A c \in calls : c > ent => tent' <= c
  BY Zenon, <1>3, LeastIs DEF BeginCallback
<1>5. TypeOK'
  <2>1. begun' \in 0 .. token'
    BY <1>1, <1>2, TokenTypes
  <2>2. QED
    BY Zenon, <1>1, <1>2, <1>4, <2>1 DEF TypeOK
<1>6. UpTo(ent)'
  BY Zenon, <1>1, <1>2 DEF UpTo
<1>7. /\ tent' # 0 => ent' < tent' /\ \A c \in calls' : c <= ent' \/ tent' <= c
      /\ tent' = 0 => \A c \in calls' : c <= ent' \/ c > begun'
  BY <1>1, <1>2, <1>4, TokenTypes
<1>8. Walk' /\ Ascending'
  BY Zenon, <1>1, <1>2, <1>6, <1>7, SameDelivered DEF Walk, IInv
<1>9. Returned' /\ Outcomes' /\ Got'
  BY Zenon, <1>1, <1>2, GoesOn
<1>10. QED
  BY Zenon, <1>5, <1>8, <1>9 DEF IInv

\* The walk is over.
LEMMA CallbacksDoneInv == ASSUME IInv, CallbacksDone PROVE IInv'
<1>1. TypeOK /\ Outcomes /\ ~ Over /\ pc = "iterate" /\ AllPassed
  BY Zenon DEF IInv, CallbacksDone, Over, Walk
<1>2. /\ UNCHANGED <<call, exports, k, local_response_set, local_response_code, count,
                     token, calls, ent, tent, status_code, ret, result, delivered, begun,
                     outcomes>>
      /\ pc' = "decide" /\ action' = 0
  BY Zenon DEF CallbacksDone, given, guestVars, localVars, walked
<1>3. 0 \in GuestActions
  BY DEF GuestActions
<1>4. TypeOK'
  BY Zenon, <1>1, <1>2, <1>3 DEF TypeOK
<1>5. AllPassed'
  BY Zenon, <1>1, <1>2 DEF AllPassed
<1>6. Walk' /\ Ascending'
  BY Zenon, <1>2, <1>5, SameDelivered DEF Walk, IInv
<1>7. Outcomes' /\ Returned' /\ Got'
  BY Zenon, <1>1, <1>2, GoesOn
<1>8. QED
  BY Zenon, <1>4, <1>6, <1>7 DEF IInv

\* The end of an execution that is not a failure, or is one: what it returns
\* agrees with the outcome that is recorded.
Ends(r, status, o) ==
  /\ Finish(r, status, o)
  /\ UNCHANGED <<call, exports, k, action, local_response_set, local_response_code, count,
                 token, calls, ent, tent, result, delivered, begun>>
  /\ r \in GuestActions /\ status \in {0} \cup Statuses /\ o \in EndValues \ {"refused"}
  /\ ~ Over /\ pc # "chain"
  /\ o = "error" <=> r < 0
  /\ o = "stop" <=> r > 0
  /\ r > 0 => r = action
  /\ r >= 0 => status = IF local_response_set THEN local_response_code ELSE 0

\* Such an end keeps the invariant.
LEMMA EndsInv ==
  ASSUME IInv, NEW r, NEW status, NEW o, Ends(r, status, o)
  PROVE  IInv'
<1>1. /\ ret' = r /\ status_code' = status /\ outcomes' = Append(outcomes, o)
      /\ pc' = "returned"
      /\ UNCHANGED <<call, exports, k, action, local_response_set, local_response_code,
                     count, token, calls, ent, tent, result, delivered, begun>>
  BY Zenon DEF Ends, Finish
<1>2. TypeOK /\ Outcomes /\ ~ Over /\ call.entry # "function"
  BY Zenon DEF IInv, Ends, Outcomes
<1>3. /\ Outcomes'
      /\ outcomes' \in Seq(EndValues)
      /\ LastOutcome' = o
  BY Zenon, <1>1, <1>2, FinishOutcomes DEF Ends
<1>4. TypeOK'
  <2>1. r \in GuestActions /\ status \in {0} \cup Statuses
    BY Zenon DEF Ends
  <2>2. QED
    BY Zenon, <1>1, <1>2, <1>3, <2>1 DEF TypeOK, EndValues
<1>5. Walk' /\ Ascending'
  BY Zenon, <1>1, NoWalk, SameDelivered DEF IInv
<1>6. Returned'
  <2>1. /\ o = "error" <=> r < 0
        /\ o = "stop" <=> r > 0
        /\ r > 0 => r = action
        /\ r >= 0 => status = IF local_response_set THEN local_response_code ELSE 0
    BY Zenon DEF Ends
  <2>2. /\ LastOutcome' = "error" <=> ret' < 0
        /\ LastOutcome' = "stop" <=> ret' > 0
        /\ ret' > 0 => ret' = action'
    BY <1>1, <1>3, <2>1
  <2>3. ret' >= 0 => status_code' = IF local_response_set' THEN local_response_code' ELSE 0
    BY Zenon, <1>1, <2>1
  <2>4. QED
    BY Zenon, <1>1, <1>2, <2>2, <2>3 DEF Returned
<1>7. Got'
  BY Zenon, <1>1 DEF Got
<1>8. QED
  BY Zenon, <1>3, <1>4, <1>5, <1>6, <1>7 DEF IInv

\* What the end of an execution finds.
LEMMA BeforeEnd ==
  ASSUME IInv, pc \in {"guest", "callback", "decide", "tail"}
  PROVE  /\ ~ Over /\ pc # "chain" /\ status_code = 0
         /\ action \in GuestActions /\ action \in Int
         /\ local_response_set \in BOOLEAN /\ local_response_code \in {0} \cup Statuses
         /\ 0 \in GuestActions /\ -1 \in GuestActions
         /\ EndValues = {"refused", "error", "continue", "stop", "pause", "local"}
<1>1. ~ Over /\ pc # "chain" /\ status_code = 0
  BY Zenon DEF IInv, Over, Outcomes
<1>2. /\ action \in GuestActions
      /\ local_response_set \in BOOLEAN /\ local_response_code \in {0} \cup Statuses
  BY Zenon DEF IInv, TypeOK
<1>3. QED
  BY <1>1, <1>2 DEF GuestActions, EndValues

\* The header function fails.
LEMMA HeadersFailInv == ASSUME IInv, HeadersFail PROVE IInv'
<1>1. pc = "guest"
  BY Zenon DEF HeadersFail
<1>2. Ends(-1, status_code, "error")
  BY <1>1, BeforeEnd DEF HeadersFail, Ends, given, guestVars, localVars, walked
<1>3. QED
  BY Zenon, <1>2, EndsInv

\* A callback ends: a local response ends the execution, otherwise the walk goes
\* on with the successor that was read before the callback.
LEMMA EndCallbackInv == ASSUME IInv, EndCallback PROVE IInv'
<1>1. /\ TypeOK /\ Outcomes /\ ~ Over /\ pc = "callback" /\ ent # 0 /\ UpTo(ent)
      /\ tent # 0 => ent < tent /\ \A c \in calls : c <= ent \/ tent <= c
      /\ tent = 0 => \A c \in calls : c <= ent \/ c > begun
      /\ status_code = 0 /\ call.entry # "function"
  BY Zenon DEF IInv, EndCallback, Over, Walk, Outcomes
<1>2. /\ UNCHANGED <<call, exports, k, action, local_response_set, local_response_code,
                     count, token, calls, result, begun>>
      /\ delivered' = Append(delivered, ent)
  BY Zenon DEF EndCallback, given, guestVars, localVars, walked
<1>3. /\ ent \in calls /\ token \in Nat /\ ent \in 1 .. token /\ tent \in Nat
      /\ delivered \in Seq(1 .. token)
      /\ \A c \in calls : c \in Nat
  BY <1>1, TokenTypes DEF TypeOK
<1>4. /\ delivered' \in Seq(1 .. token)
      /\ Len(delivered) \in Nat /\ Len(delivered') = Len(delivered) + 1
      /\ \A a \in 1 .. Len(delivered) : delivered'[a] = delivered[a]
      /\ delivered'[Len(delivered')] = ent
  BY <1>2, <1>3
<1>5. Ascending'
  <2>1. \A a \in 1 .. Len(delivered) : delivered[a] \in Nat /\ delivered[a] < ent /\ a <= delivered[a]
    <3>1. \A a \in 1 .. Len(delivered) : delivered[a] < ent /\ a <= delivered[a]
      BY Zenon, <1>1 DEF UpTo, IInv, Ascending
    <3>2. \A a \in 1 .. Len(delivered) : delivered[a] \in Nat
      BY <1>3
    <3>3. QED
      BY Zenon, <3>1, <3>2
  <2>2. Len(delivered) < ent
    <3>1. CASE Len(delivered) = 0
      BY <1>3, <3>1
    <3>2. CASE Len(delivered) # 0
      <4>1. Len(delivered) \in 1 .. Len(delivered)
        BY <1>4, <3>2
      <4>2. PICK x \in Nat : x < ent /\ Len(delivered) <= x
        BY Zenon, <2>1, <4>1
      <4>3. QED
        BY <1>3, <1>4, <4>2
    <3>3. QED
      BY Zenon, <3>1, <3>2
  <2>3. \A a, b \in 1 .. Len(delivered') : a < b => delivered'[a] < delivered'[b]
    <3>1. \A a, b \in 1 .. Len(delivered) : a < b => delivered[a] < delivered[b]
      BY Zenon DEF IInv, Ascending
    <3>2. QED
      BY <1>4, <2>1, <3>1
  <2>4. \A a \in 1 .. Len(delivered') : a <= delivered'[a]
    <3>1. \A a \in 1 .. Len(delivered') : a \in 1 .. Len(delivered) \/ a = Len(delivered')
      BY <1>4
    <3>2. Len(delivered') <= ent
      BY <1>3, <1>4, <2>2
    <3>3. QED
      BY Zenon, <1>4, <2>1, <3>1, <3>2
  <2>5. QED
    BY Zenon, <2>3, <2>4 DEF Ascending
<1>6. CASE local_response_set
  <2>1. /\ ret' = 0 /\ status_code' = local_response_code
        /\ outcomes' = Append(outcomes, "local")
        /\ pc' = "returned" /\ ent' = ent /\ tent' = tent
    BY Zenon, <1>6 DEF EndCallback, Finish
  <2>2. /\ Outcomes'
        /\ outcomes' \in Seq(EndValues)
        /\ LastOutcome' = "local"
    BY Zenon, <1>1, <1>2, <2>1, FinishOutcomes DEF EndValues
  <2>3. local_response_code \in {0} \cup Statuses /\ 0 \in GuestActions
    BY <1>1 DEF TypeOK, GuestActions
  <2>4. TypeOK'
    BY ZenonT(60), <1>1, <1>2, <1>4, <2>1, <2>2, <2>3 DEF TypeOK, EndValues
  <2>5. Walk'
    BY Zenon, <2>1, NoWalk
  <2>6. Returned' /\ Got'
    BY <1>1, <1>2, <1>6, <2>1, <2>2 DEF Returned, Got
  <2>7. QED
    BY Zenon, <1>5, <2>2, <2>4, <2>5, <2>6 DEF IInv
<1>7. CASE ~ local_response_set
  <2>1. /\ ent' = tent /\ tent' = 0 /\ pc' = "iterate"
        /\ UNCHANGED <<status_code, ret, outcomes>>
    BY Zenon, <1>7 DEF EndCallback
  <2>2. TypeOK'
    BY Zenon, <1>1, <1>2, <1>4, <2>1 DEF TypeOK
  <2>3. Outcomes' /\ Returned' /\ Got'
    BY Zenon, <1>1, <1>2, <2>1, GoesOn
  <2>4. \A c \in calls : c <= ent => \E a \in 1 .. Len(delivered') : delivered'[a] = c
    <3> SUFFICES ASSUME NEW c \in calls, c <= ent
                 PROVE  \E a \in 1 .. Len(delivered') : delivered'[a] = c
      BY Zenon
    <3>1. CASE c = ent
      <4>1. Len(delivered') \in 1 .. Len(delivered')
        BY <1>4
      <4>2. QED
        BY Zenon, <1>4, <3>1, <4>1
    <3>2. CASE c # ent
      <4>1. c < ent
        BY <1>3, <3>2
      <4>2. PICK a \in 1 .. Len(delivered) : delivered[a] = c
        BY Zenon, <1>1, <4>1 DEF UpTo
      <4>3. a \in 1 .. Len(delivered')
        BY <1>4
      <4>4. QED
        BY Zenon, <1>4, <4>2, <4>3
    <3>3. QED
      BY Zenon, <3>1, <3>2
  <2>5. \A a \in 1 .. Len(delivered') : delivered'[a] <= ent
    <3>1. \A a \in 1 .. Len(delivered) : delivered[a] < ent /\ delivered[a] \in Nat
      <4>1. \A a \in 1 .. Len(delivered) : delivered[a] < ent
        BY Zenon, <1>1 DEF UpTo
      <4>2. QED
        BY <1>3, <4>1
    <3>2. \A a \in 1 .. Len(delivered') : a \in 1 .. Len(delivered) \/ a = Len(delivered')
      BY <1>4
    <3>3. ent <= ent /\ \A x \in Nat : x < ent => x <= ent
      BY <1>3
    <3>4. QED
      BY Zenon, <1>4, <3>1, <3>2, <3>3
  <2>6. CASE tent # 0
    <3>1. \A a \in 1 .. Len(delivered') : delivered'[a] < tent
      BY SMTT(30), <1>1, <1>3, <1>4, <2>5, <2>6
    <3>2. \A c \in calls : c < tent => c <= ent
      BY <1>1, <1>3, <2>6
    <3>3. UpTo(ent)'
      BY Zenon, <1>2, <2>1, <2>4, <3>1, <3>2 DEF UpTo
    <3>4. Walk'
      BY Zenon, <2>1, <2>6, <3>3 DEF Walk
    <3>5. QED
      BY Zenon, <1>5, <2>2, <2>3, <3>4 DEF IInv
  <2>7. CASE tent = 0
    <3>1. AllPassed'
      BY Zenon, <1>1, <1>2, <2>4, <2>7 DEF AllPassed
    <3>2. Walk'
      BY Zenon, <2>1, <2>7, <3>1 DEF Walk
    <3>3. QED
      BY Zenon, <1>5, <2>2, <2>3, <3>2 DEF IInv
  <2>8. QED
    BY Zenon, <2>6, <2>7
<1>8. QED
  BY Zenon, <1>6, <1>7

\* A local response or PAUSE ends the execution.
LEMMA DecideToStopInv == ASSUME IInv, DecideToStop PROVE IInv'
<1>1. pc = "decide"
  BY Zenon DEF DecideToStop
<1>2. Ends(0, local_response_code, "local") \/ Ends(0, status_code, "pause")
  BY <1>1, BeforeEnd DEF DecideToStop, Ends, given, guestVars, localVars, walked
<1>3. QED
  BY Zenon, <1>2, EndsInv

\* The response body is left to the delivery processor, or could not be.
LEMMA DeferInv == ASSUME IInv, DeferBody \/ DeferFails PROVE IInv'
<1>1. pc = "decide"
  BY Zenon DEF DeferBody, DeferFails
<1>2. CASE DeferBody
  <2>1. Ends(action, 0, Ended(action))
    BY <1>1, <1>2, BeforeEnd DEF DeferBody, Ends, Ended, given, guestVars, localVars, walked
  <2>2. QED
    BY ZenonT(60), <2>1, EndsInv
<1>3. CASE DeferFails
  <2>1. Ends(-1, status_code, "error")
    BY <1>1, <1>3, BeforeEnd DEF DeferFails, Ends, given, guestVars, localVars, walked
  <2>2. QED
    BY Zenon, <2>1, EndsInv
<1>4. QED
  BY Zenon, <1>2, <1>3

\* The rest of the callbacks run.
LEMMA RunTailInv == ASSUME IInv, RunTail PROVE IInv'
<1>1. TypeOK /\ Outcomes /\ ~ Over /\ pc = "decide" /\ Ascending
  BY Zenon DEF IInv, RunTail, Over
<1>2. /\ UNCHANGED <<call, exports, k, action, local_response_set, local_response_code,
                     count, token, calls, ent, tent, status_code, ret, result, delivered,
                     begun, outcomes>>
      /\ pc' = "tail"
  BY Zenon DEF RunTail, given, guestVars, localVars, walked
<1>3. TypeOK'
  BY Zenon, <1>1, <1>2 DEF TypeOK
<1>4. Walk' /\ Ascending'
  BY Zenon, <1>1, <1>2, NoWalk, SameDelivered
<1>5. Outcomes' /\ Returned' /\ Got'
  BY Zenon, <1>1, <1>2, GoesOn
<1>6. QED
  BY Zenon, <1>3, <1>4, <1>5 DEF IInv

\* They have run: the execution returns the action.
LEMMA TailDoneInv == ASSUME IInv, TailDone PROVE IInv'
<1>1. pc = "tail"
  BY Zenon DEF TailDone
<1> DEFINE status == IF local_response_set THEN local_response_code ELSE 0
<1>2. Ends(action, status, Ended(action))
  <2>1. /\ Finish(action, status, Ended(action))
        /\ UNCHANGED <<call, exports, k, action, local_response_set, local_response_code,
                       count, token, calls, ent, tent, result, delivered, begun>>
    BY Zenon DEF TailDone, given, guestVars, localVars, walked
  <2>2. /\ Ended(action) \in EndValues \ {"refused"}
        /\ Ended(action) = "error" <=> action < 0
        /\ Ended(action) = "stop" <=> action > 0
    BY <1>1, BeforeEnd DEF Ended
  <2>3. status \in {0} \cup Statuses
    BY Zenon, <1>1, BeforeEnd
  <2>4. QED
    BY Zenon, <1>1, <2>1, <2>2, <2>3, BeforeEnd DEF Ends
<1>3. QED
  BY Zenon, <1>2, EndsInv

\* An exported function is called and returns, or fails.
LEMMA RawCallInv == ASSUME IInv, RawCall PROVE IInv'
<1>1. TypeOK /\ Outcomes /\ ~ Over /\ call.entry = "function"
  BY Zenon DEF IInv, RawCall, Over, Outcomes
<1>2. PICK o \in EndValues \ {"refused"} :
        /\ status_code' = 0 /\ outcomes' = Append(outcomes, o)
        /\ pc' = "returned" /\ action' \in GuestActions
        /\ \/ ret' = -1 /\ o = "error"
           \/ ret' = 0 /\ o = "stop"
  <2>1. action \in GuestActions
    BY Zenon, <1>1 DEF TypeOK
  <2>2. \/ /\ ret' = -1 /\ status_code' = 0 /\ outcomes' = Append(outcomes, "error")
           /\ pc' = "returned" /\ action' = action
        \/ /\ ret' = 0 /\ status_code' = 0 /\ outcomes' = Append(outcomes, "stop")
           /\ pc' = "returned" /\ action' \in GuestActions
    BY Zenon DEF RawCall, Finish
  <2>3. {"error", "stop"} \subseteq EndValues \ {"refused"}
    BY Zenon DEF EndValues
  <2>4. QED
    BY Zenon, <2>1, <2>2, <2>3
<1>3. UNCHANGED <<call, exports, k, local_response_set, local_response_code, count, token,
                  calls, ent, tent, result, delivered, begun>>
  BY Zenon DEF RawCall, given, guestVars, localVars, walked
<1>4. /\ Outcomes'
      /\ outcomes' \in Seq(EndValues)
      /\ LastOutcome' = o
  BY Zenon, <1>1, <1>2, <1>3, FinishOutcomes
<1>5. ret' \in GuestActions
  BY <1>2 DEF GuestActions
<1>6. TypeOK'
  BY Zenon, <1>1, <1>2, <1>3, <1>4, <1>5 DEF TypeOK, EndValues
<1>7. Walk' /\ Ascending'
  BY Zenon, <1>2, <1>3, NoWalk, SameDelivered DEF IInv
<1>8. Returned'
  BY <1>1, <1>2, <1>3, <1>4 DEF Returned
<1>9. Got'
  BY Zenon, <1>2 DEF Got
<1>10. QED
  BY Zenon, <1>4, <1>6, <1>7, <1>8, <1>9 DEF IInv

\* What VCL is given when a call is over.
Gives(x) ==
  /\ pc = "returned" /\ pc' = "done" /\ result' = x
  /\ UNCHANGED <<call, exports, k, action, local_response_set, local_response_code, count,
                 token, calls, ent, tent, status_code, ret, delivered, begun, outcomes>>
  /\ ret < 0 => x = ErrorResult
  /\ ret >= 0 /\ call.entry = "chain" => x = ret
  /\ ret >= 0 /\ call.entry = "function" => x = action
  /\ ret >= 0 /\ call.entry = "module" => x = IF status_code > 0 THEN status_code ELSE ret

\* Giving it keeps the invariant.
LEMMA GivesInv ==
  ASSUME IInv, NEW x, Gives(x)
  PROVE  IInv'
<1>1. /\ TypeOK /\ Outcomes /\ Returned /\ Ascending
      /\ ret \in GuestActions /\ action \in GuestActions
      /\ status_code \in {0} \cup Statuses
      /\ call.entry \in {"function", "module", "chain"}
      /\ ErrorResult \in {-1, 0}
  BY Zenon, CallTypes DEF IInv, TypeOK
<1>2. /\ UNCHANGED <<call, exports, k, action, local_response_set, local_response_code,
                     count, token, calls, ent, tent, status_code, ret, delivered, begun,
                     outcomes>>
      /\ pc' = "done" /\ result' = x /\ pc = "returned"
  BY Zenon DEF Gives
<1>3. ret < 0 \/ ret >= 0
  BY <1>1 DEF GuestActions
<1>4. x \in GuestActions \cup Statuses
  <2>1. ErrorResult \in GuestActions /\ 0 \in GuestActions
    BY <1>1 DEF GuestActions
  <2>2. QED
    BY Zenon, <1>1, <1>3, <2>1 DEF Gives
<1>5. TypeOK'
  BY Zenon, <1>1, <1>2, <1>4 DEF TypeOK
<1>6. Walk' /\ Ascending'
  BY Zenon, <1>1, <1>2, NoWalk, SameDelivered
<1>7. Returned' /\ Outcomes'
  BY Zenon, <1>1, <1>2 DEF Returned, Outcomes, Over, LastOutcome
<1>8. Got'
  BY Zenon, <1>1, <1>2 DEF Got, Gives, ErrorResult, Outcomes, LastOutcome
<1>9. QED
  BY Zenon, <1>5, <1>6, <1>7, <1>8 DEF IInv

\* Each of the entry points gives VCL what Gives says.
LEMMA ReturnInv == ASSUME IInv, ReturnToVcl \/ RawReturn \/ ChainReturn PROVE IInv'
<1>1. /\ Returned /\ pc = "returned" /\ Over /\ ret \in GuestActions
      /\ LastOutcome # "refused"
  BY Zenon DEF IInv, ReturnToVcl, RawReturn, ChainReturn, Over, TypeOK, Outcomes
<1>2. ret \in Int
  BY <1>1 DEF GuestActions
<1>3. CASE ReturnToVcl
  <2>1. Gives(IF ret < 0 THEN ErrorResult
              ELSE IF status_code > 0 THEN status_code ELSE ret)
    BY <1>1, <1>2, <1>3 DEF ReturnToVcl, Gives, Returned, given, guestVars, localVars, walked
  <2>2. QED
    BY Zenon, <2>1, GivesInv
<1>4. CASE RawReturn
  <2>1. Gives(IF ret # 0 THEN ErrorResult ELSE action)
    BY <1>1, <1>2, <1>4 DEF RawReturn, Gives, Returned, given, guestVars, localVars, walked
  <2>2. QED
    BY Zenon, <2>1, GivesInv
<1>5. CASE ChainReturn
  <2>1. Gives(IF ret < 0 THEN ErrorResult ELSE ret)
    BY <1>1, <1>2, <1>5 DEF ChainReturn, Gives, given, guestVars, localVars, walked
  <2>2. QED
    BY Zenon, <2>1, GivesInv
<1>6. QED
  BY ZenonT(60), <1>3, <1>4, <1>5

\* The chain goes on.
LEMMA ChainNextInv == ASSUME IInv, ChainNext PROVE IInv'
<1>1. /\ TypeOK /\ Outcomes /\ Returned /\ Ascending /\ Over
      /\ ret = 0 /\ call.entry = "chain" /\ k < call.modules
  BY Zenon DEF IInv, ChainNext, Over
<1>2. /\ UNCHANGED <<call, exports, action, local_response_set, local_response_code, count,
                     token, calls, ent, tent, status_code, ret, result, delivered, begun,
                     outcomes>>
      /\ pc' = "chain" /\ k' = k + 1
  BY Zenon DEF ChainNext, given, guestVars, localVars, walked
<1>3. k' \in 1 .. MaxModules
  <2>1. k \in 1 .. MaxModules
    BY Zenon, <1>1 DEF TypeOK
  <2>2. call.modules \in 0 .. MaxModules
    BY Zenon, <1>1, CallTypes
  <2>3. QED
    BY <1>1, <1>2, <2>1, <2>2, CallAssumption
<1>4. TypeOK'
  BY Zenon, <1>1, <1>2, <1>3 DEF TypeOK
<1>5. Walk' /\ Ascending'
  BY Zenon, <1>1, <1>2, NoWalk, SameDelivered
<1>6. LastOutcome \notin Final
  BY <1>1 DEF Returned, Outcomes, ChainNext, Final
<1>7. Returned' /\ Outcomes' /\ Got'
  BY Zenon, <1>1, <1>2, <1>6 DEF Returned, Outcomes, Got, Over, LastOutcome
<1>8. QED
  BY Zenon, <1>4, <1>5, <1>7 DEF IInv

-----------------------------------------------------------------------------
(* The theorems *)

\* Every step of a call keeps the invariant.
LEMMA NextInv == IInv /\ [Next]_vars => IInv'
<1>1. ASSUME IInv, Next PROVE IInv'
  BY ZenonT(60), <1>1, RefusedInv, CannotStartInv, StartInv, RawCallInv, ReturnInv, HttpCallInv,
     SendLocalResponseInv, HeadersFailInv, HeadersReturnInv, BeginCallbackInv,
     EndCallbackInv, CallbacksDoneInv, DecideToStopInv, DeferInv, RunTailInv,
     TailDoneInv, ChainNextInv
  DEF Next, Control
<1>2. ASSUME IInv, UNCHANGED vars PROVE IInv'
  <2>1. UNCHANGED <<call, exports, pc, k, action, local_response_set, local_response_code,
                    count, token, calls, ent, tent, status_code, ret, result, delivered,
                    begun, outcomes>>
    BY Zenon, <1>2 DEF vars, given, guestVars, localVars, walked
  <2>2. TypeOK' /\ Ascending'
    BY ZenonT(60), <1>2, <2>1 DEF IInv, TypeOK, Ascending
  <2>3. Walk'
    BY Zenon, <1>2, <2>1 DEF IInv, Walk, UpTo, AllPassed
  <2>4. Returned' /\ Outcomes' /\ Got'
    BY Zenon, <1>2, <2>1 DEF IInv, Returned, Outcomes, Got, Over, ErrorResult, LastOutcome
  <2>5. QED
    BY Zenon, <2>2, <2>3, <2>4 DEF IInv
<1>3. QED
  BY Zenon, <1>1, <1>2

\* The inductive invariant holds in every state of every call.
LEMMA Invariance == Spec => []IInv
BY InitInv, NextInv, PTL DEF Spec

\* Every variable keeps its type, whatever guest code does.
THEOREM TypeCorrect == Spec => []TypeOK
<1>1. IInv => TypeOK
  BY Zenon DEF IInv
<1>2. QED
  BY Invariance, <1>1, PTL

\* The callbacks of an execution run in ascending order of their tokens, each at
\* most once and, where a call limit is set, no more often than it allows, however
\* many responses the callbacks themselves add to the tree being walked.
THEOREM CallbacksInOrder == Spec => []DeliveredInOrder
<1>1. ASSUME IInv PROVE DeliveredInOrder
  <2>1. /\ token \in Nat /\ count \in Nat /\ token <= count /\ call.limit \in Nat
        /\ call.limit > 0 => count <= call.limit
        /\ delivered \in Seq(1 .. token)
    BY Zenon, <1>1, TokenTypes, CallTypes DEF IInv, TypeOK
  <2>2. /\ Len(delivered) \in Nat
        /\ \A a \in 1 .. Len(delivered) : delivered[a] \in Nat /\ delivered[a] <= token
    BY <2>1
  <2>3. Len(delivered) <= token
    <3>1. CASE Len(delivered) = 0
      BY <2>1, <3>1
    <3>2. CASE Len(delivered) # 0
      <4>1. Len(delivered) \in 1 .. Len(delivered)
        BY <2>2, <3>2
      <4>2. PICK x \in Nat : x <= token /\ Len(delivered) <= x
        BY Zenon, <1>1, <2>2, <4>1 DEF IInv, Ascending
      <4>3. QED
        BY <2>1, <2>2, <4>2
    <3>3. QED
      BY Zenon, <3>1, <3>2
  <2>4. call.limit > 0 => Len(delivered) <= call.limit
    BY <2>1, <2>2, <2>3
  <2>5. QED
    BY Zenon, <1>1, <2>4 DEF IInv, Ascending, DeliveredInOrder
<1>2. QED
  BY Invariance, <1>1, PTL

\* When the walk of the stored responses is over, a response it has not delivered
\* was stored by its last callback: none that was there before is passed over.
THEOREM NoneSkipped == Spec => []SkippedOnlyAtTheEnd
<1>1. ASSUME IInv PROVE SkippedOnlyAtTheEnd
  <2> SUFFICES ASSUME pc = "decide", delivered # <<>>
               PROVE  \A c \in calls : \/ \E a \in 1 .. Len(delivered) : delivered[a] = c
                                       \/ c > begun
    BY Zenon DEF SkippedOnlyAtTheEnd
  <2>1. delivered \in Seq(1 .. token) /\ AllPassed
    BY Zenon, <1>1 DEF IInv, TypeOK, Walk
  <2>2. Len(delivered) > 0
    BY <2>1
  <2>3. QED
    BY Zenon, <2>1, <2>2 DEF AllPassed
<1>2. QED
  BY Invariance, <1>1, PTL

\* VCL gets from a call what ResultContract says: -1 for one that is refused, an
\* error as the fail mode says, a single module's positive local response over
\* everything else, the action otherwise; and a chain goes no further than the
\* first module that fails or returns an action of its own.
THEOREM ResultsAsSpecified == Spec => []ResultContract
<1>1. ASSUME IInv PROVE ResultContract
  <2>1. /\ Len(outcomes) \in Nat /\ ret \in Int
        /\ status_code \in {0} \cup Statuses
        /\ call.entry \in {"function", "module", "chain"}
    <3>1. outcomes \in Seq(EndValues) /\ ret \in GuestActions
      BY Zenon, <1>1 DEF IInv, TypeOK, EndValues
    <3>2. /\ call.entry \in {"function", "module", "chain"}
          /\ status_code \in {0} \cup Statuses
      BY Zenon, <1>1, CallTypes DEF IInv, TypeOK
    <3>3. QED
      BY <3>1, <3>2 DEF GuestActions
  <2>2. \A j \in 1 .. Len(outcomes) - 1 : outcomes[j] \notin Final
    <3>1. \A j \in 1 .. Len(outcomes) : outcomes[j] \in Final => j = Len(outcomes)
      BY Zenon, <1>1 DEF IInv, Outcomes
    <3>2. QED
      BY <2>1, <3>1
  <2> DEFINE Sent ==   /\ call.entry = "module"
                       /\ local_response_set /\ local_response_code > 0
             Plain == IF Sent THEN local_response_code
                      ELSE IF LastOutcome = "stop" THEN action ELSE 0
  <2>3. ASSUME pc = "done", LastOutcome \notin {"refused", "error"}
        PROVE  result = Plain
    <3>1. ret >= 0 /\ Over /\ LastOutcome # "refused"
      <4>1. Over /\ (LastOutcome = "error" <=> ret < 0)
        BY Zenon, <1>1, <2>3 DEF IInv, Returned, Over
      <4>2. QED
        BY <2>1, <2>3, <4>1
    <3>2. CASE call.entry = "function"
      <4>1. LastOutcome = "stop" /\ result = action
        BY Zenon, <1>1, <2>3, <3>1, <3>2 DEF IInv, Returned, Got
      <4>2. QED
        BY Zenon, <3>2, <4>1
    <3>3. ASSUME call.entry # "function"
          PROVE  ret = IF LastOutcome = "stop" THEN action ELSE 0
      <4>1. (LastOutcome = "stop" <=> ret > 0) /\ (ret > 0 => ret = action)
        BY Zenon, <1>1, <3>1, <3>3 DEF IInv, Returned
      <4>2. ret > 0 \/ ret = 0
        BY <2>1, <3>1
      <4>3. ret = 0 => ~ (ret > 0)
        OBVIOUS
      <4>4. QED
        BY Zenon, <4>1, <4>2, <4>3
    <3>4. CASE call.entry = "chain"
      <4>1. result = ret
        BY Zenon, <1>1, <2>3, <3>1, <3>4 DEF IInv, Got
      <4>2. QED
        BY Zenon, <3>3, <3>4, <4>1
    <3>5. CASE call.entry = "module"
      <4>1. /\ result = IF status_code > 0 THEN status_code ELSE ret
            /\ status_code = IF local_response_set THEN local_response_code ELSE 0
        BY Zenon, <1>1, <2>3, <3>1, <3>5 DEF IInv, Got, Returned
      <4>2. ~ (0 > 0)
        OBVIOUS
      <4>3. result = IF Sent THEN local_response_code ELSE ret
        BY Zenon, <3>5, <4>1, <4>2
      <4>4. QED
        BY Zenon, <3>3, <3>5, <4>3
    <3>6. QED
      BY Zenon, <2>1, <3>2, <3>4, <3>5
  <2>4. ASSUME pc = "done", LastOutcome = "refused" PROVE result = -1
    BY Zenon, <1>1, <2>4 DEF IInv, Got
  <2>5. ASSUME pc = "done", LastOutcome = "error" PROVE result = ErrorResult
    BY Zenon, <1>1, <2>5 DEF IInv, Got, Returned, Over
  <2>6. ASSUME pc = "done"
        PROVE  result = CASE LastOutcome = "refused" -> -1
                          [] LastOutcome = "error" -> ErrorResult
                          [] LastOutcome \notin {"refused", "error"} -> Plain
    <3> HIDE DEF Plain
    <3>1. CASE LastOutcome = "refused"
      BY <2>4, <2>6, <3>1
    <3>2. CASE LastOutcome = "error"
      BY <2>5, <2>6, <3>2
    <3>3. CASE LastOutcome \notin {"refused", "error"}
      BY <2>3, <2>6, <3>3
    <3>4. QED
      BY Zenon, <3>1, <3>2, <3>3
  <2>7. QED
    BY Zenon, <2>2, <2>6 DEF ResultContract, Final
<1>2. QED
  BY Invariance, <1>1, PTL

-----------------------------------------------------------------------------
(* The bodies of a stream (StreamData) *)

Bytes == [callback : Nat, at : Nat]

\* All bytes of s are of callback c.
Own(s, c) == \A i \in DOMAIN s : s[i].callback = c

\* The bytes of s that came from Varnish are in their order, none twice.
Rising(s) ==
  \A i, j \in DOMAIN s : i < j /\ s[i].at > 0 /\ s[j].at > 0 => s[i].at < s[j].at

Good(s, c) == s \in Seq(Bytes) /\ Own(s, c) /\ Rising(s)

\* What a stream holds is of the callback that runs or ran last.  The chunk is
\* there only while its callback runs, and between two callbacks a rewrite is
\* there only if it was made before the body began.
BytesInv ==
  /\ callback \in Nat /\ modified \in BOOLEAN
  /\ stage \in {"headers", "answer", "stream", "body", "last", "over"}
  /\ Good(chunk, callback)
  /\ Good(body, callback)
  /\ stage # "body" => chunk = <<>>
  /\ HasHeaders => callback = 0
  /\ stage = "stream" /\ callback # 0 => body = <<>>
  /\ OnlyItsOwnBytes

\* Nothing is of any callback.
LEMMA EmptyGood == \A c : Good(<<>>, c)
BY DEF Good, Own, Rising

\* A chunk is of its callback.
LEMMA ChunkGood ==
  ASSUME NEW c \in Nat, NEW len \in Nat
  PROVE  Good([i \in 1 .. len |-> Original(c, i)], c)
<1> DEFINE s == [i \in 1 .. len |-> Original(c, i)]
<1>1. \A i \in 1 .. len : s[i] \in Bytes /\ s[i].callback = c /\ s[i].at = i
  BY DEF Bytes, Original
<1>2. DOMAIN s = 1 .. len
  OBVIOUS
<1>3. s \in Seq(Bytes)
  BY <1>1, <1>2
<1> HIDE DEF s
<1>4. Own(s, c) /\ Rising(s)
  BY <1>1, <1>2 DEF Own, Rising
<1>5. QED
  BY Zenon, <1>3, <1>4 DEF Good, s

\* The sub-sequence from a to b.
LEMMA Part ==
  ASSUME NEW S, NEW s \in Seq(S), NEW a \in 1 .. Len(s) + 1, NEW b \in a - 1 .. Len(s)
  PROVE  /\ SubSeq(s, a, b) \in Seq(S) /\ Len(SubSeq(s, a, b)) = b - a + 1
         /\ \A i \in 1 .. b - a + 1 : SubSeq(s, a, b)[i] = s[a + i - 1]
<1>1. Len(s) \in Nat /\ \A i \in 1 .. Len(s) : s[i] \in S
  OBVIOUS
<1>2. Len(SubSeq(s, a, b)) = b - a + 1
  BY <1>1
<1>3. \A i \in 1 .. b - a + 1 : SubSeq(s, a, b)[i] = s[a + i - 1]
  BY <1>1
<1>4. SubSeq(s, a, b) \in Seq(S)
  BY <1>1
<1>5. QED
  BY Zenon, <1>2, <1>3, <1>4

\* Two sequences joined.
LEMMA Joined ==
  ASSUME NEW S, NEW s \in Seq(S), NEW t \in Seq(S)
  PROVE  /\ s \o t \in Seq(S) /\ Len(s \o t) = Len(s) + Len(t)
         /\ \A i \in 1 .. Len(s) : (s \o t)[i] = s[i]
         /\ \A i \in Len(s) + 1 .. Len(s) + Len(t) : (s \o t)[i] = t[i - Len(s)]
<1>1. s \o t \in Seq(S) /\ Len(s \o t) = Len(s) + Len(t)
  OBVIOUS
<1>2. \A i \in 1 .. Len(s) : (s \o t)[i] = s[i]
  OBVIOUS
<1>3. \A i \in Len(s) + 1 .. Len(s) + Len(t) : (s \o t)[i] = t[i - Len(s)]
  OBVIOUS
<1>4. QED
  BY <1>1, <1>2, <1>3

\* pw_replace_bytes keeps the order and the callback, wherever start and size
\* point to: what is left of the bytes is a part before and a part after the value.
LEMMA ReplaceGood ==
  ASSUME NEW c \in Nat, NEW base, Good(base, c),
         NEW start \in Nat, NEW size \in Nat,
         NEW value \in {<<>>, <<Written(c)>>}
  PROVE  Good(ReplaceBytes(base, start, size, value), c)
<1> DEFINE from == Smaller(start, Len(base))
           to   == from + Smaller(size, Len(base) - from)
           l    == SubSeq(base, 1, from)
           r    == SubSeq(base, to + 1, Len(base))
           s    == l \o value \o r
           m    == Len(value)
<1>1. base \in Seq(Bytes) /\ Len(base) \in Nat /\ DOMAIN base = 1 .. Len(base)
  BY DEF Good
<1>2. from \in 0 .. Len(base) /\ to \in from .. Len(base)
  <2>1. \A a, b \in Nat : Smaller(a, b) \in 0 .. b
    BY DEF Smaller
  <2>2. from \in 0 .. Len(base)
    BY Zenon, <2>1, <1>1
  <2> HIDE DEF from
  <2>3. Len(base) - from \in Nat
    BY <2>2, <1>1
  <2>4. Smaller(size, Len(base) - from) \in 0 .. Len(base) - from
    BY Zenon, <2>1, <2>3
  <2>5. QED
    BY <2>2, <2>4, <1>1
<1>3. s = ReplaceBytes(base, start, size, value)
  BY Zenon DEF ReplaceBytes
<1> HIDE DEF from, to
<1>4. /\ l \in Seq(Bytes) /\ Len(l) = from
      /\ \A i \in 1 .. from : l[i] = base[i]
  BY <1>1, <1>2
<1>5. /\ r \in Seq(Bytes) /\ Len(r) = Len(base) - to
      /\ \A i \in 1 .. Len(base) - to : r[i] = base[to + i]
  <2>1. to + 1 \in 1 .. Len(base) + 1 /\ Len(base) \in (to + 1) - 1 .. Len(base)
        /\ Len(base) - (to + 1) + 1 = Len(base) - to
    BY <1>1, <1>2
  <2>2. /\ r \in Seq(Bytes) /\ Len(r) = Len(base) - to
        /\ \A i \in 1 .. Len(base) - to : r[i] = base[(to + 1) + i - 1]
    <3>1. /\ r \in Seq(Bytes) /\ Len(r) = Len(base) - (to + 1) + 1
          /\ \A i \in 1 .. Len(base) - (to + 1) + 1 : r[i] = base[(to + 1) + i - 1]
      BY ZenonT(40), <2>1, <1>1, Part
    <3> HIDE DEF r
    <3>2. QED
      BY ZenonT(40), <3>1, <2>1
  <2> HIDE DEF r
  <2>3. QED
    BY <2>2, <1>1, <1>2
<1>6. /\ value \in Seq(Bytes) /\ m \in {0, 1}
      /\ \A i \in 1 .. m : value[i].callback = c /\ value[i].at = 0
  <2>1. CASE value = <<>>
    BY <2>1
  <2>2. CASE value = <<Written(c)>>
    <3>1. Written(c) \in Bytes /\ Written(c).callback = c /\ Written(c).at = 0
      BY DEF Bytes, Written
    <3>2. QED
      BY <3>1, <2>2
  <2>3. QED
    BY <2>1, <2>2
<1> HIDE DEF l, r, m
<1>7. /\ s \in Seq(Bytes) /\ Len(s) = from + m + (Len(base) - to)
      /\ \A i \in 1 .. from : s[i] = l[i]
      /\ \A i \in from + 1 .. from + m : s[i] = value[i - from]
      /\ \A i \in from + m + 1 .. Len(s) : s[i] = r[i - (from + m)]
  <2> DEFINE lv == l \o value
  <2>1. /\ lv \in Seq(Bytes) /\ Len(lv) = from + m
        /\ \A i \in 1 .. from : lv[i] = l[i]
        /\ \A i \in from + 1 .. from + m : lv[i] = value[i - from]
    <3>1. l \in Seq(Bytes) /\ value \in Seq(Bytes)
      BY Zenon, <1>4, <1>6
    <3>2. /\ lv \in Seq(Bytes) /\ Len(lv) = Len(l) + Len(value)
          /\ \A i \in 1 .. Len(l) : lv[i] = l[i]
          /\ \A i \in Len(l) + 1 .. Len(l) + Len(value) : lv[i] = value[i - Len(l)]
      BY ZenonT(40), <3>1, Joined
    <3>3. Len(l) = from /\ Len(value) = m
      BY Zenon, <1>4 DEF m
    <3> HIDE DEF lv
    <3>4. QED
      BY <3>2, <3>3
  <2>2. s = lv \o r
    BY Zenon
  <2> HIDE DEF lv, s
  <2>3. /\ s \in Seq(Bytes) /\ Len(s) = from + m + (Len(base) - to)
        /\ \A i \in 1 .. from + m : s[i] = lv[i]
        /\ \A i \in from + m + 1 .. from + m + (Len(base) - to) : s[i] = r[i - (from + m)]
    <3>1. /\ lv \o r \in Seq(Bytes) /\ Len(lv \o r) = Len(lv) + Len(r)
          /\ \A i \in 1 .. Len(lv) : (lv \o r)[i] = lv[i]
          /\ \A i \in Len(lv) + 1 .. Len(lv) + Len(r) : (lv \o r)[i] = r[i - Len(lv)]
      BY ZenonT(60), <2>1, <1>5, Joined
    <3>2. /\ s \in Seq(Bytes) /\ Len(s) = Len(lv) + Len(r)
          /\ \A i \in 1 .. Len(lv) : s[i] = lv[i]
          /\ \A i \in Len(lv) + 1 .. Len(lv) + Len(r) : s[i] = r[i - Len(lv)]
      BY Zenon, <3>1, <2>2
    <3>3. Len(lv) = from + m /\ Len(r) = Len(base) - to
      BY Zenon, <2>1, <1>5
    <3>4. QED
      BY <3>2, <3>3
  <2>4. (\A i \in 1 .. from : i \in 1 .. from + m)
        /\ \A i \in from + 1 .. from + m : i \in 1 .. from + m
    BY <1>2, <1>6
  <2>5. QED
    BY Zenon, <2>1, <2>3, <2>4
<1> HIDE DEF s
<1> DEFINE place(i) == IF i <= from THEN i ELSE i - (from + m) + to
<1>8. /\ from \in Nat /\ m \in Nat /\ to \in Nat /\ Len(base) \in Nat
      /\ from <= to /\ to <= Len(base)
      /\ Len(s) = from + m + (Len(base) - to)
  <2>1. Len(s) = from + m + (Len(base) - to) /\ Len(base) \in Nat
    BY Zenon, <1>1, <1>7
  <2>2. m \in Nat
    <3>1. m \in {0, 1}
      BY Zenon, <1>6
    <3>2. QED
      BY <3>1
  <2>3. from \in Nat /\ to \in Nat /\ from <= to /\ to <= Len(base)
    BY <1>2, <2>1
  <2>4. QED
    BY Zenon, <2>1, <2>2, <2>3
<1>9. ASSUME NEW i \in 1 .. Len(s)
      PROVE  \/ /\ place(i) \in 1 .. Len(base) /\ s[i] = base[place(i)]
                /\ i <= from \/ i > from + m
             \/ s[i].callback = c /\ s[i].at = 0
  <2>1. CASE i <= from
    <3>1. i \in 1 .. from /\ i \in 1 .. Len(base)
      BY <2>1, <1>8
    <3>2. s[i] = base[i]
      BY Zenon, <3>1, <1>4, <1>7
    <3>3. QED
      BY Zenon, <3>1, <3>2, <2>1
  <2>2. CASE i > from /\ i <= from + m
    <3>1. i \in from + 1 .. from + m /\ i - from \in 1 .. m
      BY <2>2, <1>8
    <3>2. s[i] = value[i - from]
      BY Zenon, <3>1, <1>7
    <3>3. QED
      BY Zenon, <3>1, <3>2, <1>6
  <2>3. CASE i > from + m
    <3>1. /\ i \in from + m + 1 .. Len(s) /\ i - (from + m) \in 1 .. Len(base) - to
          /\ ~ (i <= from) /\ i - (from + m) + to = to + (i - (from + m))
          /\ to + (i - (from + m)) \in 1 .. Len(base)
      BY <2>3, <1>8
    <3>2. s[i] = r[i - (from + m)]
      BY Zenon, <3>1, <1>7
    <3>3. r[i - (from + m)] = base[to + (i - (from + m))]
      BY Zenon, <3>1, <1>5
    <3>4. place(i) = to + (i - (from + m))
      BY Zenon, <3>1
    <3>5. QED
      BY ZenonT(60), <3>1, <3>2, <3>3, <3>4, <2>3
  <2>4. i <= from \/ (i > from /\ i <= from + m) \/ i > from + m
    BY <1>8
  <2>5. QED
    BY Zenon, <2>1, <2>2, <2>3, <2>4
<1>10. \A i \in 1 .. Len(s) : s[i].callback = c
  BY Zenon, <1>9, <1>1 DEF Good, Own
<1>11. ASSUME NEW i \in 1 .. Len(s), NEW j \in 1 .. Len(s), i < j, s[i].at > 0, s[j].at > 0
       PROVE  s[i].at < s[j].at
  <2>1. ~ (0 > 0)
    OBVIOUS
  <2>2. /\ place(i) \in 1 .. Len(base) /\ s[i] = base[place(i)]
        /\ i <= from \/ i > from + m
    BY Zenon, <1>9, <1>11, <2>1
  <2>3. /\ place(j) \in 1 .. Len(base) /\ s[j] = base[place(j)]
        /\ j <= from \/ j > from + m
    BY Zenon, <1>9, <1>11, <2>1
  <2>4. i <= from \/ i > from + m
    BY Zenon, <2>2
  <2>5. j <= from \/ j > from + m
    BY Zenon, <2>3
  <2>6. place(i) < place(j)
    BY <2>4, <2>5, <1>8, <1>11
  <2>7. QED
    BY Zenon, <2>2, <2>3, <2>6, <1>1, <1>11 DEF Good, Rising
<1>12. DOMAIN s = 1 .. Len(s)
  <2>1. s \in Seq(Bytes)
    BY Zenon, <1>7
  <2>2. QED
    BY <2>1
<1>13. QED
  BY Zenon, <1>3, <1>7, <1>10, <1>11, <1>12 DEF Good, Own, Rising

-----------------------------------------------------------------------------
\* The initial states satisfy it.
LEMMA BytesInitInv == StreamInit => BytesInv
<1> SUFFICES ASSUME StreamInit PROVE BytesInv
  OBVIOUS
<1>1. callback = 0 /\ chunk = <<>> /\ body = <<>> /\ modified = FALSE /\ stage = "headers"
      /\ passed = [of |-> 0, own |-> FALSE, bytes |-> <<>>]
  BY Zenon DEF StreamInit, BodyInit
<1>2. OnlyItsOwnBytes
  BY <1>1 DEF OnlyItsOwnBytes
<1>3. callback \in Nat
  BY <1>1
<1>4. QED
  BY Zenon, <1>1, <1>2, <1>3, EmptyGood DEF BytesInv

\* What VDP_bytes passes on is the guest's, or the chunk.
LEMMA PassOnOwn ==
  ASSUME BytesInv, NEW own \in BOOLEAN, PassOn(own),
         own \/ stage = "stream"
  PROVE  OnlyItsOwnBytes'
<1> DEFINE bs == IF modified THEN body ELSE chunk
<1>1. passed' = [of |-> callback, own |-> own, bytes |-> bs]
  BY Zenon DEF PassOn
<1>2. Good(bs, callback)
  BY Zenon DEF BytesInv
<1>3. ASSUME ~ own PROVE callback = 0 \/ bs = <<>>
  BY Zenon, <1>3 DEF BytesInv
<1> HIDE DEF bs
<1>4. passed'.of = callback /\ passed'.own = own /\ passed'.bytes = bs
  BY Zenon, <1>1
<1>5. \A i \in DOMAIN bs : IF own THEN bs[i].callback = callback ELSE callback = 0
  <2>1. CASE own
    BY Zenon, <2>1, <1>2 DEF Good, Own
  <2>2. CASE ~ own
    BY <2>2, <1>3
  <2>3. QED
    BY Zenon, <2>1, <2>2
<1>6. QED
  BY Zenon, <1>2, <1>4, <1>5 DEF OnlyItsOwnBytes, Good, Rising

\* A host call that writes a body keeps the invariant.
LEMMA WriteInv ==
  ASSUME BytesInv, BodyCall, UNCHANGED stage
  PROVE  BytesInv'
<1>1. PICK type \in {"request", "response"}, start, size \in 0 .. MaxChunk + 1,
           value \in {<<>>, <<Written(callback)>>} : SetBytes(type, start, size, value)
  BY Zenon DEF BodyCall
<1>2. start \in Nat /\ size \in Nat
  BY BodyAssumption
<1>3. Good(Visible(type), callback)
  BY Zenon, EmptyGood DEF Visible, BytesInv
<1>4. Good(body', callback)
  BY Zenon, <1>1, <1>2, <1>3, ReplaceGood DEF SetBytes, BytesInv
<1>5. stage' # "stream" /\ stage' = stage /\ modified' = TRUE
      /\ callback' = callback /\ chunk' = chunk /\ passed' = passed
  BY Zenon, <1>1 DEF BodyCall, InCallback, SetBytes
<1>6. OnlyItsOwnBytes'
  BY Zenon, <1>5 DEF BytesInv, OnlyItsOwnBytes
<1>7. QED
  BY Zenon, <1>4, <1>5, <1>6 DEF BytesInv, HasHeaders

\* Every step of a stream keeps it.
LEMMA BytesNextInv == BytesInv /\ [StreamNext]_streamVars => BytesInv'
<1> SUFFICES ASSUME BytesInv, [StreamNext]_streamVars PROVE BytesInv'
  OBVIOUS
<1>1. ASSUME UNCHANGED <<bodyVars, stage>> PROVE BytesInv'
  BY Zenon, <1>1 DEF BytesInv, bodyVars, OnlyItsOwnBytes, HasHeaders
<1>2. CASE HostCall
  BY Zenon, <1>1, <1>2, WriteInv DEF HostCall
<1>3. ASSUME AnswerCallback \/ HeadersDone \/ Aborted PROVE BytesInv'
  <2>1. /\ UNCHANGED bodyVars /\ stage' \in {"answer", "stream", "last"} /\ stage # "body"
        /\ stage' \in {"answer", "stream"} => HasHeaders
    BY Zenon, <1>3 DEF AnswerCallback, HeadersDone, Aborted, HasHeaders
  <2>2. OnlyItsOwnBytes'
    BY Zenon, <2>1 DEF BytesInv, bodyVars, OnlyItsOwnBytes
  <2>3. QED
    BY Zenon, <2>1, <2>2 DEF BytesInv, bodyVars, HasHeaders
<1>4. CASE BodyCallback
  <2>1. PICK len \in 0 .. MaxChunk : \E a \in {"data", "end"} : Chunk(a, len)
    BY Zenon, <1>4 DEF BodyCallback
  <2>2. len \in Nat /\ callback + 1 \in Nat
    BY BodyAssumption DEF BytesInv
  <2>3. callback' = callback + 1 /\ modified' = FALSE /\ body' = <<>>
        /\ chunk' = [i \in 1 .. len |-> Original(callback + 1, i)]
        /\ passed' = passed /\ stage' = "body"
    BY Zenon, <2>1, <1>4 DEF Chunk, BodyCallback
  <2>4. Good(chunk', callback') /\ Good(body', callback')
    BY Zenon, <2>2, <2>3, ChunkGood, EmptyGood
  <2>5. OnlyItsOwnBytes'
    BY Zenon, <2>3 DEF BytesInv, OnlyItsOwnBytes
  <2>6. QED
    BY Zenon, <2>2, <2>3, <2>4, <2>5 DEF BytesInv, HasHeaders
<1>5. ASSUME BodyDone \/ FlushStep PROVE BytesInv'
  <2>1. PICK own \in BOOLEAN : PassOn(own) /\ (own \/ stage = "stream")
    BY Zenon, <1>5 DEF BodyDone, FlushStep, ChunkDone, Flush
  <2>2. OnlyItsOwnBytes'
    BY Zenon, <2>1, PassOnOwn
  <2>3. chunk' = <<>> /\ body' = <<>> /\ modified' = FALSE
    BY Zenon, <2>1 DEF PassOn
  <2>4. callback' = callback /\ stage' \in {"last", "stream"}
    BY Zenon, <1>5 DEF BodyDone, FlushStep, ChunkDone, Flush
  <2>5. QED
    BY Zenon, <2>2, <2>3, <2>4, EmptyGood DEF BytesInv, HasHeaders
<1>6. CASE StreamEnds
  <2>1. callback' = callback /\ chunk' = chunk /\ passed' = passed /\ body' = <<>>
        /\ modified' \in BOOLEAN /\ stage = "last" /\ stage' = "over"
    BY Zenon, <1>6 DEF StreamEnds
  <2>2. OnlyItsOwnBytes'
    BY Zenon, <2>1 DEF BytesInv, OnlyItsOwnBytes
  <2>3. QED
    BY Zenon, <2>1, <2>2, EmptyGood DEF BytesInv, HasHeaders
<1>7. CASE UNCHANGED streamVars
  BY Zenon, <1>1, <1>7 DEF streamVars
<1>8. QED
  BY Zenon, <1>2, <1>3, <1>4, <1>5, <1>6, <1>7 DEF StreamNext

\* Whatever the guest writes, wherever, in whichever callback, and for any number
\* and length of chunks: what is passed on for a chunk is of that chunk and in
\* its order, or was written in its callback, and no rewrite outlives its chunk.
THEOREM BytesOfTheChunk == StreamSpec => []OnlyItsOwnBytes
<1>1. BytesInv => OnlyItsOwnBytes
  BY Zenon DEF BytesInv
<1>2. QED
  BY <1>1, BytesInitInv, BytesNextInv, PTL DEF StreamSpec
=============================================================================
