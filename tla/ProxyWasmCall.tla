---------------------------- MODULE ProxyWasmCall ----------------------------
(***************************************************************************)
(* The control flow of one VCL call into Wasm modules: vmod_execute (one   *)
(* function), vmod_proxy_wasm_on_request/on_response (one module) or       *)
(* filter_chain (several), proxy_wasm_execute with the HTTP callouts that  *)
(* guest code makes and the deferred delivery of their responses, and the  *)
(* result handed back to VCL.  One request runs in one thread; the guest's *)
(* choices are the nondeterminism.  Where the execution's store comes from *)
(* and who returns it is the subject of ExecutionLifecycle.                *)
(***************************************************************************)
EXTENDS Integers, Sequences

CONSTANTS
  MaxModules,   \* bound on the modules a filter chain names
  Limits,       \* the values of engine->http_call_max; 0 sets no limit
  MaxAttempts,  \* bound on the callouts of one execution, for a limit of 0
  Statuses      \* the codes modules send as local responses, any i32

ASSUME CallAssumption ==
  /\ MaxModules \in Nat \ {0}
  /\ Limits \subseteq Nat
  /\ MaxAttempts \in Nat
  /\ Statuses \subseteq Int

\* What VCL calls: an exported function, a module or a filter chain, in which
\* phase; whether the engine's fail mode is closed, and its limit on callouts.
\* A chain that is all separators names no module.
VclCalls == {c \in [entry : {"function", "module", "chain"},
                    modules : 0 .. MaxModules,
                    phase : {"request", "response"}, closed : BOOLEAN,
                    limit : Limits] :
               c.entry # "chain" => c.modules = 1}

\* The optional callbacks of a module: for callout responses and for the body.
Exports == [callback : BOOLEAN, body : BOOLEAN]

VARIABLES
  call,         \* the call that VCL makes, one of VclCalls
  exports,      \* the exports of the current module
  pc,           \* where proxy_wasm_execute is
  k,            \* index of the chain's current module
  action,       \* the i32 the header function returned
  local_response_set,   \* a local response was sent ...
  local_response_code,  \* ... with this status
  count,        \* http_call_count
  token,        \* http_call_next_token
  calls,        \* tokens in the http_calls tree
  ent, tent,    \* the iteration of VRBT_FOREACH_SAFE, 0 for NULL
  status_code,  \* *status_code
  ret,          \* what proxy_wasm_execute returned
  result,       \* what VCL gets
  delivered,    \* history: the tokens whose callback ran, in order
  begun,        \* history: token when the last callback began
  outcomes      \* history: how each module of the chain ended

given == <<call, exports>>
localVars == <<local_response_set, local_response_code>>
guestVars == <<localVars, count, token, calls>>
walked == <<delivered, begun>>
vars == <<given, pc, k, action, guestVars, ent, tent, status_code, ret, result,
          walked, outcomes>>

Init ==
  /\ call \in VclCalls
  /\ exports = [callback |-> FALSE, body |-> FALSE]
  /\ pc = "chain" /\ k = 1 /\ action = 0
  /\ local_response_set = FALSE /\ local_response_code = 0
  /\ count = 0 /\ token = 0 /\ calls = {} /\ ent = 0 /\ tent = 0
  /\ status_code = 0 /\ ret = 0 /\ result = 0
  /\ delivered = <<>> /\ begun = 0 /\ outcomes = <<>>

Least(S) == IF S = {} THEN 0 ELSE CHOOSE x \in S : \A y \in S : x <= y

-----------------------------------------------------------------------------
(* The start of an execution *)

\* The vmod function answers -1 itself, whatever the fail mode: there is no
\* engine, a name or the chain's specification is empty, or strdup failed.
Refused ==
  /\ pc = "chain"
  /\ k = 1
  /\ result' = -1
  /\ outcomes' = <<"refused">>
  /\ pc' = "done"
  /\ UNCHANGED <<given, k, action, guestVars, ent, tent, status_code, ret, walked>>

\* A chain needs a module.
EmptyChain ==
  /\ pc = "chain"
  /\ call.modules = 0
  /\ ret' = -1
  /\ outcomes' = <<"error">>
  /\ pc' = "returned"
  /\ UNCHANGED <<given, k, action, guestVars, ent, tent, status_code, result, walked>>

\* The module is not loaded, or no store could be created or instantiated.
CannotStart ==
  /\ pc = "chain"
  /\ call.entry # "function"
  /\ k <= call.modules
  /\ status_code' = 0
  /\ ret' = -1
  /\ outcomes' = Append(outcomes, "error")
  /\ pc' = "returned"
  /\ UNCHANGED <<given, k, action, guestVars, ent, tent, result, walked>>

\* A module with some exports gets a zeroed proxy_ctx; its init lifecycle and its
\* header function run next.
Start ==
  /\ pc = "chain"
  /\ call.entry # "function"
  /\ k <= call.modules
  /\ exports' \in Exports
  /\ status_code' = 0
  /\ action' = 0
  /\ local_response_set' = FALSE /\ local_response_code' = 0
  /\ count' = 0 /\ token' = 0 /\ calls' = {} /\ ent' = 0 /\ tent' = 0
  /\ delivered' = <<>> /\ begun' = 0
  /\ pc' = "guest"
  /\ UNCHANGED <<call, k, ret, result, outcomes>>

-----------------------------------------------------------------------------
(* Host functions that guest code calls: in the init lifecycle and the header *)
(* function ("guest"), in a callback, and in body, log, done, delete ("tail") *)

InGuest == pc \in {"guest", "callback", "tail"}

(* An operator named Faulty... is a mutated form of the definition after it. *)

\* The ends of an attempt: it fails before a token is drawn; its response is
\* stored under a fresh token; or the token was drawn, but there is no memory
\* for the entry or the token could not be written to the guest.
AttemptFails == UNCHANGED <<token, calls>>

ResponseStored == token' = token + 1 /\ calls' = calls \cup {token + 1}

ResponseDropped == token' = token + 1 /\ UNCHANGED calls

\* proxy_http_call, whose call limit, if there is one, counts attempts.
HttpCall ==
  /\ InGuest
  /\ call.limit > 0 => count < call.limit
  /\ count < MaxAttempts
  /\ count' = count + 1
  /\ AttemptFails \/ ResponseStored \/ ResponseDropped
  /\ UNCHANGED <<given, pc, k, action, localVars, ent, tent, status_code, ret,
                 result, walked, outcomes>>

\* proxy_send_local_response takes any status; a later one replaces it.
SendLocalResponse ==
  /\ InGuest
  /\ local_response_set' = TRUE
  /\ local_response_code' \in Statuses
  /\ UNCHANGED <<given, pc, k, action, count, token, calls, ent, tent,
                 status_code, ret, result, walked, outcomes>>

-----------------------------------------------------------------------------
(* proxy_wasm_execute, from the header function to its return *)

Finish(r, status, outcome) ==
  /\ ret' = r
  /\ status_code' = status
  /\ outcomes' = Append(outcomes, outcome)
  /\ pc' = "returned"

\* How an execution that returns action ends.
Ended(a) == IF a < 0 THEN "error" ELSE IF a = 0 THEN "continue" ELSE "stop"

\* The header function trapped, ran out of time or is not exported.
HeadersFail ==
  /\ pc = "guest"
  /\ Finish(-1, status_code, "error")
  /\ UNCHANGED <<given, k, action, guestVars, ent, tent, result, walked>>

\* The header function's i32 is used as it comes: CONTINUE is 0, PAUSE is 1,
\* and the code checks for no other value.
GuestActions == {-1, 0, 1, 2}

\* The walk of the stored responses starts with the newest.
FaultyHeadersReturn ==
  /\ pc = "guest"
  /\ action' \in GuestActions
  /\ IF calls # {} /\ exports.callback
     THEN pc' = "iterate" /\ ent' = CHOOSE c \in calls : \A d \in calls : d <= c
     ELSE pc' = "decide" /\ UNCHANGED ent
  /\ UNCHANGED <<given, k, guestVars, tent, status_code, ret, result,
                 walked, outcomes>>

\* It returned an action; the callbacks of stored responses come next.
HeadersReturn ==
  /\ pc = "guest"
  /\ action' \in GuestActions
  /\ IF calls # {} /\ exports.callback
     THEN pc' = "iterate" /\ ent' = Least(calls)
     ELSE pc' = "decide" /\ UNCHANGED ent
  /\ UNCHANGED <<given, k, guestVars, tent, status_code, ret, result,
                 walked, outcomes>>

\* The successor is any other response.
FaultyBeginCallback ==
  /\ pc = "iterate"
  /\ ent # 0
  /\ begun' = token
  /\ tent' = Least(calls \ {ent})
  /\ pc' = "callback"
  /\ UNCHANGED <<given, k, action, guestVars, ent, status_code, ret, result,
                 delivered, outcomes>>

\* VRBT_FOREACH_SAFE reads the successor, then the callback runs.
BeginCallback ==
  /\ pc = "iterate"
  /\ ent # 0
  /\ begun' = token
  /\ tent' = Least({c \in calls : c > ent})
  /\ pc' = "callback"
  /\ UNCHANGED <<given, k, action, guestVars, ent, status_code, ret, result,
                 delivered, outcomes>>

\* The callback returned or trapped, which makes no difference to the code; a
\* local response ends the execution.
EndCallback ==
  /\ pc = "callback"
  /\ delivered' = Append(delivered, ent)
  /\ IF local_response_set
     THEN Finish(0, local_response_code, "local") /\ UNCHANGED <<ent, tent>>
     ELSE /\ ent' = tent /\ tent' = 0 /\ pc' = "iterate"
          /\ UNCHANGED <<status_code, ret, outcomes>>
  /\ UNCHANGED <<given, k, action, guestVars, result, begun>>

\* The host waits for the tree to become empty.
FaultyCallbacksDone ==
  /\ pc = "iterate"
  /\ ent = 0
  /\ calls = {}
  /\ action' = 0
  /\ pc' = "decide"
  /\ UNCHANGED <<given, k, guestVars, ent, tent, status_code, ret, result,
                 walked, outcomes>>

\* The iteration is over: the action becomes CONTINUE.
CallbacksDone ==
  /\ pc = "iterate"
  /\ ent = 0
  /\ action' = 0
  /\ pc' = "decide"
  /\ UNCHANGED <<given, k, guestVars, ent, tent, status_code, ret, result,
                 walked, outcomes>>

\* PAUSE is looked at before the local response.
FaultyDecideToStop ==
  /\ pc = "decide"
  /\ \/ action = 1 /\ Finish(0, status_code, "pause")
     \/ action # 1 /\ local_response_set /\ Finish(0, local_response_code, "local")
  /\ UNCHANGED <<given, k, action, guestVars, ent, tent, result, walked>>

\* A local response or PAUSE ends the execution with CONTINUE's value 0.
DecideToStop ==
  /\ pc = "decide"
  /\ \/ local_response_set /\ Finish(0, local_response_code, "local")
     \/ ~ local_response_set /\ action = 1 /\ Finish(0, status_code, "pause")
  /\ UNCHANGED <<given, k, action, guestVars, ent, tent, result, walked>>

\* The response body is left to the VDP: nothing more runs in this call.
DeferBody ==
  /\ pc = "decide"
  /\ ~ local_response_set /\ action # 1
  /\ exports.body /\ call.phase = "response"
  /\ Finish(action, 0, Ended(action))
  /\ UNCHANGED <<given, k, action, guestVars, ent, tent, result, walked>>

\* ... or no task could be allocated, or VRT_priv_task gave none.
DeferFails ==
  /\ pc = "decide"
  /\ ~ local_response_set /\ action # 1
  /\ exports.body /\ call.phase = "response"
  /\ Finish(-1, status_code, "error")
  /\ UNCHANGED <<given, k, action, guestVars, ent, tent, result, walked>>

\* Otherwise the request body callback, log, done and delete run inline.
RunTail ==
  /\ pc = "decide"
  /\ ~ local_response_set /\ action # 1
  /\ ~(exports.body /\ call.phase = "response")
  /\ pc' = "tail"
  /\ UNCHANGED <<given, k, action, guestVars, ent, tent, status_code, ret,
                 result, walked, outcomes>>

TailDone ==
  /\ pc = "tail"
  /\ Finish(action, IF local_response_set THEN local_response_code ELSE 0,
            Ended(action))
  /\ UNCHANGED <<given, k, action, guestVars, ent, tent, result, walked>>

\* vwasm_engine_call: one exported function runs in a store of its own, outside
\* the pool, the statistics and the callbacks; it fails, or returns an i32.
RawCall ==
  /\ pc = "chain"
  /\ call.entry = "function"
  /\ \/ Finish(-1, 0, "error") /\ UNCHANGED action
     \/ action' \in GuestActions /\ Finish(0, 0, "stop")
  /\ UNCHANGED <<given, k, guestVars, ent, tent, result, walked>>

-----------------------------------------------------------------------------
(* What VCL gets *)

\* vmod_wasm_error_result
ErrorResult == IF call.closed THEN -1 ELSE 0

\* vmod_proxy_wasm_on_request and its three variants
ReturnToVcl ==
  /\ pc = "returned"
  /\ call.entry = "module"
  /\ result' = IF ret < 0 THEN ErrorResult
               ELSE IF status_code > 0 THEN status_code ELSE ret
  /\ pc' = "done"
  /\ UNCHANGED <<given, k, action, guestVars, ent, tent, status_code, ret,
                 walked, outcomes>>

\* vmod_execute: the function's result is passed on, a negative one included.
RawReturn ==
  /\ pc = "returned"
  /\ call.entry = "function"
  /\ result' = IF ret # 0 THEN ErrorResult ELSE action
  /\ pc' = "done"
  /\ UNCHANGED <<given, k, action, guestVars, ent, tent, status_code, ret,
                 walked, outcomes>>

\* vwasm_filter_chain_request/response: the chain goes on while ret is 0.
ChainNext ==
  /\ pc = "returned"
  /\ call.entry = "chain"
  /\ ret = 0 /\ k < call.modules
  /\ k' = k + 1
  /\ pc' = "chain"
  /\ UNCHANGED <<given, action, guestVars, ent, tent, status_code, ret, result,
                 walked, outcomes>>

\* The chain ends; vmod_filter_chain does not look at status_code.
ChainReturn ==
  /\ pc = "returned"
  /\ call.entry = "chain"
  /\ ret # 0 \/ k = call.modules
  /\ result' = IF ret < 0 THEN ErrorResult ELSE ret
  /\ pc' = "done"
  /\ UNCHANGED <<given, k, action, guestVars, ent, tent, status_code, ret,
                 walked, outcomes>>

-----------------------------------------------------------------------------
\* What the host does: everything but the calls guest code makes to it.
Control ==
  \/ Refused \/ EmptyChain \/ CannotStart \/ Start \/ RawCall \/ RawReturn
  \/ HeadersFail \/ HeadersReturn
  \/ BeginCallback \/ EndCallback \/ CallbacksDone
  \/ DecideToStop \/ DeferBody \/ DeferFails \/ RunTail \/ TailDone
  \/ ReturnToVcl \/ ChainNext \/ ChainReturn

Next == Control \/ HttpCall \/ SendLocalResponse

Spec == Init /\ [][Next]_vars

\* The epoch deadline interrupts every guest function, so control always comes
\* back to the host, and the host code runs on.
FairSpec == Spec /\ WF_vars(Control)

-----------------------------------------------------------------------------
(* Properties *)

\* Every variable keeps its type.
TypeOK ==
  /\ call \in VclCalls /\ exports \in Exports
  /\ pc \in {"chain", "guest", "iterate", "callback", "decide", "tail",
             "returned", "done"}
  /\ k \in 1 .. MaxModules
  /\ action \in GuestActions
  /\ local_response_set \in BOOLEAN
  /\ local_response_code \in {0} \cup Statuses /\ status_code \in {0} \cup Statuses
  /\ count \in 0 .. MaxAttempts
  /\ call.limit > 0 => count <= call.limit
  /\ token \in 0 .. count
  /\ calls \subseteq 1 .. token
  /\ ent \in {0} \cup calls /\ tent \in {0} \cup calls
  /\ ret \in GuestActions
  /\ result \in GuestActions \cup Statuses
  /\ delivered \in Seq(1 .. token) /\ begun \in 0 .. token
  /\ outcomes \in Seq({"refused", "error", "continue", "stop", "pause", "local"})

\* The callbacks of an execution run in ascending order of their tokens, each
\* at most once, also when callbacks add responses to the tree being walked, and
\* no more of them than the limit on callouts, where one is set.
DeliveredInOrder ==
  /\ \A a, b \in 1 .. Len(delivered) : a < b => delivered[a] < delivered[b]
  /\ call.limit > 0 => Len(delivered) <= call.limit

\* When the walk is over, a response that was not delivered is one that the last
\* callback of the walk stored, after VRBT_FOREACH_SAFE had read that there is no
\* successor: every response stored before, by the header function or by any
\* earlier callback, had its callback.
SkippedOnlyAtTheEnd ==
  pc = "decide" /\ delivered # <<>> =>
    \A c \in calls : \/ \E a \in 1 .. Len(delivered) : delivered[a] = c
                     \/ c > begun

\* How the last execution of the call ended.
LastOutcome == outcomes[Len(outcomes)]

\* What VCL gets from each way a call can go.  A call the vmod function refuses
\* gives -1 in either fail mode, an execution that fails gives what the fail mode
\* says.  Otherwise a single module gives the status of its local response, over
\* any action and over failed callbacks, if that status is positive; a chain
\* gives none.  Otherwise the action comes back, an exported function's result
\* just as it is; PAUSE, an action superseded by callbacks and a status that is
\* not positive give 0.  A chain goes on after no module that failed or returned
\* an action of its own.
ResultContract ==
  /\ pc = "done" =>
       result = CASE LastOutcome = "refused" -> -1
                  [] LastOutcome = "error" -> ErrorResult
                  [] LastOutcome \notin {"refused", "error"} ->
                       IF /\ call.entry = "module"
                          /\ local_response_set /\ local_response_code > 0
                       THEN local_response_code
                       ELSE IF LastOutcome = "stop" THEN action ELSE 0
  /\ \A j \in 1 .. Len(outcomes) - 1 : outcomes[j] \notin {"refused", "error", "stop"}

\* With a limit on callouts, a call returns to VCL whatever its modules do:
\* callbacks that make new callouts come to an end.
CallReturns == call.limit > 0 => <>(pc = "done")

=============================================================================
