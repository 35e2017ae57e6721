-------------------------- MODULE NearestNeighborsHook --------------------------
(***************************************************************************)
(* GetNearestNeighborsHookImpl (udf/hooks/microsoft_get_nearest_neighbors *)
(* _hook.cc): UDF threads call operator() while the server calls         *)
(* FinishInit to install, and possibly re-install, the Lookup behind the  *)
(* plain std::unique_ptr lookup_.  Nothing synchronises the two.          *)
(*                                                                         *)
(* Lookup objects are numbered 1, 2, ... in creation order; 0 is nullptr. *)
(* A request's input checks and the JSON conversion of its answer do not  *)
(* touch lookup_ and are left out; AnnLookupResult models them.            *)
(***************************************************************************)
EXTENDS Naturals

CONSTANTS
    Requests,   \* the UDF threads serving requests
    MaxInits    \* how many times FinishInit is called

ASSUME HookAssumption == MaxInits \in Nat

VARIABLES
    lookup,     \* lookup_: the object it owns, or 0
    alive,      \* the Lookup objects not destroyed
    inits,      \* FinishInit calls begun
    ipc,        \* the FinishInit caller: "Idle" or "Assign" (between reset and move)
    rpc,        \* each request's place in operator()
    held        \* the object a request's lookup_->GetKeyValueSet runs on

vars == <<lookup, alive, inits, ipc, rpc, held>>

Init ==
    /\ lookup = 0 /\ alive = {} /\ inits = 0 /\ ipc = "Idle"
    /\ rpc = [r \in Requests |-> "Start"]
    /\ held = [r \in Requests |-> 0]

\* FinishInit: an installed Lookup is reset (destroyed) first.
FinishInitReset ==
    /\ ipc = "Idle" /\ inits < MaxInits
    /\ inits' = inits + 1 /\ ipc' = "Assign"
    /\ IF lookup # 0 THEN alive' = alive \ {lookup} /\ lookup' = 0
       ELSE UNCHANGED <<alive, lookup>>
    /\ UNCHANGED <<rpc, held>>

\* FinishInit: lookup_ = std::move(lookup), the Lookup made for this call.
FinishInitAssign ==
    /\ ipc = "Assign"
    /\ lookup' = inits /\ alive' = alive \cup {inits}
    /\ ipc' = "Idle"
    /\ UNCHANGED <<inits, rpc, held>>

\* Mutant: operator() does not check lookup_ before using it.
CheckLookupDropped(r) ==
    /\ rpc[r] = "Start"
    /\ rpc' = [rpc EXCEPT ![r] = "Call"]
    /\ UNCHANGED <<lookup, alive, inits, ipc, held>>

\* operator(): the request context is gone (return); lookup_ is null
\* (kInternal, return); or the input checks fail (kInvalidArgument,
\* return) or pass and the request goes on to the call.
CheckLookup(r) ==
    /\ rpc[r] = "Start"
    /\ \/ rpc' = [rpc EXCEPT ![r] = "Done"]
       \/ lookup # 0 /\ rpc' = [rpc EXCEPT ![r] = "Call"]
    /\ UNCHANGED <<lookup, alive, inits, ipc, held>>

\* lookup_->GetKeyValueSet(...) reads lookup_ again and calls into it.
CallLookup(r) ==
    /\ rpc[r] = "Call"
    /\ held' = [held EXCEPT ![r] = lookup]
    /\ rpc' = [rpc EXCEPT ![r] = "InCall"]
    /\ UNCHANGED <<lookup, alive, inits, ipc>>

\* The call returns and the hook writes the output.
ReturnLookup(r) ==
    /\ rpc[r] = "InCall"
    /\ rpc' = [rpc EXCEPT ![r] = "Done"]
    /\ held' = [held EXCEPT ![r] = 0]
    /\ UNCHANGED <<lookup, alive, inits, ipc>>

Request(r) == CheckLookup(r) \/ CallLookup(r) \/ ReturnLookup(r)

Next == FinishInitReset \/ FinishInitAssign \/ \E r \in Requests : Request(r)

Spec == Init /\ [][Next]_vars /\ WF_vars(Next)

-----------------------------------------------------------------------------
(* A request that has entered lookup_->GetKeyValueSet runs on a Lookup     *)
(* that exists: lookup_ was not null when it was read for the call, and    *)
(* FinishInit has not destroyed that Lookup since.                          *)
HookNoUseAfterFree ==
    \A r \in Requests : rpc[r] = "InCall" => held[r] \in alive
=============================================================================
