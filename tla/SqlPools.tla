------------------------------- MODULE SqlPools -------------------------------
(***************************************************************************)
(* The connection pools of the chat agent.  Every agent context, the main  *)
(* one of a turn and that of the fallback when its stream fails, has a     *)
(* factory of its own: query_database gets the pool of a connection from   *)
(* the factory, which opens it at the first use, and the factory closes    *)
(* all of them when the context is cleaned up.                             *)
(***************************************************************************)
EXTENDS Naturals, FiniteSets

CONSTANTS
    Turns, Connections, None,
    Pools, Calls,      \* bounds: pools open, and tool calls running, at a time
    CallsAtOnce,       \* tool calls of one message that run concurrently
    MaxCalls           \* tool calls of a context before the recursion limit

ASSUME CallsAssumption == CallsAtOnce \in Nat /\ IsFiniteSet(Calls)
Contexts == Turns \X {"main", "fallback"}

VARIABLES
    context,   \* context -> "none", "new", "resolved", "failed" or "closed"
    made,      \* context -> the tool calls it has made
    cached,    \* context -> connection -> the factory's pool, or None
    pool,      \* pool -> its context, connection and state, or None
    call       \* tool call -> its context, connection, await and pool, or None

poolVars == <<context, made, cached, pool, call>>

PoolStates == {"connecting", "open", "late"}
Awaits == {"resolve", "check", "connect", "query"}
PoolRecords == [ctx : Contexts, conn : Connections, state : PoolStates]
CallRecords == [ctx : Contexts, conn : Connections, at : Awaits,
                pool : Pools \cup {None}]

ASSUME NoneAssumption ==
    None \notin Pools /\ None \notin PoolRecords /\ None \notin CallRecords

NoPools == [n \in Connections |-> None]

PoolsInit ==
    /\ context = [x \in Contexts |-> "none"]
    /\ made = [x \in Contexts |-> 0]
    /\ cached = [x \in Contexts |-> NoPools]
    /\ pool = [p \in Pools |-> None]
    /\ call = [k \in Calls |-> None]

Live(x) == context[x] \in {"new", "resolved", "failed"}
CallsOf(x) == {k \in Calls : call[k] # None /\ call[k].ctx = x}
At(k, await) == call[k] # None /\ call[k].at = await
EndCall(k) == call' = [call EXCEPT ![k] = None]

-----------------------------------------------------------------------------
(* Contexts.                                                               *)

NewContext(x) ==
    /\ context[x] = "none"
    /\ context' = [context EXCEPT ![x] = "new"]
    /\ UNCHANGED <<made, cached, pool, call>>

\* Mutant: the map is cleared before its pools are collected.
ForgetAll(x) ==
    /\ context' = [context EXCEPT ![x] = "closed"]
    /\ made' = [made EXCEPT ![x] = 0]
    /\ cached' = [cached EXCEPT ![x] = NoPools]
    /\ UNCHANGED <<pool, call>>

DestroyAll(x) ==
    /\ context' = [context EXCEPT ![x] = "closed"]
    /\ made' = [made EXCEPT ![x] = 0]
    /\ cached' = [cached EXCEPT ![x] = NoPools]
    /\ pool' = [p \in Pools |-> IF \E n \in Connections : cached[x][n] = p
                                THEN None ELSE pool[p]]
    /\ UNCHANGED call

-----------------------------------------------------------------------------
(* A call of query_database.                                               *)

StartCall(x, n) ==
    /\ context[x] \in {"new", "resolved"}
    /\ made[x] < MaxCalls
    /\ Cardinality(CallsOf(x)) < CallsAtOnce
    /\ \E k \in Calls :
          /\ call[k] = None
          /\ call' = [call EXCEPT ![k] =
                 [ctx |-> x, conn |-> n, at |-> "resolve", pool |-> None]]
    /\ made' = [made EXCEPT ![x] = @ + 1]
    /\ UNCHANGED <<context, cached, pool>>

\* The calls of a context share one promise of its resolved connections.
Resolve(x) ==
    /\ context[x] = "new" /\ CallsOf(x) # {}
    /\ context' = [context EXCEPT ![x] = "resolved"]
    /\ UNCHANGED <<made, cached, pool, call>>

\* It is rejected: every call of the context throws.
ResolveFails(x) ==
    /\ context[x] = "new" /\ CallsOf(x) # {}
    /\ context' = [context EXCEPT ![x] = "failed"]
    /\ call' = [k \in Calls |-> IF k \in CallsOf(x) THEN None ELSE call[k]]
    /\ UNCHANGED <<made, cached, pool>>

\* No such connection is ready, the source id is ambiguous, or the client left.
Refuse(k) ==
    /\ At(k, "resolve") /\ context[call[k].ctx] = "resolved"
    /\ EndCall(k)
    /\ UNCHANGED <<context, made, cached, pool>>

Get(k) ==
    /\ At(k, "resolve") /\ context[call[k].ctx] = "resolved"
    /\ LET p == cached[call[k].ctx][call[k].conn] IN
          call' = [call EXCEPT ![k].at = IF p # None THEN "query" ELSE "check",
                               ![k].pool = p]
    /\ UNCHANGED <<context, made, cached, pool>>

HostRefused(k) ==
    /\ At(k, "check")
    /\ EndCall(k)
    /\ UNCHANGED <<context, made, cached, pool>>

NewPool == CHOOSE p \in Pools : pool[p] = None

\* Mutant: the pool is in the map before it has connected.
DialCached(k) ==
    /\ At(k, "check")
    /\ \E p \in Pools : pool[p] = None
    /\ pool' = [pool EXCEPT ![NewPool] = [ctx |-> call[k].ctx,
                         conn |-> call[k].conn, state |-> "connecting"]]
    /\ call' = [call EXCEPT ![k].at = "connect", ![k].pool = NewPool]
    /\ cached' = [cached EXCEPT ![call[k].ctx][call[k].conn] = NewPool]
    /\ UNCHANGED <<context, made>>

Dial(k) ==
    /\ At(k, "check")
    /\ \E p \in Pools : pool[p] = None
    /\ pool' = [pool EXCEPT ![NewPool] = [ctx |-> call[k].ctx,
                         conn |-> call[k].conn, state |-> "connecting"]]
    /\ call' = [call EXCEPT ![k].at = "connect", ![k].pool = NewPool]
    /\ UNCHANGED <<context, made, cached>>

Connected(k) ==
    /\ At(k, "connect")
    /\ pool' = [pool EXCEPT ![call[k].pool].state = "open"]
    /\ cached' = [cached EXCEPT ![call[k].ctx][call[k].conn] = call[k].pool]
    /\ call' = [call EXCEPT ![k].at = "query"]
    /\ UNCHANGED <<context, made>>

ConnectFails(k) ==
    /\ At(k, "connect")
    /\ pool' = [pool EXCEPT ![call[k].pool] = None]
    /\ EndCall(k)
    /\ UNCHANGED <<context, made, cached>>

\* The caller moves on; the pool may still come up.
ConnectTimesOut(k) ==
    /\ At(k, "connect")
    /\ pool' = [pool EXCEPT ![call[k].pool].state = "late"]
    /\ EndCall(k)
    /\ UNCHANGED <<context, made, cached>>

\* Mutant: a pool that comes up after the timeout is left alone.
LateLeaks(p) ==
    /\ pool[p] # None /\ pool[p].state = "late"
    /\ \/ pool' = [pool EXCEPT ![p] = None]
       \/ pool' = [pool EXCEPT ![p].state = "open"]
    /\ UNCHANGED <<context, made, cached, call>>

\* It comes up and is destroyed, or fails.
LateSettles(p) ==
    /\ pool[p] # None /\ pool[p].state = "late"
    /\ pool' = [pool EXCEPT ![p] = None]
    /\ UNCHANGED <<context, made, cached, call>>

\* The sub-agent answers, fails, or is aborted.
QueryEnds(k) ==
    /\ At(k, "query")
    /\ EndCall(k)
    /\ UNCHANGED <<context, made, cached, pool>>

CallStep(k) ==
    \/ Refuse(k) \/ Get(k) \/ HostRefused(k) \/ Dial(k) \/ Connected(k)
    \/ ConnectFails(k) \/ ConnectTimesOut(k) \/ QueryEnds(k)

\* The sockets of a process end with it.
PoolsRestart ==
    /\ context' = [x \in Contexts |->
                      IF context[x] = "none" THEN "none" ELSE "closed"]
    /\ made' = [x \in Contexts |-> 0]
    /\ cached' = [x \in Contexts |-> NoPools]
    /\ pool' = [p \in Pools |-> None]
    /\ call' = [k \in Calls |-> None]

-----------------------------------------------------------------------------

PoolsTypeOK ==
    /\ context \in [Contexts ->
                    {"none", "new", "resolved", "failed", "closed"}]
    /\ made \in [Contexts -> Nat]
    /\ cached \in [Contexts -> [Connections -> Pools \cup {None}]]
    /\ pool \in [Pools -> PoolRecords \cup {None}]
    /\ call \in [Calls -> CallRecords \cup {None}]

-----------------------------------------------------------------------------
(* What every step of a factory and its calls preserves.                   *)

\* A call knows its pool: it has none, its connecting one, or an open one.
KnowsPool(k) ==
    /\ At(k, "resolve") => call[k].pool = None
    /\ call[k] # None /\ ~ At(k, "resolve") =>
          context[call[k].ctx] = "resolved"
    /\ At(k, "connect") =>
          /\ call[k].pool \in Pools
          /\ pool[call[k].pool] = [ctx |-> call[k].ctx,
                             conn |-> call[k].conn, state |-> "connecting"]
    /\ At(k, "query") =>
          /\ call[k].pool \in Pools
          /\ pool[call[k].pool] = [ctx |-> call[k].ctx,
                             conn |-> call[k].conn, state |-> "open"]

\* No two calls wait for the same pool.
ConnectApart ==
    \A k, l \in Calls :
        At(k, "connect") /\ At(l, "connect") /\ call[k].pool = call[l].pool
            => k = l

CallsKnowPools == ConnectApart /\ \A k \in Calls : KnowsPool(k)

\* A factory's map holds open pools of its own while its context is live.
MapHoldsPools ==
    \A x \in Contexts, n \in Connections :
        cached[x][n] # None =>
            /\ Live(x)
            /\ pool[cached[x][n]] = [ctx |-> x, conn |-> n, state |-> "open"]
=============================================================================
