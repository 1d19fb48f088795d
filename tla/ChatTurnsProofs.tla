--------------------------- MODULE ChatTurnsProofs ---------------------------
(***************************************************************************)
(* Proofs about ChatTurns, for any number of turns, conversations,         *)
(* connections, pools and calls.                                           *)
(***************************************************************************)
EXTENDS ChatTurns, FiniteSetTheorems, SequenceTheorems, TLAPS

-----------------------------------------------------------------------------
(* The pools, whatever the turns do with them.  A context is cleaned up    *)
(* only when none of its calls is running.                                 *)

PoolAction ==
    \/ \E x \in Contexts :
          \/ NewContext(x) \/ Resolve(x) \/ ResolveFails(x)
          \/ CallsOf(x) = {} /\ DestroyAll(x)
          \/ \E n \in Connections : StartCall(x, n)
    \/ \E k \in Calls : CallStep(k)
    \/ \E p \in Pools : LateSettles(p)
    \/ PoolsRestart
    \/ UNCHANGED poolVars

PoolsInv == PoolsTypeOK /\ CallsKnowPools /\ MapHoldsPools

USE DEF PoolStates, Awaits, PoolRecords, CallRecords, At, EndCall, NoneAssumption

\* A factory that has no pools yet.
LEMMA NoPoolsType == NoPools \in [Connections -> Pools \cup {None}]
BY DEF NoPools

\* Every step of the factories keeps the shape of their variables.
LEMMA PoolsTyped ==
    PoolsTypeOK /\ CallsKnowPools /\ PoolAction => PoolsTypeOK'
<1> SUFFICES ASSUME PoolsTypeOK, CallsKnowPools, PoolAction PROVE PoolsTypeOK'
  OBVIOUS
<1> USE DEF PoolsTypeOK
<1>1. ASSUME NEW x \in Contexts,
             NewContext(x) \/ Resolve(x) \/ ResolveFails(x)
      PROVE  PoolsTypeOK'
  BY <1>1 DEF NewContext, Resolve, ResolveFails
<1>2. ASSUME NEW x \in Contexts, DestroyAll(x) PROVE PoolsTypeOK'
  BY <1>2, NoPoolsType DEF DestroyAll
<1>3. ASSUME NEW x \in Contexts, NEW n \in Connections, StartCall(x, n)
      PROVE  PoolsTypeOK'
  BY <1>3 DEF StartCall
<1>4. ASSUME NEW k \in Calls, CallStep(k) PROVE PoolsTypeOK'
  <2>1. ASSUME call[k] # None PROVE call[k] \in CallRecords
    BY <2>1
  <2>a. ASSUME At(k, "connect")
        PROVE  /\ call[k].pool \in Pools
               /\ pool[call[k].pool] \in PoolRecords
               /\ call[k] \in CallRecords
    <3>1. call[k] \in CallRecords
      BY <2>1, <2>a
    <3>2. /\ call[k].pool \in Pools
          /\ pool[call[k].pool] = [ctx |-> call[k].ctx,
                             conn |-> call[k].conn, state |-> "connecting"]
      BY <2>a DEF CallsKnowPools, KnowsPool
    <3> QED
      BY <3>1, <3>2
  <2>2. CASE Refuse(k) \/ HostRefused(k) \/ QueryEnds(k)
    BY <2>2 DEF Refuse, HostRefused, QueryEnds
  <2>3. CASE Get(k)
    <3>1. call[k].ctx \in Contexts /\ call[k].conn \in Connections
      BY <2>1, <2>3 DEF Get
    <3>2. cached[call[k].ctx][call[k].conn] \in Pools \cup {None}
      BY <3>1
    <3> DEFINE found == cached[call[k].ctx][call[k].conn]
    <3> DEFINE next == IF found # None THEN "query" ELSE "check"
    <3>3. next \in Awaits
      OBVIOUS
    <3>4. call' = [call EXCEPT ![k] = [[@ EXCEPT !.at = next] EXCEPT !.pool = found]]
      BY <2>3 DEF Get
    <3>5. UNCHANGED <<context, made, cached, pool>>
      BY <2>3 DEF Get
    <3>6. found \in Pools \cup {None}
      BY <3>2
    <3>7. call[k] # None
      BY <2>3 DEF Get
    <3> HIDE DEF found, next
    <3> QED
      BY <2>1, <3>3, <3>4, <3>5, <3>6, <3>7
  <2>4. CASE Dial(k)
    <3>1. NewPool \in Pools
      BY <2>4 DEF Dial, NewPool
    <3> QED
      BY <2>1, <2>4, <3>1 DEF Dial
  <2>5. CASE Connected(k)
    BY <2>a, <2>5 DEF Connected
  <2>6. CASE ConnectFails(k)
    BY <2>a, <2>6 DEF ConnectFails
  <2>7. CASE ConnectTimesOut(k)
    BY <2>a, <2>7 DEF ConnectTimesOut
  <2> QED
    BY <1>4, <2>2, <2>3, <2>4, <2>5, <2>6, <2>7 DEF CallStep
<1>5. ASSUME NEW p \in Pools, LateSettles(p) PROVE PoolsTypeOK'
  BY <1>5 DEF LateSettles
<1>6. CASE PoolsRestart
  BY <1>6, NoPoolsType DEF PoolsRestart
<1>7. CASE UNCHANGED poolVars
  BY <1>7 DEF poolVars
<1> QED
  BY <1>1, <1>2, <1>3, <1>4, <1>5, <1>6, <1>7 DEF PoolAction

-----------------------------------------------------------------------------
(* Calls and their pools.                                                  *)

\* What a call has: a record, and a pool record when it waits or queries.
LEMMA CallHas ==
    ASSUME PoolsInv, NEW k \in Calls, call[k] # None
    PROVE  /\ call[k] \in CallRecords
           /\ call[k].ctx \in Contexts /\ call[k].conn \in Connections
           /\ KnowsPool(k)
BY DEF PoolsInv, PoolsTypeOK, CallsKnowPools

\* Every pool of a map is a pool, open, and of that context and connection.
LEMMA MapHas ==
    ASSUME PoolsInv, NEW x \in Contexts, NEW n \in Connections,
           cached[x][n] # None
    PROVE  /\ cached[x][n] \in Pools
           /\ pool[cached[x][n]] = [ctx |-> x, conn |-> n, state |-> "open"]
BY DEF PoolsInv, PoolsTypeOK, MapHoldsPools

\* A step that leaves a call, its context and its pool alone.
LEMMA CallUntouched ==
    ASSUME NEW c \in Calls, KnowsPool(c), call'[c] = call[c],
           call[c] # None => context'[call[c].ctx] = context[call[c].ctx],
           At(c, "connect") \/ At(c, "query") =>
              pool'[call[c].pool] = pool[call[c].pool]
    PROVE  KnowsPool(c)'
BY DEF KnowsPool

\* A step that ends a call.
LEMMA CallEnded ==
    ASSUME NEW c \in Calls, call'[c] = None
    PROVE  KnowsPool(c)'
BY DEF KnowsPool

\* A call that waits has a pool that no other call has.
LEMMA WaitsAlone ==
    ASSUME PoolsInv, NEW k \in Calls, At(k, "connect")
    PROVE  /\ call[k].pool \in Pools
           /\ pool[call[k].pool] = [ctx |-> call[k].ctx,
                             conn |-> call[k].conn, state |-> "connecting"]
           /\ \A l \in Calls \ {k} : At(l, "connect") \/ At(l, "query") =>
                 call[l].pool # call[k].pool
<1>1. KnowsPool(k) /\ \A l \in Calls : KnowsPool(l)
  BY DEF PoolsInv, CallsKnowPools
<1>2. ASSUME NEW l \in Calls \ {k}, At(l, "connect")
      PROVE  call[l].pool # call[k].pool
  BY <1>2 DEF PoolsInv, CallsKnowPools, ConnectApart
<1>3. ASSUME NEW l \in Calls \ {k}, At(l, "query")
      PROVE  call[l].pool # call[k].pool
  <2>0. pool[call[l].pool] =
           [ctx |-> call[l].ctx, conn |-> call[l].conn, state |-> "open"]
    BY <1>1, <1>3 DEF KnowsPool
  <2>1. pool[call[l].pool].state = "open"
    BY <2>0
  <2>2. pool[call[k].pool].state = "connecting"
    BY <1>1 DEF KnowsPool
  <2> QED
    BY <2>1, <2>2
<1>4. /\ call[k].pool \in Pools
      /\ pool[call[k].pool] = [ctx |-> call[k].ctx,
                             conn |-> call[k].conn, state |-> "connecting"]
  BY <1>1 DEF KnowsPool
<1> QED
  BY <1>2, <1>3, <1>4

\* A new pool is no pool that a call has.
LEMMA NewIsFree ==
    ASSUME PoolsInv, \E p \in Pools : pool[p] = None
    PROVE  /\ NewPool \in Pools /\ pool[NewPool] = None
           /\ \A l \in Calls : At(l, "connect") \/ At(l, "query") =>
                 call[l].pool # NewPool
           /\ \A x \in Contexts, n \in Connections : cached[x][n] # NewPool
<1>1. NewPool \in Pools /\ pool[NewPool] = None
  BY DEF NewPool
<1>2. ASSUME NEW l \in Calls, At(l, "connect") \/ At(l, "query"),
             call[l].pool = NewPool
      PROVE  FALSE
  <2>1. call[l].ctx \in Contexts /\ call[l].conn \in Connections /\ KnowsPool(l)
    BY <1>2, CallHas
  <2>2. \E st \in PoolStates : pool[call[l].pool] =
           [ctx |-> call[l].ctx, conn |-> call[l].conn, state |-> st]
    BY <1>2, <2>1 DEF KnowsPool
  <2>3. pool[call[l].pool] \in PoolRecords
    BY <2>1, <2>2
  <2> QED
    BY <1>1, <1>2, <2>3, NoneAssumption
<1>3. ASSUME NEW x \in Contexts, NEW n \in Connections, cached[x][n] = NewPool
      PROVE  FALSE
  <2>1. cached[x][n] # None
    BY <1>1, <1>3, NoneAssumption
  <2>2. pool[NewPool] = [ctx |-> x, conn |-> n, state |-> "open"]
    BY <1>3, <2>1, MapHas
  <2> QED
    BY <1>1, <2>2, NoneAssumption
<1> QED
  BY <1>1, <1>2, <1>3

\* What a call finds in the map: an open pool of its own, or nothing.
LEMMA GetFinds ==
    ASSUME PoolsInv, NEW k \in Calls, Get(k)
    PROVE  /\ call[k] # None /\ context[call[k].ctx] = "resolved"
           /\ UNCHANGED <<context, pool>>
           /\ \A l \in Calls \ {k} : call'[l] = call[l]
           /\ call'[k] # None
           /\ call'[k].ctx = call[k].ctx /\ call'[k].conn = call[k].conn
           /\ \/ call'[k].at = "check"
              \/ /\ call'[k].at = "query" /\ call'[k].pool \in Pools
                 /\ pool[call'[k].pool] = [ctx |-> call[k].ctx,
                                conn |-> call[k].conn, state |-> "open"]
<1> DEFINE found == cached[call[k].ctx][call[k].conn]
<1> DEFINE next == IF found # None THEN "query" ELSE "check"
<1>1. /\ call[k] # None /\ call[k] \in CallRecords
      /\ call[k].ctx \in Contexts /\ call[k].conn \in Connections
      /\ context[call[k].ctx] = "resolved"
  BY CallHas DEF Get
<1>2. call' = [call EXCEPT ![k] = [[@ EXCEPT !.at = next] EXCEPT !.pool = found]]
  BY DEF Get
<1>3. next = "query" => found \in Pools /\ pool[found] =
         [ctx |-> call[k].ctx, conn |-> call[k].conn, state |-> "open"]
  BY <1>1, MapHas
<1>4. next \in {"query", "check"} /\ found \in Pools \cup {None}
  BY <1>1, MapHas
<1>5. UNCHANGED <<context, pool>>
  BY DEF Get
<1> HIDE DEF found, next
<1>6. call'[k] = [[call[k] EXCEPT !.at = next] EXCEPT !.pool = found]
  BY <1>2 DEF PoolsInv, PoolsTypeOK
<1>7. /\ call'[k].ctx = call[k].ctx /\ call'[k].conn = call[k].conn
      /\ call'[k].at = next /\ call'[k].pool = found
      /\ call'[k] \in CallRecords
  BY <1>1, <1>4, <1>6
<1>8. \A l \in Calls \ {k} : call'[l] = call[l]
  BY <1>2 DEF PoolsInv, PoolsTypeOK
<1> QED
  BY <1>1, <1>3, <1>4, <1>5, <1>7, <1>8, NoneAssumption

\* A call that dials gets a new pool.
LEMMA DialGets ==
    ASSUME PoolsInv, NEW k \in Calls, Dial(k)
    PROVE  /\ call[k] # None /\ call[k].at = "check"
           /\ UNCHANGED <<context, made, cached>>
           /\ \E p \in Pools : pool[p] = None
           /\ \A l \in Calls \ {k} : call'[l] = call[l]
           /\ call'[k] # None
           /\ call'[k].ctx = call[k].ctx /\ call'[k].conn = call[k].conn
           /\ call'[k].at = "connect" /\ call'[k].pool = NewPool
           /\ pool' = [pool EXCEPT ![NewPool] = [ctx |-> call[k].ctx,
                             conn |-> call[k].conn, state |-> "connecting"]]
<1>1. call[k] \in CallRecords
  BY CallHas DEF Dial
<1>2. call' = [call EXCEPT ![k] = [[@ EXCEPT !.at = "connect"]
                                          EXCEPT !.pool = NewPool]]
  BY DEF Dial
<1>3. NewPool \in Pools
  BY NewIsFree DEF Dial
<1> HIDE DEF NewPool
<1>4. call'[k] = [[call[k] EXCEPT !.at = "connect"] EXCEPT !.pool = NewPool]
  BY <1>2 DEF PoolsInv, PoolsTypeOK
<1>5. /\ call'[k].ctx = call[k].ctx /\ call'[k].conn = call[k].conn
      /\ call'[k].at = "connect" /\ call'[k].pool = NewPool
      /\ call'[k] \in CallRecords
  BY <1>1, <1>3, <1>4
<1>6. \A l \in Calls \ {k} : call'[l] = call[l]
  BY <1>2 DEF PoolsInv, PoolsTypeOK
<1> QED
  BY <1>5, <1>6, NoneAssumption DEF Dial

\* A step of a call leaves every call with its pool.
LEMMA CallStepKnown ==
    ASSUME PoolsInv, PoolsTypeOK', NEW k \in Calls, CallStep(k), NEW c \in Calls
    PROVE  KnowsPool(c)'
<1>a. KnowsPool(c) /\ PoolsTypeOK
  BY DEF PoolsInv, CallsKnowPools
<1>1. CASE Refuse(k) \/ HostRefused(k) \/ QueryEnds(k)
  <2>1. /\ UNCHANGED <<context, pool>>
        /\ call' = [call EXCEPT ![k] = None]
    BY <1>1 DEF Refuse, HostRefused, QueryEnds
  <2>2. CASE c = k
    BY <1>a, <2>1, <2>2, CallEnded DEF PoolsTypeOK
  <2>3. CASE c # k
    <3>1. call'[c] = call[c]
      BY <1>a, <2>1, <2>3 DEF PoolsTypeOK
    <3> QED
      BY <1>a, <2>1, <3>1, CallUntouched
  <2> QED
    BY <2>2, <2>3
<1>2. CASE Get(k)
  <2>1. CASE c # k
    BY <1>a, <1>2, <2>1, GetFinds, CallUntouched
  <2>2. CASE c = k
    BY <1>2, <2>2, GetFinds DEF KnowsPool
  <2> QED
    BY <2>1, <2>2
<1>3. CASE Dial(k)
  <2>1. /\ NewPool \in Pools /\ pool[NewPool] = None
        /\ \A l \in Calls : At(l, "connect") \/ At(l, "query") =>
              call[l].pool # NewPool
    BY <1>3, DialGets, NewIsFree
  <2>2. /\ UNCHANGED context
        /\ pool' = [pool EXCEPT ![NewPool] = [ctx |-> call[k].ctx,
                             conn |-> call[k].conn, state |-> "connecting"]]
    BY <1>3, DialGets
  <2> HIDE DEF NewPool
  <2>3. CASE c # k
    <3>1. call'[c] = call[c]
      BY <1>3, <2>3, DialGets
    <3>2. At(c, "connect") \/ At(c, "query") =>
             pool'[call[c].pool] = pool[call[c].pool]
      BY <1>a, <2>1, <2>2 DEF PoolsTypeOK
    <3> QED
      BY <1>a, <2>2, <3>1, <3>2, CallUntouched
  <2>4. CASE c = k
    <3>1. /\ call[k] # None /\ call[k].at = "check" /\ call'[k] # None
          /\ call'[k].ctx = call[k].ctx /\ call'[k].conn = call[k].conn
          /\ call'[k].at = "connect" /\ call'[k].pool = NewPool
      BY <1>3, DialGets
    <3>2. context[call[k].ctx] = "resolved"
      BY <1>a, <2>4, <3>1 DEF KnowsPool
    <3>3. pool'[NewPool] = [ctx |-> call[k].ctx,
                             conn |-> call[k].conn, state |-> "connecting"]
      BY <1>a, <2>1, <2>2 DEF PoolsTypeOK
    <3> QED
      BY <2>1, <2>2, <2>4, <3>1, <3>2, <3>3 DEF KnowsPool
  <2> QED
    BY <2>3, <2>4
<1>4. CASE Connected(k) \/ ConnectFails(k) \/ ConnectTimesOut(k)
  <2>1. /\ At(k, "connect") /\ UNCHANGED context
        /\ call[k].pool \in Pools /\ call[k] \in CallRecords
        /\ pool[call[k].pool] = [ctx |-> call[k].ctx,
                             conn |-> call[k].conn, state |-> "connecting"]
        /\ \A l \in Calls \ {k} : At(l, "connect") \/ At(l, "query") =>
              call[l].pool # call[k].pool
    BY <1>4, WaitsAlone, CallHas DEF Connected, ConnectFails, ConnectTimesOut
  <2>2. /\ \A p \in Pools : p # call[k].pool => pool'[p] = pool[p]
        /\ \A l \in Calls : l # k => call'[l] = call[l]
    BY <1>4, <1>a DEF Connected, ConnectFails, ConnectTimesOut, PoolsTypeOK
  <2>3. CASE c # k
    <3>1. At(c, "connect") \/ At(c, "query") => call[c].pool \in Pools
      BY <1>a DEF KnowsPool
    <3>2. At(c, "connect") \/ At(c, "query") =>
             pool'[call[c].pool] = pool[call[c].pool]
      BY <2>1, <2>2, <2>3, <3>1
    <3> QED
      BY <1>a, <2>1, <2>2, <2>3, <3>2, CallUntouched
  <2>4. CASE c = k /\ Connected(k)
    <3>1. call'[k] = [call[k] EXCEPT !.at = "query"]
      BY <1>a, <2>4 DEF Connected, PoolsTypeOK
    <3>2. pool'[call[k].pool] = [pool[call[k].pool] EXCEPT !.state = "open"]
      BY <1>a, <2>1, <2>4 DEF Connected, PoolsTypeOK
    <3>3. pool'[call[k].pool] =
             [ctx |-> call[k].ctx, conn |-> call[k].conn, state |-> "open"]
      BY <2>1, <3>2
    <3>4. /\ call'[k].ctx = call[k].ctx /\ call'[k].conn = call[k].conn
          /\ call'[k].at = "query" /\ call'[k].pool = call[k].pool
      BY <2>1, <3>1
    <3>5. context[call[k].ctx] = "resolved"
      BY <1>a, <2>1, <2>4 DEF KnowsPool
    <3> QED
      BY <2>1, <2>4, <3>3, <3>4, <3>5 DEF KnowsPool
  <2>5. CASE c = k /\ (ConnectFails(k) \/ ConnectTimesOut(k))
    <3>1. call'[k] = None
      BY <1>a, <2>5 DEF ConnectFails, ConnectTimesOut, PoolsTypeOK
    <3> QED
      BY <2>5, <3>1, CallEnded
  <2> QED
    BY <1>4, <2>3, <2>4, <2>5
<1> QED
  BY <1>1, <1>2, <1>3, <1>4 DEF CallStep

\* Every step of the factories leaves every call with its pool.
LEMMA CallsKnown ==
    ASSUME PoolsInv, PoolsTypeOK', PoolAction, NEW c \in Calls
    PROVE  KnowsPool(c)'
<1>a. KnowsPool(c) /\ PoolsTypeOK
  BY DEF PoolsInv, CallsKnowPools
<1>1. ASSUME NEW x \in Contexts, NewContext(x) \/ Resolve(x)
      PROVE  KnowsPool(c)'
  BY <1>1, <1>a, CallHas DEF NewContext, Resolve, KnowsPool, PoolsTypeOK
<1>2. ASSUME NEW x \in Contexts, ResolveFails(x) PROVE KnowsPool(c)'
  <2>1. CASE c \in CallsOf(x)
    BY <1>2, <2>1, CallEnded DEF ResolveFails
  <2>2. CASE c \notin CallsOf(x)
    <3>1. call'[c] = call[c] /\ UNCHANGED pool
      BY <1>2, <2>2 DEF ResolveFails
    <3>2. call[c] # None => context'[call[c].ctx] = context[call[c].ctx]
      BY <1>2, <1>a, <2>2, CallHas DEF ResolveFails, CallsOf, PoolsTypeOK
    <3> QED
      BY <1>a, <3>1, <3>2, CallUntouched
  <2> QED
    BY <2>1, <2>2
<1>3. ASSUME NEW x \in Contexts, CallsOf(x) = {}, DestroyAll(x)
      PROVE  KnowsPool(c)'
  <2>1. call'[c] = call[c]
    BY <1>3 DEF DestroyAll
  <2>2. call[c] # None => call[c].ctx # x
    BY <1>3 DEF CallsOf
  <2>3. call[c] # None => context'[call[c].ctx] = context[call[c].ctx]
    BY <1>3, <1>a, <2>2, CallHas DEF DestroyAll, PoolsTypeOK
  <2>4. ASSUME At(c, "connect") \/ At(c, "query")
        PROVE  pool'[call[c].pool] = pool[call[c].pool]
    <3>1. /\ call[c].pool \in Pools
          /\ \E st \in PoolStates : pool[call[c].pool] =
                [ctx |-> call[c].ctx, conn |-> call[c].conn, state |-> st]
      BY <1>a, <2>4 DEF KnowsPool
    <3>2. pool[call[c].pool].ctx # x
      BY <2>2, <2>4, <3>1
    <3>3. ASSUME NEW n \in Connections, cached[x][n] = call[c].pool PROVE FALSE
      <4>1. cached[x][n] # None
        BY <3>1, <3>3, NoneAssumption
      <4>2. pool[call[c].pool] = [ctx |-> x, conn |-> n, state |-> "open"]
        BY <3>3, <4>1, MapHas
      <4> QED
        BY <3>2, <4>2
    <3>4. pool' = [p \in Pools |-> IF \E n \in Connections : cached[x][n] = p
                                  THEN None ELSE pool[p]]
      BY <1>3 DEF DestroyAll
    <3> QED
      BY <3>1, <3>3, <3>4
  <2> QED
    BY <1>a, <2>1, <2>3, <2>4, CallUntouched
<1>4. ASSUME NEW x \in Contexts, NEW n \in Connections, StartCall(x, n)
      PROVE  KnowsPool(c)'
  <2>1. PICK k \in Calls :
          /\ call[k] = None
          /\ call' = [call EXCEPT ![k] =
                 [ctx |-> x, conn |-> n, at |-> "resolve", pool |-> None]]
    BY <1>4 DEF StartCall
  <2>2. UNCHANGED <<context, pool>>
    BY <1>4 DEF StartCall
  <2>3. CASE c = k
    BY <1>a, <2>1, <2>3 DEF KnowsPool, PoolsTypeOK
  <2>4. CASE c # k
    <3>1. call'[c] = call[c]
      BY <1>a, <2>1, <2>4 DEF PoolsTypeOK
    <3> QED
      BY <1>a, <2>2, <3>1, CallUntouched
  <2> QED
    BY <2>3, <2>4
<1>5. ASSUME NEW k \in Calls, CallStep(k) PROVE KnowsPool(c)'
  BY <1>5, CallStepKnown
<1>6. ASSUME NEW p \in Pools, LateSettles(p) PROVE KnowsPool(c)'
  <2>1. UNCHANGED <<context, call>> /\ pool' = [pool EXCEPT ![p] = None]
    BY <1>6 DEF LateSettles
  <2>2. pool[p].state = "late"
    BY <1>6 DEF LateSettles
  <2>3. At(c, "connect") \/ At(c, "query") =>
           call[c].pool \in Pools /\ pool[call[c].pool].state # "late"
    BY <1>a DEF KnowsPool
  <2>4. At(c, "connect") \/ At(c, "query") =>
           pool'[call[c].pool] = pool[call[c].pool]
    BY <1>a, <2>1, <2>2, <2>3 DEF PoolsTypeOK
  <2> QED
    BY <1>a, <2>1, <2>4, CallUntouched
<1>7. CASE PoolsRestart
  BY <1>7, CallEnded DEF PoolsRestart
<1>8. CASE UNCHANGED poolVars
  BY <1>8, <1>a, CallUntouched DEF poolVars
<1> QED
  BY <1>1, <1>2, <1>3, <1>4, <1>5, <1>6, <1>7, <1>8 DEF PoolAction

\* Only Dial makes a call wait, and for a pool that no other call has.
LEMMA ConnectsStayApart ==
    ASSUME PoolsInv, PoolAction
    PROVE  ConnectApart'
<1>a. ConnectApart /\ PoolsTypeOK
  BY DEF PoolsInv, CallsKnowPools
<1>b. ASSUME \A l \in Calls : At(l, "connect")' =>
                At(l, "connect") /\ call'[l].pool = call[l].pool
      PROVE  ConnectApart'
  BY <1>a, <1>b DEF ConnectApart
<1>1. ASSUME NEW x \in Contexts,
             \/ NewContext(x) \/ Resolve(x) \/ ResolveFails(x) \/ DestroyAll(x)
      PROVE  ConnectApart'
  BY <1>1, <1>b DEF NewContext, Resolve, ResolveFails, DestroyAll
<1>2. ASSUME NEW x \in Contexts, NEW n \in Connections, StartCall(x, n)
      PROVE  ConnectApart'
  BY <1>a, <1>2, <1>b DEF StartCall, PoolsTypeOK
<1>3. ASSUME NEW k \in Calls, CallStep(k) PROVE ConnectApart'
  <2>1. CASE Get(k)
    BY <2>1, <1>b, GetFinds
  <2>2. CASE Dial(k)
    <3>1. ASSUME NEW l \in Calls, At(l, "connect")', l # k
          PROVE  At(l, "connect") /\ call'[l].pool = call[l].pool
      BY <2>2, <3>1, DialGets
    <3>2. /\ call'[k].pool = NewPool
          /\ \A l \in Calls : At(l, "connect") => call[l].pool # NewPool
      BY <2>2, DialGets, NewIsFree
    <3> HIDE DEF NewPool
    <3> QED
      BY <1>a, <3>1, <3>2 DEF ConnectApart
  <2>3. CASE Connected(k)
    <3>1. call[k] \in CallRecords /\ call'[k] = [call[k] EXCEPT !.at = "query"]
      BY <1>a, <2>3, CallHas DEF Connected, PoolsTypeOK
    <3>2. call'[k].at = "query"
      BY <3>1
    <3>3. \A l \in Calls : l # k => call'[l] = call[l]
      BY <1>a, <2>3 DEF Connected, PoolsTypeOK
    <3> QED
      BY <1>b, <3>2, <3>3
  <2>4. CASE \/ Refuse(k) \/ HostRefused(k) \/ QueryEnds(k)
             \/ ConnectFails(k) \/ ConnectTimesOut(k)
    <3>1. call' = [call EXCEPT ![k] = None]
      BY <2>4 DEF Refuse, HostRefused, QueryEnds, ConnectFails, ConnectTimesOut
    <3> QED
      BY <1>a, <1>b, <3>1 DEF PoolsTypeOK
  <2> QED
    BY <1>3, <2>1, <2>2, <2>3, <2>4 DEF CallStep
<1>4. ASSUME NEW p \in Pools, LateSettles(p) PROVE ConnectApart'
  BY <1>4, <1>b DEF LateSettles
<1>5. CASE PoolsRestart
  BY <1>5, <1>b DEF PoolsRestart
<1>6. CASE UNCHANGED poolVars
  BY <1>6, <1>b DEF poolVars
<1> QED
  BY <1>1, <1>2, <1>3, <1>4, <1>5, <1>6 DEF PoolAction

\* A map changes when a pool has connected and when it is emptied; the pools
\* in it are closed by that alone.
LEMMA MapStays ==
    ASSUME PoolsInv, PoolAction
    PROVE  MapHoldsPools'
<1>a. MapHoldsPools /\ PoolsTypeOK
  BY DEF PoolsInv
<1>b. ASSUME UNCHANGED cached,
             \A x \in Contexts : Live(x) => Live(x)',
             \A p \in Pools : pool[p] # None /\ pool[p].state = "open"
                              => pool'[p] = pool[p]
      PROVE  MapHoldsPools'
  <2> SUFFICES ASSUME NEW x \in Contexts, NEW n \in Connections,
                      cached[x][n] # None
               PROVE  /\ Live(x)'
                      /\ pool'[cached[x][n]] =
                            [ctx |-> x, conn |-> n, state |-> "open"]
    BY <1>b DEF MapHoldsPools
  <2>1. /\ Live(x) /\ cached[x][n] \in Pools
        /\ pool[cached[x][n]] = [ctx |-> x, conn |-> n, state |-> "open"]
    BY <1>a, MapHas DEF MapHoldsPools
  <2>2. pool[cached[x][n]] # None
    BY <2>1, NoneAssumption
  <2> QED
    BY <1>b, <2>1, <2>2
<1>1. ASSUME NEW x \in Contexts,
             NewContext(x) \/ Resolve(x) \/ ResolveFails(x)
      PROVE  MapHoldsPools'
  BY <1>a, <1>1, <1>b DEF NewContext, Resolve, ResolveFails, Live, PoolsTypeOK
<1>2. ASSUME NEW x \in Contexts, DestroyAll(x) PROVE MapHoldsPools'
  <2> SUFFICES ASSUME NEW y \in Contexts, NEW n \in Connections,
                      cached'[y][n] # None
               PROVE  /\ Live(y)'
                      /\ pool'[cached'[y][n]] =
                            [ctx |-> y, conn |-> n, state |-> "open"]
    BY DEF MapHoldsPools
  <2>1. y # x
    BY <1>a, <1>2 DEF DestroyAll, NoPools, PoolsTypeOK
  <2>2. cached'[y][n] = cached[y][n] /\ context'[y] = context[y]
    BY <1>a, <1>2, <2>1 DEF DestroyAll, PoolsTypeOK
  <2>3. /\ Live(y) /\ cached[y][n] \in Pools
        /\ pool[cached[y][n]] = [ctx |-> y, conn |-> n, state |-> "open"]
    BY <1>a, <2>2, MapHas DEF MapHoldsPools
  <2>4. ASSUME NEW m \in Connections, cached[x][m] = cached[y][n] PROVE FALSE
    <3>1. pool[cached[y][n]] = [ctx |-> x, conn |-> m, state |-> "open"]
      BY <2>2, <2>4, MapHas
    <3>2. pool[cached[y][n]].ctx = x /\ pool[cached[y][n]].ctx = y
      BY <2>3, <3>1
    <3> QED
      BY <2>1, <3>2
  <2>5. pool' = [p \in Pools |-> IF \E m \in Connections : cached[x][m] = p
                                THEN None ELSE pool[p]]
    BY <1>2 DEF DestroyAll
  <2> QED
    BY <2>2, <2>3, <2>4, <2>5 DEF Live
<1>3. ASSUME NEW x \in Contexts, NEW n \in Connections, StartCall(x, n)
      PROVE  MapHoldsPools'
  BY <1>3, <1>b DEF StartCall, Live
<1>4. ASSUME NEW k \in Calls, CallStep(k) PROVE MapHoldsPools'
  <2>1. CASE Refuse(k) \/ HostRefused(k) \/ QueryEnds(k) \/ Get(k)
    BY <2>1, <1>b DEF Refuse, HostRefused, QueryEnds, Get, Live
  <2>2. CASE Dial(k)
    <3>1. NewPool \in Pools /\ pool[NewPool] = None
      BY <2>2, DialGets, NewIsFree
    <3>2. UNCHANGED <<context, cached>>
      BY <2>2, DialGets
    <3>3. \A p \in Pools : p # NewPool => pool'[p] = pool[p]
      BY <1>a, <2>2, DialGets DEF PoolsTypeOK
    <3> HIDE DEF NewPool
    <3> QED
      BY <1>b, <3>1, <3>2, <3>3 DEF Live
  <2>3. CASE ConnectFails(k) \/ ConnectTimesOut(k)
    <3>0. /\ call[k].pool \in Pools
          /\ pool[call[k].pool] = [ctx |-> call[k].ctx,
                             conn |-> call[k].conn, state |-> "connecting"]
      BY <2>3, WaitsAlone DEF ConnectFails, ConnectTimesOut
    <3>1. call[k].pool \in Pools /\ pool[call[k].pool].state = "connecting"
      BY <3>0
    <3>2. /\ UNCHANGED <<context, cached>>
          /\ \A p \in Pools : p # call[k].pool => pool'[p] = pool[p]
      BY <1>a, <2>3 DEF ConnectFails, ConnectTimesOut, PoolsTypeOK
    <3> QED
      BY <1>b, <3>1, <3>2 DEF Live
  <2>4. CASE Connected(k)
    <3> SUFFICES ASSUME NEW x \in Contexts, NEW n \in Connections,
                        cached'[x][n] # None
                 PROVE  /\ Live(x)'
                        /\ pool'[cached'[x][n]] =
                              [ctx |-> x, conn |-> n, state |-> "open"]
      BY DEF MapHoldsPools
    <3>1. /\ At(k, "connect") /\ call[k] \in CallRecords /\ KnowsPool(k)
          /\ call[k].ctx \in Contexts /\ call[k].conn \in Connections
          /\ call[k].pool \in Pools
          /\ pool[call[k].pool] = [ctx |-> call[k].ctx,
                             conn |-> call[k].conn, state |-> "connecting"]
      BY <2>4, WaitsAlone, CallHas DEF Connected
    <3>2. /\ UNCHANGED context
          /\ pool' = [pool EXCEPT ![call[k].pool] = [@ EXCEPT !.state = "open"]]
          /\ cached' = [cached EXCEPT ![call[k].ctx] =
                          [@ EXCEPT ![call[k].conn] = call[k].pool]]
      BY <2>4 DEF Connected
    <3>3. pool'[call[k].pool] =
             [ctx |-> call[k].ctx, conn |-> call[k].conn, state |-> "open"]
      BY <1>a, <3>1, <3>2 DEF PoolsTypeOK
    <3>4. CASE x = call[k].ctx /\ n = call[k].conn
      <4>1. cached'[x][n] = call[k].pool
        BY <1>a, <3>1, <3>2, <3>4 DEF PoolsTypeOK
      <4>2. Live(x)'
        BY <3>1, <3>2, <3>4 DEF KnowsPool, Live
      <4> QED
        BY <3>3, <3>4, <4>1, <4>2
    <3>5. CASE ~ (x = call[k].ctx /\ n = call[k].conn)
      <4>1. cached'[x][n] = cached[x][n]
        BY <1>a, <3>1, <3>2, <3>5 DEF PoolsTypeOK
      <4>2. /\ Live(x) /\ cached[x][n] \in Pools
            /\ pool[cached[x][n]] = [ctx |-> x, conn |-> n, state |-> "open"]
        BY <1>a, <4>1, MapHas DEF MapHoldsPools
      <4>3. pool[cached[x][n]].state = "open" /\ pool[call[k].pool].state = "connecting"
        BY <3>1, <4>2
      <4>4. pool'[cached[x][n]] = pool[cached[x][n]]
        BY <1>a, <3>2, <4>2, <4>3 DEF PoolsTypeOK
      <4> QED
        BY <3>2, <4>1, <4>2, <4>4 DEF Live
    <3> QED
      BY <3>4, <3>5
  <2> QED
    BY <1>4, <2>1, <2>2, <2>3, <2>4 DEF CallStep
<1>5. ASSUME NEW p \in Pools, LateSettles(p) PROVE MapHoldsPools'
  <2>1. /\ UNCHANGED <<context, cached>> /\ pool[p].state = "late"
        /\ \A q \in Pools : q # p => pool'[q] = pool[q]
    BY <1>a, <1>5 DEF LateSettles, PoolsTypeOK
  <2> QED
    BY <1>b, <2>1 DEF Live
<1>6. CASE PoolsRestart
  BY <1>6 DEF PoolsRestart, MapHoldsPools, NoPools
<1>7. CASE UNCHANGED poolVars
  BY <1>7, <1>b DEF poolVars, Live
<1> QED
  BY <1>1, <1>2, <1>3, <1>4, <1>5, <1>6, <1>7 DEF PoolAction

\* The invariant of the factories is inductive, whatever the turns do.
LEMMA PoolsStep == PoolsInv /\ PoolAction => PoolsInv'
<1> SUFFICES ASSUME PoolsInv, PoolAction PROVE PoolsInv'
  OBVIOUS
<1>1. PoolsTypeOK'
  BY PoolsTyped DEF PoolsInv
<1> QED
  BY <1>1, CallsKnown, ConnectsStayApart, MapStays DEF PoolsInv, CallsKnowPools

-----------------------------------------------------------------------------
(* One tool call at a time.                                                *)

OneCallPerContext ==
    \A k, l \in Calls :
        call[k] # None /\ call[l] # None /\ call[k].ctx = call[l].ctx => k = l

NothingCached ==
    \A k \in Calls :
        At(k, "check") \/ At(k, "connect") =>
            cached[call[k].ctx][call[k].conn] = None

OpenIsCached ==
    \A p \in Pools :
        pool[p] # None /\ pool[p].state = "open" =>
            cached[pool[p].ctx][pool[p].conn] = p

\* A call starts only when its context has none.
LEMMA StartsAlone ==
    ASSUME CallsAtOnce <= 1, NEW x \in Contexts, NEW n \in Connections,
           StartCall(x, n)
    PROVE  CallsOf(x) = {}
<1>1. IsFiniteSet(CallsOf(x))
  BY FS_Subset, CallsAssumption DEF CallsAssumption, CallsOf
<1>2. Cardinality(CallsOf(x)) < CallsAtOnce /\ Cardinality(CallsOf(x)) \in Nat
  BY <1>1, FS_CardinalityType DEF StartCall
<1>3. Cardinality(CallsOf(x)) = 0
  BY <1>2, CallsAssumption DEF CallsAssumption
<1> QED
  BY <1>1, <1>3, FS_EmptySet

\* Only StartCall gives a context a call.
LEMMA CallsStayApart ==
    ASSUME CallsAtOnce <= 1, PoolsInv, OneCallPerContext, PoolAction
    PROVE  OneCallPerContext'
<1>a. PoolsTypeOK
  BY DEF PoolsInv
<1>b. ASSUME \A l \in Calls : call'[l] # None =>
                call[l] # None /\ call'[l].ctx = call[l].ctx
      PROVE  OneCallPerContext'
  BY <1>b DEF OneCallPerContext
<1>1. ASSUME NEW x \in Contexts,
             \/ NewContext(x) \/ Resolve(x) \/ ResolveFails(x) \/ DestroyAll(x)
      PROVE  OneCallPerContext'
  BY <1>1, <1>b DEF NewContext, Resolve, ResolveFails, DestroyAll
<1>2. ASSUME NEW x \in Contexts, NEW n \in Connections, StartCall(x, n)
      PROVE  OneCallPerContext'
  <2>1. PICK k \in Calls :
          call' = [call EXCEPT ![k] =
                 [ctx |-> x, conn |-> n, at |-> "resolve", pool |-> None]]
    BY <1>2 DEF StartCall
  <2>2. \A l \in Calls : call[l] # None => call[l].ctx # x
    BY <1>2, StartsAlone DEF CallsOf
  <2> QED
    BY <1>a, <2>1, <2>2 DEF PoolsTypeOK, OneCallPerContext
<1>3. ASSUME NEW k \in Calls, CallStep(k) PROVE OneCallPerContext'
  <2>1. CASE Get(k)
    BY <2>1, <1>b, GetFinds
  <2>2. CASE Dial(k)
    BY <2>2, <1>b, DialGets
  <2>3. CASE Connected(k)
    <3>1. call[k] \in CallRecords /\ call'[k] = [call[k] EXCEPT !.at = "query"]
      BY <1>a, <2>3, CallHas DEF Connected, PoolsTypeOK
    <3>2. call'[k].ctx = call[k].ctx /\ call[k] # None
      BY <3>1, NoneAssumption
    <3>3. \A l \in Calls : l # k => call'[l] = call[l]
      BY <1>a, <2>3 DEF Connected, PoolsTypeOK
    <3> QED
      BY <1>b, <3>2, <3>3
  <2>4. CASE \/ Refuse(k) \/ HostRefused(k) \/ QueryEnds(k)
             \/ ConnectFails(k) \/ ConnectTimesOut(k)
    <3>1. call' = [call EXCEPT ![k] = None]
      BY <2>4 DEF Refuse, HostRefused, QueryEnds, ConnectFails, ConnectTimesOut
    <3> QED
      BY <1>a, <1>b, <3>1 DEF PoolsTypeOK
  <2> QED
    BY <1>3, <2>1, <2>2, <2>3, <2>4 DEF CallStep
<1>4. ASSUME NEW p \in Pools, LateSettles(p) PROVE OneCallPerContext'
  BY <1>4, <1>b DEF LateSettles
<1>5. CASE PoolsRestart
  BY <1>5, <1>b DEF PoolsRestart
<1>6. CASE UNCHANGED poolVars
  BY <1>6, <1>b DEF poolVars
<1> QED
  BY <1>1, <1>2, <1>3, <1>4, <1>5, <1>6 DEF PoolAction

\* What a connecting call turns into: the pool of its connection, in the map.
LEMMA ConnectedHas ==
    ASSUME PoolsInv, NEW k \in Calls, Connected(k)
    PROVE  /\ call[k] # None /\ call[k].at = "connect"
           /\ call[k].ctx \in Contexts /\ call[k].conn \in Connections
           /\ call[k].pool \in Pools
           /\ pool[call[k].pool].state = "connecting"
           /\ pool'[call[k].pool] =
                 [ctx |-> call[k].ctx, conn |-> call[k].conn, state |-> "open"]
           /\ \A p \in Pools : p # call[k].pool => pool'[p] = pool[p]
           /\ cached'[call[k].ctx][call[k].conn] = call[k].pool
           /\ \A x \in Contexts, n \in Connections :
                 ~ (x = call[k].ctx /\ n = call[k].conn) =>
                    cached'[x][n] = cached[x][n]
           /\ call'[k].at = "query"
           /\ \A l \in Calls : l # k => call'[l] = call[l]
<1>a. PoolsTypeOK
  BY DEF PoolsInv
<1>1. /\ At(k, "connect") /\ call[k] \in CallRecords
      /\ call[k].ctx \in Contexts /\ call[k].conn \in Connections
      /\ call[k].pool \in Pools
      /\ pool[call[k].pool] = [ctx |-> call[k].ctx,
                             conn |-> call[k].conn, state |-> "connecting"]
  BY WaitsAlone, CallHas DEF Connected
<1>2. /\ pool' = [pool EXCEPT ![call[k].pool] = [@ EXCEPT !.state = "open"]]
      /\ cached' = [cached EXCEPT ![call[k].ctx] =
                      [@ EXCEPT ![call[k].conn] = call[k].pool]]
      /\ call' = [call EXCEPT ![k] = [@ EXCEPT !.at = "query"]]
  BY DEF Connected
<1>3. /\ pool'[call[k].pool] =
            [ctx |-> call[k].ctx, conn |-> call[k].conn, state |-> "open"]
      /\ \A p \in Pools : p # call[k].pool => pool'[p] = pool[p]
  BY <1>a, <1>1, <1>2 DEF PoolsTypeOK
<1>4. /\ cached'[call[k].ctx][call[k].conn] = call[k].pool
      /\ \A x \in Contexts, n \in Connections :
            ~ (x = call[k].ctx /\ n = call[k].conn) =>
               cached'[x][n] = cached[x][n]
  BY <1>a, <1>1, <1>2 DEF PoolsTypeOK
<1>5. call'[k].at = "query" /\ \A l \in Calls : l # k => call'[l] = call[l]
  BY <1>a, <1>1, <1>2 DEF PoolsTypeOK
<1>6. pool[call[k].pool].state = "connecting"
  BY <1>1
<1> QED
  BY <1>1, <1>3, <1>4, <1>5, <1>6

\* A call that checks or connects stays alone with its connection.
LEMMA NothingStaysCached ==
    ASSUME PoolsInv, OneCallPerContext, NothingCached, PoolAction
    PROVE  NothingCached'
<1>a. PoolsTypeOK
  BY DEF PoolsInv
<1>b. ASSUME UNCHANGED cached,
             \A l \in Calls : At(l, "check")' \/ At(l, "connect")' =>
                /\ At(l, "check") \/ At(l, "connect")
                /\ call'[l].ctx = call[l].ctx /\ call'[l].conn = call[l].conn
      PROVE  NothingCached'
  BY <1>b DEF NothingCached
<1>1. ASSUME NEW x \in Contexts,
             NewContext(x) \/ Resolve(x) \/ ResolveFails(x)
      PROVE  NothingCached'
  BY <1>1, <1>b DEF NewContext, Resolve, ResolveFails
<1>2. ASSUME NEW x \in Contexts, DestroyAll(x) PROVE NothingCached'
  <2>1. \A y \in Contexts, n \in Connections :
           cached[y][n] = None => cached'[y][n] = None
    BY <1>a, <1>2 DEF DestroyAll, NoPools, PoolsTypeOK
  <2>2. UNCHANGED call
    BY <1>2 DEF DestroyAll
  <2> QED
    BY <2>1, <2>2, CallHas DEF NothingCached
<1>3. ASSUME NEW x \in Contexts, NEW n \in Connections, StartCall(x, n)
      PROVE  NothingCached'
  BY <1>a, <1>3, <1>b DEF StartCall, PoolsTypeOK
<1>4. ASSUME NEW k \in Calls, CallStep(k) PROVE NothingCached'
  <2>1. CASE Get(k)
    <3> SUFFICES ASSUME NEW l \in Calls, At(l, "check")' \/ At(l, "connect")'
                 PROVE  cached'[call'[l].ctx][call'[l].conn] = None
      BY DEF NothingCached
    <3>1. UNCHANGED cached
      BY <2>1 DEF Get
    <3>2. CASE l # k
      BY <2>1, <3>1, <3>2, GetFinds DEF NothingCached
    <3>3. CASE l = k
      <4>1. call'[k].ctx = call[k].ctx /\ call'[k].conn = call[k].conn
        BY <2>1, GetFinds
      <4>2. cached[call[k].ctx][call[k].conn] # None => call'[k].at = "query"
        BY <1>a, <2>1, CallHas DEF Get, PoolsTypeOK
      <4> QED
        BY <3>1, <3>3, <4>1, <4>2
    <3> QED
      BY <3>2, <3>3
  <2>2. CASE Dial(k)
    BY <2>2, <1>b, DialGets
  <2>3. CASE Connected(k)
    <3> SUFFICES ASSUME NEW l \in Calls, At(l, "check")' \/ At(l, "connect")'
                 PROVE  cached'[call'[l].ctx][call'[l].conn] = None
      BY DEF NothingCached
    <3>1. l # k /\ call'[l] = call[l]
      BY <2>3, ConnectedHas
    <3>2. call[l] # None /\ call[l].ctx # call[k].ctx
      BY <2>3, <3>1, ConnectedHas DEF OneCallPerContext
    <3>3. /\ call[l].ctx \in Contexts /\ call[l].conn \in Connections
          /\ cached[call[l].ctx][call[l].conn] = None
      BY <3>1, <3>2, CallHas DEF NothingCached
    <3>4. cached'[call[l].ctx][call[l].conn] = cached[call[l].ctx][call[l].conn]
      BY <2>3, <3>2, <3>3, ConnectedHas
    <3> QED
      BY <3>1, <3>3, <3>4
  <2>4. CASE \/ Refuse(k) \/ HostRefused(k) \/ QueryEnds(k)
             \/ ConnectFails(k) \/ ConnectTimesOut(k)
    <3>1. call' = [call EXCEPT ![k] = None] /\ UNCHANGED cached
      BY <2>4 DEF Refuse, HostRefused, QueryEnds, ConnectFails, ConnectTimesOut
    <3> QED
      BY <1>a, <1>b, <3>1 DEF PoolsTypeOK
  <2> QED
    BY <1>4, <2>1, <2>2, <2>3, <2>4 DEF CallStep
<1>5. ASSUME NEW p \in Pools, LateSettles(p) PROVE NothingCached'
  BY <1>5, <1>b DEF LateSettles
<1>6. CASE PoolsRestart
  BY <1>6 DEF PoolsRestart, NothingCached
<1>7. CASE UNCHANGED poolVars
  BY <1>7, <1>b DEF poolVars
<1> QED
  BY <1>1, <1>2, <1>3, <1>4, <1>5, <1>6, <1>7 DEF PoolAction

\* An open pool stays in its factory's map until it is closed.
LEMMA OpenStaysCached ==
    ASSUME PoolsInv, NothingCached, OpenIsCached, PoolAction
    PROVE  OpenIsCached'
<1>a. PoolsTypeOK
  BY DEF PoolsInv
<1>b. ASSUME UNCHANGED cached,
             \A p \in Pools : pool'[p] # None /\ pool'[p].state = "open"
                              => pool'[p] = pool[p]
      PROVE  OpenIsCached'
  BY <1>b DEF OpenIsCached
<1>1. ASSUME NEW x \in Contexts,
             NewContext(x) \/ Resolve(x) \/ ResolveFails(x)
      PROVE  OpenIsCached'
  BY <1>1, <1>b DEF NewContext, Resolve, ResolveFails
<1>2. ASSUME NEW x \in Contexts, DestroyAll(x) PROVE OpenIsCached'
  <2> SUFFICES ASSUME NEW p \in Pools, pool'[p] # None, pool'[p].state = "open"
               PROVE  cached'[pool'[p].ctx][pool'[p].conn] = p
    BY DEF OpenIsCached
  <2>1. /\ pool'[p] = pool[p] /\ ~ \E n \in Connections : cached[x][n] = p
    BY <1>2 DEF DestroyAll
  <2>2. /\ pool[p].ctx \in Contexts /\ pool[p].conn \in Connections
        /\ cached[pool[p].ctx][pool[p].conn] = p
    BY <1>a, <2>1 DEF OpenIsCached, PoolsTypeOK
  <2>3. pool[p].ctx # x
    BY <2>1, <2>2
  <2> QED
    BY <1>a, <1>2, <2>1, <2>2, <2>3 DEF DestroyAll, PoolsTypeOK
<1>3. ASSUME NEW x \in Contexts, NEW n \in Connections, StartCall(x, n)
      PROVE  OpenIsCached'
  BY <1>3, <1>b DEF StartCall
<1>4. ASSUME NEW k \in Calls, CallStep(k) PROVE OpenIsCached'
  <2>1. CASE Refuse(k) \/ HostRefused(k) \/ QueryEnds(k) \/ Get(k)
    BY <2>1, <1>b DEF Refuse, HostRefused, QueryEnds, Get
  <2>2. CASE Dial(k)
    <3>1. NewPool \in Pools /\ UNCHANGED cached
      BY <2>2, DialGets, NewIsFree
    <3>2. /\ pool'[NewPool] = [ctx |-> call[k].ctx,
                             conn |-> call[k].conn, state |-> "connecting"]
          /\ \A p \in Pools : p # NewPool => pool'[p] = pool[p]
      BY <1>a, <2>2, <3>1, DialGets DEF PoolsTypeOK
    <3> HIDE DEF NewPool
    <3>3. pool'[NewPool].state = "connecting"
      BY <3>2
    <3> QED
      BY <1>b, <3>1, <3>2, <3>3
  <2>3. CASE ConnectFails(k) \/ ConnectTimesOut(k)
    <3>0. /\ call[k].pool \in Pools
          /\ call[k].ctx \in Contexts /\ call[k].conn \in Connections
          /\ pool[call[k].pool] = [ctx |-> call[k].ctx,
                             conn |-> call[k].conn, state |-> "connecting"]
      BY <2>3, WaitsAlone, CallHas DEF ConnectFails, ConnectTimesOut
    <3>1. call[k].pool \in Pools /\ pool[call[k].pool] \in PoolRecords
      BY <3>0
    <3>2. /\ UNCHANGED cached
          /\ \A p \in Pools : p # call[k].pool => pool'[p] = pool[p]
          /\ \/ pool'[call[k].pool] = None
             \/ pool'[call[k].pool] = [pool[call[k].pool] EXCEPT !.state = "late"]
      BY <1>a, <2>3, <3>1 DEF ConnectFails, ConnectTimesOut, PoolsTypeOK
    <3>3. pool'[call[k].pool] = None \/ pool'[call[k].pool].state = "late"
      BY <3>1, <3>2
    <3> QED
      BY <1>b, <3>2, <3>3
  <2>4. CASE Connected(k)
    <3> SUFFICES ASSUME NEW p \in Pools, pool'[p] # None, pool'[p].state = "open"
                 PROVE  cached'[pool'[p].ctx][pool'[p].conn] = p
      BY DEF OpenIsCached
    <3>1. CASE p = call[k].pool
      <4>1. /\ pool'[p] =
                 [ctx |-> call[k].ctx, conn |-> call[k].conn, state |-> "open"]
            /\ cached'[call[k].ctx][call[k].conn] = p
        BY <2>4, <3>1, ConnectedHas
      <4> QED
        BY <4>1
    <3>2. CASE p # call[k].pool
      <4>1. pool'[p] = pool[p]
        BY <2>4, <3>2, ConnectedHas
      <4>2. /\ pool[p].ctx \in Contexts /\ pool[p].conn \in Connections
            /\ cached[pool[p].ctx][pool[p].conn] = p
        BY <1>a, <4>1 DEF OpenIsCached, PoolsTypeOK
      <4>3. cached[call[k].ctx][call[k].conn] = None
        BY <2>4, ConnectedHas DEF NothingCached
      <4>4. ~ (pool[p].ctx = call[k].ctx /\ pool[p].conn = call[k].conn)
        BY <4>2, <4>3, NoneAssumption
      <4>5. cached'[pool[p].ctx][pool[p].conn] = cached[pool[p].ctx][pool[p].conn]
        BY <2>4, <4>2, <4>4, ConnectedHas
      <4> QED
        BY <4>1, <4>2, <4>5
    <3> QED
      BY <3>1, <3>2
  <2> QED
    BY <1>4, <2>1, <2>2, <2>3, <2>4 DEF CallStep
<1>5. ASSUME NEW p \in Pools, LateSettles(p) PROVE OpenIsCached'
  BY <1>a, <1>5, <1>b DEF LateSettles, PoolsTypeOK
<1>6. CASE PoolsRestart
  BY <1>6 DEF PoolsRestart, OpenIsCached
<1>7. CASE UNCHANGED poolVars
  BY <1>7, <1>b DEF poolVars
<1> QED
  BY <1>1, <1>2, <1>3, <1>4, <1>5, <1>6, <1>7 DEF PoolAction

-----------------------------------------------------------------------------
(* The turns.                                                              *)

USE DEF Goto, Send, Over, Leave, Done, Main, Fallback, Queries

\* A step of a turn does to the factories what PoolAction allows: a context
\* is cleaned up when none of its calls is running.
LEMMA TurnUsesPools ==
    ASSUME StagesHaveContexts, NEW t \in Turns, TurnStep(t)
    PROVE  PoolAction
<1>a. Main(t) \in Contexts /\ Fallback(t) \in Contexts
  BY DEF Contexts
<1>b. UNCHANGED poolVars => PoolAction
  BY DEF PoolAction
<1>c. ASSUME NEW x \in Contexts,
             NewContext(x) \/ (CallsOf(x) = {} /\ DestroyAll(x))
      PROVE  PoolAction
  BY <1>c DEF PoolAction
<1>1. CASE Ask(t) \/ SetTitle(t) \/ QueryFails(t) \/ Text(t)
  BY <1>1, <1>b DEF Ask, SetTitle, QueryFails, Text
<1>2. CASE \/ SearchAnswers(t) \/ SearchFails(t) \/ RouteFails(t)
           \/ RouteSucceeds(t) \/ Synthesize(t) \/ Persist(t) \/ Reload(t)
  BY <1>2, <1>b DEF SearchAnswers, SearchFails, RouteFails, RouteSucceeds,
                    Synthesize, Persist, Reload
<1>3. CASE Route(t)
  BY <1>3, <1>a, <1>b, <1>c DEF Route
<1>4. CASE CallTool(t)
  <2>1. \E x \in Contexts, n \in Connections : StartCall(x, n)
    BY <1>4, <1>a DEF CallTool
  <2> QED
    BY <2>1 DEF PoolAction
<1>5. CASE AgentAnswers(t)
  BY <1>5, <1>a, <1>b, <1>c DEF AgentAnswers
<1>6. CASE AgentFails(t)
  BY <1>6, <1>a, <1>c DEF AgentFails
<1>7. CASE InvokeAnswers(t) \/ InvokeFails(t)
  BY <1>7, <1>a, <1>c DEF InvokeAnswers, InvokeFails
<1>8. CASE Cleanup(t)
  <2>1. CallsOf(Main(t)) = {}
    BY <1>8 DEF Cleanup, StagesHaveContexts, HasContexts
  <2> QED
    BY <1>8, <1>a, <1>c, <2>1 DEF Cleanup
<1> QED
  BY <1>1, <1>2, <1>3, <1>4, <1>5, <1>6, <1>7, <1>8 DEF TurnStep

\* Every step of the chat is one that PoolAction allows.
LEMMA NextUsesPools == StagesHaveContexts /\ [Next]_vars => PoolAction
<1> SUFFICES ASSUME StagesHaveContexts, [Next]_vars PROVE PoolAction
  OBVIOUS
<1>1. ASSUME NEW c \in Conversations, NEW given \in {"none", "given"},
             CreateConversation(c, given)
      PROVE  PoolAction
  BY <1>1 DEF CreateConversation, PoolAction
<1>2. ASSUME NEW c \in Conversations, DeleteConversation(c) PROVE PoolAction
  BY <1>2 DEF DeleteConversation, PoolAction
<1>3. ASSUME NEW c \in Conversations, NEW t \in Turns, Begin(t, c)
      PROVE  PoolAction
  BY <1>3 DEF Begin, PoolAction
<1>4. ASSUME NEW t \in Turns, TurnStep(t) PROVE PoolAction
  BY <1>4, TurnUsesPools
<1>5. CASE PoolStep
  BY <1>5 DEF PoolStep, PoolAction
<1>6. CASE Restart
  BY <1>6 DEF Restart, PoolAction
<1>7. CASE UNCHANGED vars
  BY <1>7 DEF vars, PoolAction
<1> QED
  BY <1>1, <1>2, <1>3, <1>4, <1>5, <1>6, <1>7 DEF Next

\* A step of a turn keeps the shape of the tables and of the turns.
LEMMA TurnTyped ==
    ASSUME TablesTypeOK, TurnsTypeOK, NEW t \in Turns, HasContexts(t), TurnStep(t)
    PROVE  TablesTypeOK' /\ TurnsTypeOK'
<1> USE DEF TablesTypeOK, TurnsTypeOK, Stages, Paths, tableVars, turnVars
<1>1. CASE Ask(t)
  <2>1. conv[t] \in Conversations /\ Question(t) \in Messages
    BY <1>1 DEF Ask, HasContexts, Question, Messages
  <2> QED
    BY <1>1, <2>1 DEF Ask, Insert
<1>2. CASE SetTitle(t)
  BY <1>2 DEF SetTitle
<1>3. CASE QueryFails(t)
  BY <1>3 DEF QueryFails
<1>4. CASE Route(t)
  BY <1>4 DEF Route
<1>5. CASE Text(t)
  BY <1>5 DEF Text
<1>6. CASE CallTool(t)
  BY <1>6 DEF CallTool
<1>7. CASE AgentAnswers(t)
  BY <1>7 DEF AgentAnswers
<1>8. CASE AgentFails(t)
  BY <1>8 DEF AgentFails
<1>9. CASE InvokeAnswers(t)
  BY <1>9 DEF InvokeAnswers
<1>10. CASE InvokeFails(t)
  BY <1>10 DEF InvokeFails
<1>11. CASE SearchAnswers(t)
  BY <1>11 DEF SearchAnswers
<1>12. CASE SearchFails(t)
  BY <1>12 DEF SearchFails
<1>13. CASE RouteFails(t)
  BY <1>13 DEF RouteFails
<1>14. CASE RouteSucceeds(t)
  BY <1>14 DEF RouteSucceeds
<1>15. CASE Synthesize(t)
  BY <1>15 DEF Synthesize
<1>16. CASE Persist(t)
  <2>1. conv[t] \in Conversations /\ Answer(t) \in Messages
    BY <1>16 DEF Persist, HasContexts, Answer, Messages
  <2> QED
    BY <1>16, <2>1 DEF Persist, Insert
<1>17. CASE Reload(t)
  BY <1>17 DEF Reload
<1>18. CASE Cleanup(t)
  BY <1>18 DEF Cleanup
<1> QED
  BY <1>1, <1>2, <1>3, <1>4, <1>5, <1>6, <1>7, <1>8, <1>9, <1>10, <1>11, <1>12,
     <1>13, <1>14, <1>15, <1>16, <1>17, <1>18 DEF TurnStep

\* Every step keeps the shape of the tables and of the turns.
LEMMA TurnsTyped ==
    ASSUME TablesTypeOK, TurnsTypeOK, StagesHaveContexts, [Next]_vars
    PROVE  TablesTypeOK' /\ TurnsTypeOK'
<1>1. ASSUME NEW c \in Conversations, NEW given \in {"none", "given"},
             CreateConversation(c, given)
      PROVE  TablesTypeOK' /\ TurnsTypeOK'
  BY <1>1 DEF CreateConversation, TablesTypeOK, TurnsTypeOK, turnVars
<1>2. ASSUME NEW c \in Conversations, DeleteConversation(c)
      PROVE  TablesTypeOK' /\ TurnsTypeOK'
  BY <1>2 DEF DeleteConversation, TablesTypeOK, TurnsTypeOK, turnVars
<1>3. ASSUME NEW c \in Conversations, NEW t \in Turns, Begin(t, c)
      PROVE  TablesTypeOK' /\ TurnsTypeOK'
  BY <1>3 DEF Begin, TablesTypeOK, TurnsTypeOK, tableVars, Stages
<1>4. ASSUME NEW t \in Turns, TurnStep(t) PROVE TablesTypeOK' /\ TurnsTypeOK'
  BY <1>4, TurnTyped DEF StagesHaveContexts
<1>5. CASE PoolStep
  BY <1>5 DEF PoolStep, TablesTypeOK, TurnsTypeOK, tableVars, turnVars
<1>6. CASE Restart
  BY <1>6 DEF Restart, TablesTypeOK, TurnsTypeOK, tableVars, Stages
<1>7. CASE UNCHANGED vars
  BY <1>7 DEF vars, TablesTypeOK, TurnsTypeOK, tableVars, turnVars
<1> QED
  BY <1>1, <1>2, <1>3, <1>4, <1>5, <1>6, <1>7 DEF Next

\* A context that does not become live and gets no calls.
Quiet(x) == (Live(x)' => Live(x)) /\ CallsOf(x)' \subseteq CallsOf(x)

\* A turn that stays where it is keeps its contexts when they are quiet.
LEMMA KeepsContexts ==
    ASSUME NEW t \in Turns, HasContexts(t),
           stage'[t] = stage[t], conv'[t] = conv[t],
           Quiet(Main(t)), Quiet(Fallback(t))
    PROVE  HasContexts(t)'
BY DEF HasContexts, Quiet

\* Which contexts each step of the factories leaves quiet.
LEMMA QuietSame == UNCHANGED poolVars =>
    \A x \in Contexts : Live(x)' = Live(x) /\ CallsOf(x)' = CallsOf(x)
BY DEF poolVars, Live, CallsOf

LEMMA QuietNew ==
    ASSUME PoolsTypeOK, NEW y \in Contexts, NewContext(y)
    PROVE  /\ \A x \in Contexts \ {y} : Quiet(x)
           /\ CallsOf(y)' = CallsOf(y)
BY DEF PoolsTypeOK, NewContext, Quiet, Live, CallsOf

LEMMA QuietDestroy ==
    ASSUME PoolsTypeOK, NEW y \in Contexts, DestroyAll(y)
    PROVE  (\A x \in Contexts : Quiet(x)) /\ ~ Live(y)'
BY DEF PoolsTypeOK, DestroyAll, Quiet, Live, CallsOf

LEMMA QuietStart ==
    ASSUME PoolsTypeOK, NEW y \in Contexts, NEW n \in Connections, StartCall(y, n)
    PROVE  /\ \A x \in Contexts \ {y} : Quiet(x)
           /\ \A x \in Contexts : Live(x)' = Live(x)
<1>1. PICK k \in Calls :
        call' = [call EXCEPT ![k] =
               [ctx |-> y, conn |-> n, at |-> "resolve", pool |-> None]]
  BY DEF StartCall
<1>2. call'[k].ctx = y /\ \A l \in Calls : l # k => call'[l] = call[l]
  BY <1>1 DEF PoolsTypeOK
<1>3. \A x \in Contexts : Live(x)' = Live(x)
  BY DEF StartCall, Live
<1> QED
  BY <1>2, <1>3 DEF Quiet, CallsOf

LEMMA QuietRest ==
    ASSUME PoolsInv,
           \/ \E x \in Contexts : Resolve(x) \/ ResolveFails(x)
           \/ \E k \in Calls : CallStep(k)
           \/ \E p \in Pools : LateSettles(p)
    PROVE  \A x \in Contexts : Quiet(x)
<1>a. PoolsTypeOK
  BY DEF PoolsInv
<1>1. ASSUME NEW y \in Contexts, Resolve(y) \/ ResolveFails(y)
      PROVE  \A x \in Contexts : Quiet(x)
  BY <1>a, <1>1 DEF Resolve, ResolveFails, PoolsTypeOK, Quiet, Live, CallsOf
<1>b. ASSUME UNCHANGED context,
             \A l \in Calls : call'[l] # None =>
                call[l] # None /\ call'[l].ctx = call[l].ctx
      PROVE  \A x \in Contexts : Quiet(x)
  BY <1>b DEF Quiet, Live, CallsOf
<1>2. ASSUME NEW k \in Calls, CallStep(k)
      PROVE  \A x \in Contexts : Quiet(x)
  <2>1. CASE Get(k)
    BY <2>1, <1>b, GetFinds
  <2>2. CASE Dial(k)
    BY <2>2, <1>b, DialGets
  <2>3. CASE Connected(k)
    <3>1. call[k] \in CallRecords /\ call'[k] = [call[k] EXCEPT !.at = "query"]
      BY <1>a, <2>3, CallHas DEF Connected, PoolsTypeOK
    <3>2. call'[k].ctx = call[k].ctx /\ call[k] # None
      BY <3>1, NoneAssumption
    <3>3. UNCHANGED context /\ \A l \in Calls : l # k => call'[l] = call[l]
      BY <1>a, <2>3 DEF Connected, PoolsTypeOK
    <3> QED
      BY <1>b, <3>2, <3>3
  <2>4. CASE \/ Refuse(k) \/ HostRefused(k) \/ QueryEnds(k)
             \/ ConnectFails(k) \/ ConnectTimesOut(k)
    <3>1. call' = [call EXCEPT ![k] = None] /\ UNCHANGED context
      BY <2>4 DEF Refuse, HostRefused, QueryEnds, ConnectFails, ConnectTimesOut
    <3> QED
      BY <1>a, <1>b, <3>1 DEF PoolsTypeOK
  <2> QED
    BY <1>2, <2>1, <2>2, <2>3, <2>4 DEF CallStep
<1>3. ASSUME NEW p \in Pools, LateSettles(p)
      PROVE  \A x \in Contexts : Quiet(x)
  BY <1>3, <1>b DEF LateSettles
<1> QED
  BY <1>1, <1>2, <1>3

\* The contexts of a turn change with its own steps only.
LEMMA OthersKeepContexts ==
    ASSUME PoolsTypeOK, TurnsTypeOK, NEW t \in Turns, TurnStep(t),
           NEW u \in Turns \ {t}, HasContexts(u)
    PROVE  HasContexts(u)'
<1>a. /\ Main(t) \in Contexts /\ Fallback(t) \in Contexts
      /\ Main(u) \in Contexts \ {Main(t), Fallback(t)}
      /\ Fallback(u) \in Contexts \ {Main(t), Fallback(t)}
  BY DEF Contexts
<1>b. stage'[u] = stage[u] /\ conv'[u] = conv[u]
  BY DEF TurnStep, Ask, SetTitle, QueryFails, Route, Text, CallTool, AgentAnswers,
         AgentFails, InvokeAnswers, InvokeFails, SearchAnswers, SearchFails,
         RouteFails, RouteSucceeds, Synthesize, Persist, Reload, Cleanup,
         TurnsTypeOK, turnVars
<1>c. UNCHANGED poolVars => Quiet(Main(u)) /\ Quiet(Fallback(u))
  BY <1>a, QuietSame DEF Quiet
<1>d. ASSUME NEW x \in {Main(t), Fallback(t)},
             \/ NewContext(x) \/ DestroyAll(x)
             \/ \E n \in Connections : StartCall(x, n)
      PROVE  Quiet(Main(u)) /\ Quiet(Fallback(u))
  BY <1>a, <1>d, QuietNew, QuietDestroy, QuietStart
<1> HIDE DEF Main, Fallback
<1>1. Quiet(Main(u)) /\ Quiet(Fallback(u))
  <2>1. CASE \/ Ask(t) \/ SetTitle(t) \/ QueryFails(t) \/ Text(t)
             \/ SearchAnswers(t) \/ SearchFails(t) \/ RouteFails(t)
             \/ RouteSucceeds(t) \/ Synthesize(t) \/ Persist(t) \/ Reload(t)
    BY <1>c, <2>1 DEF Ask, SetTitle, QueryFails, Text, SearchAnswers, SearchFails,
         RouteFails, RouteSucceeds, Synthesize, Persist, Reload
  <2>2. CASE Route(t) \/ AgentAnswers(t)
    BY <1>c, <1>d, <2>2 DEF Route, AgentAnswers
  <2>3. CASE AgentFails(t) \/ InvokeAnswers(t) \/ InvokeFails(t) \/ Cleanup(t)
    BY <1>d, <2>3 DEF AgentFails, InvokeAnswers, InvokeFails, Cleanup
  <2>4. CASE CallTool(t)
    BY <1>d, <2>4 DEF CallTool
  <2> QED
    BY <2>1, <2>2, <2>3, <2>4 DEF TurnStep
<1> QED
  BY <1>b, <1>1, KeepsContexts

\* A turn's own steps: it has a main context from its route on, and a fallback
\* while it invokes the agent once more.
LEMMA TurnKeepsContexts ==
    ASSUME PoolsTypeOK, TurnsTypeOK, NEW t \in Turns, HasContexts(t), TurnStep(t)
    PROVE  HasContexts(t)'
<1>a. Main(t) \in Contexts /\ Fallback(t) \in Contexts /\ Main(t) # Fallback(t)
  BY DEF Contexts
<1>b. UNCHANGED poolVars =>
         /\ Live(Main(t))' = Live(Main(t)) /\ CallsOf(Main(t))' = CallsOf(Main(t))
         /\ Live(Fallback(t))' = Live(Fallback(t))
         /\ CallsOf(Fallback(t))' = CallsOf(Fallback(t))
  BY <1>a, QuietSame
<1> HIDE DEF Main, Fallback
<1>1. ASSUME \/ Ask(t) \/ SetTitle(t) \/ QueryFails(t) \/ Text(t)
             \/ SearchAnswers(t) \/ SearchFails(t) \/ RouteFails(t)
             \/ RouteSucceeds(t) \/ Synthesize(t) \/ Persist(t) \/ Reload(t)
      PROVE  HasContexts(t)'
  <2>1. CASE Ask(t)
    BY <1>a, <1>b, <2>1 DEF Ask, HasContexts, TurnsTypeOK
  <2>2. CASE SetTitle(t)
    BY <1>a, <1>b, <2>2 DEF SetTitle, HasContexts, TurnsTypeOK
  <2>3. CASE QueryFails(t)
    BY <1>a, <1>b, <2>3 DEF QueryFails, HasContexts, TurnsTypeOK
  <2>4. CASE Text(t)
    BY <1>a, <1>b, <2>4 DEF Text, HasContexts, TurnsTypeOK
  <2>5. CASE SearchAnswers(t)
    BY <1>a, <1>b, <2>5 DEF SearchAnswers, HasContexts, TurnsTypeOK
  <2>6. CASE SearchFails(t)
    BY <1>a, <1>b, <2>6 DEF SearchFails, HasContexts, TurnsTypeOK
  <2>7. CASE RouteFails(t)
    BY <1>a, <1>b, <2>7 DEF RouteFails, HasContexts, TurnsTypeOK
  <2>8. CASE RouteSucceeds(t)
    BY <1>a, <1>b, <2>8 DEF RouteSucceeds, HasContexts, TurnsTypeOK
  <2>9. CASE Synthesize(t)
    BY <1>a, <1>b, <2>9 DEF Synthesize, HasContexts, TurnsTypeOK
  <2>10. CASE Persist(t)
    BY <1>a, <1>b, <2>10 DEF Persist, HasContexts, TurnsTypeOK
  <2>11. CASE Reload(t)
    BY <1>a, <1>b, <2>11 DEF Reload, HasContexts, TurnsTypeOK
  <2> QED
    BY <1>1, <2>1, <2>2, <2>3, <2>4, <2>5, <2>6, <2>7, <2>8, <2>9, <2>10, <2>11
<1>2. CASE Route(t)
  <2>1. CASE UNCHANGED poolVars
    BY <1>a, <1>b, <1>2, <2>1 DEF Route, HasContexts, TurnsTypeOK
  <2>2. CASE NewContext(Main(t))
    <3>1. CallsOf(Main(t))' = CallsOf(Main(t)) /\ Quiet(Fallback(t))
      BY <1>a, <2>2, QuietNew
    <3> QED
      BY <1>2, <2>2, <3>1 DEF Route, HasContexts, TurnsTypeOK, Quiet
  <2> QED
    BY <1>2, <2>1, <2>2 DEF Route
<1>3. CASE CallTool(t)
  <2>1. stage' = stage /\ conv' = conv
    BY <1>3 DEF CallTool, turnVars
  <2>2. PICK n \in Connections :
          \/ stage[t] \in {"agent", "sql"} /\ StartCall(Main(t), n)
          \/ stage[t] = "invoke" /\ StartCall(Fallback(t), n)
    BY <1>3 DEF CallTool
  <2>3. CASE stage[t] \in {"agent", "sql"} /\ StartCall(Main(t), n)
    BY <1>a, <2>1, <2>3, QuietStart DEF HasContexts, Quiet
  <2>4. CASE stage[t] = "invoke" /\ StartCall(Fallback(t), n)
    BY <1>a, <2>1, <2>4, QuietStart DEF HasContexts, Quiet
  <2> QED
    BY <2>2, <2>3, <2>4
<1>4. CASE AgentAnswers(t)
  <2>1. CASE UNCHANGED poolVars
    BY <1>b, <1>4, <2>1 DEF AgentAnswers, HasContexts, TurnsTypeOK
  <2>2. CASE DestroyAll(Main(t))
    BY <1>a, <1>4, <2>2, QuietDestroy DEF AgentAnswers, HasContexts, TurnsTypeOK, Quiet
  <2> QED
    BY <1>4, <2>1, <2>2 DEF AgentAnswers
<1>5. CASE AgentFails(t)
  <2>1. CASE NewContext(Fallback(t)) /\ Goto(t, "invoke")
    <3>1. CallsOf(Fallback(t))' = CallsOf(Fallback(t)) /\ Quiet(Main(t))
      BY <1>a, <2>1, QuietNew
    <3> QED
      BY <1>5, <2>1, <3>1 DEF AgentFails, HasContexts, TurnsTypeOK, Quiet
  <2>2. CASE DestroyAll(Main(t)) /\ Goto(t, "search")
    BY <1>a, <1>5, <2>2, QuietDestroy DEF AgentFails, HasContexts, TurnsTypeOK, Quiet
  <2> QED
    BY <1>5, <2>1, <2>2 DEF AgentFails
<1>6. CASE InvokeAnswers(t)
  BY <1>a, <1>6, QuietDestroy DEF InvokeAnswers, HasContexts, TurnsTypeOK, Quiet
<1>7. CASE InvokeFails(t)
  BY <1>a, <1>7, QuietDestroy DEF InvokeFails, HasContexts, TurnsTypeOK, Quiet
<1>8. CASE Cleanup(t)
  BY <1>a, <1>8, QuietDestroy DEF Cleanup, HasContexts, TurnsTypeOK, Quiet
<1> QED
  BY <1>1, <1>2, <1>3, <1>4, <1>5, <1>6, <1>7, <1>8 DEF TurnStep

\* Every step keeps every turn with its contexts.
LEMMA StagesKeepContexts ==
    ASSUME PoolsInv, TurnsTypeOK, StagesHaveContexts, [Next]_vars, NEW u \in Turns
    PROVE  HasContexts(u)'
<1>a. PoolsTypeOK /\ HasContexts(u)
  BY DEF PoolsInv, StagesHaveContexts
<1>b. Main(u) \in Contexts /\ Fallback(u) \in Contexts
  BY DEF Contexts
<1>c. UNCHANGED poolVars => Quiet(Main(u)) /\ Quiet(Fallback(u))
  BY <1>b, QuietSame DEF Quiet
<1> HIDE DEF Main, Fallback
<1>1. ASSUME NEW c \in Conversations, NEW given \in {"none", "given"},
             CreateConversation(c, given)
      PROVE  HasContexts(u)'
  BY <1>1, <1>a, <1>c, KeepsContexts DEF CreateConversation, turnVars
<1>2. ASSUME NEW c \in Conversations, DeleteConversation(c)
      PROVE  HasContexts(u)'
  BY <1>2, <1>a, <1>c, KeepsContexts DEF DeleteConversation, turnVars
<1>3. ASSUME NEW c \in Conversations, NEW t \in Turns, Begin(t, c)
      PROVE  HasContexts(u)'
  <2>1. CASE u = t
    BY <1>3, <1>a, <1>b, <2>1, QuietSame DEF Begin, HasContexts, TurnsTypeOK
  <2>2. CASE u # t
    BY <1>3, <1>a, <1>c, <2>2, KeepsContexts DEF Begin, TurnsTypeOK
  <2> QED
    BY <2>1, <2>2
<1>4. ASSUME NEW t \in Turns, TurnStep(t) PROVE HasContexts(u)'
  BY <1>4, <1>a, TurnKeepsContexts, OthersKeepContexts
<1>5. CASE PoolStep
  <2>1. Quiet(Main(u)) /\ Quiet(Fallback(u))
    BY <1>5, <1>b, QuietRest DEF PoolStep
  <2> QED
    BY <1>5, <1>a, <2>1, KeepsContexts DEF PoolStep, turnVars
<1>6. CASE Restart
  <2>1. /\ ~ Live(Main(u))' /\ CallsOf(Main(u))' = {}
        /\ ~ Live(Fallback(u))' /\ CallsOf(Fallback(u))' = {}
    BY <1>6, <1>b DEF Restart, PoolsRestart, Live, CallsOf
  <2> QED
    BY <1>6, <1>a, <2>1 DEF Restart, HasContexts
<1>7. CASE UNCHANGED vars
  BY <1>7, <1>a, <1>c, KeepsContexts DEF vars, turnVars
<1> QED
  BY <1>1, <1>2, <1>3, <1>4, <1>5, <1>6, <1>7 DEF Next

-----------------------------------------------------------------------------
(* The invariant of pools, shapes and contexts.                            *)

ChatInv == PoolsInv /\ TablesTypeOK /\ TurnsTypeOK /\ StagesHaveContexts

LEMMA ChatInit == Init => ChatInv
<1> SUFFICES ASSUME Init PROVE ChatInv
  OBVIOUS
<1> USE DEF Init, PoolsInit
<1>1. PoolsTypeOK
  BY NoPoolsType DEF PoolsTypeOK
<1>2. CallsKnowPools /\ MapHoldsPools
  BY DEF CallsKnowPools, KnowsPool, ConnectApart, MapHoldsPools, NoPools
<1>3. TablesTypeOK /\ TurnsTypeOK
  BY DEF TablesTypeOK, TurnsTypeOK, Stages
<1>4. StagesHaveContexts
  <2>1. \A x \in Contexts : ~ Live(x) /\ CallsOf(x) = {}
    BY DEF Live, CallsOf
  <2>2. \A t \in Turns : Main(t) \in Contexts /\ Fallback(t) \in Contexts
    BY DEF Contexts
  <2> HIDE DEF Main, Fallback
  <2> QED
    BY <2>1, <2>2 DEF StagesHaveContexts, HasContexts
<1> QED
  BY <1>1, <1>2, <1>3, <1>4 DEF ChatInv, PoolsInv

LEMMA ChatStep == ChatInv /\ [Next]_vars => ChatInv'
<1> SUFFICES ASSUME ChatInv, [Next]_vars PROVE ChatInv'
  OBVIOUS
<1>1. PoolsInv'
  BY NextUsesPools, PoolsStep DEF ChatInv
<1>2. TablesTypeOK' /\ TurnsTypeOK'
  BY TurnsTyped DEF ChatInv
<1>3. StagesHaveContexts'
  BY StagesKeepContexts DEF ChatInv, StagesHaveContexts
<1> QED
  BY <1>1, <1>2, <1>3 DEF ChatInv

-----------------------------------------------------------------------------
(* What is stored and shown, stage by stage.                               *)

Before == {"idle", "ask", "askFirst"}
After == {"reload", "cleanup", "over"}

\* A turn never comes back to a stage before its question, nor leaves those
\* that follow its answer.
Advances(u) ==
    /\ stage[u] \notin Before => conv'[u] = conv[u] /\ stage'[u] \notin Before
    /\ stage[u] \in After => stage'[u] \in After

USE DEF Before, After

\* A step of a turn advances it.
LEMMA TurnAdvances ==
    ASSUME TurnsTypeOK, NEW t \in Turns, TurnStep(t)
    PROVE  /\ Advances(t)
           /\ UNCHANGED <<mode, conv>>
           /\ \A u \in Turns \ {t} : /\ stage'[u] = stage[u]
                                     /\ reply'[u] = reply[u]
                                     /\ shown'[u] = shown[u]
                                     /\ told'[u] = told[u]
<1> USE DEF TurnsTypeOK, Advances
<1>1. CASE Ask(t) \/ SetTitle(t) \/ QueryFails(t) \/ Route(t)
  BY <1>1 DEF Ask, SetTitle, QueryFails, Route
<1>2. CASE Text(t) \/ CallTool(t)
  BY <1>2 DEF Text, CallTool, turnVars
<1>3. CASE AgentAnswers(t) \/ AgentFails(t) \/ InvokeAnswers(t) \/ InvokeFails(t)
  BY <1>3 DEF AgentAnswers, AgentFails, InvokeAnswers, InvokeFails
<1>4. CASE SearchAnswers(t) \/ SearchFails(t) \/ RouteFails(t) \/ RouteSucceeds(t)
  BY <1>4 DEF SearchAnswers, SearchFails, RouteFails, RouteSucceeds
<1>5. CASE Synthesize(t) \/ Persist(t) \/ Reload(t) \/ Cleanup(t)
  BY <1>5 DEF Synthesize, Persist, Reload, Cleanup
<1> QED
  BY <1>1, <1>2, <1>3, <1>4, <1>5 DEF TurnStep

\* Every step advances every turn.
LEMMA TurnsAdvance ==
    ASSUME TurnsTypeOK, [Next]_vars, NEW u \in Turns
    PROVE  Advances(u)
<1>1. ASSUME NEW c \in Conversations, NEW t \in Turns, Begin(t, c)
      PROVE  Advances(u)
  BY <1>1 DEF Begin, Advances, TurnsTypeOK
<1>2. ASSUME NEW t \in Turns, TurnStep(t) PROVE Advances(u)
  BY <1>2, TurnAdvances DEF Advances
<1>3. CASE Restart
  BY <1>3 DEF Restart, Advances, TurnsTypeOK
<1>4. CASE UNCHANGED turnVars
  BY <1>4 DEF turnVars, Advances
<1> QED
  BY <1>1, <1>2, <1>3, <1>4
     DEF Next, CreateConversation, DeleteConversation, PoolStep, vars

\* How messages change: a conversation loses all of them, or gets the question
\* or the answer of a turn whose stage tells that it is the first.
MessagesChange ==
    \/ UNCHANGED messages
    \/ \E c \in Conversations : messages' = [messages EXCEPT ![c] = <<>>]
    \/ \E t \in Turns :
          /\ stage[t] \in {"ask", "askFirst"} /\ stage'[t] \in {"title", "route"}
          /\ conv'[t] = conv[t]
          /\ messages' = [messages EXCEPT ![conv[t]] = Append(@, Question(t))]
    \/ \E t \in Turns :
          /\ stage[t] = "persist" /\ stage'[t] = "reload"
          /\ conv'[t] = conv[t]
          /\ messages' = [messages EXCEPT ![conv[t]] = Append(@, Answer(t))]

LEMMA MessagesChanged ==
    ASSUME TurnsTypeOK, [Next]_vars PROVE MessagesChange
<1> USE DEF MessagesChange
<1>1. ASSUME NEW c \in Conversations, DeleteConversation(c)
      PROVE  MessagesChange
  BY <1>1 DEF DeleteConversation
<1>2. ASSUME NEW t \in Turns, Ask(t) PROVE MessagesChange
  BY <1>2 DEF Ask, Insert, TurnsTypeOK
<1>3. ASSUME NEW t \in Turns, Persist(t) PROVE MessagesChange
  BY <1>3 DEF Persist, Insert, TurnsTypeOK
<1>4. ASSUME NEW t \in Turns, TurnStep(t), ~ Ask(t), ~ Persist(t)
      PROVE  UNCHANGED messages
  BY <1>4 DEF TurnStep, SetTitle, QueryFails, Route, Text, CallTool,
       AgentAnswers, AgentFails, InvokeAnswers, InvokeFails, SearchAnswers,
       SearchFails, RouteFails, RouteSucceeds, Synthesize, Reload, Cleanup,
       tableVars
<1>5. ASSUME \/ \E c \in Conversations :
                   \/ \E given \in {"none", "given"} : CreateConversation(c, given)
                   \/ \E t \in Turns : Begin(t, c)
             \/ PoolStep \/ Restart \/ UNCHANGED vars
      PROVE  UNCHANGED messages
  BY <1>5 DEF CreateConversation, Begin, PoolStep, Restart, vars, tableVars
<1> QED
  BY <1>1, <1>2, <1>3, <1>4, <1>5 DEF Next

\* The messages of a conversation with one more at the end.
LEMMA Appended ==
    ASSUME TablesTypeOK, NEW c \in Conversations, NEW m \in Messages,
           messages' = [messages EXCEPT ![c] = Append(@, m)]
    PROVE  /\ \A d \in Conversations \ {c} : messages'[d] = messages[d]
           /\ DOMAIN messages'[c] = DOMAIN messages[c] \cup {Len(messages[c]) + 1}
           /\ Len(messages[c]) + 1 \notin DOMAIN messages[c]
           /\ \A i \in DOMAIN messages[c] :
                 messages'[c][i] = messages[c][i] /\ i < Len(messages[c]) + 1
           /\ messages'[c][Len(messages[c]) + 1] = m
<1>1. messages[c] \in Seq(Messages) /\ messages'[c] = Append(messages[c], m)
  BY DEF TablesTypeOK
<1>2. \A d \in Conversations \ {c} : messages'[d] = messages[d]
  BY DEF TablesTypeOK
<1> QED
  BY <1>1, <1>2

\* Messages stay in place, and in the order of a transcript.
LEMMA MessagesStayInPlace ==
    ASSUME ChatInv, MessagesInPlace, Transcript, [Next]_vars
    PROVE  MessagesInPlace' /\ Transcript'
<1>a. TablesTypeOK /\ TurnsTypeOK /\ StagesHaveContexts
  BY DEF ChatInv
<1>b. \A u \in Turns : Advances(u)
  BY <1>a, TurnsAdvance
<1>c. \A c \in Conversations : \A i \in DOMAIN messages[c] :
         messages[c][i] \in Messages
  BY <1>a, ElementOfSeq DEF TablesTypeOK
<1>d. ASSUME NEW c \in Conversations, NEW i \in DOMAIN messages[c]
      PROVE  LET m == messages[c][i] IN
             /\ m \in Messages
             /\ conv'[m.turn] = c
             /\ stage'[m.turn] \notin Before
             /\ m.role = "assistant" => stage'[m.turn] \in After
  BY <1>b, <1>c DEF MessagesInPlace, Messages, Advances
<1>1. CASE UNCHANGED messages
  BY <1>1, <1>d DEF MessagesInPlace, Transcript
<1>2. ASSUME NEW d \in Conversations, messages' = [messages EXCEPT ![d] = <<>>]
      PROVE  MessagesInPlace' /\ Transcript'
  <2>1. \A c \in Conversations : messages'[c] = IF c = d THEN <<>> ELSE messages[c]
    BY <1>2, <1>a DEF TablesTypeOK
  <2> QED
    BY <2>1, <1>d DEF MessagesInPlace, Transcript
<1>3. ASSUME NEW t \in Turns, NEW m \in Messages, m.turn = t,
             messages' = [messages EXCEPT ![conv[t]] = Append(@, m)],
             conv'[t] = conv[t], stage[t] # "idle", stage'[t] \notin Before,
             m.role = "assistant" => stage'[t] \in After,
             \A c \in Conversations : \A i \in DOMAIN messages[c] :
                messages[c][i].turn = t =>
                   messages[c][i].role = "user" /\ m.role = "assistant"
      PROVE  MessagesInPlace' /\ Transcript'
  <2> DEFINE d == conv[t]
  <2>1. d \in Conversations
    BY <1>3, <1>a DEF StagesHaveContexts, HasContexts
  <2> DEFINE last == Len(messages[d]) + 1
  <2>2. /\ \A c \in Conversations \ {d} : messages'[c] = messages[c]
        /\ DOMAIN messages'[d] = DOMAIN messages[d] \cup {last}
        /\ last \notin DOMAIN messages[d]
        /\ \A i \in DOMAIN messages[d] :
              messages'[d][i] = messages[d][i] /\ i < last
        /\ messages'[d][last] = m
    BY <1>3, <1>a, <2>1, Appended
  <2>3. DOMAIN messages[d] \subseteq Nat /\ last \in Nat
    BY <1>a, <2>1 DEF TablesTypeOK
  <2>4. conv'[m.turn] = d /\ stage'[m.turn] \notin Before
        /\ (m.role = "assistant" => stage'[m.turn] \in After)
    BY <1>3
  <2> HIDE DEF d, last
  <2>5. MessagesInPlace'
    <3> SUFFICES ASSUME NEW c \in Conversations, NEW i \in DOMAIN messages'[c]
                 PROVE  /\ conv'[messages'[c][i].turn] = c
                        /\ stage'[messages'[c][i].turn] \notin Before
                        /\ messages'[c][i].role = "assistant" =>
                              stage'[messages'[c][i].turn] \in After
      BY DEF MessagesInPlace
    <3>1. CASE i \in DOMAIN messages[c] /\ messages'[c][i] = messages[c][i]
      BY <1>d, <3>1
    <3>2. CASE c = d /\ i = last
      BY <2>2, <2>4, <3>2
    <3> QED
      BY <2>1, <2>2, <3>1, <3>2
  <2>6. Transcript'
    <3> SUFFICES ASSUME NEW c \in Conversations,
                        NEW i \in DOMAIN messages'[c], NEW j \in DOMAIN messages'[c],
                        messages'[c][i].turn = messages'[c][j].turn, i < j
                 PROVE  /\ messages'[c][i].role = "user"
                        /\ messages'[c][j].role = "assistant"
      BY DEF Transcript
    <3>1. CASE c # d
      BY <2>2, <3>1 DEF Transcript
    <3>2. CASE c = d /\ i # last /\ j # last
      BY <2>2, <3>2 DEF Transcript
    <3>3. CASE c = d /\ j = last
      BY <1>3, <2>1, <2>2, <2>3, <3>3
    <3>4. CASE c = d /\ i = last /\ j # last
      BY <2>2, <2>3, <3>4
    <3> QED
      BY <3>1, <3>2, <3>3, <3>4
  <2> QED
    BY <2>5, <2>6
<1>4. ASSUME NEW t \in Turns, stage[t] \in {"ask", "askFirst"},
             stage'[t] \in {"title", "route"}, conv'[t] = conv[t],
             messages' = [messages EXCEPT ![conv[t]] = Append(@, Question(t))]
      PROVE  MessagesInPlace' /\ Transcript'
  <2>1. \A c \in Conversations : \A i \in DOMAIN messages[c] :
           messages[c][i].turn # t
    BY <1>4 DEF MessagesInPlace
  <2>2. Question(t) \in Messages /\ Question(t).turn = t /\ Question(t).role = "user"
    BY DEF Question, Messages
  <2> QED
    BY <1>3, <1>4, <2>1, <2>2
<1>5. ASSUME NEW t \in Turns, stage[t] = "persist", stage'[t] = "reload",
             conv'[t] = conv[t],
             messages' = [messages EXCEPT ![conv[t]] = Append(@, Answer(t))]
      PROVE  MessagesInPlace' /\ Transcript'
  <2>1. \A c \in Conversations : \A i \in DOMAIN messages[c] :
           messages[c][i].turn = t => messages[c][i].role = "user"
    BY <1>5, <1>c DEF MessagesInPlace, Messages
  <2>2. Answer(t) \in Messages /\ Answer(t).turn = t /\ Answer(t).role = "assistant"
    BY DEF Answer, Messages
  <2> QED
    BY <1>3, <1>5, <2>1, <2>2
<1> QED
  BY <1>a, <1>1, <1>2, <1>4, <1>5, MessagesChanged DEF MessagesChange

\* What a conversation holds it keeps for as long as it exists.
Keeps(c) ==
    /\ exists[c] # "no" => exists'[c] # "no"
    /\ exists[c] # "no" /\ exists'[c] = "yes" =>
          /\ exists[c] = "yes"
          /\ title[c] # "none" => title'[c] # "none"
          /\ \A m \in Messages : Stored(c, m) => Stored(c, m)'

LEMMA ConversationsKeep ==
    ASSUME ChatInv, [Next]_vars, NEW c \in Conversations
    PROVE  Keeps(c)
<1>a. TablesTypeOK /\ TurnsTypeOK /\ StagesHaveContexts
  BY DEF ChatInv
<1>b. UNCHANGED tableVars => Keeps(c)
  BY DEF tableVars, Keeps, Stored, TablesTypeOK
<1>c. ASSUME NEW d \in Conversations, NEW m \in Messages,
             messages' = [messages EXCEPT ![d] = Append(@, m)],
             UNCHANGED <<exists, title>>
      PROVE  Keeps(c)
  <2>1. \A n \in Messages : Stored(c, n) => Stored(c, n)'
    BY <1>a, <1>c, Appended DEF Stored
  <2> QED
    BY <1>c, <2>1 DEF Keeps
<1>1. ASSUME NEW d \in Conversations, NEW given \in {"none", "given"},
             CreateConversation(d, given)
      PROVE  Keeps(c)
  BY <1>1, <1>a DEF CreateConversation, TablesTypeOK, Keeps, Stored
<1>2. ASSUME NEW d \in Conversations, DeleteConversation(d)
      PROVE  Keeps(c)
  BY <1>2, <1>a DEF DeleteConversation, TablesTypeOK, Keeps, Stored
<1>3. ASSUME NEW t \in Turns, Ask(t) PROVE Keeps(c)
  <2>1. conv[t] \in Conversations /\ Question(t) \in Messages
    BY <1>3, <1>a DEF Ask, StagesHaveContexts, HasContexts, Question, Messages
  <2> QED
    BY <1>3, <1>c, <2>1 DEF Ask, Insert
<1>4. ASSUME NEW t \in Turns, Persist(t) PROVE Keeps(c)
  <2>1. conv[t] \in Conversations /\ Answer(t) \in Messages
    BY <1>4, <1>a DEF Persist, StagesHaveContexts, HasContexts, Answer, Messages
  <2> QED
    BY <1>4, <1>c, <2>1 DEF Persist, Insert
<1>5. ASSUME NEW t \in Turns, SetTitle(t) PROVE Keeps(c)
  BY <1>5, <1>a, TitlesAssumption DEF SetTitle, TablesTypeOK, Keeps, Stored
<1>6. ASSUME NEW t \in Turns, TurnStep(t), ~ Ask(t), ~ Persist(t), ~ SetTitle(t)
      PROVE  UNCHANGED tableVars
  BY <1>6 DEF TurnStep, QueryFails, Route, Text, CallTool,
       AgentAnswers, AgentFails, InvokeAnswers, InvokeFails, SearchAnswers,
       SearchFails, RouteFails, RouteSucceeds, Synthesize, Reload, Cleanup
<1>7. ASSUME \/ \E d \in Conversations, t \in Turns : Begin(t, d)
             \/ PoolStep \/ Restart \/ UNCHANGED vars
      PROVE  UNCHANGED tableVars
  BY <1>7 DEF Begin, PoolStep, Restart, vars
<1> QED
  BY <1>b, <1>1, <1>2, <1>3, <1>4, <1>5, <1>6, <1>7 DEF Next

\* A message that a step inserts is stored.
LEMMA Inserted ==
    ASSUME TablesTypeOK, NEW c \in Conversations, NEW m \in Messages, Insert(c, m)
    PROVE  Stored(c, m)' /\ exists'[c] = exists[c] /\ title'[c] = title[c]
<1>1. messages' = [messages EXCEPT ![c] = Append(@, m)]
  BY DEF Insert
<1> QED
  BY <1>1, Appended DEF Insert, Stored

\* A turn that stays where it is, or goes on to a stage that claims no more.
LEMMA KeepsStored ==
    ASSUME NEW u \in Turns, HasStored(u), conv'[u] = conv[u], told'[u] = told[u],
           stage[u] # "idle" => conv[u] \in Conversations,
           \A c \in Conversations : Keeps(c),
           \/ stage'[u] = stage[u]
           \/ /\ stage[u] \in Answering
              /\ stage'[u] \in Answering \ {"reload"}
           \/ stage[u] # "idle" /\ stage'[u] \in {"cleanup", "over"}
    PROVE  HasStored(u)'
<1>a. Question(u) \in Messages /\ Answer(u) \in Messages
  BY DEF Question, Answer, Messages
<1>b. Question(u)' = Question(u) /\ Answer(u)' = Answer(u)
  BY DEF Question, Answer
<1>1. CASE stage[u] = "idle"
  BY <1>1 DEF HasStored, Answering
<1>2. CASE stage[u] # "idle"
  <2> DEFINE c == conv[u]
  <2>1. Keeps(c) /\ stage'[u] # "idle" /\ conv'[u] = c
    BY <1>2 DEF Answering
  <2>2. exists'[c] # "no"
    BY <1>2, <2>1 DEF HasStored, Keeps
  <2>3. told'[u] = "complete" => stage'[u] \in {"cleanup", "over"}
    BY <1>2 DEF HasStored, Answering
  <2>4. ASSUME exists'[c] = "yes"
        PROVE  /\ stage'[u] \in Answering \cup {"title"} \/ told'[u] = "complete"
                    => Stored(c, Question(u))'
               /\ stage'[u] \in Answering \cup {"ask"} \/ told'[u] = "complete"
                    => title'[c] # "none"
               /\ stage'[u] = "reload" \/ told'[u] = "complete"
                    => Stored(c, Answer(u))'
    BY <1>a, <1>2, <2>1, <2>4 DEF HasStored, Keeps, Answering
  <2> QED
    BY <1>b, <2>1, <2>2, <2>3, <2>4 DEF HasStored, Stored
<1> QED
  BY <1>1, <1>2

\* The steps of a turn: what a stage claims is stored when it is reached.
LEMMA TurnStores ==
    ASSUME ChatInv, NEW t \in Turns, HasStored(t), TurnStep(t),
           \A c \in Conversations : Keeps(c)
    PROVE  HasStored(t)'
<1>a. TablesTypeOK /\ TurnsTypeOK /\ HasContexts(t)
  BY DEF ChatInv, StagesHaveContexts
<1>b. conv'[t] = conv[t] /\ (stage[t] # "idle" => conv[t] \in Conversations)
  BY <1>a, TurnAdvances DEF HasContexts
<1>c. Question(t) \in Messages /\ Answer(t) \in Messages
  BY DEF Question, Answer, Messages
<1>d. Question(t)' = Question(t) /\ Answer(t)' = Answer(t)
  BY DEF Question, Answer
<1> USE DEF TurnsTypeOK
<1>1. CASE Ask(t)
  <2>1. /\ Insert(conv[t], Question(t)) /\ exists[conv[t]] = "yes"
        /\ stage[t] \in {"ask", "askFirst"} /\ told' = told
        /\ stage'[t] = IF stage[t] = "askFirst" THEN "title" ELSE "route"
    BY <1>1, <1>a DEF Ask, Insert
  <2>2. /\ Stored(conv[t], Question(t))' /\ exists'[conv[t]] = exists[conv[t]]
        /\ title'[conv[t]] = title[conv[t]]
    BY <1>a, <1>b, <1>c, <2>1, Inserted
  <2>3. told[t] # "complete"
    BY <2>1 DEF HasStored
  <2>4. stage[t] = "ask" => title[conv[t]] # "none"
    BY <2>1 DEF HasStored
  <2> QED
    BY <1>b, <1>d, <2>1, <2>2, <2>3, <2>4 DEF HasStored, Answering, Stored
<1>2. CASE SetTitle(t)
  <2>1. /\ stage[t] = "title" /\ stage'[t] = "route" /\ told' = told
        /\ UNCHANGED <<exists, messages>>
        /\ exists[conv[t]] = "yes" => title'[conv[t]] = t
    BY <1>2, <1>a, <1>b DEF SetTitle, TablesTypeOK
  <2> QED
    BY <1>b, <1>d, <2>1, TitlesAssumption DEF HasStored, Answering, Stored
<1>3. CASE QueryFails(t) \/ SearchFails(t)
  <2>1. /\ stage[t] # "idle" /\ stage'[t] \in {"cleanup", "over"}
        /\ told'[t] = "error" /\ UNCHANGED tableVars
    BY <1>3, <1>a DEF QueryFails, SearchFails
  <2> QED
    BY <1>b, <2>1 DEF HasStored, Answering, tableVars
<1>4. CASE Route(t) \/ AgentFails(t) \/ InvokeFails(t) \/ RouteSucceeds(t)
  <2>1. /\ stage[t] \in Answering /\ stage'[t] \in Answering \ {"reload"}
        /\ told' = told
    BY <1>4, <1>a DEF Route, AgentFails, InvokeFails, RouteSucceeds, Answering
  <2> QED
    BY <1>b, <2>1, KeepsStored
<1>5. CASE \/ AgentAnswers(t) \/ InvokeAnswers(t) \/ SearchAnswers(t)
           \/ RouteFails(t) \/ Synthesize(t)
  <2>1. /\ stage[t] \in Answering /\ stage'[t] \in Answering \ {"reload"}
        /\ told' = told
    BY <1>5, <1>a DEF AgentAnswers, InvokeAnswers, SearchAnswers, RouteFails,
                      Synthesize, Answering
  <2> QED
    BY <1>b, <2>1, KeepsStored
<1>6. CASE Text(t) \/ CallTool(t)
  <2>1. stage' = stage /\ told' = told
    BY <1>6 DEF Text, CallTool, turnVars
  <2> QED
    BY <1>b, <2>1, KeepsStored
<1>7. CASE Persist(t)
  <2>1. /\ Insert(conv[t], Answer(t)) /\ told' = told
        /\ stage[t] = "persist" /\ stage'[t] = "reload"
    BY <1>7, <1>a DEF Persist
  <2>2. /\ Stored(conv[t], Answer(t))' /\ exists'[conv[t]] = exists[conv[t]]
        /\ title'[conv[t]] = title[conv[t]]
    BY <1>a, <1>b, <1>c, <2>1, Inserted
  <2>3. told[t] # "complete"
    BY <2>1 DEF HasStored
  <2>4. /\ exists[conv[t]] # "no"
        /\ exists[conv[t]] = "yes" =>
              /\ title[conv[t]] # "none"
              /\ Stored(conv[t], Question(t))
    BY <2>1 DEF HasStored, Answering
  <2>5. exists[conv[t]] = "yes" => Stored(conv[t], Question(t))'
    BY <1>b, <1>c, <2>1, <2>2, <2>4 DEF Keeps
  <2> QED
    BY <1>b, <1>d, <2>1, <2>2, <2>3, <2>4, <2>5 DEF HasStored, Answering, Stored
<1>8. CASE Reload(t)
  <2>1. /\ stage[t] = "reload" /\ stage'[t] \in {"cleanup", "over"}
        /\ UNCHANGED tableVars
    BY <1>8, <1>a DEF Reload
  <2> QED
    BY <1>b, <1>d, <2>1 DEF HasStored, Answering, tableVars, Stored
<1>9. CASE Cleanup(t)
  <2>1. stage[t] = "cleanup" /\ stage'[t] = "over" /\ told' = told
    BY <1>9, <1>a DEF Cleanup
  <2> QED
    BY <1>b, <2>1, KeepsStored
<1> QED
  BY <1>1, <1>2, <1>3, <1>4, <1>5, <1>6, <1>7, <1>8, <1>9 DEF TurnStep

\* Every step: conversations keep what their turns have stored.
LEMMA StagesKeepStored ==
    ASSUME ChatInv, StagesHaveStored, [Next]_vars
    PROVE  StagesHaveStored'
<1> SUFFICES ASSUME NEW u \in Turns PROVE HasStored(u)'
  BY DEF StagesHaveStored
<1>a. TablesTypeOK /\ TurnsTypeOK /\ HasContexts(u) /\ HasStored(u)
  BY DEF ChatInv, StagesHaveContexts, StagesHaveStored
<1>b. stage[u] # "idle" => conv[u] \in Conversations
  BY <1>a DEF HasContexts
<1>c. \A c \in Conversations : Keeps(c)
  BY ConversationsKeep
<1>d. ASSUME conv'[u] = conv[u], told'[u] = told[u], stage'[u] = stage[u]
      PROVE  HasStored(u)'
  BY <1>a, <1>b, <1>c, <1>d, KeepsStored
<1>1. ASSUME NEW c \in Conversations, Begin(u, c) PROVE HasStored(u)'
  <2>1. /\ stage[u] = "idle" /\ exists[c] = "yes" /\ conv'[u] = c
        /\ stage'[u] = (IF title[c] = "none" THEN "askFirst" ELSE "ask")
        /\ told' = told /\ UNCHANGED tableVars
    BY <1>1, <1>a DEF Begin, TurnsTypeOK
  <2>2. told[u] # "complete"
    BY <1>a, <2>1 DEF HasStored
  <2> QED
    BY <2>1, <2>2 DEF HasStored, Answering, tableVars
<1>2. ASSUME NEW c \in Conversations, NEW t \in Turns \ {u}, Begin(t, c)
      PROVE  HasStored(u)'
  BY <1>2, <1>a, <1>d DEF Begin, TurnsTypeOK
<1>3. CASE TurnStep(u)
  BY <1>3, <1>a, <1>c, TurnStores
<1>4. ASSUME NEW t \in Turns \ {u}, TurnStep(t) PROVE HasStored(u)'
  BY <1>4, <1>a, <1>d, TurnAdvances
<1>5. CASE Restart
  <2>1. /\ conv'[u] = conv[u] /\ told'[u] = told[u]
        /\ stage'[u] = IF stage[u] = "idle" THEN "idle" ELSE "over"
    BY <1>5 DEF Restart
  <2> QED
    BY <1>a, <1>b, <1>c, <2>1, KeepsStored
<1>6. CASE UNCHANGED turnVars
  BY <1>6, <1>d DEF turnVars
<1> QED
  BY <1>1, <1>2, <1>3, <1>4, <1>5, <1>6
     DEF Next, CreateConversation, DeleteConversation, PoolStep, vars

\* What a turn has shown by the time it has a reply.
LEMMA StagesKeepShown ==
    ASSUME TurnsTypeOK, StagesHaveShown, [Next]_vars
    PROVE  StagesHaveShown'
<1> SUFFICES ASSUME NEW u \in Turns PROVE HasShown(u)'
  BY DEF StagesHaveShown
<1>a. HasShown(u)
  BY DEF StagesHaveShown
<1>b. ASSUME mode'[u] = mode[u], stage'[u] = stage[u],
             reply'[u] = reply[u], shown'[u] = shown[u]
      PROVE  HasShown(u)'
  BY <1>a, <1>b DEF HasShown
<1> USE DEF TurnsTypeOK
<1>1. ASSUME NEW c \in Conversations, NEW t \in Turns, Begin(t, c)
      PROVE  HasShown(u)'
  BY <1>1, <1>a DEF Begin, HasShown
<1>2. CASE TurnStep(u)
  <2> USE DEF HasShown
  <2>1. CASE Ask(u) \/ SetTitle(u)
    BY <1>a, <2>1 DEF Ask, SetTitle
  <2>2. CASE QueryFails(u) \/ SearchFails(u) \/ Reload(u)
    BY <1>a, <2>2 DEF QueryFails, SearchFails, Reload
  <2>3. CASE Route(u)
    BY <1>a, <2>3 DEF Route
  <2>4. CASE Text(u)
    BY <1>a, <2>4 DEF Text
  <2>5. CASE CallTool(u)
    BY <1>a, <2>5 DEF CallTool, turnVars
  <2>6. CASE AgentAnswers(u) \/ AgentFails(u)
    BY <1>a, <2>6 DEF AgentAnswers, AgentFails
  <2>7. CASE InvokeAnswers(u) \/ InvokeFails(u)
    BY <1>a, <2>7 DEF InvokeAnswers, InvokeFails
  <2>8. CASE SearchAnswers(u) \/ Synthesize(u)
    BY <1>a, <2>8 DEF SearchAnswers, Synthesize
  <2>9. CASE RouteFails(u) \/ RouteSucceeds(u)
    BY <1>a, <2>9 DEF RouteFails, RouteSucceeds
  <2>10. CASE Persist(u) \/ Cleanup(u)
    BY <1>a, <2>10 DEF Persist, Cleanup
  <2> QED
    BY <1>2, <2>1, <2>2, <2>3, <2>4, <2>5, <2>6, <2>7, <2>8, <2>9, <2>10
       DEF TurnStep
<1>3. ASSUME NEW t \in Turns \ {u}, TurnStep(t) PROVE HasShown(u)'
  BY <1>3, <1>b, TurnAdvances
<1>4. CASE Restart
  BY <1>4 DEF Restart, HasShown
<1>5. CASE UNCHANGED turnVars
  BY <1>5, <1>b DEF turnVars
<1> QED
  BY <1>1, <1>2, <1>3, <1>4, <1>5
     DEF Next, CreateConversation, DeleteConversation, PoolStep, vars

-----------------------------------------------------------------------------
(* The theorems.                                                           *)

\* The invariant the theorems rest on: what a factory, its calls and its map
\* know of each other, and which contexts a turn has at each stage.
THEOREM ChatInvariant == Spec => []ChatInv
BY ChatInit, ChatStep, PTL DEF Spec

\* The variables keep their shape, and no message outlives its conversation
\* (the foreign key of chat_messages).
THEOREM TypeCorrectness == Spec => []TypeOK
<1>1. ChatInv => TypeOK
  BY DEF ChatInv, PoolsInv, TypeOK
<1> QED
  BY <1>1, ChatInvariant, PTL

\* query_database runs its sub-agent on an open pool of its own turn: the
\* factory of a context is destroyed when none of its calls is running, and a
\* late pool is never handed out.
THEOREM QueriesKeepTheirPool == Spec => []QueriesHaveTheirPool
<1>1. ChatInv => QueriesHaveTheirPool
  BY DEF ChatInv, PoolsInv, CallsKnowPools, KnowsPool, QueriesHaveTheirPool
<1> QED
  BY <1>1, ChatInvariant, PTL

\* What is stored and shown, with the invariant of the contexts.
StoryInv == ChatInv /\ MessagesInPlace /\ Transcript /\ StagesHaveStored /\ StagesHaveShown

\* Every turn's messages are in its conversation at the stages that follow
\* them, and a stage that has been reached tells what is stored and shown.
THEOREM StoryInvariant == Spec => []StoryInv
<1>1. Init => StoryInv
  <2> SUFFICES ASSUME Init PROVE StoryInv
    OBVIOUS
  <2>1. MessagesInPlace /\ Transcript
    BY DEF Init, MessagesInPlace, Transcript
  <2>2. StagesHaveStored /\ StagesHaveShown
    BY DEF Init, StagesHaveStored, HasStored, Answering, StagesHaveShown, HasShown
  <2> QED
    BY <2>1, <2>2, ChatInit DEF StoryInv
<1>2. StoryInv /\ [Next]_vars => StoryInv'
  <2> SUFFICES ASSUME StoryInv, [Next]_vars PROVE StoryInv'
    OBVIOUS
  <2>1. ChatInv'
    BY ChatStep DEF StoryInv
  <2>2. MessagesInPlace' /\ Transcript'
    BY MessagesStayInPlace DEF StoryInv
  <2>3. StagesHaveStored' /\ StagesHaveShown'
    BY StagesKeepStored, StagesKeepShown DEF StoryInv, ChatInv
  <2> QED
    BY <2>1, <2>2, <2>3 DEF StoryInv
<1> QED
  BY <1>1, <1>2, PTL DEF Spec

\* chat_messages is a transcript, whatever turns, restarts and deletions
\* interleave: one question and at most one answer of a turn, in that order.
THEOREM ConversationsAreTranscripts == Spec => []Transcript
<1>1. StoryInv => Transcript
  BY DEF StoryInv
<1> QED
  BY <1>1, StoryInvariant, PTL

\* A response that ends well is in the database: its question, its answer and
\* a title of its conversation, unless the conversation was deleted.
THEOREM CompleteTurnsAreStored == Spec => []CompleteIsStored
<1>1. StoryInv => CompleteIsStored
  BY DEF StoryInv, StagesHaveStored, HasStored, CompleteIsStored
<1> QED
  BY <1>1, StoryInvariant, PTL

\* What the client of a streamed turn saw last is what is stored, whichever
\* of the agent, its fallback, the search or a route gave the answer.
THEOREM AnswersAreStreamed == Spec => []AnswerIsStreamed
<1>1. StoryInv => AnswerIsStreamed
  BY DEF StoryInv, StagesHaveShown, HasShown, AnswerIsStreamed
<1> QED
  BY <1>1, StoryInvariant, PTL

\* With one call at a time, a pool that is open is in the map of a live context.
OneCall == OneCallPerContext /\ NothingCached /\ OpenIsCached

\* ADR 0001, when the tool calls of a message run one after the other: every
\* open pool of a turn is closed when the turn's context is cleaned up.
THEOREM PoolsAreClosed ==
    ASSUME CallsAtOnce <= 1
    PROVE  Spec => []PoolsEndWithTheirTurn
<1>1. Init => OneCall
  BY DEF Init, PoolsInit, OneCall, OneCallPerContext, NothingCached, OpenIsCached
<1>2. ChatInv /\ OneCall /\ [Next]_vars => OneCall'
  BY NextUsesPools, CallsStayApart, NothingStaysCached, OpenStaysCached
     DEF ChatInv, OneCall
<1>3. ChatInv /\ OneCall => PoolsEndWithTheirTurn
  <2> SUFFICES ASSUME PoolsTypeOK, MapHoldsPools, OpenIsCached, NEW p \in Pools,
                      pool[p] # None, pool[p].state = "open"
               PROVE  Live(pool[p].ctx)
    BY DEF ChatInv, PoolsInv, OneCall, PoolsEndWithTheirTurn
  <2>1. /\ pool[p].ctx \in Contexts /\ pool[p].conn \in Connections
        /\ cached[pool[p].ctx][pool[p].conn] = p
    BY DEF PoolsTypeOK, OpenIsCached
  <2> QED
    BY <2>1, NoneAssumption DEF MapHoldsPools
<1> QED
  BY <1>1, <1>2, <1>3, ChatInvariant, PTL DEF Spec
=============================================================================
