----------------------- MODULE ConnectionPool_proofs -----------------------
(***************************************************************************)
(* For any number of clients and any sizes that check_pool_params()        *)
(* accepts, PoolInv is an inductive invariant of the connection pool.      *)
(***************************************************************************)
EXTENDS ConnectionPool, FiniteSetTheorems, TLAPS

IdleNodes    == {n \in Nodes : status[n] = "idle"}
PendingNodes == {n \in Nodes : IsPending(status[n])}
RunningNodes == {n \in Nodes : task[n] = "running"}
ComingNodes  == {n \in Nodes : task[n] = "posted" \/ IsPending(status[n])}
Requests     == Waiting \cup Woken

\* Every set the counters measure is finite.
LEMMA Finiteness ==
  /\ IsFiniteSet(Nodes)
  /\ \A S \in SUBSET Nodes : IsFiniteSet(S) /\ Cardinality(S) \in Nat
  /\ \A S \in SUBSET Clients : IsFiniteSet(S) /\ Cardinality(S) \in Nat
<1>1. IsFiniteSet(Nodes)
  BY FS_Interval, PoolParams DEF Nodes
<1>2. \A S \in SUBSET Nodes : IsFiniteSet(S) /\ Cardinality(S) \in Nat
  BY <1>1, FS_Subset, FS_CardinalityType
<1>3. \A S \in SUBSET Clients : IsFiniteSet(S) /\ Cardinality(S) \in Nat
  BY PoolParams, FS_Subset, FS_CardinalityType
<1> QED BY <1>1, <1>2, <1>3

\* Adding or removing one element changes the size by at most one.
LEMMA OneElement ==
  ASSUME NEW S, IsFiniteSet(S), NEW x
  PROVE  /\ x \notin S => Cardinality(S \cup {x}) = Cardinality(S) + 1
         /\ x \in S => Cardinality(S \ {x}) = Cardinality(S) - 1
         /\ Cardinality(S) \in Nat
         /\ x \in S => Cardinality(S) >= 1
<1>1. x \notin S => Cardinality(S \cup {x}) = Cardinality(S) + 1
  BY FS_AddElement
<1>2. x \in S => Cardinality(S \ {x}) = Cardinality(S) - 1
  BY FS_RemoveElement
<1>3. Cardinality(S) \in Nat
  BY FS_CardinalityType
<1>4. IsFiniteSet(S \ {x}) /\ Cardinality(S \ {x}) \in Nat
  BY FS_RemoveElement, FS_CardinalityType
<1> QED BY <1>1, <1>2, <1>3, <1>4

\* set_status() keeps the idle list and the count of pending connections exact.
LEMMA MoveToCounts ==
  ASSUME TypeOK, Bookkeeping, NEW n \in Nodes, NEW new \in NodeStatus, MoveTo(n, new)
  PROVE  /\ idleList' = IdleNodes' /\ idleList' \in SUBSET Nodes
         /\ status' \in [Nodes -> NodeStatus]
         /\ numPendConns' = Cardinality(PendingNodes') /\ numPendConns' \in Nat
<1>1. status' = [status EXCEPT ![n] = new] /\ status' \in [Nodes -> NodeStatus]
  BY DEF MoveTo, TypeOK
<1>2. idleList' = IdleNodes' /\ idleList' \in SUBSET Nodes
  BY <1>1 DEF MoveTo, IdleNodes, Bookkeeping, TypeOK
<1>3. IsFiniteSet(PendingNodes) /\ numPendConns = Cardinality(PendingNodes) /\ numPendConns \in Nat
  BY Finiteness DEF PendingNodes, Bookkeeping, TypeOK
<1>4. numPendConns' = Cardinality(PendingNodes')
  <2>1. CASE IsPending(new) /\ ~IsPending(status[n])
    <3>1. PendingNodes' = PendingNodes \cup {n} /\ n \notin PendingNodes
      BY <1>1, <2>1 DEF PendingNodes, TypeOK, IsPending
    <3> QED BY <3>1, <2>1, <1>3, OneElement DEF MoveTo, PendingDelta, IsPending
  <2>2. CASE ~IsPending(new) /\ IsPending(status[n])
    <3>1. PendingNodes' = PendingNodes \ {n} /\ n \in PendingNodes
      BY <1>1, <2>2 DEF PendingNodes, TypeOK, IsPending
    <3> QED BY <3>1, <2>2, <1>3, OneElement DEF MoveTo, PendingDelta, IsPending
  <2>3. CASE IsPending(new) <=> IsPending(status[n])
    <3>1. PendingNodes' = PendingNodes
      BY <1>1, <2>3 DEF PendingNodes, TypeOK, IsPending
    <3> QED BY <3>1, <2>3, <1>3, OneElement DEF MoveTo, PendingDelta, IsPending
  <2> QED BY <2>1, <2>2, <2>3
<1>5. numPendConns' \in Nat
  BY <1>4, Finiteness DEF PendingNodes
<1> QED BY <1>1, <1>2, <1>4, <1>5

\* Moving one client in or out of the two sets of unfinished requests.
LEMMA ClientMove ==
  ASSUME TypeOK, NEW c \in Clients, NEW pc \in {"out", "waiting", "woken", "holding"},
         clientPc' = [clientPc EXCEPT ![c] = pc]
  PROVE  /\ clientPc' \in [Clients -> {"out", "waiting", "woken", "holding"}]
         /\ Waiting' = IF pc = "waiting" THEN Waiting \cup {c} ELSE Waiting \ {c}
         /\ Woken' = IF pc = "woken" THEN Woken \cup {c} ELSE Woken \ {c}
BY DEF TypeOK, Waiting, Woken

\* cancel_one() moves one sleeping request, if there is any, to the woken ones.
LEMMA CancelOneEffect ==
  ASSUME TypeOK, CancelOne
  PROVE  /\ clientPc' \in [Clients -> {"out", "waiting", "woken", "holding"}]
         /\ \A c \in Clients : (clientPc'[c] = "holding") <=> (clientPc[c] = "holding")
         /\ Requests' = Requests
         /\ Waiting = {} => Waiting' = {} /\ Woken' = Woken
         /\ Waiting # {} => /\ Cardinality(Woken') = Cardinality(Woken) + 1
                            /\ Cardinality(Waiting') = Cardinality(Waiting) - 1
<1>1. CASE Waiting = {} /\ UNCHANGED clientPc
  BY <1>1 DEF TypeOK, Waiting, Woken, Requests
<1>2. ASSUME NEW c \in Waiting, clientPc' = [clientPc EXCEPT ![c] = "woken"]
      PROVE  /\ clientPc' \in [Clients -> {"out", "waiting", "woken", "holding"}]
             /\ \A d \in Clients : (clientPc'[d] = "holding") <=> (clientPc[d] = "holding")
             /\ Requests' = Requests
             /\ Cardinality(Woken') = Cardinality(Woken) + 1
             /\ Cardinality(Waiting') = Cardinality(Waiting) - 1
  <2>1. c \in Clients /\ clientPc[c] = "waiting" /\ c \notin Woken
    BY <1>2 DEF Waiting, Woken
  <2>2. Waiting' = Waiting \ {c} /\ Woken' = Woken \cup {c}
    BY <1>2, <2>1, ClientMove, ZenonT(30)
  <2>3. IsFiniteSet(Waiting) /\ IsFiniteSet(Woken)
    BY Finiteness DEF Waiting, Woken
  <2>4. Cardinality(Woken') = Cardinality(Woken) + 1
    BY <2>1, <2>2, <2>3, OneElement
  <2>5. Cardinality(Waiting') = Cardinality(Waiting) - 1
    BY <1>2, <2>2, <2>3, OneElement
  <2>6. Requests' = Requests
    BY <2>1, <2>2, <1>2 DEF Requests
  <2> QED BY <1>2, <2>1, <2>4, <2>5, <2>6 DEF TypeOK
<1> QED BY <1>1, <1>2 DEF CancelOne

\* A node task that changes its status keeps the books, and every connection it
\* makes idle wakes a request.
LEMMA NodeMove ==
  ASSUME PoolInv, NEW n \in Nodes, NEW new \in PendingStatus \cup {"idle"}, SetStatus(n, new),
         status[n] # "idle" \/ new # "idle",
         UNCHANGED <<numConns, needed, runPc, numPendReqs>>,
         \A m \in Nodes \ {n} : (task'[m] = "posted") <=> (task[m] = "posted"),
         task[n] = "posted" => new \in PendingStatus,
         task'[n] # "posted"
  PROVE  /\ idleList' = IdleNodes' /\ idleList' \in SUBSET Nodes
         /\ status' \in [Nodes -> NodeStatus]
         /\ numPendConns' = Cardinality(PendingNodes') /\ numPendConns' \in Nat
         /\ numPendReqs' = Cardinality(Requests')
         /\ clientPc' \in [Clients -> {"out", "waiting", "woken", "holding"}]
         /\ \A c \in Clients : (clientPc'[c] = "holding") <=> (clientPc[c] = "holding")
         /\ Waiting = {} => Waiting' = {}
         /\ NoLostWakeup'
         /\ DemandCovered'
<1> USE DEF PoolInv
<1>1. new \in NodeStatus
  BY DEF NodeStatus
<1>2. /\ idleList' = IdleNodes' /\ idleList' \in SUBSET Nodes
      /\ status' = [status EXCEPT ![n] = new]
      /\ status' \in [Nodes -> NodeStatus]
      /\ numPendConns' = Cardinality(PendingNodes') /\ numPendConns' \in Nat
  BY <1>1, MoveToCounts DEF SetStatus, MoveTo
<1>3. /\ IsFiniteSet(idleList) /\ IsFiniteSet(ComingNodes) /\ IsFiniteSet(Waiting)
      /\ IsFiniteSet(Woken)
      /\ Cardinality(idleList) \in Nat /\ Cardinality(ComingNodes) \in Nat
      /\ Cardinality(Waiting) \in Nat /\ Cardinality(Woken) \in Nat
      /\ IsFiniteSet(ComingNodes') /\ Cardinality(ComingNodes') \in Nat
      /\ Cardinality(idleList') \in Nat /\ Cardinality(Waiting') \in Nat
  <2>1. ComingNodes \in SUBSET Nodes /\ ComingNodes' \in SUBSET Nodes
    BY DEF ComingNodes
  <2>2. Waiting \in SUBSET Clients /\ Woken \in SUBSET Clients /\ Waiting' \in SUBSET Clients
    BY DEF Waiting, Woken
  <2> QED BY <1>2, <2>1, <2>2, Finiteness DEF TypeOK
<1>4. CASE new = "idle"
  <2>1. CancelOne /\ status[n] # "idle"
    BY <1>4 DEF SetStatus
  <2>2. n \notin idleList /\ idleList' = idleList \cup {n}
    BY <2>1, <1>4 DEF SetStatus, MoveTo, Bookkeeping
  <2>3. Cardinality(idleList') = Cardinality(idleList) + 1
    BY <2>2, <1>3, OneElement
  <2>4. NoLostWakeup'
    BY <2>1, <2>3, <1>3, CancelOneEffect DEF NoLostWakeup
  <2>5. ComingNodes \ {n} \subseteq ComingNodes'
    BY <1>2 DEF ComingNodes, TypeOK, IsPending
  <2>6. Cardinality(ComingNodes \ {n}) <= Cardinality(ComingNodes')
    BY <2>5, <1>3, FS_Subset
  <2>7. Cardinality(ComingNodes) - 1 <= Cardinality(ComingNodes')
    <3>1. CASE n \in ComingNodes
      BY <3>1, <2>6, <1>3, OneElement
    <3>2. CASE n \notin ComingNodes
      <4>1. ComingNodes \ {n} = ComingNodes
        BY <3>2
      <4>2. Cardinality(ComingNodes \ {n}) = Cardinality(ComingNodes)
        BY <4>1, Zenon
      <4> QED BY <4>2, <2>6, <1>3
    <3> QED BY <3>1, <3>2
  <2>8. DemandCovered'
    <3>1. CASE Waiting = {}
      <4>1. Cardinality(Waiting') = 0
        BY <3>1, <2>1, CancelOneEffect, FS_EmptySet
      <4> QED BY <4>1, <1>3 DEF DemandCovered, ComingNodes
    <3>2. CASE Waiting # {}
      BY <3>2, <2>1, <2>7, <1>3, CancelOneEffect DEF DemandCovered, ComingNodes
    <3> QED BY <3>1, <3>2
  <2>9. numPendReqs' = Cardinality(Requests')
    BY <2>1, CancelOneEffect DEF Bookkeeping, Requests
  <2> QED BY <1>2, <2>1, <2>4, <2>8, <2>9, CancelOneEffect
<1>5. CASE new # "idle"
  <2>1. clientPc' = clientPc /\ Waiting' = Waiting /\ Woken' = Woken /\ Requests' = Requests
    BY <1>5 DEF SetStatus, Waiting, Woken, Requests
  <2>2. idleList' \subseteq idleList
    BY <1>5 DEF SetStatus, MoveTo
  <2>3. NoLostWakeup'
    <3>1. Cardinality(idleList') <= Cardinality(idleList)
      BY <2>2, <1>3, FS_Subset
    <3> QED BY <3>1, <2>1, <1>3 DEF NoLostWakeup
  <2>4. ComingNodes \subseteq ComingNodes'
    BY <1>2, <1>5 DEF ComingNodes, TypeOK, IsPending
  <2>5. DemandCovered'
    <3>1. Cardinality(ComingNodes) <= Cardinality(ComingNodes')
      BY <2>4, <1>3, FS_Subset
    <3> QED BY <3>1, <2>1, <1>3 DEF DemandCovered, ComingNodes
  <2> QED BY <1>2, <2>1, <2>3, <2>5 DEF Bookkeeping, Requests, TypeOK
<1> QED BY <1>4, <1>5

\* The stop check counts the tasks that end, and signals the last one.
LEMMA CheckStopEffect ==
  ASSUME PoolInv, NEW n \in Nodes, task[n] = "running", CheckStop(n)
  PROVE  /\ task' \in [Nodes -> {"none", "posted", "running", "finished"}]
         /\ \A m \in Nodes \ {n} : task'[m] = task[m]
         /\ task'[n] \in {"running", "finished"}
         /\ numRunning' = Cardinality(RunningNodes') /\ numRunning' \in Nat
         /\ connsFinished' \in BOOLEAN
         /\ connsFinished' =>
              state = "cancelled" /\ \A m \in Nodes : task'[m] \in {"none", "finished"}
<1> USE DEF PoolInv
<1>1. IsFiniteSet(RunningNodes) /\ numRunning = Cardinality(RunningNodes) /\ numRunning \in Nat
  BY Finiteness DEF RunningNodes, Bookkeeping, TypeOK
<1>2. n \in RunningNodes
  BY DEF RunningNodes
<1>3. ~connsFinished
  BY DEF TaskLife
<1>4. CASE nodeStop[n]
  <2>1. task' = [task EXCEPT ![n] = "finished"]
    BY <1>4 DEF CheckStop
  <2>2. RunningNodes' = RunningNodes \ {n}
    BY <2>1 DEF RunningNodes, TypeOK
  <2>3. numRunning' = Cardinality(RunningNodes') /\ numRunning' \in Nat
    BY <1>1, <1>2, <1>4, <2>2, OneElement DEF CheckStop
  <2>4. connsFinished' = (numRunning = 1)
    BY <1>3, <1>4 DEF CheckStop, TypeOK
  <2>5. ASSUME numRunning = 1
        PROVE  state = "cancelled" /\ \A m \in Nodes : task'[m] \in {"none", "finished"}
    <3>1. IsFiniteSet(RunningNodes \ {n}) /\ Cardinality(RunningNodes \ {n}) = 0
      <4>1. IsFiniteSet(RunningNodes \ {n})
        BY <1>1, FS_RemoveElement
      <4>2. Cardinality(RunningNodes \ {n}) = Cardinality(RunningNodes) - 1
        BY <1>1, <1>2, OneElement
      <4> QED BY <4>1, <4>2, <1>1, <2>5
    <3>2. RunningNodes' = {}
      BY <3>1, <2>2, FS_EmptySet
    <3>3. state = "cancelled" /\ \A m \in Nodes : task[m] # "posted"
      BY <1>4 DEF TaskLife
    <3> QED BY <2>1, <3>2, <3>3 DEF RunningNodes, TypeOK
  <2> QED BY <2>1, <2>3, <2>4, <2>5 DEF TypeOK
<1>5. CASE ~nodeStop[n]
  <2>1. UNCHANGED <<task, numRunning, connsFinished>> /\ RunningNodes' = RunningNodes
    BY <1>5 DEF CheckStop, RunningNodes
  <2> QED BY <1>1, <1>3, <2>1 DEF TypeOK
<1> QED BY <1>4, <1>5

\* Steps that leave the connections and their owners alone preserve ownership,
\* and steps that leave the summaries and what they summarise alone preserve
\* the counts.
LEMMA OwnershipFrame ==
  ASSUME Collections, ExclusiveUse, NoLeak,
         UNCHANGED <<task, status, collection, collectionEv, held>>,
         \A c \in Clients : (clientPc'[c] = "holding") <=> (clientPc[c] = "holding")
  PROVE  Collections' /\ ExclusiveUse' /\ NoLeak'
<1>1. task' = task /\ status' = status /\ collection' = collection
      /\ collectionEv' = collectionEv /\ held' = held
  OBVIOUS
<1>2. Collections'
  <2>1. \A c \in Clients : (held'[c] # NoNode) <=> (clientPc'[c] = "holding")
    BY <1>1, Zenon DEF Collections
  <2>2. \A n \in Nodes : collectionEv'[n] <=> (collection'[n] # "none")
    BY <1>1, Zenon DEF Collections
  <2>3. \A n \in Nodes : collection'[n] # "none" =>
          status'[n] = "in_use" /\ \A c \in Clients : held'[c] # n
    BY <1>1, ZenonT(30) DEF Collections
  <2> QED BY <2>1, <2>2, <2>3, Zenon DEF Collections
<1>3. ExclusiveUse'
  BY <1>1, SMTT(30) DEF ExclusiveUse
<1>4. NoLeak'
  BY <1>1, Zenon DEF NoLeak
<1> QED BY <1>2, <1>3, <1>4

LEMMA CountsFrame ==
  ASSUME Bookkeeping, NoLostWakeup, DemandCovered,
         UNCHANGED <<needed, numConns, task, status, idleList>>,
         UNCHANGED <<numPendConns, numPendReqs, numRunning>>,
         runPc' = "waiting" => runPc = "waiting",
         Waiting' = Waiting, Woken' = Woken
  PROVE  Bookkeeping' /\ NoLostWakeup' /\ DemandCovered'
<1>1. needed' = needed /\ numConns' = numConns /\ task' = task /\ status' = status
      /\ idleList' = idleList /\ numPendConns' = numPendConns
      /\ numPendReqs' = numPendReqs /\ numRunning' = numRunning
  OBVIOUS
<1>2. Bookkeeping'
  BY <1>1, Zenon DEF Bookkeeping
<1>3. NoLostWakeup'
  BY <1>1, Zenon DEF NoLostWakeup
<1>4. DemandCovered'
  <2>1. ComingNodes' = ComingNodes
    BY <1>1, Zenon DEF ComingNodes
  <2>2. SUFFICES ASSUME runPc' = "waiting", ~needed', numConns' < MaxSize
                 PROVE  Cardinality(Waiting') <= Cardinality(ComingNodes')
    BY Zenon DEF DemandCovered, ComingNodes
  <2>3. runPc = "waiting" /\ ~needed /\ numConns < MaxSize
    BY <1>1, <2>2, SMT
  <2>4. Cardinality(Waiting) <= Cardinality(ComingNodes)
    BY <2>3, Zenon DEF DemandCovered, ComingNodes
  <2> QED BY <2>1, <2>4, Zenon
<1> QED BY <1>2, <1>3, <1>4

LEMMA InitInv == Init => PoolInv
<1> SUFFICES ASSUME Init PROVE PoolInv
  OBVIOUS
<1> USE DEF Init
<1>1. /\ IdleNodes = {} /\ PendingNodes = {} /\ RunningNodes = {}
      /\ Waiting = {} /\ Woken = {}
  BY DEF IdleNodes, PendingNodes, RunningNodes, Waiting, Woken, IsPending, PendingStatus
<1>2. TypeOK
  <2>1. numConns \in 0..MaxSize
    BY PoolParams
  <2>2. status \in [Nodes -> NodeStatus]
    BY DEF NodeStatus
  <2>3. runStop \in BOOLEAN /\ needed \in BOOLEAN /\ connsFinished \in BOOLEAN
    BY Zenon
  <2>4. nodeStop \in [Nodes -> BOOLEAN] /\ collectionEv \in [Nodes -> BOOLEAN]
    BY Zenon
  <2>5. clientStop \in [Clients -> BOOLEAN] /\ held \in [Clients -> Nodes \cup {NoNode}]
    BY Zenon
  <2> QED BY <2>1, <2>2, <2>3, <2>4, <2>5 DEF TypeOK
<1>3. Bookkeeping
  BY SMTT(30), <1>1, FS_EmptySet DEF Bookkeeping, IdleNodes, PendingNodes, RunningNodes
<1>4. TaskLife
  BY <1>1 DEF TaskLife, Nodes
<1>5. Collections /\ ExclusiveUse /\ NoLeak
  BY DEF Collections, ExclusiveUse, NoLeak
<1>6. NoLostWakeup /\ DemandCovered
  BY <1>1 DEF NoLostWakeup, DemandCovered
<1> QED BY <1>2, <1>3, <1>4, <1>5, <1>6 DEF PoolInv

\* The tasks of the nodes.
LEMMA NodeStartInv ==
  ASSUME PoolInv, NEW n \in Nodes, NodeStart(n)
  PROVE  PoolInv'
<1> USE DEF PoolInv
<1>1. /\ task[n] = "posted" /\ task' = [task EXCEPT ![n] = "running"]
      /\ SetStatus(n, "connect_in_progress") /\ status[n] = "initial"
      /\ status' = [status EXCEPT ![n] = "connect_in_progress"]
  BY DEF NodeStart, TaskLife, SetStatus, MoveTo
<1>2. /\ idleList' = IdleNodes' /\ idleList' \in SUBSET Nodes
      /\ status' \in [Nodes -> NodeStatus]
      /\ numPendConns' = Cardinality(PendingNodes') /\ numPendConns' \in Nat
      /\ numPendReqs' = Cardinality(Requests')
      /\ NoLostWakeup' /\ DemandCovered'
  <2>1. "connect_in_progress" \in PendingStatus \cup {"idle"} /\ "connect_in_progress" \in PendingStatus
    BY DEF PendingStatus
  <2>2. task'[n] # "posted" /\ \A m \in Nodes \ {n} : (task'[m] = "posted") <=> (task[m] = "posted")
    BY <1>1 DEF TypeOK
  <2>3. UNCHANGED <<numConns, needed, runPc, numPendReqs>>
    BY DEF NodeStart, runVars
  <2> QED BY <1>1, <2>1, <2>2, <2>3, NodeMove
<1>3. clientPc' = clientPc /\ Waiting' = Waiting
  BY <1>1 DEF SetStatus, Waiting
<1>4. numRunning' = Cardinality(RunningNodes') /\ numRunning' \in Nat
  <2>1. RunningNodes' = RunningNodes \cup {n} /\ n \notin RunningNodes
    BY <1>1 DEF RunningNodes, TypeOK
  <2>2. IsFiniteSet(RunningNodes) /\ numRunning = Cardinality(RunningNodes)
    BY Finiteness DEF RunningNodes, Bookkeeping
  <2> QED BY <2>1, <2>2, OneElement DEF NodeStart
<1>5. TypeOK'
  BY SMTT(30), <1>1, <1>2, <1>3, <1>4 DEF TypeOK, NodeStart, runVars, colVars
<1>6. Bookkeeping'
  BY <1>2, <1>4 DEF Bookkeeping, IdleNodes, PendingNodes, Requests, RunningNodes
<1>7. TaskLife'
  BY <1>1, <1>3 DEF TaskLife, NodeStart, runVars, TypeOK, Drained
<1>8. Collections' /\ ExclusiveUse' /\ NoLeak'
  BY <1>1, <1>3 DEF Collections, ExclusiveUse, NoLeak, NodeStart, colVars, TypeOK
<1> QED BY <1>2, <1>5, <1>6, <1>7, <1>8

\* A running task that moves to another status, or stays where it is, and then
\* checks its stop token.
LEMMA NodeStep ==
  ASSUME PoolInv, NEW n \in Nodes, task[n] = "running", CheckStop(n), NodeUnchanged,
         NEW new \in PendingStatus \cup {"idle"}, SetStatus(n, new),
         status[n] # "idle" \/ new # "idle"
  PROVE  /\ TaskLife' /\ Bookkeeping' /\ NoLostWakeup' /\ DemandCovered'
         /\ status' = [status EXCEPT ![n] = new] /\ held' = held
         /\ \A c \in Clients : (clientPc'[c] = "holding") <=> (clientPc[c] = "holding")
         /\ \A m \in Nodes \ {n} : task'[m] = task[m]
         /\ colVars' \in [Nodes -> {"none", "needs_collect", "needs_collect_with_reset"}]
                         \X [Nodes -> BOOLEAN] => TypeOK'
<1> USE DEF PoolInv
<1>1. /\ task' \in [Nodes -> {"none", "posted", "running", "finished"}]
      /\ \A m \in Nodes \ {n} : task'[m] = task[m]
      /\ task'[n] \in {"running", "finished"}
      /\ numRunning' = Cardinality(RunningNodes') /\ numRunning' \in Nat
      /\ connsFinished' \in BOOLEAN
      /\ connsFinished' =>
           state = "cancelled" /\ \A m \in Nodes : task'[m] \in {"none", "finished"}
  BY CheckStopEffect
<1>2. /\ idleList' = IdleNodes' /\ idleList' \in SUBSET Nodes
      /\ status' \in [Nodes -> NodeStatus]
      /\ numPendConns' = Cardinality(PendingNodes') /\ numPendConns' \in Nat
      /\ numPendReqs' = Cardinality(Requests')
      /\ clientPc' \in [Clients -> {"out", "waiting", "woken", "holding"}]
      /\ \A c \in Clients : (clientPc'[c] = "holding") <=> (clientPc[c] = "holding")
      /\ Waiting = {} => Waiting' = {}
      /\ NoLostWakeup' /\ DemandCovered'
  <2>1. UNCHANGED <<numConns, needed, runPc, numPendReqs>>
    BY DEF NodeUnchanged, runVars
  <2>2. /\ task'[n] # "posted" /\ task[n] # "posted"
        /\ \A m \in Nodes \ {n} : (task'[m] = "posted") <=> (task[m] = "posted")
    BY <1>1
  <2> QED BY <2>1, <2>2, NodeMove
<1>3. status' = [status EXCEPT ![n] = new]
  BY DEF SetStatus, MoveTo
<1>4. UNCHANGED <<state, runPc, runStop, needed, numConns, nodeStop, clientStop, held, numPendReqs>>
  BY DEF NodeUnchanged, runVars
<1>5. TaskLife'
  <2>1. \A m \in Nodes : (task'[m] = "none") <=> (m > numConns')
    BY <1>1, <1>4 DEF TaskLife
  <2>2. \A m \in Nodes : task'[m] \in {"none", "posted"} => status'[m] = "initial"
    BY <1>1, <1>3 DEF TaskLife, TypeOK
  <2>3. \A m \in Nodes : nodeStop'[m] =>
          state' = "cancelled" /\ \A k \in Nodes : task'[k] # "posted"
    BY <1>1, <1>4 DEF TaskLife
  <2>4. runPc' = "done" => Drained'
    BY <1>4 DEF TaskLife, Drained, CheckStop
  <2> QED BY <1>1, <1>2, <1>4, <2>1, <2>2, <2>3, <2>4 DEF TaskLife
<1>6. Bookkeeping'
  BY <1>1, <1>2, SMTT(30) DEF Bookkeeping, IdleNodes, PendingNodes, Requests, RunningNodes
<1>7. ASSUME colVars' \in [Nodes -> {"none", "needs_collect", "needs_collect_with_reset"}]
                          \X [Nodes -> BOOLEAN]
      PROVE  TypeOK'
  BY <1>1, <1>2, <1>4, <1>7 DEF TypeOK, colVars
<1> QED BY <1>1, <1>2, <1>3, <1>4, <1>5, <1>6, <1>7

LEMMA NodeIoDoneInv ==
  ASSUME PoolInv, NEW n \in Nodes, NEW ok \in BOOLEAN, NodeIoDone(n, ok)
  PROVE  PoolInv'
<1> USE DEF PoolInv
<1>1. PICK new \in PendingStatus \cup {"idle"} : SetStatus(n, new)
  BY DEF NodeIoDone, PendingStatus
<1>2. status[n] \in PendingStatus
  BY DEF NodeIoDone, PendingStatus
<1>3. status[n] # "idle" /\ status[n] # "in_use"
  BY <1>2 DEF PendingStatus
<1>4. /\ TaskLife' /\ Bookkeeping' /\ NoLostWakeup' /\ DemandCovered' /\ TypeOK'
      /\ status' = [status EXCEPT ![n] = new] /\ held' = held
      /\ \A c \in Clients : (clientPc'[c] = "holding") <=> (clientPc[c] = "holding")
      /\ \A m \in Nodes \ {n} : task'[m] = task[m]
  <2>1. colVars' \in [Nodes -> {"none", "needs_collect", "needs_collect_with_reset"}]
                     \X [Nodes -> BOOLEAN]
    BY DEF NodeIoDone, TypeOK, colVars
  <2>2. task[n] = "running" /\ CheckStop(n) /\ NodeUnchanged
    BY DEF NodeIoDone
  <2> QED BY <1>1, <1>3, <2>1, <2>2, NodeStep
<1>5. UNCHANGED <<collection, collectionEv>>
  BY DEF NodeIoDone, colVars
<1>6. new # "in_use"
  BY SMTT(30) DEF PendingStatus
<1>7. Collections'
  BY <1>3, <1>4, <1>5, SMTT(30) DEF Collections, TypeOK
<1>8. ExclusiveUse'
  BY <1>3, <1>4, <1>5, SMTT(30) DEF ExclusiveUse, TypeOK
<1>9. NoLeak'
  BY <1>3, <1>4, <1>5, <1>6 DEF NoLeak, TypeOK
<1> QED BY <1>4, <1>7, <1>8, <1>9

LEMMA NodeIdleWaitDoneInv ==
  ASSUME PoolInv, NEW n \in Nodes, NodeIdleWaitDone(n)
  PROVE  PoolInv'
<1> USE DEF PoolInv
<1>1. task[n] = "running" /\ CheckStop(n) /\ NodeUnchanged /\ status[n] \in {"idle", "in_use"}
  BY SMTT(30) DEF NodeIdleWaitDone
<1>2. /\ collection' = [collection EXCEPT ![n] = "none"]
      /\ collectionEv' = [collectionEv EXCEPT ![n] = FALSE]
  BY DEF NodeIdleWaitDone, ConsumeCollection
<1>3. colVars' \in [Nodes -> {"none", "needs_collect", "needs_collect_with_reset"}]
                   \X [Nodes -> BOOLEAN]
  BY <1>2, ZenonT(30) DEF TypeOK, colVars
<1>4. ASSUME NEW new \in PendingStatus \cup {"idle"}, SetStatus(n, new),
             status[n] = "idle" => new # "idle",
             status[n] = "in_use" => collection[n] # "none"
      PROVE  PoolInv'
  <2>1. /\ TaskLife' /\ Bookkeeping' /\ NoLostWakeup' /\ DemandCovered' /\ TypeOK'
        /\ status' = [status EXCEPT ![n] = new] /\ held' = held
        /\ \A c \in Clients : (clientPc'[c] = "holding") <=> (clientPc[c] = "holding")
        /\ \A m \in Nodes \ {n} : task'[m] = task[m]
    <3>1. status[n] # "idle" \/ new # "idle"
      BY <1>4
    <3>2. SetStatus(n, new)
      BY <1>4, SMTT(30)
    <3> QED BY <1>1, <1>3, <3>1, <3>2, NodeStep
  <2>2. \A c \in Clients : held[c] # n
    BY <1>1, <1>4, PoolParams DEF Collections, ExclusiveUse
  <2>3. new # "in_use"
    BY SMTT(30) DEF PendingStatus
  <2>4. Collections'
    BY <1>2, <2>1, <2>2, SMTT(30) DEF Collections, TypeOK
  <2>5. ExclusiveUse'
    BY <1>2, <2>1, <2>2, SMTT(30) DEF ExclusiveUse, TypeOK
  <2>6. NoLeak'
    BY <1>2, <2>1, <2>2, <2>3 DEF NoLeak, TypeOK
  <2> QED BY <2>1, <2>4, <2>5, <2>6
<1>5. ASSUME status[n] = "in_use", collection[n] = "none", UNCHANGED <<nodeVars, clientPc>>
      PROVE  PoolInv'
  <2>1. UNCHANGED <<state, runPc, runStop, needed, numConns, nodeStop, clientStop, held,
                    numPendReqs, status, idleList, numPendConns, clientPc>>
    BY <1>1, <1>5 DEF NodeUnchanged, runVars, nodeVars
  <2>2. Waiting' = Waiting /\ Woken' = Woken
    BY <2>1 DEF Waiting, Woken
  <2>3. /\ task' \in [Nodes -> {"none", "posted", "running", "finished"}]
        /\ \A m \in Nodes \ {n} : task'[m] = task[m]
        /\ task'[n] \in {"running", "finished"}
        /\ numRunning' = Cardinality(RunningNodes') /\ numRunning' \in Nat
        /\ connsFinished' \in BOOLEAN
        /\ connsFinished' =>
             state = "cancelled" /\ \A m \in Nodes : task'[m] \in {"none", "finished"}
    BY <1>1, CheckStopEffect, SMTT(30)
  <2>4. TypeOK'
    BY <1>3, <2>1, <2>3, SMTT(30) DEF TypeOK, colVars
  <2>5. Bookkeeping'
    BY <2>1, <2>2, <2>3 DEF Bookkeeping, RunningNodes
  <2>6. TaskLife'
    <3>1. runPc' = "done" => Drained'
      BY <1>1, <2>1 DEF TaskLife, Drained, CheckStop
    <3> QED BY <1>1, <2>1, <2>2, <2>3, <3>1 DEF TaskLife
  <2>7. Collections' /\ ExclusiveUse'
    BY <1>2, <2>1, SMTT(30) DEF Collections, ExclusiveUse, TypeOK
  <2>8. NoLeak'
    <3>1. \A m \in Nodes : task[m] = "finished" => task'[m] = "finished"
      BY <1>1, <2>3
    <3>2. ~collectionEv[n]
      BY <1>5 DEF Collections
    <3>3. \A m \in Nodes : collectionEv[m] => m # n /\ collectionEv'[m] /\ collection'[m] = collection[m]
      BY <1>2, <3>2 DEF TypeOK
    <3> QED BY <2>1, <3>1, <3>3 DEF NoLeak
  <2>9. NoLostWakeup' /\ DemandCovered'
    <3>1. ComingNodes' = ComingNodes
      BY <1>1, <2>1, <2>3, SMTT(30) DEF ComingNodes
    <3> QED BY <2>1, <2>2, <3>1 DEF NoLostWakeup, DemandCovered, ComingNodes
  <2> QED BY <2>4, <2>5, <2>6, <2>7, <2>8, <2>9
<1>6. \/ \E new \in PendingStatus \cup {"idle"} :
           /\ SetStatus(n, new)
           /\ status[n] = "idle" => new # "idle"
           /\ status[n] = "in_use" => collection[n] # "none"
      \/ status[n] = "in_use" /\ collection[n] = "none" /\ UNCHANGED <<nodeVars, clientPc>>
  BY DEF NodeIdleWaitDone, PendingStatus
<1> QED BY <1>4, <1>5, <1>6, SMTT(30)

LEMMA NodeStopRequestedInv ==
  ASSUME PoolInv, NEW n \in Nodes, NodeStopRequested(n)
  PROVE  PoolInv'
<1> USE DEF PoolInv
<1>1. /\ state = "cancelled" /\ \A m \in Nodes : task[m] # "posted"
      /\ nodeStop' = [nodeStop EXCEPT ![n] = TRUE]
      /\ UNCHANGED <<state, runPc, runStop, needed, numConns, task, numRunning, connsFinished>>
      /\ UNCHANGED <<status, idleList, numPendConns, collection, collectionEv>>
      /\ UNCHANGED <<clientPc, clientStop, held, numPendReqs>>
  BY DEF NodeStopRequested, runVars, nodeVars, colVars, clientVars
<1>2. Waiting' = Waiting /\ Woken' = Woken
  BY <1>1 DEF Waiting, Woken
<1>3. TypeOK'
  BY <1>1 DEF TypeOK
<1>4. TaskLife'
  BY <1>1, <1>2 DEF TaskLife, Drained
<1>5. Collections' /\ ExclusiveUse' /\ NoLeak'
  BY <1>1, OwnershipFrame
<1>6. Bookkeeping' /\ NoLostWakeup' /\ DemandCovered'
  BY <1>1, <1>2, CountsFrame
<1> QED BY <1>3, <1>4, <1>5, <1>6

\* create_connections() covers the requests: unless the pool is full, the new
\* connections and the pending ones are at least as many as the requests.
LEMMA CreateConnectionsEffect ==
  ASSUME PoolInv, CreateConnections, ~connsFinished,
         UNCHANGED <<status, clientPc, numPendReqs>>, \A m \in Nodes : ~nodeStop[m]
  PROVE  /\ numConns' \in 0..MaxSize
         /\ task' \in [Nodes -> {"none", "posted", "running", "finished"}]
         /\ \A m \in Nodes : task[m] # "none" => task'[m] = task[m]
         /\ \A m \in Nodes : task[m] = "none" => task'[m] \in {"none", "posted"}
         /\ \A m \in Nodes : (task'[m] = "none") <=> (m > numConns')
         /\ numConns' < MaxSize => Cardinality(Waiting') <= Cardinality(ComingNodes')
<1> USE DEF PoolInv
<1> DEFINE n   == NumConnectionsToCreate(numConns, numPendConns, numPendReqs)
           New == (numConns + 1)..(numConns + n)
<1>1. n \in Nat /\ numConns + n <= MaxSize /\ numConns \in Nat /\ MaxSize \in Nat
  BY PoolParams DEF NumConnectionsToCreate, TypeOK
<1>2. numConns + n < MaxSize => numPendReqs <= numPendConns + n
  BY PoolParams DEF NumConnectionsToCreate, TypeOK
<1>3. /\ numConns' = numConns + n
      /\ task' = [m \in Nodes |-> IF m \in New THEN "posted" ELSE task[m]]
  BY DEF CreateConnections
<1> HIDE DEF n
<1>4. New \subseteq Nodes /\ \A m \in New : task[m] = "none"
  BY <1>1 DEF Nodes, TaskLife
<1>5. ASSUME numConns' < MaxSize
      PROVE  Cardinality(Waiting') <= Cardinality(ComingNodes')
  <2>1. PendingNodes \cap New = {}
    BY <1>4 DEF PendingNodes, TaskLife, IsPending, PendingStatus
  <2>2. /\ IsFiniteSet(PendingNodes) /\ IsFiniteSet(New) /\ IsFiniteSet(ComingNodes')
        /\ Cardinality(PendingNodes) \in Nat /\ Cardinality(ComingNodes') \in Nat
    <3>1. PendingNodes \in SUBSET Nodes /\ ComingNodes' \in SUBSET Nodes
      BY DEF PendingNodes, ComingNodes
    <3> QED BY <1>4, <3>1, Finiteness, ZenonT(30)
  <2>3. Cardinality(New) = n
    <3>1. numConns + 1 \in Int /\ numConns + n \in Int
      BY <1>1
    <3>2. Cardinality(New) = IF numConns + 1 > numConns + n THEN 0
                             ELSE (numConns + n) - (numConns + 1) + 1
      BY SMTT(30), <3>1, FS_Interval
    <3> QED BY <3>2, <1>1
  <2>4. Cardinality(PendingNodes \cup New) = numPendConns + n
    <3>1. Cardinality(PendingNodes \cap New) = 0
      BY <2>1, FS_EmptySet, ZenonT(30)
    <3>2. Cardinality(PendingNodes \cup New) =
            Cardinality(PendingNodes) + Cardinality(New) - Cardinality(PendingNodes \cap New)
      BY <2>2, FS_Union, ZenonT(30)
    <3> QED BY <3>1, <3>2, <2>2, <2>3, <1>1 DEF Bookkeeping, PendingNodes
  <2>5. PendingNodes \cup New \subseteq ComingNodes'
    BY <1>3, <1>4 DEF PendingNodes, ComingNodes, IsPending
  <2>6. numPendConns + n <= Cardinality(ComingNodes')
    BY <2>2, <2>4, <2>5, FS_Subset
  <2>7. Cardinality(Waiting') <= numPendReqs /\ Cardinality(Waiting') \in Nat
    <3>1. Waiting' = Waiting /\ Waiting \subseteq Requests /\ Requests \in SUBSET Clients
      BY DEF Waiting, Woken, Requests
    <3>2. IsFiniteSet(Requests) /\ Cardinality(Requests) = numPendReqs
      BY <3>1, Finiteness DEF Bookkeeping, Requests
    <3> QED BY <3>1, <3>2, FS_Subset, FS_CardinalityType
  <2> QED BY <1>1, <1>2, <1>3, <1>5, <2>2, <2>6, <2>7 DEF TypeOK
<1>6. \A m \in Nodes : (task'[m] = "none") <=> (m > numConns')
  BY <1>1, <1>3 DEF TaskLife, Nodes
<1> QED BY SMTT(30), <1>1, <1>3, <1>4, <1>5, <1>6 DEF TypeOK

\* The two steps of run() that create connections differ only in what they do
\* to state_ and connections_needed_.
LEMMA RunCreates ==
  ASSUME PoolInv, CreateConnections, state # "cancelled",
         runPc' = "waiting", state' # "cancelled",
         state' \in {"initial", "running", "cancelled"}, needed' \in BOOLEAN,
         UNCHANGED <<runStop, nodeStop, numRunning, connsFinished>>,
         UNCHANGED <<nodeVars, colVars, clientVars>>
  PROVE  PoolInv'
<1> USE DEF PoolInv
<1>1. UNCHANGED <<status, idleList, numPendConns, collection, collectionEv, clientPc, clientStop,
                  held, numPendReqs>>
  BY DEF nodeVars, colVars, clientVars
<1>2. Waiting' = Waiting /\ Woken' = Woken
  BY <1>1 DEF Waiting, Woken
<1>3. ~connsFinished /\ \A m \in Nodes : ~nodeStop[m]
  BY DEF TaskLife
<1>4. /\ numConns' \in 0..MaxSize
      /\ task' \in [Nodes -> {"none", "posted", "running", "finished"}]
      /\ \A m \in Nodes : task[m] # "none" => task'[m] = task[m]
      /\ \A m \in Nodes : task[m] = "none" => task'[m] \in {"none", "posted"}
      /\ \A m \in Nodes : (task'[m] = "none") <=> (m > numConns')
      /\ numConns' < MaxSize => Cardinality(Waiting') <= Cardinality(ComingNodes')
  BY <1>1, <1>3, CreateConnectionsEffect
<1>5. TypeOK'
  BY SMTT(30), <1>1, <1>4 DEF TypeOK
<1>6. TaskLife'
  <2>1. \A m \in Nodes : task'[m] \in {"none", "posted"} => status'[m] = "initial"
    BY <1>1, <1>4 DEF TaskLife
  <2> QED BY <1>1, <1>3, <1>4, <2>1 DEF TaskLife
<1>7. Collections' /\ ExclusiveUse'
  BY <1>1 DEF Collections, ExclusiveUse
<1>8. NoLeak'
  BY <1>1, <1>4, SMTT(30) DEF NoLeak
<1>9. Bookkeeping'
  <2>1. RunningNodes' = RunningNodes
    BY <1>4 DEF RunningNodes
  <2> QED BY <1>1, <1>2, <2>1 DEF Bookkeeping, RunningNodes
<1>10. NoLostWakeup' /\ DemandCovered'
  BY <1>1, <1>2, <1>4 DEF NoLostWakeup, DemandCovered, ComingNodes
<1> QED BY <1>5, <1>6, <1>7, <1>8, <1>9, <1>10

LEMMA RunCancelInv == PoolInv /\ RunCancel => PoolInv'
<1> SUFFICES ASSUME PoolInv, RunCancel PROVE PoolInv'
  OBVIOUS
<1> USE DEF PoolInv
<1>1. /\ state' = "cancelled" /\ runPc' = "draining"
      /\ clientPc' = [c \in Clients |-> IF c \in Waiting THEN "woken" ELSE clientPc[c]]
      /\ UNCHANGED <<runStop, needed, numConns, task, nodeStop, numRunning, connsFinished>>
      /\ UNCHANGED <<status, idleList, numPendConns, collection, collectionEv>>
      /\ UNCHANGED <<clientStop, held, numPendReqs>>
  BY DEF RunCancel, taskVars, nodeVars, colVars
<1>2. Waiting' = {} /\ Requests' = Requests
  BY <1>1 DEF Waiting, Woken, Requests, TypeOK
<1>3. TypeOK'
  BY <1>1 DEF TypeOK, Waiting
<1>4. TaskLife'
  BY <1>1, <1>2, SMTT(30) DEF TaskLife
<1>5. Collections' /\ ExclusiveUse' /\ NoLeak'
  <2>1. \A c \in Clients : (clientPc'[c] = "holding") <=> (clientPc[c] = "holding")
    BY <1>1, SMTT(30) DEF Waiting
  <2> QED BY <1>1, <2>1, OwnershipFrame
<1>6. Bookkeeping' /\ NoLostWakeup' /\ DemandCovered'
  BY SMTT(30), <1>1, <1>2 DEF Bookkeeping, NoLostWakeup, DemandCovered, Requests
<1> QED BY <1>3, <1>4, <1>5, <1>6

\* The end of run() and the request to stop it change only runPc and runStop.
LEMMA RunEndsInv == PoolInv /\ (RunFinish \/ StopRun) => PoolInv'
<1> SUFFICES ASSUME PoolInv, RunFinish \/ StopRun PROVE PoolInv'
  OBVIOUS
<1> USE DEF PoolInv
<1>1. /\ UNCHANGED <<state, needed, numConns, task, nodeStop, numRunning, connsFinished>>
      /\ UNCHANGED <<status, idleList, numPendConns, collection, collectionEv>>
      /\ UNCHANGED <<clientPc, clientStop, held, numPendReqs>>
      /\ runStop' \in BOOLEAN
      /\ \/ runPc' = runPc
         \/ runPc = "draining" /\ runPc' = "done" /\ Drained
  BY ZenonT(30) DEF RunFinish, StopRun, taskVars, nodeVars, colVars, clientVars, TypeOK
<1>2. Waiting' = Waiting /\ Woken' = Woken /\ (Drained' <=> Drained)
  BY <1>1 DEF Waiting, Woken, Drained
<1>3. TypeOK'
  BY <1>1 DEF TypeOK
<1>4. TaskLife'
  BY <1>1, <1>2 DEF TaskLife
<1>5. Collections' /\ ExclusiveUse' /\ NoLeak'
  BY <1>1, OwnershipFrame
<1>6. Bookkeeping' /\ NoLostWakeup' /\ DemandCovered'
  BY <1>1, <1>2, CountsFrame
<1> QED BY <1>3, <1>4, <1>5, <1>6

\* Taking an idle connection: one idle node less, and one request less among the
\* woken ones if the client was one of them.
LEMMA TakeInv ==
  ASSUME PoolInv, NEW c \in Clients, NEW n \in Nodes, Take(c, n), ClientUnchanged,
         UNCHANGED <<needed, clientStop>>,
         \/ clientPc[c] = "out" /\ numPendReqs' = numPendReqs
         \/ clientPc[c] = "woken" /\ numPendReqs' = numPendReqs - 1
  PROVE  PoolInv'
<1> USE DEF PoolInv
<1>1. /\ n \in idleList /\ status[n] = "idle" /\ MoveTo(n, "in_use")
      /\ status' = [status EXCEPT ![n] = "in_use"] /\ idleList' = idleList \ {n}
      /\ held' = [held EXCEPT ![c] = n] /\ clientPc' = [clientPc EXCEPT ![c] = "holding"]
  BY DEF Take, MoveTo, Bookkeeping
<1>2. /\ idleList' = IdleNodes' /\ idleList' \in SUBSET Nodes
      /\ status' \in [Nodes -> NodeStatus]
      /\ numPendConns' = Cardinality(PendingNodes') /\ numPendConns' \in Nat
  <2>1. "in_use" \in NodeStatus
    BY DEF NodeStatus
  <2> QED BY <1>1, <2>1, MoveToCounts
<1>3. /\ clientPc' \in [Clients -> {"out", "waiting", "woken", "holding"}]
      /\ Waiting' = Waiting \ {c} /\ Woken' = Woken \ {c}
      /\ Waiting' = Waiting
  BY <1>1, ClientMove, ZenonT(30) DEF Waiting
<1>4. UNCHANGED <<state, runPc, runStop, numConns, task, nodeStop, numRunning, connsFinished,
                  collection, collectionEv>>
  BY SMTT(30) DEF ClientUnchanged, taskVars, colVars
<1>5. /\ Requests \in SUBSET Clients /\ IsFiniteSet(Requests) /\ Cardinality(Requests) \in Nat
      /\ numPendReqs = Cardinality(Requests)
      /\ IsFiniteSet(Woken) /\ Cardinality(Woken) \in Nat
      /\ IsFiniteSet(idleList) /\ Cardinality(idleList) \in Nat
      /\ Cardinality(idleList \ {n}) = Cardinality(idleList) - 1
  <2>1. Requests \in SUBSET Clients /\ Woken \in SUBSET Clients
    BY DEF Requests, Waiting, Woken
  <2>2. IsFiniteSet(idleList) /\ Cardinality(idleList) \in Nat
    BY Finiteness DEF TypeOK
  <2>3. Cardinality(idleList \ {n}) = Cardinality(idleList) - 1
    BY <1>1, <2>2, OneElement
  <2> QED BY <2>1, <2>2, <2>3, Finiteness DEF Bookkeeping, Requests
<1>6. numPendReqs' = Cardinality(Requests') /\ NoLostWakeup'
  <2>1. CASE clientPc[c] = "out" /\ numPendReqs' = numPendReqs
    <3>1. Woken' = Woken /\ Requests' = Requests
      BY <2>1, <1>3 DEF Woken, Requests
    <3>2. Cardinality(idleList') = Cardinality(idleList) - 1 /\ Waiting' = Waiting
      BY <1>1, <1>3, <1>5
    <3>3. Cardinality(Woken') = Cardinality(Woken) /\ Cardinality(Requests') = Cardinality(Requests)
      BY SMTT(30), <3>1
    <3>4. NoLostWakeup'
      BY <1>5, <3>2, <3>3 DEF NoLostWakeup
    <3> QED BY <1>5, <2>1, <3>3, <3>4
  <2>2. CASE clientPc[c] = "woken" /\ numPendReqs' = numPendReqs - 1
    <3>1. c \in Woken /\ c \in Requests /\ Requests' = Requests \ {c}
      BY SMTT(30), <2>2, <1>3 DEF Woken, Waiting, Requests
    <3>2. Cardinality(Requests') = Cardinality(Requests) - 1
      BY <3>1, <1>5, OneElement, SMTT(30)
    <3>3. Cardinality(Woken') = Cardinality(Woken) - 1
      BY <3>1, <1>3, <1>5, OneElement
    <3>4. Cardinality(idleList') = Cardinality(idleList) - 1
      BY <1>1, <1>5, SMTT(30)
    <3>5. NoLostWakeup'
      BY SMTT(30), <1>3, <1>5, <3>3, <3>4 DEF NoLostWakeup
    <3> QED BY <1>5, <2>2, <3>2, <3>5
  <2> QED BY <2>1, <2>2
<1>7. TypeOK'
  <2>1. numPendReqs' \in Nat
    <3>1. Requests' \in SUBSET Clients
      BY DEF Requests, Waiting, Woken
    <3> QED BY <1>6, <3>1, Finiteness, SMTT(30)
  <2>2. held' \in [Clients -> Nodes \cup {NoNode}]
    BY <1>1, SMTT(30) DEF TypeOK
  <2> QED BY <1>2, <1>3, <1>4, <2>1, <2>2 DEF TypeOK
<1>8. TaskLife'
  BY <1>1, <1>3, <1>4, SMTT(30) DEF TaskLife, Drained, TypeOK
<1>9. collection[n] = "none" /\ held[c] = NoNode /\ \A d \in Clients : held[d] # n
  BY <1>1, PoolParams, SMTT(30) DEF Collections, ExclusiveUse, TypeOK
<1>10. Collections'
  BY SMTT(30), <1>1, <1>4, <1>9, PoolParams DEF Collections, TypeOK
<1>11. ExclusiveUse'
  BY SMTT(30), <1>1, <1>4, <1>9 DEF ExclusiveUse, TypeOK
<1>12. NoLeak'
  BY <1>1, <1>4, <1>9, PoolParams DEF NoLeak, TypeOK
<1>13. Bookkeeping'
  BY <1>2, <1>4, <1>6, ZenonT(30) DEF Bookkeeping, IdleNodes, PendingNodes, Requests
<1>14. DemandCovered'
  <2>1. ComingNodes' = ComingNodes
    BY <1>1, <1>4 DEF ComingNodes, TypeOK, IsPending, PendingStatus
  <2> QED BY <1>3, <1>4, <2>1, ZenonT(30) DEF DemandCovered, ComingNodes
<1> QED BY SMTT(30), <1>6, <1>7, <1>8, <1>10, <1>11, <1>12, <1>13, <1>14

\* The steps of a request that neither take nor return a connection.
LEMMA RequestInv ==
  ASSUME PoolInv, NEW c \in Clients, NEW pc \in {"out", "waiting", "woken"},
         clientPc[c] # "holding", clientPc' = [clientPc EXCEPT ![c] = pc],
         ClientUnchanged, UNCHANGED <<nodeVars, held>>,
         clientStop' \in [Clients -> BOOLEAN], needed' \in BOOLEAN,
         state = "cancelled" => pc # "waiting",
         numPendReqs' = Cardinality(Requests'), NoLostWakeup', DemandCovered'
  PROVE  PoolInv'
<1> USE DEF PoolInv
<1>1. UNCHANGED <<state, runPc, runStop, numConns, task, nodeStop, numRunning, connsFinished,
                  collection, collectionEv, status, idleList, numPendConns, held>>
  BY DEF ClientUnchanged, taskVars, colVars, nodeVars
<1>2. /\ clientPc' \in [Clients -> {"out", "waiting", "woken", "holding"}]
      /\ Waiting' = IF pc = "waiting" THEN Waiting \cup {c} ELSE Waiting \ {c}
  BY ClientMove, ZenonT(30)
<1>3. numPendReqs' \in Nat
  <2>1. Requests' \in SUBSET Clients
    BY SMTT(30) DEF Requests, Waiting, Woken
  <2> QED BY <2>1, Finiteness
<1>4. TypeOK'
  BY <1>1, <1>2, <1>3, SMTT(30) DEF TypeOK
<1>5. TaskLife'
  BY SMTT(30), <1>1, <1>2 DEF TaskLife, Drained
<1>6. Collections' /\ ExclusiveUse' /\ NoLeak'
  <2>1. \A d \in Clients : (clientPc'[d] = "holding") <=> (clientPc[d] = "holding")
    BY SMTT(30) DEF TypeOK
  <2> QED BY <1>1, <2>1, OwnershipFrame
<1>7. Bookkeeping'
  BY <1>1 DEF Bookkeeping, Requests
<1> QED BY <1>4, <1>5, <1>6, <1>7

\* A request that enters the pending ones, and one that leaves them.
LEMMA RequestCount ==
  ASSUME PoolInv, NEW c \in Clients, NEW pc \in {"out", "waiting", "woken", "holding"},
         clientPc' = [clientPc EXCEPT ![c] = pc]
  PROVE  /\ c \notin Requests /\ pc \in {"waiting", "woken"} =>
              Cardinality(Requests') = numPendReqs + 1
         /\ c \in Requests /\ pc \in {"waiting", "woken"} => Cardinality(Requests') = numPendReqs
         /\ c \in Requests /\ pc = "out" => Cardinality(Requests') = numPendReqs - 1
         /\ Cardinality(Woken) \in Nat /\ Cardinality(Woken') \in Nat
         /\ Cardinality(Waiting) \in Nat /\ Cardinality(Waiting') \in Nat
         /\ IsFiniteSet(Waiting) /\ IsFiniteSet(Woken)
<1> USE DEF PoolInv
<1>1. /\ Waiting' = IF pc = "waiting" THEN Waiting \cup {c} ELSE Waiting \ {c}
      /\ Woken' = IF pc = "woken" THEN Woken \cup {c} ELSE Woken \ {c}
  BY ClientMove
<1>2. IsFiniteSet(Requests) /\ Cardinality(Requests) = numPendReqs
  <2>1. Requests \in SUBSET Clients
    BY DEF Requests, Waiting, Woken
  <2> QED BY <2>1, Finiteness, SMTT(30) DEF Bookkeeping, Requests
<1>3. ASSUME c \notin Requests, pc \in {"waiting", "woken"}
      PROVE  Cardinality(Requests') = numPendReqs + 1
  <2>1. Requests' = Requests \cup {c}
    BY <1>1, <1>3 DEF Requests
  <2> QED BY <1>2, <1>3, <2>1, OneElement
<1>4. ASSUME c \in Requests, pc \in {"waiting", "woken"}
      PROVE  Cardinality(Requests') = numPendReqs
  <2>1. Requests' = Requests
    BY <1>1, <1>4 DEF Requests
  <2> QED BY <1>2, <2>1
<1>5. ASSUME c \in Requests, pc = "out"
      PROVE  Cardinality(Requests') = numPendReqs - 1
  <2>1. Requests' = Requests \ {c}
    BY <1>1, <1>5 DEF Requests
  <2> QED BY <1>2, <1>5, <2>1, OneElement
<1>6. /\ Waiting \in SUBSET Clients /\ Waiting' \in SUBSET Clients
      /\ Woken \in SUBSET Clients /\ Woken' \in SUBSET Clients
  BY DEF Waiting, Woken
<1> QED BY <1>3, <1>4, <1>5, <1>6, Finiteness

LEMMA GetConnectionInv ==
  ASSUME PoolInv, NEW c \in Clients, GetConnection(c)
  PROVE  PoolInv'
<1> USE DEF PoolInv
<1>1. /\ clientPc[c] = "out" /\ state # "cancelled" /\ ClientUnchanged /\ UNCHANGED clientStop
  BY DEF GetConnection
<1>2. ASSUME NEW n \in idleList, Take(c, n), UNCHANGED <<needed, numPendReqs>>
      PROVE  PoolInv'
  <2>1. n \in Nodes
    BY DEF TypeOK
  <2> QED BY <1>1, <1>2, <2>1, TakeInv
<1>3. ASSUME idleList = {}, numPendReqs' = numPendReqs + 1, TellRun,
             clientPc' = [clientPc EXCEPT ![c] = IF clientStop[c] THEN "woken" ELSE "waiting"],
             UNCHANGED <<nodeVars, held>>
      PROVE  PoolInv'
  <2>1. PICK pc \in {"waiting", "woken"} : clientPc' = [clientPc EXCEPT ![c] = pc]
    BY <1>3
  <2>2. c \notin Requests
    BY <1>1 DEF Requests, Waiting, Woken
  <2>3. numPendReqs' = Cardinality(Requests') /\ Cardinality(Woken') \in Nat
    BY <1>3, <2>1, <2>2, RequestCount, ZenonT(30)
  <2>4. NoLostWakeup'
    <3>1. Cardinality(idleList') = 0
      BY <1>3, FS_EmptySet, SMTT(30) DEF nodeVars
    <3> QED BY <2>3, <3>1 DEF NoLostWakeup
  <2>5. DemandCovered' /\ needed' \in BOOLEAN
    BY <1>3 DEF DemandCovered, TellRun
  <2>6. clientStop' \in [Clients -> BOOLEAN]
    BY <1>1, SMTT(30) DEF TypeOK
  <2> QED BY <1>1, <1>3, <2>1, <2>3, <2>4, <2>5, <2>6, RequestInv
<1> QED BY <1>2, <1>3 DEF GetConnection

LEMMA GetResumeInv ==
  ASSUME PoolInv, NEW c \in Clients, GetResume(c)
  PROVE  PoolInv'
<1> USE DEF PoolInv
<1>1. clientPc[c] = "woken" /\ ClientUnchanged /\ UNCHANGED clientStop
  BY DEF GetResume
<1>2. c \in Requests /\ clientStop' \in [Clients -> BOOLEAN]
  BY <1>1 DEF Requests, Woken, TypeOK
<1>3. ASSUME Fails(c), numPendReqs' = numPendReqs - 1, clientPc' = [clientPc EXCEPT ![c] = "out"],
             UNCHANGED <<nodeVars, needed, held>>
      PROVE  PoolInv'
  <2>1. Waiting' = Waiting
    BY <1>1, <1>3, ClientMove DEF Waiting
  <2>2. numPendReqs' = Cardinality(Requests') /\ Cardinality(Woken') \in Nat
    BY <1>2, <1>3, RequestCount, ZenonT(30)
  <2>3. NoLostWakeup'
    <3>1. CASE state = "cancelled"
      BY <2>1, <3>1 DEF NoLostWakeup, TaskLife
    <3>2. CASE idleList = {}
      <4>1. Cardinality(idleList') = 0
        BY <1>3, <3>2, FS_EmptySet, SMTT(30) DEF nodeVars
      <4> QED BY <2>2, <4>1 DEF NoLostWakeup
    <3> QED BY <1>3, <3>1, <3>2 DEF Fails
  <2>4. DemandCovered'
    BY <1>1, <1>3, <2>1 DEF DemandCovered, ClientUnchanged, taskVars, nodeVars
  <2>5. needed' \in BOOLEAN
    BY <1>3 DEF TypeOK
  <2> QED BY <1>1, <1>2, <1>3, <2>2, <2>3, <2>4, <2>5, RequestInv, ZenonT(30)
<1>4. ASSUME NEW n \in idleList, Take(c, n), numPendReqs' = numPendReqs - 1, UNCHANGED needed
      PROVE  PoolInv'
  <2>1. n \in Nodes
    BY DEF TypeOK
  <2> QED BY <1>1, <1>4, <2>1, TakeInv
<1>5. ASSUME ~Fails(c), idleList = {}, TellRun, clientPc' = [clientPc EXCEPT ![c] = "waiting"],
             UNCHANGED <<nodeVars, numPendReqs, held>>
      PROVE  PoolInv'
  <2>1. numPendReqs' = Cardinality(Requests') /\ Cardinality(Woken') \in Nat
    BY <1>2, <1>5, RequestCount, ZenonT(30)
  <2>2. NoLostWakeup'
    <3>1. Cardinality(idleList') = 0
      BY <1>5, FS_EmptySet, SMTT(30) DEF nodeVars
    <3> QED BY <2>1, <3>1 DEF NoLostWakeup
  <2>3. DemandCovered' /\ needed' \in BOOLEAN
    BY <1>5 DEF DemandCovered, TellRun
  <2>4. state # "cancelled"
    BY <1>5 DEF Fails
  <2> QED BY <1>1, <1>2, <1>5, <2>1, <2>2, <2>3, <2>4, RequestInv, ZenonT(30)
<1> QED BY <1>3, <1>4, <1>5 DEF GetResume

\* Stopping a sleeping client wakes it: one more woken request, one less asleep.
LEMMA StopClientInv ==
  ASSUME PoolInv, NEW c \in Clients, StopClient(c)
  PROVE  PoolInv'
<1> USE DEF PoolInv
<1>1. /\ clientStop' \in [Clients -> BOOLEAN] /\ ClientUnchanged
      /\ UNCHANGED <<needed, nodeVars, held, numPendReqs>>
      /\ clientPc' = [clientPc EXCEPT ![c] = IF @ = "waiting" THEN "woken" ELSE @]
  BY DEF StopClient, TypeOK
<1>2. needed' \in BOOLEAN
  BY <1>1 DEF TypeOK
<1>3. UNCHANGED <<state, runPc, runStop, numConns, task, nodeStop, numRunning, connsFinished,
                  collection, collectionEv, status, idleList, numPendConns>>
  BY <1>1, SMTT(30) DEF ClientUnchanged, taskVars, colVars, nodeVars
<1>4. CASE clientPc[c] = "waiting"
  <2>1. clientPc' = [clientPc EXCEPT ![c] = "woken"]
    BY <1>1, <1>4
  <2>2. c \in Requests /\ c \in Waiting /\ c \notin Woken
    BY <1>4 DEF Requests, Waiting, Woken
  <2>3. Waiting' = Waiting \ {c} /\ Woken' = Woken \cup {c}
    BY <2>1, ClientMove, ZenonT(30)
  <2>4. /\ numPendReqs' = Cardinality(Requests')
        /\ IsFiniteSet(Waiting) /\ IsFiniteSet(Woken)
        /\ Cardinality(Waiting) \in Nat /\ Cardinality(Woken) \in Nat
    BY <1>1, <2>1, <2>2, RequestCount, ZenonT(30)
  <2>5. Cardinality(Woken') = Cardinality(Woken) + 1
    BY <2>2, <2>3, <2>4, OneElement
  <2>6. Cardinality(Waiting') = Cardinality(Waiting) - 1
    BY <2>2, <2>3, <2>4, OneElement
  <2>7. Cardinality(idleList) \in Nat
    BY Finiteness DEF TypeOK
  <2>8. NoLostWakeup'
    BY <1>3, <2>2, <2>4, <2>5, <2>7 DEF NoLostWakeup
  <2>9. DemandCovered'
    <3>1. ComingNodes' = ComingNodes /\ Cardinality(ComingNodes) \in Nat
      <4>1. ComingNodes \in SUBSET Nodes
        BY DEF ComingNodes
      <4> QED BY <1>3, <4>1, Finiteness, ZenonT(30) DEF ComingNodes
    <3>2. /\ DemandCovered <=> ((runPc = "waiting" /\ ~needed /\ numConns < MaxSize) =>
                                  Cardinality(Waiting) <= Cardinality(ComingNodes))
          /\ DemandCovered' <=> ((runPc' = "waiting" /\ ~needed' /\ numConns' < MaxSize) =>
                                  Cardinality(Waiting') <= Cardinality(ComingNodes'))
      BY Zenon DEF DemandCovered, ComingNodes
    <3>3. needed' = needed
      BY <1>1
    <3>4. Cardinality(Waiting') <= Cardinality(Waiting)
      BY <2>4, <2>6, SMT
    <3>5. Cardinality(Waiting') \in Nat
      BY <2>2, <2>3, <2>4, OneElement, FS_CardinalityType, FS_RemoveElement
    <3>6. Cardinality(Waiting) <= Cardinality(ComingNodes) =>
            Cardinality(Waiting') <= Cardinality(ComingNodes')
      BY <2>4, <3>1, <3>4, <3>5, SMT
    <3> QED BY <1>3, <3>2, <3>3, <3>6, Zenon
  <2> QED BY <1>1, <1>2, <1>4, <2>1, <2>4, <2>8, <2>9, RequestInv, ZenonT(30)
<1>5. CASE clientPc[c] # "waiting"
  <2>1. clientPc' = clientPc
    BY <1>1, <1>5 DEF TypeOK
  <2>2. Waiting' = Waiting /\ Woken' = Woken
    BY <2>1, SMTT(30) DEF Waiting, Woken
  <2>3. TypeOK'
    BY <1>1, <1>2, <1>3, <2>1, SMTT(30) DEF TypeOK
  <2>4. TaskLife'
    BY <1>3, <2>2, SMTT(30) DEF TaskLife, Drained
  <2>5. Collections' /\ ExclusiveUse' /\ NoLeak'
    BY <1>1, <1>3, <2>1, OwnershipFrame
  <2>6. Bookkeeping' /\ NoLostWakeup' /\ DemandCovered'
    BY <1>1, <1>3, <2>2, CountsFrame DEF nodeVars
  <2> QED BY <2>3, <2>4, <2>5, <2>6
<1> QED BY <1>4, <1>5

LEMMA ReturnConnectionInv ==
  ASSUME PoolInv, NEW c \in Clients, NEW shouldReset \in BOOLEAN,
         ReturnConnection(c, shouldReset)
  PROVE  PoolInv'
<1> USE DEF PoolInv
<1>1. PICK what \in {"needs_collect", "needs_collect_with_reset"} :
        collection' = [collection EXCEPT ![held[c]] = what]
  BY ZenonT(30) DEF ReturnConnection
<1>2. /\ clientPc[c] = "holding" /\ clientPc' = [clientPc EXCEPT ![c] = "out"]
      /\ collectionEv' = [collectionEv EXCEPT ![held[c]] = TRUE]
      /\ held' = [held EXCEPT ![c] = NoNode]
  BY DEF ReturnConnection
<1>3. /\ UNCHANGED <<state, runPc, runStop, needed, numConns, task, nodeStop, numRunning>>
      /\ UNCHANGED <<connsFinished, status, idleList, numPendConns, clientStop, numPendReqs>>
  BY SMTT(30) DEF ReturnConnection, runVars, taskVars, nodeVars
<1>4. held[c] \in Nodes /\ held[c] # NoNode
  BY <1>2 DEF Collections, TypeOK
<1>5. /\ clientPc' \in [Clients -> {"out", "waiting", "woken", "holding"}]
      /\ Waiting' = Waiting /\ Woken' = Woken
  BY <1>2, ClientMove, ZenonT(30) DEF Waiting, Woken
<1>6. TypeOK'
  BY <1>1, <1>2, <1>3, <1>4, <1>5, SMTT(30) DEF TypeOK
<1>7. TaskLife'
  BY <1>3, <1>5 DEF TaskLife, Drained
<1>8. /\ status[held[c]] = "in_use"
      /\ \A d \in Clients : held[d] = held[c] => d = c
  BY <1>4, SMTT(30) DEF ExclusiveUse
<1>9. Collections'
  <2>1. \A d \in Clients : (held'[d] # NoNode) <=> (clientPc'[d] = "holding")
    BY SMTT(30), <1>2 DEF Collections, TypeOK
  <2>2. \A n \in Nodes : collectionEv'[n] <=> (collection'[n] # "none")
    BY SMTT(30), <1>1, <1>2, <1>4 DEF Collections, TypeOK
  <2>3. ASSUME NEW n \in Nodes, collection'[n] # "none"
        PROVE  status'[n] = "in_use" /\ \A d \in Clients : held'[d] # n
    <3>1. CASE n = held[c]
      BY <1>2, <1>3, <1>4, <1>8, <3>1, SMTT(30) DEF TypeOK
    <3>2. CASE n # held[c]
      <4>1. collection[n] # "none"
        BY <1>1, <2>3, <3>2, SMTT(30) DEF TypeOK
      <4> QED BY SMTT(30), <1>2, <1>3, <4>1, PoolParams DEF Collections, TypeOK
    <3> QED BY <3>1, <3>2, SMTT(30)
  <2> QED BY SMTT(30), <2>1, <2>2, <2>3 DEF Collections
<1>10. ExclusiveUse'
  BY <1>1, <1>2, <1>3, <1>4, <1>8 DEF ExclusiveUse, TypeOK
<1>11. NoLeak'
  <2>1. SUFFICES ASSUME NEW n \in Nodes, status[n] = "in_use"
                 PROVE  \/ \E d \in Clients : held'[d] = n
                        \/ collectionEv'[n] /\ collection'[n] # "none"
                        \/ task'[n] = "finished"
    BY <1>3, ZenonT(30) DEF NoLeak
  <2>2. CASE n = held[c]
    BY <1>1, <1>2, <1>4, <2>2, SMTT(30) DEF TypeOK
  <2>3. CASE n # held[c]
    <3>1. collection'[n] = collection[n] /\ (collectionEv'[n] <=> collectionEv[n])
      BY SMTT(30), <1>1, <1>2, <2>3 DEF TypeOK
    <3>2. \A d \in Clients : held[d] = n => held'[d] = n
      BY <1>2, <2>3, SMTT(30) DEF TypeOK
    <3> QED BY SMTT(30), <1>3, <2>1, <3>1, <3>2 DEF NoLeak
  <2> QED BY <2>2, <2>3, ZenonT(30)
<1>12. Bookkeeping' /\ NoLostWakeup' /\ DemandCovered'
  BY <1>3, <1>5, CountsFrame
<1> QED BY <1>6, <1>7, <1>9, <1>10, <1>11, <1>12

LEMMA NextInv == PoolInv /\ [Next]_vars => PoolInv'
<1> SUFFICES ASSUME PoolInv, [Next]_vars PROVE PoolInv'
  OBVIOUS
<1>1. CASE RunStart
  <2>1. state # "cancelled"
    BY SMTT(30), <1>1 DEF RunStart, PoolInv, TaskLife
  <2>2. /\ CreateConnections /\ runPc' = "waiting" /\ state' = "running" /\ needed' \in BOOLEAN
        /\ UNCHANGED <<runStop, nodeStop, numRunning, connsFinished>>
        /\ UNCHANGED <<nodeVars, colVars, clientVars>>
    BY <1>1 DEF RunStart, PoolInv, TypeOK
  <2> QED BY <2>1, <2>2, RunCreates
<1>2. CASE RunCreate
  <2>1. state # "cancelled"
    BY <1>2 DEF RunCreate, PoolInv, TaskLife
  <2>2. /\ CreateConnections /\ runPc' = "waiting" /\ state' = state /\ needed' \in BOOLEAN
        /\ state' \in {"initial", "running", "cancelled"}
        /\ UNCHANGED <<runStop, nodeStop, numRunning, connsFinished>>
        /\ UNCHANGED <<nodeVars, colVars, clientVars>>
    BY <1>2, ZenonT(30) DEF RunCreate, PoolInv, TypeOK
  <2> QED BY <2>1, <2>2, RunCreates
<1>3. CASE RunCancel
  BY <1>3, RunCancelInv
<1>4. CASE RunFinish \/ StopRun
  BY <1>4, RunEndsInv
<1>5. ASSUME NEW n \in Nodes,
             \/ NodeStart(n) \/ NodeStopRequested(n) \/ NodeIdleWaitDone(n)
             \/ \E ok \in BOOLEAN : NodeIoDone(n, ok)
      PROVE  PoolInv'
  BY <1>5, NodeStartInv, NodeStopRequestedInv, NodeIdleWaitDoneInv, NodeIoDoneInv
<1>6. ASSUME NEW c \in Clients,
             \/ GetConnection(c) \/ GetResume(c) \/ StopClient(c)
             \/ \E shouldReset \in BOOLEAN : ReturnConnection(c, shouldReset)
      PROVE  PoolInv'
  BY <1>6, GetConnectionInv, GetResumeInv, StopClientInv, ReturnConnectionInv
<1>7. CASE UNCHANGED vars
  <2>1. /\ UNCHANGED <<state, runPc, runStop, needed, numConns, task, nodeStop, numRunning>>
        /\ UNCHANGED <<connsFinished, status, idleList, numPendConns, collection, collectionEv>>
        /\ UNCHANGED <<clientPc, clientStop, held, numPendReqs>>
    BY <1>7 DEF vars, runVars, taskVars, nodeVars, colVars, clientVars
  <2>2. Waiting' = Waiting /\ Woken' = Woken
    BY <2>1, SMTT(30) DEF Waiting, Woken
  <2>3. TypeOK'
    BY <2>1, SMTT(30) DEF PoolInv, TypeOK
  <2>4. TaskLife'
    BY SMTT(30), <2>1, <2>2 DEF PoolInv, TaskLife, Drained
  <2>5. Collections' /\ ExclusiveUse' /\ NoLeak'
    BY SMTT(30), <2>1, OwnershipFrame DEF PoolInv
  <2>6. Bookkeeping' /\ NoLostWakeup' /\ DemandCovered'
    BY <2>1, <2>2, CountsFrame DEF PoolInv
  <2> QED BY <2>3, <2>4, <2>5, <2>6 DEF PoolInv
<1> QED BY <1>1, <1>2, <1>3, <1>4, <1>5, <1>6, <1>7 DEF Next

-----------------------------------------------------------------------------
(* The theorems *)

\* PoolInv holds in every reachable state of the pool.
THEOREM PoolInvariant == Spec => []PoolInv
BY InitInv, NextInv, PTL DEF Spec

\* Type correctness of the pool.
THEOREM TypeCorrect == Spec => []TypeOK
<1>1. PoolInv => TypeOK
  BY DEF PoolInv
<1> QED BY <1>1, PoolInvariant, PTL

\* The counters and the idle list agree with the node statuses, for any sizes.
THEOREM BookkeepingHolds == Spec => []Bookkeeping
<1>1. PoolInv => Bookkeeping
  BY DEF PoolInv
<1> QED BY <1>1, PoolInvariant, PTL

\* No connection is ever in two hands, nor pinged while a client uses it.
THEOREM ExclusiveUseHolds == Spec => []ExclusiveUse
<1>1. PoolInv => ExclusiveUse
  BY DEF PoolInv
<1> QED BY <1>1, PoolInvariant, PTL

\* No connection that was handed out is forgotten by the pool.
THEOREM NoLeakHolds == Spec => []NoLeak
<1>1. PoolInv => NoLeak
  BY DEF PoolInv
<1> QED BY <1>1, PoolInvariant, PTL

\* No wake-up of a sleeping request is lost, whatever is cancelled when.
THEOREM NoLostWakeupHolds == Spec => []NoLostWakeup
<1>1. PoolInv => NoLostWakeup
  BY DEF PoolInv
<1> QED BY <1>1, PoolInvariant, PTL

\* A sleeping request has a connection coming, unless the pool is full.
THEOREM DemandCoveredHolds == Spec => []DemandCovered
<1>1. PoolInv => DemandCovered
  BY DEF PoolInv
<1> QED BY <1>1, PoolInvariant, PTL

\* run() outlives every connection task it launched.
THEOREM RunOutlivesTasksHolds == Spec => []RunOutlivesTasks
<1>1. PoolInv => RunOutlivesTasks
  <2> SUFFICES ASSUME PoolInv, runPc = "done", NEW n \in Nodes
               PROVE  task[n] \in {"none", "finished"}
    BY DEF RunOutlivesTasks
  <2>1. numConns = 0 \/ connsFinished
    BY DEF PoolInv, TaskLife, Drained
  <2>2. CASE numConns = 0
    BY SMTT(30), <2>2 DEF PoolInv, TaskLife, Nodes
  <2>3. CASE connsFinished
    BY <2>3 DEF PoolInv, TaskLife
  <2> QED BY <2>1, <2>2, <2>3
<1> QED BY <1>1, PoolInvariant, PTL
=============================================================================
