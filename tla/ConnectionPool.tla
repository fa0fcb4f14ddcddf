--------------------------- MODULE ConnectionPool ---------------------------
(***************************************************************************)
(* The connection pool: co_connection_pool_impl (run, get_connection), the *)
(* connection_node tasks it launches, and the sans-I/O node state machine  *)
(* they drive.                                                             *)
(*                                                                         *)
(* Everything runs on one executor, so code between two co_await points is *)
(* atomic: an action is the resumption of one coroutine up to its next     *)
(* suspension.  Waking a coroutine only posts it; what it finds when it    *)
(* finally resumes may differ from what woke it.                           *)
(***************************************************************************)
EXTENDS Integers, FiniteSets

CONSTANTS
  Clients,      \* coroutines that call get_connection()
  InitialSize,  \* pool_params::initial_size
  MaxSize,      \* pool_params::max_size
  Pings,        \* pool_params::ping_interval > 0
  NoNode        \* a pooled_connection that is not valid()

Nodes == 1..MaxSize  \* all_conns_ only grows: node n is the n-th one created

\* What check_pool_params() lets through.
ASSUME PoolParams ==
  /\ MaxSize \in Nat \ {0}
  /\ InitialSize \in 0..MaxSize
  /\ Pings \in BOOLEAN
  /\ IsFiniteSet(Clients)
  /\ NoNode \notin Nodes

VARIABLES
  state,          \* co_connection_pool_impl::state_
  runPc,          \* where run() is suspended
  runStop,        \* the stop token of run()
  needed,         \* the event connections_needed_
  numConns,       \* all_conns_.size()
  task,           \* life of the task connection_node::run()
  nodeStop,       \* when_any has asked the task to stop
  status,         \* sansio_connection_node::status_
  collection,     \* collection_state_
  collectionEv,   \* the event collection_ev_
  idleList,       \* idle_list (the order is not tracked: any idle node may be the front)
  numPendConns,   \* num_pending_connections
  numPendReqs,    \* num_pending_requests
  numRunning,     \* num_running_connections
  connsFinished,  \* the event conns_finished_cv
  clientPc,       \* where get_connection() is suspended, per client
  clientStop,     \* the stop token of the client
  held            \* the pooled_connection of the client

runVars    == <<runPc, runStop, needed, numConns>>
taskVars   == <<task, nodeStop, numRunning, connsFinished>>
nodeVars   == <<status, idleList, numPendConns>>
colVars    == <<collection, collectionEv>>
clientVars == <<clientPc, clientStop, held, numPendReqs>>
vars == <<state, runVars, taskVars, nodeVars, colVars, clientVars>>

PendingStatus == {"connect_in_progress", "sleep_connect_failed_in_progress",
                  "reset_in_progress", "ping_in_progress"}
NodeStatus == PendingStatus \cup {"initial", "idle", "in_use"}

TypeOK ==
  /\ state \in {"initial", "running", "cancelled"}
  /\ runPc \in {"not_started", "waiting", "draining", "done"}
  /\ runStop \in BOOLEAN /\ needed \in BOOLEAN /\ connsFinished \in BOOLEAN
  /\ numConns \in 0..MaxSize
  /\ task \in [Nodes -> {"none", "posted", "running", "finished"}]
  /\ nodeStop \in [Nodes -> BOOLEAN]
  /\ status \in [Nodes -> NodeStatus]
  /\ collection \in [Nodes -> {"none", "needs_collect", "needs_collect_with_reset"}]
  /\ collectionEv \in [Nodes -> BOOLEAN]
  /\ idleList \in SUBSET Nodes
  /\ numPendConns \in Nat /\ numPendReqs \in Nat /\ numRunning \in Nat
  /\ clientPc \in [Clients -> {"out", "waiting", "woken", "holding"}]
  /\ clientStop \in [Clients -> BOOLEAN]
  /\ held \in [Clients -> Nodes \cup {NoNode}]

Init ==
  /\ state = "initial" /\ runPc = "not_started" /\ runStop = FALSE
  /\ needed = FALSE /\ numConns = 0
  /\ task = [n \in Nodes |-> "none"] /\ nodeStop = [n \in Nodes |-> FALSE]
  /\ numRunning = 0 /\ connsFinished = FALSE
  /\ status = [n \in Nodes |-> "initial"] /\ idleList = {} /\ numPendConns = 0
  /\ collection = [n \in Nodes |-> "none"]
  /\ collectionEv = [n \in Nodes |-> FALSE]
  /\ clientPc = [c \in Clients |-> "out"] /\ clientStop = [c \in Clients |-> FALSE]
  /\ held = [c \in Clients |-> NoNode] /\ numPendReqs = 0

-----------------------------------------------------------------------------
(* The condition variable idle_connections_cv: a timer that never expires  *)
(* until the pool is cancelled, so every wake-up is a cancelled wait.      *)

Waiting == {c \in Clients : clientPc[c] = "waiting"}
Woken   == {c \in Clients : clientPc[c] = "woken"}

NoWakeUp == UNCHANGED clientPc  \* mutant: cancel_one() is forgotten

CancelOne ==
  \/ /\ Waiting = {} /\ UNCHANGED clientPc
  \/ \E c \in Waiting : clientPc' = [clientPc EXCEPT ![c] = "woken"]

(* sansio_connection_node::set_status() and its hooks; clientPc is left to *)
(* the caller when the node was, or does not become, idle.                 *)
IsPending(s) == s \in PendingStatus

NeverLeaves(old, new) ==  \* mutant: exiting_pending() is forgotten
  IF IsPending(new) /\ ~IsPending(old) THEN 1 ELSE 0

PendingDelta(old, new) ==
  (IF IsPending(new) THEN 1 ELSE 0) - (IF IsPending(old) THEN 1 ELSE 0)

MoveTo(n, new) ==
  /\ status' = [status EXCEPT ![n] = new]
  /\ numPendConns' = numPendConns + PendingDelta(status[n], new)
  /\ idleList' = IF new = "idle" THEN idleList \cup {n} ELSE idleList \ {n}

SetStatus(n, new) ==
  /\ MoveTo(n, new)
  /\ IF new = "idle" /\ status[n] # "idle" THEN CancelOne ELSE UNCHANGED clientPc

-----------------------------------------------------------------------------
(* run() *)

NumIgnoringRoom(current, pendingConns, pendingReqs) ==  \* mutant: no upper limit
  IF pendingReqs > pendingConns THEN pendingReqs - pendingConns ELSE InitialSize

NumConnectionsToCreate(current, pendingConns, pendingReqs) ==
  LET byRequests == IF pendingReqs > pendingConns THEN pendingReqs - pendingConns ELSE 0
      byMin      == IF current < InitialSize THEN InitialSize - current ELSE 0
      wanted     == IF byRequests > byMin THEN byRequests ELSE byMin
      room       == MaxSize - current
  IN  IF wanted < room THEN wanted ELSE room

\* Adds the nodes and posts their tasks.
CreateConnections ==
  LET n == NumConnectionsToCreate(numConns, numPendConns, numPendReqs)
  IN  /\ numConns' = numConns + n
      /\ task' = [m \in Nodes |-> IF m \in (numConns + 1)..(numConns + n)
                                  THEN "posted" ELSE task[m]]

RunStart ==
  /\ runPc = "not_started"
  /\ state' = "running" /\ runPc' = "waiting"
  /\ CreateConnections
  /\ UNCHANGED <<runStop, needed, nodeStop, numRunning, connsFinished>>
  /\ UNCHANGED <<nodeVars, colVars, clientVars>>

RunCreate ==
  /\ runPc = "waiting" /\ needed
  /\ needed' = FALSE
  /\ CreateConnections
  /\ UNCHANGED <<state, runPc, runStop, nodeStop, numRunning, connsFinished>>
  /\ UNCHANGED <<nodeVars, colVars, clientVars>>

\* The wait is cancelled: state_ and cancel_ev_ are set, and moving the expiry
\* of the timer to the past wakes every waiting client.
RunCancel ==
  /\ runPc = "waiting" /\ runStop
  /\ state' = "cancelled" /\ runPc' = "draining"
  /\ clientPc' = [c \in Clients |-> IF c \in Waiting THEN "woken" ELSE clientPc[c]]
  /\ UNCHANGED <<runStop, needed, numConns, taskVars, nodeVars, colVars>>
  /\ UNCHANGED <<clientStop, held, numPendReqs>>

NoDrain == TRUE  \* mutant: run() returns without waiting for the tasks

Drained == numConns = 0 \/ connsFinished

RunFinish ==
  /\ runPc = "draining"
  /\ Drained
  /\ runPc' = "done"
  /\ UNCHANGED <<state, runStop, needed, numConns, taskVars, nodeVars, colVars, clientVars>>

\* The caller of run() requests a stop.
StopRun ==
  /\ runPc \in {"not_started", "waiting"} /\ ~runStop
  /\ runStop' = TRUE
  /\ UNCHANGED <<state, runPc, needed, numConns, taskVars, nodeVars, colVars, clientVars>>

-----------------------------------------------------------------------------
(* connection_node::run(): each step is the completion of the awaited      *)
(* operation, the call to resume(), and the check of the stop token.       *)

NodeStart(n) ==
  /\ task[n] = "posted"
  /\ task' = [task EXCEPT ![n] = "running"]
  /\ numRunning' = numRunning + 1
  /\ SetStatus(n, "connect_in_progress")
  /\ UNCHANGED <<state, runVars, nodeStop, connsFinished, colVars>>
  /\ UNCHANGED <<clientStop, held, numPendReqs>>

\* cancel_ev_ is set, so the other branch of when_any stops the node.  The
\* executor runs posted work in order: tasks posted before the pool was
\* cancelled have started by the time this happens.
NodeStopRequested(n) ==
  /\ task[n] = "running" /\ ~nodeStop[n]
  /\ state = "cancelled"
  /\ \A m \in Nodes : task[m] # "posted"
  /\ nodeStop' = [nodeStop EXCEPT ![n] = TRUE]
  /\ UNCHANGED <<state, runVars, task, numRunning, connsFinished, nodeVars, colVars, clientVars>>

\* The stop check at the top of the loop, with on_connection_finish().
FinishOffByOne(n) ==  \* mutant: the counter is compared before the decrement
  IF nodeStop[n]
  THEN /\ task' = [task EXCEPT ![n] = "finished"]
       /\ numRunning' = numRunning - 1
       /\ connsFinished' = (connsFinished \/ numRunning = 0)
  ELSE UNCHANGED <<task, numRunning, connsFinished>>

CheckStop(n) ==
  IF nodeStop[n]
  THEN /\ task' = [task EXCEPT ![n] = "finished"]
       /\ numRunning' = numRunning - 1
       /\ connsFinished' = (connsFinished \/ numRunning = 1)
  ELSE UNCHANGED <<task, numRunning, connsFinished>>

NodeUnchanged ==
  /\ UNCHANGED <<state, runVars, nodeStop>>
  /\ UNCHANGED <<clientStop, held, numPendReqs>>

\* Completion of connect, the reconnection delay and ping, which carry an error
\* code; resume() picks the next status.
NodeIoDone(n, ok) ==
  /\ task[n] = "running"
  /\ \/ /\ status[n] = "connect_in_progress"
        /\ SetStatus(n, IF ok THEN "idle" ELSE "sleep_connect_failed_in_progress")
     \/ /\ status[n] = "sleep_connect_failed_in_progress"
        /\ SetStatus(n, "connect_in_progress")
     \/ /\ status[n] = "ping_in_progress"
        /\ SetStatus(n, IF ok THEN "idle" ELSE "connect_in_progress")
  /\ CheckStop(n)
  /\ NodeUnchanged /\ UNCHANGED colVars

\* collection_ev_.clear() and std::exchange(collection_state_, none)
ClearEventOnly(n) ==  \* mutant: the collection state is not exchanged
  /\ collectionEv' = [collectionEv EXCEPT ![n] = FALSE]
  /\ UNCHANGED collection

ConsumeCollection(n) ==
  /\ collectionEv' = [collectionEv EXCEPT ![n] = FALSE]
  /\ collection' = [collection EXCEPT ![n] = "none"]

\* idle_wait ends: the event is set, the ping interval elapsed, or the task is
\* being stopped.  The event and collection_state_ are consumed whatever it was.
\* The reset action performs no I/O, so an in_use node returned with reset
\* passes through reset_in_progress within the step, unless the stop check
\* between the two ends the task there.
NodeIdleWaitDone(n) ==
  /\ task[n] = "running"
  /\ status[n] \in {"idle", "in_use"}
  /\ collectionEv[n] \/ Pings \/ nodeStop[n]
  /\ ConsumeCollection(n)
  /\ \/ /\ status[n] = "idle"
        /\ SetStatus(n, "ping_in_progress")
     \/ /\ status[n] = "in_use" /\ collection[n] = "needs_collect"
        /\ SetStatus(n, "idle")
     \/ /\ status[n] = "in_use" /\ collection[n] = "needs_collect_with_reset"
        /\ SetStatus(n, IF nodeStop[n] THEN "reset_in_progress" ELSE "idle")
     \/ /\ status[n] = "in_use" /\ collection[n] = "none"
        /\ UNCHANGED <<nodeVars, clientPc>>
  /\ CheckStop(n)
  /\ NodeUnchanged

-----------------------------------------------------------------------------
(* get_connection() and pooled_connection *)

\* try_get_connection() on a nonempty idle list.
Take(c, n) ==
  /\ n \in idleList
  /\ MoveTo(n, "in_use")
  /\ held' = [held EXCEPT ![c] = n]
  /\ clientPc' = [clientPc EXCEPT ![c] = "holding"]

\* enter_request_pending()
SilentPending == UNCHANGED needed  \* mutant: run() is not told

TellRun == needed' = TRUE

ClientUnchanged == UNCHANGED <<state, runPc, runStop, numConns, taskVars, colVars>>

GetConnection(c) ==
  /\ clientPc[c] = "out" /\ state # "cancelled"
  /\ \/ /\ \E n \in idleList : Take(c, n)
        /\ UNCHANGED <<needed, numPendReqs>>
     \/ /\ idleList = {}
        /\ numPendReqs' = numPendReqs + 1 /\ TellRun
        /\ clientPc' = [clientPc EXCEPT ![c] = IF clientStop[c] THEN "woken" ELSE "waiting"]
        /\ UNCHANGED <<nodeVars, held>>
  /\ ClientUnchanged /\ UNCHANGED clientStop

\* A woken request fails when the pool is cancelled, or when there is no
\* connection and the request itself was cancelled: a cancelled request must
\* still use a connection, since it may have consumed the wake-up.
FailsEagerly(c) == state = "cancelled" \/ clientStop[c]  \* mutant

Fails(c) == state = "cancelled" \/ (idleList = {} /\ clientStop[c])

GetResume(c) ==
  /\ clientPc[c] = "woken"
  /\ \/ /\ Fails(c)
        /\ numPendReqs' = numPendReqs - 1
        /\ clientPc' = [clientPc EXCEPT ![c] = "out"]
        /\ UNCHANGED <<nodeVars, needed, held>>
     \/ /\ ~Fails(c)
        /\ \E n \in idleList : Take(c, n)
        /\ numPendReqs' = numPendReqs - 1
        /\ UNCHANGED needed
     \/ /\ ~Fails(c) /\ idleList = {}
        /\ TellRun
        /\ clientPc' = [clientPc EXCEPT ![c] = "waiting"]
        /\ UNCHANGED <<nodeVars, numPendReqs, held>>
  /\ ClientUnchanged /\ UNCHANGED clientStop

\* A stop request for a client wakes it if its wait has not been cancelled yet.
StopClient(c) ==
  /\ ~clientStop[c]
  /\ clientStop' = [clientStop EXCEPT ![c] = TRUE]
  /\ clientPc' = [clientPc EXCEPT ![c] = IF @ = "waiting" THEN "woken" ELSE @]
  /\ UNCHANGED <<needed, nodeVars, held, numPendReqs>>
  /\ ClientUnchanged

\* ~pooled_connection() and return_without_reset(): mark_as_collectable().
ReturnSilently(c, shouldReset) ==  \* mutant: collection_ev_ is not set
  /\ clientPc[c] = "holding"
  /\ collection' = [collection EXCEPT ![held[c]] =
       IF shouldReset THEN "needs_collect_with_reset" ELSE "needs_collect"]
  /\ held' = [held EXCEPT ![c] = NoNode]
  /\ clientPc' = [clientPc EXCEPT ![c] = "out"]
  /\ UNCHANGED <<state, runVars, taskVars, nodeVars, collectionEv, clientStop, numPendReqs>>

ReturnConnection(c, shouldReset) ==
  /\ clientPc[c] = "holding"
  /\ collection' = [collection EXCEPT ![held[c]] =
       IF shouldReset THEN "needs_collect_with_reset" ELSE "needs_collect"]
  /\ collectionEv' = [collectionEv EXCEPT ![held[c]] = TRUE]
  /\ held' = [held EXCEPT ![c] = NoNode]
  /\ clientPc' = [clientPc EXCEPT ![c] = "out"]
  /\ UNCHANGED <<state, runVars, taskVars, nodeVars, clientStop, numPendReqs>>

-----------------------------------------------------------------------------
Next ==
  \/ RunStart \/ RunCreate \/ RunCancel \/ RunFinish \/ StopRun
  \/ \E n \in Nodes :
       \/ NodeStart(n) \/ NodeStopRequested(n) \/ NodeIdleWaitDone(n)
       \/ \E ok \in BOOLEAN : NodeIoDone(n, ok)
  \/ \E c \in Clients :
       \/ GetConnection(c) \/ GetResume(c) \/ StopClient(c)
       \/ \E shouldReset \in BOOLEAN : ReturnConnection(c, shouldReset)

Spec == Init /\ [][Next]_vars

-----------------------------------------------------------------------------
(* Properties *)

\* The counters and the idle list that the hooks of set_status() maintain agree
\* with the statuses they summarise, through every path of resume(),
\* mark_as_in_use() and the stop check: num_connections_to_create() and
\* try_get_connection() read only the summaries.
Bookkeeping ==
  /\ idleList = {n \in Nodes : status[n] = "idle"}
  /\ numPendConns = Cardinality({n \in Nodes : IsPending(status[n])})
  /\ numPendReqs = Cardinality(Waiting \cup Woken)
  /\ numRunning = Cardinality({n \in Nodes : task[n] = "running"})

\* A connection is in the hands of at most one client, and while it is, the
\* node neither offers it to anybody else nor pings it, even when the ping
\* interval elapses between the moments it is taken and returned.
ExclusiveUse ==
  \A c \in Clients : held[c] # NoNode =>
    /\ status[held[c]] = "in_use"
    /\ collection[held[c]] = "none"
    /\ \A d \in Clients : held[d] = held[c] => d = c

\* A connection that get_connection() handed out is held by a client or on its
\* way back: returning it is never forgotten, whatever the idle wait was
\* doing when mark_as_collectable() was called.
NoLeak ==
  \A n \in Nodes : status[n] = "in_use" =>
    \/ \E c \in Clients : held[c] = n
    \/ collectionEv[n] /\ collection[n] # "none"
    \/ task[n] = "finished"

\* While a request sleeps on the condition variable, every idle connection is
\* matched by a request that has been woken and has not run yet: cancel_one()
\* is never lost, not even on a request that is being cancelled.
NoLostWakeup ==
  Waiting # {} => Cardinality(idleList) <= Cardinality(Woken)

\* While run() is waiting with connections_needed_ clear, every sleeping request
\* has a connection on its way (being created, connecting, pinging), unless
\* the pool is at max_size.
DemandCovered ==
  (runPc = "waiting" /\ ~needed /\ numConns < MaxSize) =>
    Cardinality(Waiting) <=
      Cardinality({n \in Nodes : task[n] = "posted" \/ IsPending(status[n])})

\* run() returns only once no connection task can run again ("safe as long as
\* we ensure that the parent task doesn't finish until all connection tasks
\* terminate").
RunOutlivesTasks ==
  runPc = "done" => \A n \in Nodes : task[n] \in {"none", "finished"}

\* What the tasks, run() and the stop requests have to do with each other.
TaskLife ==
  /\ \A n \in Nodes : (task[n] = "none") <=> (n > numConns)
  /\ \A n \in Nodes : task[n] \in {"none", "posted"} => status[n] = "initial"
  /\ \A n \in Nodes : nodeStop[n] =>
       state = "cancelled" /\ \A m \in Nodes : task[m] # "posted"
  /\ connsFinished =>
       state = "cancelled" /\ \A n \in Nodes : task[n] \in {"none", "finished"}
  /\ (state = "cancelled") <=> (runPc \in {"draining", "done"})
  /\ (state = "cancelled") => Waiting = {}
  /\ runPc = "done" => Drained

\* A client holds a connection exactly while get_connection() has returned one;
\* the event and the state of a collection come together, and only to
\* connections that were handed out and are no longer held.
Collections ==
  /\ \A c \in Clients : (held[c] # NoNode) <=> (clientPc[c] = "holding")
  /\ \A n \in Nodes : collectionEv[n] <=> (collection[n] # "none")
  /\ \A n \in Nodes : collection[n] # "none" =>
       status[n] = "in_use" /\ \A c \in Clients : held[c] # n

\* The inductive invariant: the properties above need the two facts before it.
PoolInv ==
  /\ TypeOK /\ TaskLife /\ Collections
  /\ Bookkeeping /\ ExclusiveUse /\ NoLeak /\ NoLostWakeup /\ DemandCovered

-----------------------------------------------------------------------------
(* Liveness.  Posted coroutines run, I/O and timers complete, a server that *)
(* is tried again and again accepts a connection in the end, and clients   *)
(* return what they hold.                                                  *)

Connects(n) == status[n] = "connect_in_progress" /\ NodeIoDone(n, TRUE)

Fairness ==
  /\ WF_vars(RunStart) /\ WF_vars(RunCreate) /\ WF_vars(RunCancel) /\ WF_vars(RunFinish)
  /\ \A n \in Nodes :
       /\ WF_vars(NodeStart(n)) /\ WF_vars(NodeStopRequested(n))
       /\ WF_vars(NodeIdleWaitDone(n))
       /\ WF_vars(\E ok \in BOOLEAN : NodeIoDone(n, ok))
       /\ SF_vars(Connects(n))
  /\ \A c \in Clients :
       /\ WF_vars(GetResume(c))
       /\ WF_vars(\E shouldReset \in BOOLEAN : ReturnConnection(c, shouldReset))

FairSpec == Spec /\ Fairness

\* The pool does not stall: as long as requests sleep, one of them is woken
\* sooner or later (a connection is created, connects, or is returned), or the
\* pool is cancelled, which wakes them all.
WaitersAreWoken == (Waiting # {}) ~> (Woken # {} \/ Waiting = {})

\* Cancelling run() ends it, and every pending request with it, whatever the
\* connections and the clients were doing.
CancelDrains ==
  (runPc = "draining") ~> (runPc = "done" /\ Waiting \cup Woken = {})
=============================================================================
