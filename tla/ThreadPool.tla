------------------------------ MODULE ThreadPool ------------------------------
(***************************************************************************)
(* How ggml-cpu computes a graph (ggml-cpu.c): the calling thread, number 0, *)
(* makes a pool for this graph alone, wakes its workers, works along with    *)
(* them node by node, then stops, joins and frees them.  The app attaches no *)
(* pool of its own and never pauses one.  Workers poll for a while and then  *)
(* sleep on a condition variable; atomics are sequentially consistent here.  *)
(***************************************************************************)
EXTENDS Integers, FiniteSets

CONSTANTS
  NThreads,   \* cplan->n_threads
  NNodes,     \* cgraph->n_nodes
  MatMul,     \* the nodes that are matrix products; the others need no chunks
  NChunks,    \* for a product, nchunk0 * nchunk1
  MayAbort,   \* an abort callback is set, and may ask to stop
  NoThread    \* nobody holds the mutex

Threads == 0 .. NThreads - 1
Workers == Threads \ {0}
Nodes == 0 .. NNodes - 1

ASSUME ThreadsAssumption == NThreads \in Nat \ {0} /\ NoThread \notin Threads
ASSUME NodesAssumption == NNodes \in Nat \ {0} /\ MatMul \subseteq Nodes
\* A product whose chunks are few is cut again, one chunk for each thread.
ASSUME ChunksAssumption ==
  NChunks \in [MatMul -> {n \in Nat : n = NThreads \/ n >= 4 * NThreads}]
ASSUME AbortAssumption == MayAbort \in BOOLEAN

VARIABLES
  tpc,       \* where each thread is
  mutex,     \* threadpool->mutex: its holder
  stop,      \* threadpool->stop
  nGraph,    \* threadpool->n_graph
  nBarrier,  \* threadpool->n_barrier
  nPassed,   \* threadpool->n_barrier_passed
  chunk,     \* threadpool->current_chunk
  abort,     \* threadpool->abort
  ec,        \* threadpool->ec
  pending,   \* state->pending of each thread
  last,      \* state->last_graph of each thread
  node,      \* node_n of each thread
  mine,      \* current_chunk of each thread
  seen,      \* n_passed of each thread, in a barrier
  after,     \* where each thread goes on when it leaves the barrier
  prepared,  \* history: the threads that converted their part of src1, by node
  computed   \* history: how often each part of each node was computed

workVars == <<node, mine, chunk, abort, ec, prepared, computed>>
barrierVars == <<nBarrier, nPassed, seen, after>>
wakeVars == <<mutex, stop, nGraph, pending, last>>
poolVars == <<tpc, mutex, stop, nGraph, nBarrier, nPassed, chunk, abort, ec,
              pending, last, node, mine, seen, after, prepared, computed>>

Moves(t, place) == tpc' = [tpc EXCEPT ![t] = place]

\* The parts of a node: the chunks of a product, else one for each thread.
Parts(n) == 0 .. (IF n \in MatMul THEN NChunks[n] ELSE NThreads) - 1

-----------------------------------------------------------------------------
\* ggml_threadpool_new_impl: the fields of a new pool.
InitPool ==
  /\ mutex = NoThread
  /\ stop = FALSE
  /\ nGraph = 0 /\ nBarrier = 0 /\ nPassed = 0 /\ chunk = 0
  /\ abort = -1
  /\ ec = "success"
  /\ pending = [t \in Threads |-> FALSE]
  /\ last = [t \in Threads |-> 0]
  /\ node = [t \in Threads |-> 0]
  /\ mine = [t \in Threads |-> 0]
  /\ seen = [t \in Threads |-> 0]
  /\ after = [t \in Threads |-> "none"]
  /\ prepared = [n \in MatMul |-> {}]
  /\ computed = [n \in Nodes |-> [p \in Parts(n) |-> 0]]
  /\ tpc = [t \in Threads |-> IF t = 0 THEN "idle" ELSE "gone"]

\* ggml_graph_compute: a new pool, whose workers start at once.
StartPool ==
  /\ tpc[0] = "idle"
  /\ mutex' = NoThread
  /\ stop' = FALSE
  /\ nGraph' = 0 /\ nBarrier' = 0 /\ nPassed' = 0 /\ chunk' = 0
  /\ abort' = -1
  /\ ec' = "success"
  /\ pending' = [t \in Threads |-> FALSE]
  /\ last' = [t \in Threads |-> 0]
  /\ node' = [t \in Threads |-> 0]
  /\ mine' = [t \in Threads |-> 0]
  /\ seen' = [t \in Threads |-> 0]
  /\ after' = [t \in Threads |-> "none"]
  /\ prepared' = [n \in MatMul |-> {}]
  /\ computed' = [n \in Nodes |-> [p \in Parts(n) |-> 0]]
  /\ tpc' = [t \in Threads |-> IF t = 0 THEN "kick" ELSE "top"]

-----------------------------------------------------------------------------
(* Waking and stopping: the mutex and the condition variable *)

\* pthread_cond_broadcast, called with the mutex held, which it then releases.
WakeAll(place) ==
  tpc' = [t \in Threads |-> IF t = 0 THEN place
                            ELSE IF tpc[t] = "asleep" THEN "lock" ELSE tpc[t]]

\* Mutant: kickoff does not wait for the mutex.
KickLock_Skipped == /\ tpc[0] = "kick"
                    /\ Moves(0, "kick_wake")
                    /\ nGraph' = nGraph + 1
                    /\ UNCHANGED <<mutex, stop, pending, last, workVars, barrierVars>>

\* ggml_graph_compute_kickoff takes the mutex and announces the graph.
KickLock == /\ tpc[0] = "kick"
            /\ mutex = NoThread
            /\ mutex' = 0
            /\ Moves(0, "kick_wake")
            /\ nGraph' = nGraph + 1
            /\ UNCHANGED <<stop, pending, last, workVars, barrierVars>>

KickWake == /\ tpc[0] = "kick_wake"
            /\ WakeAll("loop")
            /\ mutex' = NoThread
            /\ UNCHANGED <<stop, nGraph, pending, last, workVars, barrierVars>>

\* ggml_graph_compute_secondary_thread, at the top of its loop.
Top(t) == /\ tpc[t] = "top"
          /\ Moves(t, IF stop THEN "gone" ELSE "poll")
          /\ UNCHANGED <<wakeVars, workVars, barrierVars>>

\* ggml_graph_compute_thread_ready notes a new graph as pending.
Notice(t) == IF ~pending[t] /\ ~stop /\ nGraph # last[t]
             THEN /\ pending' = [pending EXCEPT ![t] = TRUE]
                  /\ last' = [last EXCEPT ![t] = nGraph]
             ELSE UNCHANGED <<pending, last>>
Ready(t) == pending[t] \/ stop \/ nGraph # last[t]

\* The answer of ready is acted upon: there is work, or the pool stops.
Answered(t) == IF pending[t] \/ (~stop /\ nGraph # last[t]) THEN "work" ELSE "top"

\* ggml_graph_compute_poll_for_work: with work, or when it has polled enough.
Poll(t) == /\ tpc[t] = "poll"
           /\ Notice(t)
           /\ Moves(t, IF Answered(t) = "work" THEN "work" ELSE "lock")
           /\ UNCHANGED <<mutex, stop, nGraph, workVars, barrierVars>>

Lock(t) == /\ tpc[t] = "lock"
           /\ mutex = NoThread
           /\ mutex' = t
           /\ Moves(t, "check")
           /\ UNCHANGED <<stop, nGraph, pending, last, workVars, barrierVars>>

\* ready is asked again under the mutex.
Check(t) == /\ tpc[t] = "check"
            /\ Notice(t)
            /\ IF Ready(t)
               THEN mutex' = NoThread /\ Moves(t, Answered(t))
               ELSE UNCHANGED mutex /\ Moves(t, "wait")
            /\ UNCHANGED <<stop, nGraph, workVars, barrierVars>>

\* pthread_cond_wait releases the mutex and sleeps in one step; it may wake
\* for no reason.
Wait(t) == /\ tpc[t] = "wait"
           /\ mutex' = NoThread
           /\ Moves(t, "asleep")
           /\ UNCHANGED <<stop, nGraph, pending, last, workVars, barrierVars>>

WakeSpuriously(t) == /\ tpc[t] = "asleep"
                     /\ Moves(t, "lock")
                     /\ UNCHANGED <<wakeVars, workVars, barrierVars>>

Work(t) == /\ tpc[t] = "work"
           /\ pending' = [pending EXCEPT ![t] = FALSE]
           /\ node' = [node EXCEPT ![t] = 0]
           /\ Moves(t, "loop")
           /\ UNCHANGED <<mutex, stop, nGraph, last, mine, chunk, abort, ec,
                          prepared, computed, barrierVars>>

\* ggml_threadpool_free, once the graph is computed.
FreeLock == /\ tpc[0] = "free"
            /\ mutex = NoThread
            /\ mutex' = 0
            /\ stop' = TRUE
            /\ Moves(0, "free_wake")
            /\ UNCHANGED <<nGraph, pending, last, workVars, barrierVars>>

FreeWake == /\ tpc[0] = "free_wake"
            /\ WakeAll("join")
            /\ mutex' = NoThread
            /\ UNCHANGED <<stop, nGraph, pending, last, workVars, barrierVars>>

\* Every worker is joined, the pool is freed, ec is returned.
Join == /\ tpc[0] = "join"
        /\ \A t \in Workers : tpc[t] = "gone"
        /\ Moves(0, "returned")
        /\ UNCHANGED <<wakeVars, workVars, barrierVars>>

\* The caller of ggml_graph_compute goes on with what it returned.
Return(status) == /\ tpc[0] = "returned"
                  /\ ec = status
                  /\ Moves(0, "idle")
                  /\ UNCHANGED <<wakeVars, workVars, barrierVars>>
-----------------------------------------------------------------------------
(* ggml_barrier *)

\* Mutant: threads do not meet.
Meet_Not(t, place) == Moves(t, place) /\ UNCHANGED after

\* t enters a barrier and will go on at place; one thread alone does not wait.
Meet(t, place) == IF NThreads = 1 THEN Moves(t, place) /\ UNCHANGED after
                  ELSE Moves(t, "enter") /\ after' = [after EXCEPT ![t] = place]

\* n_passed is read before the thread is counted.
Enter(t) == /\ tpc[t] = "enter"
            /\ seen' = [seen EXCEPT ![t] = nPassed]
            /\ Moves(t, "count")
            /\ UNCHANGED <<nBarrier, nPassed, after, wakeVars, workVars>>

\* Mutant: the count is not reset.
Counted_NoReset == nBarrier + 1

\* The last thread to come resets the count before it lets the others go.
Counted == IF nBarrier = NThreads - 1 THEN 0 ELSE nBarrier + 1

Count(t) == /\ tpc[t] = "count"
            /\ nBarrier' = Counted
            /\ Moves(t, IF nBarrier = NThreads - 1 THEN "release" ELSE "spin")
            /\ UNCHANGED <<nPassed, seen, after, wakeVars, workVars>>

Release(t) == /\ tpc[t] = "release"
              /\ nPassed' = nPassed + 1
              /\ Moves(t, after[t])
              /\ UNCHANGED <<nBarrier, seen, after, wakeVars, workVars>>

Spin(t) == /\ tpc[t] = "spin"
           /\ nPassed # seen[t]
           /\ Moves(t, after[t])
           /\ UNCHANGED <<barrierVars, wakeVars, workVars>>
-----------------------------------------------------------------------------
(* ggml_graph_compute_thread *)

\* An abort names the node it is obeyed at, for threads lag by a node.
Aborts(t) == abort = node[t]

\* The for loop: on to the node, or to the last barrier.
Loop(t) ==
  /\ tpc[t] = "loop"
  /\ IF node[t] < NNodes /\ ~Aborts(t)
     THEN Moves(t, IF node[t] \in MatMul THEN "convert" ELSE "part") /\ UNCHANGED after
     ELSE Meet(t, IF t = 0 THEN "free" ELSE "top")
  /\ mine' = [mine EXCEPT ![t] = t]
  /\ UNCHANGED <<node, chunk, abort, ec, prepared, computed,
                 nBarrier, nPassed, seen, wakeVars>>

\* Mutant: the first thread counts itself once too often.
FirstClaimed_Late == NThreads + 1

\* Every thread starts at its own number, so the first chunk to claim is this.
FirstClaimed == NThreads

\* A product: the thread converts its part of src1, thread 0 sets the counter of
\* chunks, all meet.
Convert(t) ==
  /\ tpc[t] = "convert"
  /\ prepared' = [prepared EXCEPT ![node[t]] = @ \cup {t}]
  /\ chunk' = IF t = 0 THEN FirstClaimed ELSE chunk
  /\ Meet(t, "part")
  /\ UNCHANGED <<node, mine, abort, ec, computed, nBarrier, nPassed, seen, wakeVars>>

\* A thread that has done its part is done when there is one for each thread.
OnlyPart(t) == NThreads >= Cardinality(Parts(node[t]))

\* The first part of a thread is its own number.
Part(t) ==
  /\ tpc[t] = "part"
  /\ computed' = [computed EXCEPT ![node[t]][mine[t]] = @ + 1]
  /\ Moves(t, IF OnlyPart(t) THEN "end" ELSE "claim")
  /\ UNCHANGED <<node, mine, chunk, abort, ec, prepared, barrierVars, wakeVars>>

\* The next chunk comes from the counter.
Claim(t) ==
  /\ tpc[t] = "claim"
  /\ mine' = [mine EXCEPT ![t] = chunk]
  /\ chunk' = chunk + 1
  /\ Moves(t, IF chunk \in Parts(node[t]) THEN "part" ELSE "end")
  /\ UNCHANGED <<node, abort, ec, prepared, computed, barrierVars, wakeVars>>

\* The end of a node: thread 0 asks the abort callback; all meet, unless this
\* was the last node, whose barrier is the one after the loop.
End(t) ==
  /\ tpc[t] = "end"
  /\ \E asked \in BOOLEAN :
       /\ asked => t = 0 /\ MayAbort
       /\ abort' = IF asked THEN node[t] + 1 ELSE abort
       /\ ec' = IF asked THEN "aborted" ELSE ec
  /\ node' = [node EXCEPT ![t] = @ + 1]
  /\ IF node[t] + 1 < NNodes THEN Meet(t, "loop") ELSE Moves(t, "loop") /\ UNCHANGED after
  /\ UNCHANGED <<mine, chunk, prepared, computed, nBarrier, nPassed, seen, wakeVars>>
-----------------------------------------------------------------------------
Main == KickLock \/ KickWake \/ FreeLock \/ FreeWake \/ Join

Wakes(t) == Top(t) \/ Poll(t) \/ Lock(t) \/ Check(t) \/ Wait(t) \/ Work(t)

Computes(t) == \/ Enter(t) \/ Count(t) \/ Release(t) \/ Spin(t)
               \/ Loop(t) \/ Convert(t) \/ Part(t) \/ Claim(t) \/ End(t)

\* The steps of the threads once a graph is given to them.
Runs == \/ Main
        \/ \E t \in Workers : Wakes(t) \/ WakeSpuriously(t)
        \/ \E t \in Threads : Computes(t)

NextPool == StartPool \/ Runs \/ \E status \in {"success", "aborted"} : Return(status)

PoolSpec == InitPool /\ [][NextPool]_poolVars
-----------------------------------------------------------------------------
(* Properties *)

Complete(n) == \A p \in Parts(n) : computed[n][p] = 1
Untouched(n) == \A p \in Parts(n) : computed[n][p] = 0

\* No part of a node is computed twice, and a thread works on a node when all
\* parts of those before it are computed and, for the chunks of a product, all
\* threads have converted their part of src1: the barriers are enough.
PartsInOrder ==
  /\ \A n \in Nodes : \A p \in Parts(n) : computed[n][p] <= 1
  /\ \A t \in Threads : tpc[t] \in {"convert", "part", "claim"} =>
       /\ \A n \in Nodes : n < node[t] => Complete(n)
       /\ tpc[t] # "convert" /\ node[t] \in MatMul => prepared[node[t]] = Threads

\* ggml_graph_compute returns with every node computed, or, aborted, with those
\* up to one and none of the others.
WholeNodes == tpc[0] = "returned" =>
  /\ ec = "success" => \A n \in Nodes : Complete(n)
  /\ \E k \in 1 .. NNodes : \A n \in Nodes :
       IF n < k THEN Complete(n) ELSE Untouched(n)

\* A worker that sleeps, or is about to, has seen the last graph, unless the
\* thread that holds the mutex is about to wake it.
NoLostWakeup == \A t \in Workers : tpc[t] \in {"wait", "asleep"} =>
  \/ last[t] = nGraph /\ ~pending[t] /\ ~stop
  \/ tpc[0] \in {"kick_wake", "free_wake"} /\ tpc[t] = "asleep"
=============================================================================
