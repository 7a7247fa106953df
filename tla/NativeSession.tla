---------------------------- MODULE NativeSession ----------------------------
(***************************************************************************)
(* The run loop of LLamaAndroid (LLamaAndroid.kt) and the native objects it *)
(* owns (llama-android.cpp).  One thread, "Llm-RunLoop", serves a FIFO of   *)
(* jobs: load, unload, bench and send.  load, unload and bench never        *)
(* suspend, so each is one step of that thread.  A send is a flow whose     *)
(* tokens go through the bounded channel of flowOn: when the channel is     *)
(* full its coroutine suspends, the thread takes the next job, and the send *)
(* is put back at the tail of the FIFO when the collector makes room.       *)
(***************************************************************************)
EXTENDS Integers, Sequences, FiniteSets

CONSTANTS
  Jobs,        \* the calls made during the run
  NoJob,       \* no running job, no load in effect
  NLen,        \* nlen: 256 in the code
  Capacity,    \* the buffer of flowOn's channel: 64 by default
  BatchCap,    \* the slots new_batch allocates: 512 in the code
  PromptLens,  \* the prompt lengths, in tokens, that callers send
  DecodeMayFail  \* llama_decode may run out of memory, or fail to compute

ASSUME JobsAssumption == NoJob \notin Jobs
ASSUME BoundsAssumption == /\ NLen \in Nat
                           /\ Capacity \in Nat
                           /\ BatchCap \in Nat
                           /\ PromptLens \subseteq Nat \ {0}
                           /\ DecodeMayFail \in BOOLEAN

VARIABLES
  kind,      \* the operation each job asks for
  pc,        \* where each job is
  held,      \* the load whose handles a send captured as "state"
  prompt,    \* the tokens completion_init evaluated for a send
  ncur,      \* the IntVar of a send
  chan,      \* tokens emitted by a send and not yet collected
  session,   \* threadLocalState: the load in effect, NoJob when Idle
  heap,      \* the native objects allocated and not freed, by part and load
  kv,        \* the session's KV cache: the send whose token is at a position
  logits,    \* the job whose tokens the session's logits were computed for
  runQueue,  \* the FIFO of the single-thread executor
  running,   \* the job the run loop thread is inside, NoJob between jobs
  fault,     \* the undefined behaviour met so far, and the send that met it
  alive,     \* the process runs
  overtaken, \* history: the kinds of call served while a send was suspended
  refused    \* history: the sends one of whose decodes failed

jobVars == <<kind, pc, held, prompt, ncur, chan>>
sendVars == <<held, prompt, ncur, chan>>
ctxVars == <<kv, logits, refused>>
vars == <<kind, pc, held, prompt, ncur, chan, session, heap, kv, logits,
          runQueue, running, fault, alive, overtaken, refused>>

Kinds == {"load", "unload", "send", "bench"}
Aside == {"suspended", "resumed"}
Unfinished == {"loop"} \cup Aside
PCs == {"new", "launched", "queued", "loop", "suspended", "resumed",
        "done", "failed"}
Faults == {"use_after_free", "batch_overflow"}

\* What a load creates.  The batch is a struct and the arrays it points to.
Parts == {"model", "context", "batch", "arrays", "sampler"}
Objects(j) == Parts \X {j}

\* Mutant: unload forgets free_sampler.
Freed_KeepsSampler(j) == (Parts \ {"arrays", "sampler"}) \X {j}

\* What unload frees: free_batch deletes the struct alone.
Freed(j) == (Parts \ {"arrays"}) \X {j}

\* The positions a send can put in the cache before nlen ends it.  The cache
\* has 2048 cells, so all of them find one.
Positions == 0 .. (NLen - 1)
EmptyCache == [p \in Positions |-> NoJob]
Used == {p \in Positions : kv[p] # NoJob}

\* Mutant: a batch is accepted at any position.
Accepts_Anywhere(p) == TRUE

\* llama_decode takes a batch that starts at p when the cache is empty, or
\* when p follows the last position of the sequence; else it returns -1.
Accepts(p) == \/ Used = {}
              \/ \E q \in Used : p = q + 1 /\ \A r \in Used : r <= q

\* What a decode of a batch that starts at p can come to.  completion_init
\* and completion_loop log a failure and go on.
DecodeResults(p) == {r \in {"ok", "failed"} :
                       /\ r = "ok" => Accepts(p)
                       /\ r = "failed" => ~Accepts(p) \/ DecodeMayFail}

\* The cache once the tokens of j are at the positions first .. last.
Placed(j, first, last) ==
  [p \in Positions |-> IF first <= p /\ p <= last THEN j ELSE kv[p]]

\* The logits are those of j, or the last ones when its decode failed.
Outcome(j, r) == IF r = "ok" THEN logits' = j /\ UNCHANGED refused
                 ELSE refused' = refused \cup {j} /\ UNCHANGED logits

\* j decodes the positions first .. last on the context of the session.  A
\* failed decode leaves the cache as it was.
Decode(j, first, last) == \E r \in DecodeResults(first) :
  /\ kv' = IF r = "ok" THEN Placed(j, first, last) ELSE kv
  /\ Outcome(j, r)

\* The handles a send captured still point to live objects.
HandlesLive(j) == Freed(held[j]) \subseteq heap

-----------------------------------------------------------------------------
Init == /\ kind = [j \in Jobs |-> "none"]
        /\ pc = [j \in Jobs |-> "new"]
        /\ held = [j \in Jobs |-> NoJob]
        /\ prompt = [j \in Jobs |-> 0]
        /\ ncur = [j \in Jobs |-> 0]
        /\ chan = [j \in Jobs |-> 0]
        /\ session = NoJob
        /\ heap = {}
        /\ kv = EmptyCache
        /\ logits = NoJob
        /\ runQueue = <<>>
        /\ running = NoJob
        /\ fault = {}
        /\ alive = TRUE
        /\ overtaken = [j \in Jobs |-> {}]
        /\ refused = {}

\* A caller starts a coroutine for the call (GlobalScope.launch in LLMW).
Launch(j) ==
  /\ pc[j] = "new"
  /\ \E k \in Kinds : kind' = [kind EXCEPT ![j] = k]
  /\ pc' = [pc EXCEPT ![j] = "launched"]
  /\ UNCHANGED <<sendVars, session, heap, ctxVars, runQueue, running, fault, overtaken>>

\* The coroutine reaches withContext(runLoop), or collects a flow that
\* flowOn(runLoop) produces: a task joins the executor's queue.  Launched
\* coroutines get here in any order.
Dispatch(j) ==
  /\ pc[j] = "launched"
  /\ pc' = [pc EXCEPT ![j] = "queued"]
  /\ runQueue' = Append(runQueue, j)
  /\ UNCHANGED <<kind, sendVars, session, heap, ctxVars, running, fault, overtaken>>

\* Job j goes in front of the sends that are suspended or wait to go on.
Overtakes(j) == overtaken' = [i \in Jobs |->
  IF i # j /\ pc[i] \in Aside THEN overtaken[i] \cup {kind[j]} ELSE overtaken[i]]

\* Mutant: a second thread serves the queue while a send is in its loop.
Takes_TwoThreads(j, from) == /\ runQueue # <<>>
                             /\ Head(runQueue) = j
                             /\ pc[j] = from
                             /\ runQueue' = Tail(runQueue)
                             /\ Overtakes(j)

\* The run loop thread is free and takes job j, at the head of its queue.
Takes(j, from) == /\ running = NoJob
                  /\ runQueue # <<>>
                  /\ Head(runQueue) = j
                  /\ pc[j] = from
                  /\ runQueue' = Tail(runQueue)
                  /\ Overtakes(j)

Starts(j, k) == kind[j] = k /\ Takes(j, "queued")

LoadAlreadyLoaded(j) ==
  /\ Starts(j, "load")
  /\ session # NoJob
  /\ pc' = [pc EXCEPT ![j] = "failed"]
  /\ UNCHANGED <<kind, sendVars, session, heap, ctxVars, running, fault>>

\* load_model fails and leaves nothing; new_context fails and leaves the
\* model, which no one frees.
LoadFails(j) ==
  /\ Starts(j, "load")
  /\ session = NoJob
  /\ \E left \in {{}, {"model"}} : heap' = heap \cup (left \X {j})
  /\ pc' = [pc EXCEPT ![j] = "failed"]
  /\ UNCHANGED <<kind, sendVars, session, ctxVars, running, fault>>

Load(j) ==
  /\ Starts(j, "load")
  /\ session = NoJob
  /\ heap' = heap \cup Objects(j)
  /\ session' = j
  /\ kv' = EmptyCache
  /\ logits' = NoJob
  /\ pc' = [pc EXCEPT ![j] = "done"]
  /\ UNCHANGED <<kind, sendVars, running, fault, refused>>

Unload(j) ==
  /\ Starts(j, "unload")
  /\ session # NoJob
  /\ heap' = heap \ Freed(session)
  /\ session' = NoJob
  /\ kv' = EmptyCache
  /\ logits' = NoJob
  /\ pc' = [pc EXCEPT ![j] = "done"]
  /\ UNCHANGED <<kind, sendVars, running, fault, refused>>

\* bench throws when Idle; else bench_model decodes its own batches and
\* clears the cache of the context on the way.  Its logits are the last.
Bench(j) ==
  /\ Starts(j, "bench")
  /\ pc' = [pc EXCEPT ![j] = IF session = NoJob THEN "failed" ELSE "done"]
  /\ IF session = NoJob
     THEN UNCHANGED ctxVars
     ELSE /\ kv' = EmptyCache
          /\ logits' \in IF DecodeMayFail THEN {j, logits} ELSE {j}
          /\ UNCHANGED refused
  /\ UNCHANGED <<kind, sendVars, session, heap, running, fault>>

\* unload and send do nothing when Idle.
NothingLoaded(j) ==
  /\ Starts(j, "unload") \/ Starts(j, "send")
  /\ session = NoJob
  /\ pc' = [pc EXCEPT ![j] = "done"]
  /\ UNCHANGED <<kind, sendVars, session, heap, ctxVars, running, fault>>

\* completion_init puts the whole prompt, p tokens from position 0, in a batch
\* of BatchCap slots, whatever the cache holds; n_cur is p, decoded or not.
CompletionInit(j, p) ==
  /\ prompt' = [prompt EXCEPT ![j] = p]
  /\ ncur' = [ncur EXCEPT ![j] = p]
  /\ fault' = IF p > BatchCap THEN fault \cup {<<"batch_overflow", j>>} ELSE fault

\* send on a loaded session: completion_init decodes the prompt.  A prompt
\* beyond NLen fails the loop's first test: the send clears the cache and ends
\* without a token.
Send(j) ==
  /\ Starts(j, "send")
  /\ session # NoJob
  /\ held' = [held EXCEPT ![j] = session]
  /\ \E p \in PromptLens :
       /\ CompletionInit(j, p)
       /\ IF p <= NLen
          THEN /\ pc' = [pc EXCEPT ![j] = "loop"]
               /\ running' = j
               /\ Decode(j, 0, p - 1)
          ELSE /\ pc' = [pc EXCEPT ![j] = "done"]
               /\ kv' = EmptyCache
               /\ \E r \in DecodeResults(0) : Outcome(j, r)
               /\ UNCHANGED running
  /\ UNCHANGED <<kind, chan, session, heap>>

\* A native call of a send on the handles it captured.
Touch(j) == fault' = IF HandlesLive(j) THEN fault
                     ELSE fault \cup {<<"use_after_free", j>>}

\* Mutant: emit suspends one token too late.
BufferFull_Late(j) == chan[j] > Capacity

\* emit suspends when it finds the channel's buffer full.
BufferFull(j) == chan[j] >= Capacity

LimitReached(j) == ncur[j] = NLen

\* completion_loop samples, from the last logits, a token that neither ends the
\* generation nor meets the length limit, decodes it at n_cur, moves n_cur on,
\* decoded or not, and the flow emits the token.
CompletionLoop(j) ==
  /\ running = j
  /\ pc[j] = "loop"
  /\ ~LimitReached(j)
  /\ Touch(j)
  /\ ncur' = [ncur EXCEPT ![j] = @ + 1]
  /\ chan' = [chan EXCEPT ![j] = @ + 1]
  /\ IF held[j] = session
     THEN Decode(j, ncur[j], ncur[j])
     ELSE UNCHANGED ctxVars
  /\ IF BufferFull(j)
     THEN pc' = [pc EXCEPT ![j] = "suspended"] /\ running' = NoJob
     ELSE UNCHANGED <<pc, running>>
  /\ UNCHANGED <<kind, held, prompt, session, heap, runQueue, overtaken>>

\* Mutant: send ends without kv_cache_clear.
CacheAfterSend_Kept(j) == kv

\* kv_cache_clear on the captured context, freed or not.
CacheAfterSend(j) == IF held[j] = session THEN EmptyCache ELSE kv

\* completion_loop returns null (an end-of-generation token, or the length
\* limit): the loop breaks and kv_cache_clear empties the cache.
EndSend(j) ==
  /\ running = j
  /\ pc[j] = "loop"
  /\ Touch(j)
  /\ kv' = CacheAfterSend(j)
  /\ pc' = [pc EXCEPT ![j] = "done"]
  /\ running' = NoJob
  /\ UNCHANGED <<kind, sendVars, session, heap, logits, refused, runQueue, overtaken>>

\* Mutant: a last token is left behind.
HasToken_NotLast(j) == chan[j] > 1

HasToken(j) == chan[j] > 0

\* Mutants: every receive queues the sender again, or none does.
Wakes_Again(j) == pc[j] \in Aside
Wakes_Never(j) == FALSE

Wakes(j) == pc[j] = "suspended"

\* The collector takes a token.  The room it makes resumes a suspended
\* send: its continuation joins the tail of the run loop's queue.
Collect(j) ==
  /\ HasToken(j)
  /\ chan' = [chan EXCEPT ![j] = @ - 1]
  /\ IF Wakes(j)
     THEN /\ pc' = [pc EXCEPT ![j] = "resumed"]
          /\ runQueue' = Append(runQueue, j)
     ELSE UNCHANGED <<pc, runQueue>>
  /\ UNCHANGED <<kind, held, prompt, ncur, session, heap, ctxVars, running, fault,
                 overtaken>>

\* The run loop re-enters a resumed send, at its while test.
Resume(j) ==
  /\ Takes(j, "resumed")
  /\ pc' = [pc EXCEPT ![j] = "loop"]
  /\ running' = j
  /\ UNCHANGED <<kind, sendVars, session, heap, ctxVars, fault>>

\* After undefined behaviour the process may die at any point, or go on.
Die == /\ fault # {}
       /\ alive' = FALSE
       /\ UNCHANGED <<jobVars, session, heap, ctxVars, runQueue, running, fault,
                      overtaken>>

RunLoop(j) == \/ LoadAlreadyLoaded(j) \/ LoadFails(j) \/ Load(j)
              \/ Unload(j) \/ Bench(j) \/ NothingLoaded(j) \/ Send(j)
              \/ CompletionLoop(j) \/ EndSend(j) \/ Resume(j)

Step(j) == Launch(j) \/ Dispatch(j) \/ RunLoop(j) \/ Collect(j)

Next == /\ alive
        /\ \/ (\E j \in Jobs : Step(j)) /\ UNCHANGED alive
           \/ Die

Spec == Init /\ [][Next]_vars

\* The thread pool runs every launched coroutine, the executor serves its
\* queue, and every collector goes on collecting.
Fairness == \A j \in Jobs :
  /\ WF_vars(alive /\ Dispatch(j) /\ UNCHANGED alive)
  /\ WF_vars(alive /\ RunLoop(j) /\ UNCHANGED alive)
  /\ WF_vars(alive /\ Collect(j) /\ UNCHANGED alive)

FairSpec == Spec /\ Fairness
-----------------------------------------------------------------------------
(* Properties *)

TypeOK == /\ kind \in [Jobs -> Kinds \cup {"none"}]
          /\ pc \in [Jobs -> PCs]
          /\ held \in [Jobs -> Jobs \cup {NoJob}]
          /\ prompt \in [Jobs -> Nat]
          /\ ncur \in [Jobs -> Nat]
          /\ chan \in [Jobs -> Nat]
          /\ session \in Jobs \cup {NoJob}
          /\ heap \subseteq Parts \X Jobs
          /\ kv \in [Positions -> Jobs \cup {NoJob}]
          /\ logits \in Jobs \cup {NoJob}
          /\ runQueue \in Seq(Jobs)
          /\ running \in Jobs \cup {NoJob}
          /\ fault \subseteq Faults \X Jobs
          /\ alive \in BOOLEAN
          /\ overtaken \in [Jobs -> SUBSET (Kinds \cup {"none"})]
          /\ refused \subseteq Jobs

\* What of load j is on the heap.
Of(j) == {p \in Parts : <<p, j>> \in heap}

\* The native heap holds the five objects of the load in effect and, besides
\* them, exactly what the code leaks: the arrays of the batch of each model
\* that was unloaded, the model of a load that failed at new_context.
\* Nothing is freed twice, and no handle of the session dangles.
HeapAccounted == \A j \in Jobs :
  /\ j = session => Of(j) = Parts
  /\ j # session /\ kind[j] = "load" /\ pc[j] = "done" => Of(j) = {"arrays"}
  /\ j # session /\ kind[j] = "load" /\ pc[j] = "failed" => Of(j) \subseteq {"model"}
  /\ kind[j] # "load" \/ pc[j] \notin {"done", "failed"} => Of(j) = {}

\* Tokens in the cache belong to sends of this session that have not ended,
\* and lie before the position where the send goes on: a send that starts when
\* no other is unfinished starts on an empty cache.
CacheOwned == \A p \in Used :
  /\ pc[kv[p]] \in Unfinished
  /\ held[kv[p]] = session
  /\ p < ncur[kv[p]]

\* The positions in the cache have no gap, whoever put them there and whatever
\* decode failed in between: n_cur moves on even when a decode fails.
Gapless == \A p, q \in Used : \A r \in Positions : p <= r /\ r <= q => r \in Used

\* A send is parked exactly while its channel holds one token more than its
\* buffer, so the collector that makes room is sure to wake it.
ParkedIffOverfull == \A j \in Jobs : pc[j] = "suspended" <=> chan[j] > Capacity

\* The executor's queue holds each job that waits for the thread once, and
\* the thread is inside the only send that is in its loop.
QueueSound ==
  /\ \A j \in Jobs : pc[j] \in {"queued", "resumed"}
        <=> \E i \in DOMAIN runQueue : runQueue[i] = j
  /\ \A i, k \in DOMAIN runQueue : runQueue[i] = runQueue[k] => i = k
  /\ \A j \in Jobs : pc[j] = "loop" <=> running = j

\* The handles a send captured are those of the load in effect, live, for as long
\* as no unload was served while the send was suspended at an emit: no other
\* order of calls, and no failure, makes a native call on freed handles.
HandlesKept == \A j \in Jobs : "unload" \notin overtaken[j] =>
  /\ pc[j] \in Unfinished => held[j] = session /\ HandlesLive(j)
  /\ <<"use_after_free", j>> \notin fault

\* A send in its loop samples from logits computed for its own last token, and
\* the cache holds its whole prompt and answer, from position 0 up to n_cur, and
\* nothing else, however many sends are suspended behind it or were left in
\* whatever state: unless a call other than a load was served while it was itself
\* suspended, or a decode of its own failed.  The code tests neither.
OwnContext == \A j \in Jobs :
  pc[j] = "loop" /\ overtaken[j] \subseteq {"load"} /\ j \notin refused =>
    /\ logits = j
    /\ \A p \in Positions : kv[p] = IF p < ncur[j] THEN j ELSE NoJob

\* Unload frees what the load allocated ("Unloads the model and frees
\* resources", LLamaAndroid.kt:137): once idle, the objects of finished
\* loads are gone.
UnloadFreesResources == \A j \in Jobs :
  kind[j] = "load" /\ pc[j] = "done" /\ j # session => Of(j) = {}

\* Every call that is launched ends, failed or done, while the process lives.
EveryCallEnds == \A j \in Jobs :
  pc[j] = "launched" ~> pc[j] \in {"done", "failed"} \/ ~alive

\* Every emitted token reaches the collector.
EveryTokenCollected == \A j \in Jobs : chan[j] > 0 ~> chan[j] = 0 \/ ~alive
=============================================================================
