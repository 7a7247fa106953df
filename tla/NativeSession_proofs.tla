------------------------- MODULE NativeSession_proofs -------------------------
(***************************************************************************)
(* What holds of the run loop for any number of jobs, any channel, batch    *)
(* and length limit.                                                        *)
(***************************************************************************)
EXTENDS MCNativeSession, TLAPS

\* A decode, accepted or not, leaves a cache of sends and the logits of one.
LEMMA DecodeType ==
  ASSUME kv \in [Positions -> Jobs \cup {NoJob}], logits \in Jobs \cup {NoJob},
         refused \subseteq Jobs,
         NEW j \in Jobs, NEW first, NEW last, Decode(j, first, last)
  PROVE  /\ kv' \in [Positions -> Jobs \cup {NoJob}]
         /\ logits' \in Jobs \cup {NoJob}
         /\ refused' \subseteq Jobs
<1>1. PICK r \in DecodeResults(first) :
        /\ kv' = IF r = "ok" THEN Placed(j, first, last) ELSE kv
        /\ Outcome(j, r)
  BY DEF Decode
<1>2. kv' \in [Positions -> Jobs \cup {NoJob}]
  BY <1>1 DEF Placed
<1>3. logits' \in Jobs \cup {NoJob} /\ refused' \subseteq Jobs
  BY <1>1 DEF Outcome
<1> QED
  BY <1>2, <1>3

Kept == [Jobs -> SUBSET (Kinds \cup {"none"})]

\* The queue that is left when its head is taken, and what is kept of that.
LEMMA TakenQueue ==
  ASSUME TypeOK, NEW j \in Jobs, NEW from, Takes(j, from)
  PROVE  runQueue' \in Seq(Jobs) /\ overtaken' \in Kept
<1>1. runQueue' \in Seq(Jobs)
  BY DEF Takes, TypeOK
<1>2. Overtakes(j) /\ overtaken \in Kept /\ kind[j] \in Kinds \cup {"none"}
  BY DEF Takes, TypeOK, Kept
<1>3. overtaken' \in Kept
  BY <1>2 DEF Overtakes, Kept
<1> QED
  BY <1>1, <1>3

\* Each of the run loop's steps leaves every variable in its type; only the heap
\* takes more than a look, at what a load allocates or leaves behind.
LEMMA TypeStep ==
  ASSUME TypeOK, [Next]_vars
  PROVE  TypeOK'
<1> USE DEF TypeOK, PCs, Kinds, Kept
<1>1. ASSUME NEW j \in Jobs, Launch(j), UNCHANGED alive
      PROVE  TypeOK'
  <2>1. /\ \E k \in Kinds : kind' = [kind EXCEPT ![j] = k]
        /\ pc' = [pc EXCEPT ![j] = "launched"]
        /\ UNCHANGED <<held, prompt, ncur, chan, session, heap, kv, logits, refused, runQueue, running, fault,
                    overtaken>>
    BY <1>1 DEF Launch, sendVars, ctxVars
  <2>2. kind' \in [Jobs -> Kinds \cup {"none"}]
    BY <2>1
  <2> QED
    BY <1>1, <2>1, <2>2
<1>2. ASSUME NEW j \in Jobs, Dispatch(j), UNCHANGED alive
      PROVE  TypeOK'
  <2>1. runQueue' \in Seq(Jobs)
    BY <1>2 DEF Dispatch
  <2>2. /\ pc' = [pc EXCEPT ![j] = "queued"]
        /\ UNCHANGED <<kind, held, prompt, ncur, chan, session, heap, kv, logits, refused, running, fault, overtaken>>
    BY <1>2 DEF Dispatch, sendVars, ctxVars
  <2> QED
    BY <1>2, <2>1, <2>2
<1>3. ASSUME NEW j \in Jobs, RunLoop(j), UNCHANGED alive
      PROVE  TypeOK'
  <2>1. CASE LoadAlreadyLoaded(j)
    <3>1. runQueue' \in Seq(Jobs) /\ overtaken' \in Kept
      BY <2>1, TakenQueue DEF LoadAlreadyLoaded, Starts
    <3>2. /\ pc' = [pc EXCEPT ![j] = "failed"]
          /\ UNCHANGED <<kind, held, prompt, ncur, chan, session, heap, kv, logits, refused, running, fault>>
      BY <2>1 DEF LoadAlreadyLoaded, sendVars, ctxVars
    <3> QED
      BY <1>3, <3>1, <3>2
  <2>2. CASE LoadFails(j)
    <3>1. PICK left \in {{}, {"model"}} : heap' = heap \cup (left \X {j})
      BY <2>2 DEF LoadFails
    <3>2. left \X {j} \subseteq Parts \X Jobs
      BY DEF Parts
    <3>3. heap' \subseteq Parts \X Jobs
      BY <3>1, <3>2
    <3>4. runQueue' \in Seq(Jobs) /\ overtaken' \in Kept
      BY <2>2, TakenQueue DEF LoadFails, Starts
    <3>5. /\ pc' = [pc EXCEPT ![j] = "failed"]
          /\ UNCHANGED <<kind, held, prompt, ncur, chan, session, kv, logits, refused, running, fault>>
      BY <2>2 DEF LoadFails, sendVars, ctxVars
    <3> QED
      BY <1>3, <3>3, <3>4, <3>5
  <2>3. CASE Load(j)
    <3>1. heap' \subseteq Parts \X Jobs
      BY <2>3 DEF Load, Objects
    <3>2. runQueue' \in Seq(Jobs) /\ overtaken' \in Kept
      BY <2>3, TakenQueue DEF Load, Starts
    <3>3. kv' \in [Positions -> Jobs \cup {NoJob}]
      BY <2>3 DEF Load, EmptyCache
    <3>4. /\ pc' = [pc EXCEPT ![j] = "done"]
          /\ session' = j
          /\ logits' = NoJob
          /\ UNCHANGED <<kind, held, prompt, ncur, chan, running, fault, refused>>
      BY <2>3 DEF Load, sendVars
    <3> QED
      BY <1>3, <3>1, <3>2, <3>3, <3>4
  <2>4. CASE Unload(j)
    <3>1. heap' \subseteq Parts \X Jobs
      BY <2>4 DEF Unload
    <3>2. runQueue' \in Seq(Jobs) /\ overtaken' \in Kept
      BY <2>4, TakenQueue DEF Unload, Starts
    <3>3. kv' \in [Positions -> Jobs \cup {NoJob}]
      BY <2>4 DEF Unload, EmptyCache
    <3>4. /\ pc' = [pc EXCEPT ![j] = "done"]
          /\ session' = NoJob
          /\ logits' = NoJob
          /\ UNCHANGED <<kind, held, prompt, ncur, chan, running, fault, refused>>
      BY <2>4 DEF Unload, sendVars
    <3> QED
      BY <1>3, <3>1, <3>2, <3>3, <3>4
  <2>5. CASE Bench(j)
    <3>1. runQueue' \in Seq(Jobs) /\ overtaken' \in Kept
      BY <2>5, TakenQueue DEF Bench, Starts
    <3>2. /\ kv' \in [Positions -> Jobs \cup {NoJob}] /\ logits' \in Jobs \cup {NoJob}
          /\ refused' = refused
      BY <2>5 DEF Bench, EmptyCache, ctxVars
    <3>3. \E s \in {"failed", "done"} : pc' = [pc EXCEPT ![j] = s]
      BY <2>5 DEF Bench
    <3>4. UNCHANGED <<kind, held, prompt, ncur, chan, session, heap, running, fault>>
      BY <2>5 DEF Bench, sendVars
    <3> QED
      BY <1>3, <3>1, <3>2, <3>3, <3>4
  <2>6. CASE NothingLoaded(j)
    <3>1. runQueue' \in Seq(Jobs) /\ overtaken' \in Kept
      BY <2>6, TakenQueue DEF NothingLoaded, Starts
    <3>2. /\ pc' = [pc EXCEPT ![j] = "done"]
          /\ UNCHANGED <<kind, held, prompt, ncur, chan, session, heap, kv, logits, refused, running, fault>>
      BY <2>6 DEF NothingLoaded, sendVars, ctxVars
    <3> QED
      BY <1>3, <3>1, <3>2
  <2>7. CASE Send(j)
    <3>1. PICK p \in PromptLens :
           CompletionInit(j, p) /\
           IF p <= NLen
           THEN /\ pc' = [pc EXCEPT ![j] = "loop"]
                /\ running' = j
                /\ Decode(j, 0, p - 1)
           ELSE /\ pc' = [pc EXCEPT ![j] = "done"]
                /\ kv' = EmptyCache
                /\ \E r \in DecodeResults(0) : Outcome(j, r)
                /\ UNCHANGED running
      BY <2>7 DEF Send
    <3>5. /\ pc' \in [Jobs -> PCs]
          /\ running' \in Jobs \cup {NoJob}
          /\ kv' \in [Positions -> Jobs \cup {NoJob}]
          /\ logits' \in Jobs \cup {NoJob}
          /\ refused' \subseteq Jobs
      <4>1. CASE p <= NLen
        BY <3>1, <4>1, DecodeType
      <4>2. CASE ~(p <= NLen)
        <5>1. /\ pc' = [pc EXCEPT ![j] = "done"] /\ kv' = EmptyCache /\ running' = running
              /\ \E r \in DecodeResults(0) : Outcome(j, r)
          BY <3>1, <4>2
        <5>2. logits' \in Jobs \cup {NoJob} /\ refused' \subseteq Jobs
          BY <5>1 DEF Outcome
        <5> QED
          BY <5>1, <5>2 DEF EmptyCache
      <4> QED
        BY <4>1, <4>2
    <3>2. /\ prompt' \in [Jobs -> Nat]
          /\ ncur' \in [Jobs -> Nat]
          /\ fault' \subseteq Faults \X Jobs
      BY <3>1, BoundsAssumption DEF CompletionInit, Faults
    <3>3. runQueue' \in Seq(Jobs) /\ overtaken' \in Kept
      BY <2>7, TakenQueue DEF Send, Starts
    <3>4. held' \in [Jobs -> Jobs \cup {NoJob}]
      BY <2>7 DEF Send
    <3>6. UNCHANGED <<kind, chan, session, heap>>
      BY <2>7 DEF Send
    <3> QED
      BY <1>3, <3>2, <3>3, <3>4, <3>5, <3>6
  <2>8. CASE CompletionLoop(j)
    <3>1. pc' \in [Jobs -> PCs] /\ running' \in Jobs \cup {NoJob}
      <4>1. CASE BufferFull(j)
        BY <2>8, <4>1 DEF CompletionLoop
      <4>2. CASE ~BufferFull(j)
        BY <2>8, <4>2 DEF CompletionLoop
      <4> QED
        BY <4>1, <4>2
    <3>2. fault' \subseteq Faults \X Jobs
      BY <2>8 DEF CompletionLoop, Touch, Faults
    <3>3. /\ kv' \in [Positions -> Jobs \cup {NoJob}] /\ logits' \in Jobs \cup {NoJob}
          /\ refused' \subseteq Jobs
      BY <2>8, DecodeType DEF CompletionLoop, ctxVars
    <3>4. ncur' \in [Jobs -> Nat] /\ chan' \in [Jobs -> Nat]
      <4>1. /\ ncur' = [ncur EXCEPT ![j] = @ + 1]
            /\ chan' = [chan EXCEPT ![j] = @ + 1]
        BY <2>8 DEF CompletionLoop
      <4>2. ncur \in [Jobs -> Nat] /\ chan \in [Jobs -> Nat]
        OBVIOUS
      <4> HIDE DEF TypeOK
      <4> QED
        BY <4>1, <4>2
    <3>5. UNCHANGED <<kind, held, prompt, session, heap, runQueue, overtaken>>
      BY <2>8 DEF CompletionLoop
    <3> QED
      BY <1>3, <3>1, <3>2, <3>3, <3>4, <3>5
  <2>9. CASE EndSend(j)
    <3>1. kv' \in [Positions -> Jobs \cup {NoJob}]
      BY <2>9 DEF EndSend, CacheAfterSend, EmptyCache
    <3>2. fault' \subseteq Faults \X Jobs
      BY <2>9 DEF EndSend, Touch, Faults
    <3>3. /\ pc' = [pc EXCEPT ![j] = "done"]
          /\ running' = NoJob
          /\ UNCHANGED <<kind, held, prompt, ncur, chan, session, heap, logits, refused,
                       runQueue, overtaken>>
      BY <2>9 DEF EndSend, sendVars
    <3> QED
      BY <1>3, <3>1, <3>2, <3>3
  <2>10. CASE Resume(j)
    <3>1. runQueue' \in Seq(Jobs) /\ overtaken' \in Kept
      BY <2>10, TakenQueue DEF Resume
    <3>2. /\ pc' = [pc EXCEPT ![j] = "loop"]
          /\ running' = j
          /\ UNCHANGED <<kind, held, prompt, ncur, chan, session, heap, kv, logits, refused, fault>>
      BY <2>10 DEF Resume, sendVars, ctxVars
    <3> QED
      BY <1>3, <3>1, <3>2
  <2> QED
    BY <1>3, <2>1, <2>2, <2>3, <2>4, <2>5, <2>6, <2>7, <2>8, <2>9, <2>10
       DEF RunLoop
<1>4. ASSUME NEW j \in Jobs, Collect(j), UNCHANGED alive
      PROVE  TypeOK'
  <2>1. chan' \in [Jobs -> Nat]
    <3>1. chan[j] > 0 /\ chan' = [chan EXCEPT ![j] = @ - 1]
      BY <1>4 DEF Collect, HasToken
    <3>2. chan \in [Jobs -> Nat]
      OBVIOUS
    <3> HIDE DEF TypeOK
    <3> QED
      BY <3>1, <3>2
  <2>2. pc' \in [Jobs -> PCs] /\ runQueue' \in Seq(Jobs)
    <3>1. CASE Wakes(j)
      <4>1. /\ pc' = [pc EXCEPT ![j] = "resumed"]
            /\ runQueue' = Append(runQueue, j)
        BY <1>4, <3>1 DEF Collect
      <4> QED
        BY <4>1
    <3>2. CASE ~Wakes(j)
      BY <1>4, <3>2 DEF Collect
    <3> QED
      BY <3>1, <3>2
  <2>3. UNCHANGED <<kind, held, prompt, ncur, session, heap, kv, logits, refused, running, fault, overtaken>>
    BY <1>4 DEF Collect, ctxVars
  <2> QED
    BY <1>4, <2>1, <2>2, <2>3
<1>5. CASE Die
  BY <1>5 DEF Die, jobVars, ctxVars
<1>6. CASE UNCHANGED vars
  BY <1>6 DEF vars
<1> QED
  BY <1>1, <1>2, <1>3, <1>4, <1>5, <1>6 DEF Next, Step

\* The types of the run loop's state: no step, of any handler, in any order,
\* takes a counter below zero or a queue out of Seq(Jobs).
THEOREM TypeCorrect == Spec => []TypeOK
<1>1. Init => TypeOK
  BY BoundsAssumption DEF Init, TypeOK, Kinds, PCs, Parts, EmptyCache
<1>2. TypeOK /\ [Next]_vars => TypeOK'
  BY TypeStep
<1> QED
  BY <1>1, <1>2, PTL DEF Spec

-----------------------------------------------------------------------------
(* The accounting of the native heap. *)

\* The session is a load that has ended well.
SessionLoaded == session # NoJob => kind[session] = "load" /\ pc[session] = "done"

\* Only a send is ever inside the loop of completion_loop.
LoopsAreSends == \A j \in Jobs : pc[j] \in Unfinished => kind[j] = "send"

HeapInv == TypeOK /\ LoopsAreSends /\ SessionLoaded /\ HeapAccounted

\* Only a send is ever in its loop, suspended or resumed: no step takes another
\* job there, and none changes the kind of a job on its way.
LEMMA LoopsAreSendsStep ==
  ASSUME TypeOK, LoopsAreSends, [Next]_vars
  PROVE  LoopsAreSends'
<1> USE DEF TypeOK, LoopsAreSends, Unfinished, Aside
<1>1. ASSUME NEW j \in Jobs, Step(j)
      PROVE  LoopsAreSends'
  <2>1. CASE Launch(j)
    BY <2>1 DEF Launch
  <2>2. CASE Dispatch(j)
    BY <2>2 DEF Dispatch
  <2>3. CASE \/ LoadAlreadyLoaded(j) \/ LoadFails(j) \/ Load(j) \/ Unload(j)
             \/ Bench(j) \/ NothingLoaded(j) \/ EndSend(j)
    <3>1. /\ kind' = kind
          /\ \E s \in {"done", "failed"} : pc' = [pc EXCEPT ![j] = s]
      BY <2>3 DEF LoadAlreadyLoaded, LoadFails, Load, Unload, Bench,
                  NothingLoaded, EndSend
    <3> QED
      BY <3>1
  <2>4. CASE Send(j)
    BY <2>4 DEF Send, Starts
  <2>5. CASE CompletionLoop(j)
    BY <2>5 DEF CompletionLoop
  <2>6. CASE Collect(j)
    BY <2>6 DEF Collect, Wakes
  <2>7. CASE Resume(j)
    BY <2>7 DEF Resume, Takes
  <2> QED
    BY <1>1, <2>1, <2>2, <2>3, <2>4, <2>5, <2>6, <2>7 DEF Step, RunLoop
<1>2. CASE Die \/ UNCHANGED vars
  BY <1>2 DEF Die, jobVars, vars
<1> QED
  BY <1>1, <1>2 DEF Next

\* A step that leaves the heap and the session alone, and moves one job that
\* has not ended, keeps the accounts unless it ends a load well.
LEMMA HeapFrame ==
  ASSUME HeapInv, TypeOK', NEW j \in Jobs,
         pc[j] \notin {"done", "failed"},
         ~(kind'[j] = "load" /\ pc'[j] = "done"),
         \A i \in Jobs \ {j} : pc'[i] = pc[i] /\ kind'[i] = kind[i],
         heap' = heap, session' = session
  PROVE  SessionLoaded' /\ HeapAccounted'
<1>1. j # session
  BY JobsAssumption DEF HeapInv, SessionLoaded
<1>2. SessionLoaded'
  BY <1>1 DEF HeapInv, SessionLoaded, TypeOK
<1>3. \A i \in Jobs : Of(i)' = Of(i)
  BY DEF Of
<1>4. Of(j) = {}
  BY DEF HeapInv, HeapAccounted
<1>5. HeapAccounted'
  <2> SUFFICES ASSUME NEW i \in Jobs
               PROVE  /\ i = session' => Of(i)' = Parts
                      /\ i # session' /\ kind'[i] = "load" /\ pc'[i] = "done"
                           => Of(i)' = {"arrays"}
                      /\ i # session' /\ kind'[i] = "load" /\ pc'[i] = "failed"
                           => Of(i)' \subseteq {"model"}
                      /\ kind'[i] # "load" \/ pc'[i] \notin {"done", "failed"}
                           => Of(i)' = {}
    BY DEF HeapAccounted
  <2>1. CASE i = j
    BY <2>1, <1>1, <1>3, <1>4
  <2>2. CASE i # j
    BY <2>2, <1>3 DEF HeapInv, HeapAccounted
  <2> QED
    BY <2>1, <2>2
<1> QED
  BY <1>2, <1>5

\* A load that succeeds puts five objects on the heap, all of its own, and makes
\* itself the session.
LEMMA HeapLoad ==
  ASSUME HeapInv, TypeOK', NEW j \in Jobs, Load(j)
  PROVE  SessionLoaded' /\ HeapAccounted'
<1>1. /\ pc[j] = "queued" /\ kind[j] = "load"
      /\ session = NoJob /\ session' = j
      /\ heap' = heap \cup Objects(j)
      /\ pc' = [pc EXCEPT ![j] = "done"] /\ kind' = kind
  BY DEF Load, Starts, Takes
<1>2. SessionLoaded'
  BY <1>1 DEF HeapInv, SessionLoaded, TypeOK
<1>3. Of(j)' = Parts
  BY <1>1 DEF Of, Objects
<1>4. \A i \in Jobs \ {j} : Of(i)' = Of(i)
  BY <1>1 DEF Of, Objects
<1>5. \A i \in Jobs \ {j} : pc'[i] = pc[i] /\ i # session /\ i # session'
  BY <1>1, JobsAssumption DEF HeapInv, TypeOK
<1>6. pc'[j] = "done" /\ kind'[j] = "load"
  BY <1>1 DEF HeapInv, TypeOK
<1> QED
  BY <1>1, <1>2, <1>3, <1>4, <1>5, <1>6 DEF HeapInv, HeapAccounted

\* unload frees all of the session's load but the arrays of its batch, and
\* nothing of any other load.
LEMMA HeapUnload ==
  ASSUME HeapInv, TypeOK', NEW j \in Jobs, Unload(j)
  PROVE  SessionLoaded' /\ HeapAccounted'
<1>1. /\ pc[j] = "queued" /\ kind[j] = "unload"
      /\ session # NoJob /\ session' = NoJob
      /\ heap' = heap \ Freed(session)
      /\ pc' = [pc EXCEPT ![j] = "done"] /\ kind' = kind
  BY DEF Unload, Starts, Takes
<1>2. SessionLoaded'
  BY <1>1 DEF SessionLoaded
<1>3. session \in Jobs /\ j # session
  BY <1>1 DEF HeapInv, TypeOK, SessionLoaded
<1>4. Of(session) = Parts
  BY <1>3 DEF HeapInv, HeapAccounted
<1>5. {p \in Parts : <<p, session>> \in heap'} = {"arrays"}
  BY <1>1, <1>4 DEF Of, Freed, Parts
<1>6. \A i \in Jobs \ {session} : Of(i)' = Of(i)
  BY <1>1 DEF Of, Freed
<1>7. \A i \in Jobs : i # session'
  BY <1>1, JobsAssumption
<1>8. HeapAccounted'
  <2> SUFFICES ASSUME NEW i \in Jobs
               PROVE  /\ kind'[i] = "load" /\ pc'[i] = "done" => Of(i)' = {"arrays"}
                      /\ kind'[i] = "load" /\ pc'[i] = "failed"
                           => Of(i)' \subseteq {"model"}
                      /\ kind'[i] # "load" \/ pc'[i] \notin {"done", "failed"}
                           => Of(i)' = {}
    BY <1>7 DEF HeapAccounted
  <2>1. CASE i = session
    <3>1. kind'[i] = "load" /\ pc'[i] = "done"
      BY <2>1, <1>1, <1>3 DEF HeapInv, SessionLoaded, TypeOK
    <3> QED
      BY <2>1, <3>1, <1>5 DEF Of
  <2>2. CASE i # session /\ i # j
    <3>1. kind'[i] = kind[i] /\ pc'[i] = pc[i] /\ Of(i)' = Of(i)
      BY <2>2, <1>1, <1>6
    <3>2. HeapAccounted
      BY DEF HeapInv
    <3> QED
      BY <2>2, <3>1, <3>2 DEF HeapAccounted
  <2>3. CASE i = j
    BY <2>3, <1>1, <1>3, <1>6 DEF HeapInv, HeapAccounted, TypeOK
  <2> QED
    BY <2>1, <2>2, <2>3
<1> QED
  BY <1>2, <1>8

\* A load that fails at load_model or new_context leaves nothing, or the model,
\* on the heap, and ends as failed.
LEMMA HeapLoadFails ==
  ASSUME HeapInv, TypeOK', NEW j \in Jobs, LoadFails(j)
  PROVE  SessionLoaded' /\ HeapAccounted'
<1>1. /\ pc[j] = "queued" /\ kind[j] = "load"
      /\ session = NoJob /\ session' = NoJob
      /\ pc' = [pc EXCEPT ![j] = "failed"] /\ kind' = kind
  BY DEF LoadFails, Starts, Takes
<1>2. PICK left \in {{}, {"model"}} : heap' = heap \cup (left \X {j})
  BY DEF LoadFails
<1>3. SessionLoaded'
  BY <1>1 DEF SessionLoaded
<1>4. Of(j) = {}
  BY <1>1 DEF HeapInv, HeapAccounted
<1>5. Of(j)' \subseteq {"model"}
  BY <1>2, <1>4 DEF Of
<1>6. \A i \in Jobs \ {j} : Of(i)' = Of(i) /\ pc'[i] = pc[i]
  BY <1>1, <1>2 DEF Of, HeapInv, TypeOK
<1>7. pc'[j] = "failed" /\ kind'[j] = "load"
  BY <1>1 DEF HeapInv, TypeOK
<1> QED
  BY <1>1, <1>3, <1>5, <1>6, <1>7, JobsAssumption DEF HeapInv, HeapAccounted

\* The accounts of the heap are inductive: every handler keeps them, together
\* with the session's being the result of a load that is done.
LEMMA HeapStep ==
  ASSUME HeapInv, [Next]_vars
  PROVE  HeapInv'
<1> SUFFICES ASSUME HeapInv, [Next]_vars
             PROVE  SessionLoaded' /\ HeapAccounted'
  BY TypeStep, LoopsAreSendsStep DEF HeapInv
<1> TypeOK'
  BY TypeStep DEF HeapInv
<1>1. ASSUME NEW j \in Jobs, Step(j)
      PROVE  SessionLoaded' /\ HeapAccounted'
  <2> USE DEF HeapInv, TypeOK
  <2>1. CASE Launch(j)
    BY <2>1, HeapFrame DEF Launch
  <2>2. CASE Dispatch(j)
    BY <2>2, HeapFrame DEF Dispatch
  <2>3. CASE LoadAlreadyLoaded(j)
    BY <2>3, HeapFrame DEF LoadAlreadyLoaded, Starts, Takes
  <2>4. CASE LoadFails(j)
    BY <2>4, HeapLoadFails
  <2>5. CASE Load(j)
    BY <2>5, HeapLoad
  <2>6. CASE Unload(j)
    BY <2>6, HeapUnload
  <2>7. CASE Bench(j)
    BY <2>7, HeapFrame DEF Bench, Starts, Takes
  <2>8. CASE NothingLoaded(j)
    BY <2>8, HeapFrame DEF NothingLoaded, Starts, Takes
  <2>9. CASE Send(j)
    <3>1. pc[j] = "queued" /\ kind[j] = "send"
      BY <2>9 DEF Send, Starts, Takes
    <3>2. \E s \in {"loop", "done"} : pc' = [pc EXCEPT ![j] = s]
      BY <2>9 DEF Send
    <3>3. kind' = kind /\ heap' = heap /\ session' = session
      BY <2>9 DEF Send
    <3> QED
      BY <3>1, <3>2, <3>3, HeapFrame
  <2>10. CASE CompletionLoop(j)
    <3>1. pc[j] = "loop"
      BY <2>10 DEF CompletionLoop
    <3>2. \E s \in {"loop", "suspended"} : pc' = [pc EXCEPT ![j] = s]
      <4>1. CASE BufferFull(j)
        BY <2>10, <4>1 DEF CompletionLoop
      <4>2. CASE ~BufferFull(j)
        BY <2>10, <4>2, <3>1 DEF CompletionLoop
      <4> QED
        BY <4>1, <4>2
    <3>3. kind' = kind /\ heap' = heap /\ session' = session
      BY <2>10 DEF CompletionLoop
    <3> QED
      BY <3>1, <3>2, <3>3, HeapFrame
  <2>11. CASE EndSend(j)
    <3>1. pc[j] = "loop" /\ kind[j] = "send"
      BY <2>11 DEF EndSend, LoopsAreSends, Unfinished, Aside
    <3> QED
      BY <2>11, <3>1, HeapFrame DEF EndSend
  <2>12. CASE Collect(j)
    <3>1. CASE Wakes(j)
      BY <2>12, <3>1, HeapFrame DEF Collect, Wakes
    <3>2. CASE ~Wakes(j)
      <4>1. UNCHANGED <<kind, pc, session, heap>>
        BY <2>12, <3>2 DEF Collect
      <4>2. SessionLoaded /\ HeapAccounted
        OBVIOUS
      <4> HIDE DEF HeapInv, TypeOK
      <4> QED
        BY <4>1, <4>2 DEF SessionLoaded, HeapAccounted, Of
    <3> QED
      BY <3>1, <3>2
  <2>13. CASE Resume(j)
    BY <2>13, HeapFrame DEF Resume, Takes
  <2> QED
    BY <1>1, <2>1, <2>2, <2>3, <2>4, <2>5, <2>6, <2>7, <2>8, <2>9, <2>10,
       <2>11, <2>12, <2>13 DEF Step, RunLoop
<1>2. CASE Die \/ UNCHANGED vars
  BY <1>2 DEF HeapInv, SessionLoaded, HeapAccounted, Of, Die, jobVars, vars
<1> QED
  BY <1>1, <1>2 DEF Next

\* The native heap never holds anything but the session's five objects and
\* the two known leaks, and never less: no double free, no dangling session.
THEOREM HeapSafe == Spec => []HeapAccounted
<1>1. Init => HeapInv
  BY JobsAssumption, BoundsAssumption
     DEF Init, HeapInv, TypeOK, Kinds, PCs, Parts, EmptyCache, LoopsAreSends,
         Unfinished, Aside, SessionLoaded, HeapAccounted, Of
<1>2. HeapInv /\ [Next]_vars => HeapInv'
  BY HeapStep
<1>3. HeapInv => HeapAccounted
  BY DEF HeapInv
<1> QED
  BY <1>1, <1>2, <1>3, PTL DEF Spec

-----------------------------------------------------------------------------
(* The executor's queue and the channel of a send. *)

InQueue(q, x) == \E i \in DOMAIN q : q[i] = x
Distinct(q) == \A i, k \in DOMAIN q : q[i] = q[k] => i = k

\* Putting a job that is not waiting at the tail of the queue adds it alone.
LEMMA QueueAppend ==
  ASSUME NEW q \in Seq(Jobs), NEW e \in Jobs
  PROVE  /\ \A x \in Jobs : InQueue(Append(q, e), x) <=> InQueue(q, x) \/ x = e
         /\ Distinct(q) /\ ~InQueue(q, e) => Distinct(Append(q, e))
<1>1. /\ DOMAIN Append(q, e) = DOMAIN q \cup {Len(q) + 1}
      /\ Append(q, e)[Len(q) + 1] = e
      /\ \A i \in DOMAIN q : Append(q, e)[i] = q[i]
  OBVIOUS
<1>2. ASSUME NEW x \in Jobs
      PROVE  InQueue(Append(q, e), x) <=> InQueue(q, x) \/ x = e
  BY <1>1 DEF InQueue
<1>3. ASSUME Distinct(q), ~InQueue(q, e)
      PROVE  Distinct(Append(q, e))
  BY <1>1, <1>3 DEF InQueue, Distinct
<1> QED
  BY <1>2, <1>3

\* Taking the head of a queue without repetitions leaves all but the head.
LEMMA QueueTail ==
  ASSUME NEW q \in Seq(Jobs), q # <<>>, Distinct(q)
  PROVE  /\ \A x \in Jobs : InQueue(Tail(q), x) <=> InQueue(q, x) /\ x # Head(q)
         /\ Distinct(Tail(q))
<1>1. /\ Len(q) \in Nat \ {0}
      /\ DOMAIN q = 1 .. Len(q)
      /\ DOMAIN Tail(q) = 1 .. (Len(q) - 1)
      /\ \A i \in 1 .. (Len(q) - 1) : Tail(q)[i] = q[i + 1]
      /\ Head(q) = q[1]
  OBVIOUS
<1>2. ASSUME NEW x \in Jobs, InQueue(Tail(q), x)
      PROVE  InQueue(q, x) /\ x # Head(q)
  <2>1. PICK i \in 1 .. (Len(q) - 1) : q[i + 1] = x
    BY <1>1, <1>2 DEF InQueue
  <2>2. i + 1 \in DOMAIN q /\ 1 \in DOMAIN q /\ i + 1 # 1
    BY <1>1
  <2> QED
    BY <1>1, <2>1, <2>2 DEF InQueue, Distinct
<1>3. ASSUME NEW x \in Jobs, InQueue(q, x), x # Head(q)
      PROVE  InQueue(Tail(q), x)
  <2>1. PICK i \in 1 .. Len(q) : q[i] = x
    BY <1>1, <1>3 DEF InQueue
  <2>2. i # 1
    BY <1>1, <1>3, <2>1
  <2>3. i - 1 \in 1 .. (Len(q) - 1) /\ (i - 1) + 1 = i
    BY <1>1, <2>2
  <2> QED
    BY <1>1, <2>1, <2>3 DEF InQueue
<1>4. Distinct(Tail(q))
  <2> SUFFICES ASSUME NEW i \in 1 .. (Len(q) - 1), NEW k \in 1 .. (Len(q) - 1),
                      Tail(q)[i] = Tail(q)[k]
               PROVE  i = k
    BY <1>1 DEF Distinct
  <2>1. q[i + 1] = q[k + 1] /\ i + 1 \in DOMAIN q /\ k + 1 \in DOMAIN q
    BY <1>1
  <2>2. i + 1 = k + 1
    BY <2>1 DEF Distinct
  <2> QED
    BY <2>2
<1> QED
  BY <1>2, <1>3, <1>4

\* A step that leaves the queue and the thread alone, and moves no job to or
\* from a place where it waits for the thread or is inside it.
LEMMA QueueFrame ==
  ASSUME QueueSound, runQueue' = runQueue, running' = running,
         \A i \in Jobs : \A s \in {"queued", "resumed", "loop"} :
           pc'[i] = s <=> pc[i] = s
  PROVE  QueueSound'
  BY DEF QueueSound

\* The thread takes the head of the queue: the job is either over, or inside.
LEMMA QueueTake ==
  ASSUME TypeOK, QueueSound, NEW j \in Jobs, NEW from, Takes(j, from),
         NEW s \in {"loop", "done", "failed"},
         pc' = [pc EXCEPT ![j] = s],
         running' = IF s = "loop" THEN j ELSE running
  PROVE  QueueSound'
<1>1. runQueue \in Seq(Jobs) /\ runQueue # <<>> /\ Distinct(runQueue)
  BY DEF TypeOK, Takes, QueueSound, Distinct
<1>2. /\ \A x \in Jobs : InQueue(runQueue', x) <=> InQueue(runQueue, x) /\ x # j
      /\ Distinct(runQueue')
  BY <1>1, QueueTail DEF Takes
<1>3. \A x \in Jobs : pc'[x] = IF x = j THEN s ELSE pc[x]
  BY DEF TypeOK
<1>4. \A x \in Jobs : pc'[x] \in {"queued", "resumed"} <=> InQueue(runQueue', x)
  BY <1>2, <1>3 DEF QueueSound, InQueue
<1>5. \A x \in Jobs : pc[x] # "loop"
  BY JobsAssumption DEF Takes, QueueSound
<1>6. \A x \in Jobs : pc'[x] = "loop" <=> running' = x
  BY <1>3, <1>5, JobsAssumption DEF Takes
<1> QED
  BY <1>2, <1>4, <1>6 DEF QueueSound, InQueue, Distinct

\* A job that neither waits nor runs joins the tail of the queue.
LEMMA QueueJoin ==
  ASSUME TypeOK, QueueSound, NEW j \in Jobs,
         pc[j] \in {"launched", "suspended"},
         NEW s \in {"queued", "resumed"},
         pc' = [pc EXCEPT ![j] = s],
         runQueue' = Append(runQueue, j), running' = running
  PROVE  QueueSound'
<1>1. ~InQueue(runQueue, j) /\ Distinct(runQueue)
  BY DEF QueueSound, InQueue, Distinct
<1>2. /\ \A x \in Jobs : InQueue(runQueue', x) <=> InQueue(runQueue, x) \/ x = j
      /\ Distinct(runQueue')
  BY <1>1, QueueAppend DEF TypeOK
<1>3. \A x \in Jobs : pc'[x] = IF x = j THEN s ELSE pc[x]
  BY DEF TypeOK
<1>4. \A x \in Jobs : pc'[x] \in {"queued", "resumed"} <=> InQueue(runQueue', x)
  BY <1>2, <1>3 DEF QueueSound, InQueue
<1>5. \A x \in Jobs : pc'[x] = "loop" <=> running' = x
  BY <1>3 DEF QueueSound
<1> QED
  BY <1>2, <1>4, <1>5 DEF QueueSound, InQueue, Distinct

\* The send the thread is inside ends or is parked, and the thread is free.
LEMMA QueueLeave ==
  ASSUME TypeOK, QueueSound, NEW j \in Jobs, pc[j] = "loop", running = j,
         NEW s \in {"suspended", "done"},
         pc' = [pc EXCEPT ![j] = s],
         runQueue' = runQueue, running' = NoJob
  PROVE  QueueSound'
<1>1. \A x \in Jobs : pc'[x] = IF x = j THEN s ELSE pc[x]
  BY DEF TypeOK
<1>2. \A x \in Jobs : pc'[x] # "loop"
  BY <1>1 DEF QueueSound
<1> QED
  BY <1>1, <1>2, JobsAssumption DEF QueueSound

\* The queue is sound whatever each handler does.
LEMMA QueueStep ==
  ASSUME TypeOK, QueueSound, [Next]_vars
  PROVE  QueueSound'
<1>1. ASSUME NEW j \in Jobs, Step(j)
      PROVE  QueueSound'
  <2>1. CASE Launch(j)
    BY <2>1, QueueFrame DEF Launch, TypeOK
  <2>2. CASE Dispatch(j)
    BY <2>2, QueueJoin DEF Dispatch
  <2>3. CASE \/ LoadAlreadyLoaded(j) \/ LoadFails(j) \/ Load(j)
             \/ Unload(j) \/ Bench(j) \/ NothingLoaded(j)
    <3>1. /\ Takes(j, "queued")
          /\ running' = running
          /\ \E s \in {"done", "failed"} : pc' = [pc EXCEPT ![j] = s]
      BY <2>3 DEF LoadAlreadyLoaded, LoadFails, Load, Unload, Bench,
                  NothingLoaded, Starts
    <3> QED
      BY <3>1, QueueTake
  <2>4. CASE Send(j)
    <3>1. Takes(j, "queued")
      BY <2>4 DEF Send, Starts
    <3>2. \E s \in {"loop", "done"} : /\ pc' = [pc EXCEPT ![j] = s]
                                      /\ running' = IF s = "loop" THEN j ELSE running
      BY <2>4 DEF Send
    <3> QED
      BY <3>1, <3>2, QueueTake
  <2>5. CASE CompletionLoop(j)
    <3>1. pc[j] = "loop" /\ running = j /\ runQueue' = runQueue
      BY <2>5 DEF CompletionLoop
    <3>2. CASE BufferFull(j)
      <4>1. pc' = [pc EXCEPT ![j] = "suspended"] /\ running' = NoJob
        BY <2>5, <3>2 DEF CompletionLoop
      <4> QED
        BY <3>1, <4>1, QueueLeave
    <3>3. CASE ~BufferFull(j)
      <4>1. pc' = pc /\ running' = running
        BY <2>5, <3>3 DEF CompletionLoop
      <4> QED
        BY <3>1, <4>1, QueueFrame
    <3> QED
      BY <3>2, <3>3
  <2>6. CASE EndSend(j)
    BY <2>6, QueueLeave DEF EndSend
  <2>7. CASE Collect(j)
    <3>1. running' = running
      BY <2>7 DEF Collect
    <3>2. CASE Wakes(j)
      <4>1. /\ pc[j] = "suspended"
            /\ pc' = [pc EXCEPT ![j] = "resumed"]
            /\ runQueue' = Append(runQueue, j)
        BY <2>7, <3>2 DEF Collect, Wakes
      <4> QED
        BY <3>1, <4>1, QueueJoin
    <3>3. CASE ~Wakes(j)
      <4>1. pc' = pc /\ runQueue' = runQueue
        BY <2>7, <3>3 DEF Collect
      <4> QED
        BY <3>1, <4>1, QueueFrame
    <3> QED
      BY <3>2, <3>3
  <2>8. CASE Resume(j)
    BY <2>8, QueueTake DEF Resume
  <2> QED
    BY <1>1, <2>1, <2>2, <2>3, <2>4, <2>5, <2>6, <2>7, <2>8 DEF Step, RunLoop
<1>2. CASE Die \/ UNCHANGED vars
  BY <1>2, QueueFrame DEF Die, jobVars, vars
<1> QED
  BY <1>1, <1>2 DEF Next

\* However many calls are made, the executor's queue holds each that waits for
\* the thread once, and the thread is inside the only send in its loop.
THEOREM QueueIsSound == Spec => []QueueSound
<1>1. Init => QueueSound
  BY JobsAssumption DEF Init, QueueSound
<1>2. TypeOK /\ QueueSound /\ [Next]_vars => QueueSound'
  BY QueueStep
<1> QED
  BY <1>1, <1>2, TypeCorrect, PTL DEF Spec

\* What the invariant says of one send.
ChannelAt(j) == /\ pc[j] = "suspended" <=> chan[j] > Capacity
                /\ chan[j] <= Capacity + 1
ChannelInv == \A j \in Jobs : ChannelAt(j)

\* A send parks on the token that overfills its channel and on no other, and is
\* woken by the collect that ends the overfill.
LEMMA ChannelStep ==
  ASSUME TypeOK, ChannelInv, [Next]_vars
  PROVE  ChannelInv'
<1>0. Capacity \in Nat /\ pc \in [Jobs -> PCs] /\ chan \in [Jobs -> Nat]
  BY BoundsAssumption DEF TypeOK
<1>1. ASSUME NEW j \in Jobs, Step(j)
      PROVE  ChannelInv'
  <2> SUFFICES /\ ChannelAt(j)'
               /\ \A i \in Jobs \ {j} : pc'[i] = pc[i] /\ chan'[i] = chan[i]
    BY DEF ChannelInv, ChannelAt
  <2>0. ChannelAt(j) /\ chan[j] \in Nat
    BY <1>0 DEF ChannelInv
  <2>1. CASE \/ Launch(j) \/ Dispatch(j) \/ LoadAlreadyLoaded(j) \/ LoadFails(j)
             \/ Load(j) \/ Unload(j) \/ Bench(j) \/ NothingLoaded(j) \/ Send(j)
             \/ EndSend(j) \/ Resume(j)
    <3>1. pc[j] # "suspended" /\ chan' = chan
      BY <2>1 DEF Launch, Dispatch, LoadAlreadyLoaded, LoadFails, Load, Unload,
                  Bench, NothingLoaded, Send, EndSend, Resume, Starts, Takes, sendVars
    <3>2. \E s \in PCs \ {"suspended"} : pc' = [pc EXCEPT ![j] = s]
      BY <2>1 DEF Launch, Dispatch, LoadAlreadyLoaded, LoadFails, Load, Unload,
                  Bench, NothingLoaded, Send, EndSend, Resume, PCs
    <3> QED
      BY <1>0, <2>0, <3>1, <3>2 DEF ChannelAt
  <2>2. CASE CompletionLoop(j)
    <3>1. pc[j] = "loop" /\ chan' = [chan EXCEPT ![j] = @ + 1]
      BY <2>2 DEF CompletionLoop
    <3>2. chan'[j] = chan[j] + 1 /\ chan[j] <= Capacity
      BY <1>0, <2>0, <3>1 DEF ChannelAt
    <3>3. CASE BufferFull(j)
      <4>1. pc' = [pc EXCEPT ![j] = "suspended"] /\ chan[j] >= Capacity
        BY <2>2, <3>3 DEF CompletionLoop, BufferFull
      <4> QED
        BY <1>0, <2>0, <3>1, <3>2, <4>1 DEF ChannelAt
    <3>4. CASE ~BufferFull(j)
      <4>1. pc' = pc /\ ~(chan[j] >= Capacity)
        BY <2>2, <3>4 DEF CompletionLoop, BufferFull
      <4> QED
        BY <1>0, <2>0, <3>1, <3>2, <4>1 DEF ChannelAt
    <3> QED
      BY <3>3, <3>4
  <2>3. CASE Collect(j)
    <3>1. chan[j] > 0 /\ chan' = [chan EXCEPT ![j] = @ - 1]
      BY <2>3 DEF Collect, HasToken
    <3>2. chan'[j] = chan[j] - 1
      BY <1>0, <3>1
    <3>3. CASE Wakes(j)
      <4>1. pc' = [pc EXCEPT ![j] = "resumed"] /\ pc[j] = "suspended"
        BY <2>3, <3>3 DEF Collect, Wakes
      <4> QED
        BY <1>0, <2>0, <3>1, <3>2, <4>1 DEF ChannelAt
    <3>4. CASE ~Wakes(j)
      <4>1. pc' = pc /\ pc[j] # "suspended"
        BY <2>3, <3>4 DEF Collect, Wakes
      <4> QED
        BY <1>0, <2>0, <3>1, <3>2, <4>1 DEF ChannelAt
    <3> QED
      BY <3>3, <3>4
  <2> QED
    BY <1>1, <2>1, <2>2, <2>3 DEF Step, RunLoop
<1>2. CASE Die \/ UNCHANGED vars
  BY <1>2 DEF Die, jobVars, vars, ChannelInv, ChannelAt
<1> QED
  BY <1>1, <1>2 DEF Next

\* For any buffer: a send is parked exactly while its channel is overfull, so no
\* wake-up is lost and none is given twice.
THEOREM ParkingIsExact == Spec => []ParkedIffOverfull
<1>1. Init => ChannelInv
  BY BoundsAssumption DEF Init, ChannelInv, ChannelAt
<1>2. TypeOK /\ ChannelInv /\ [Next]_vars => ChannelInv'
  BY ChannelStep
<1>3. ChannelInv => ParkedIffOverfull
  BY DEF ChannelInv, ChannelAt, ParkedIffOverfull
<1> QED
  BY <1>1, <1>2, <1>3, TypeCorrect, PTL DEF Spec

-----------------------------------------------------------------------------
(* The KV cache of the session. *)

CacheInv == CacheOwned /\ Gapless

\* Positions are counted from 0.
LEMMA PositionsAreNat == \A p \in Positions : p \in Nat
  BY BoundsAssumption DEF Positions

\* A used position holds a job's token.
LEMMA UsedOwners ==
  ASSUME kv \in [Positions -> Jobs \cup {NoJob}], NEW p \in Used
  PROVE  p \in Positions /\ kv[p] \in Jobs
  BY DEF Used

\* A step that leaves the cache alone, moves no send that owns a token out of
\* its answer, and takes no n_cur back, keeps what is owned.
LEMMA CacheFrame ==
  ASSUME TypeOK, CacheInv, kv' = kv,
         \A p \in Used : LET o == kv[p] IN
           /\ pc'[o] \in Unfinished
           /\ held'[o] = session'
           /\ ncur'[o] >= ncur[o] /\ ncur'[o] \in Nat
  PROVE  CacheInv'
<1>1. Used' = Used
  BY DEF Used
<1>2. Gapless'
  BY <1>1 DEF CacheInv, Gapless
<1>3. CacheOwned'
  <2> SUFFICES ASSUME NEW p \in Used
               PROVE  /\ pc'[kv[p]] \in Unfinished
                      /\ held'[kv[p]] = session'
                      /\ p < ncur'[kv[p]]
    BY <1>1 DEF CacheOwned
  <2>1. p < ncur[kv[p]] /\ p \in Nat /\ kv[p] \in Jobs
    BY UsedOwners, PositionsAreNat DEF CacheInv, CacheOwned, TypeOK
  <2>2. ncur[kv[p]] \in Nat
    BY <2>1 DEF TypeOK
  <2> QED
    BY <2>1, <2>2
<1> QED
  BY <1>2, <1>3 DEF CacheInv

\* An empty cache is owned by no one.
LEMMA CacheCleared ==
  ASSUME kv' = EmptyCache
  PROVE  CacheInv'
<1>1. Used' = {}
  BY DEF Used, EmptyCache
<1> QED
  BY <1>1 DEF CacheInv, CacheOwned, Gapless

\* A decode that llama_decode accepts puts the tokens of j right after those in
\* the cache, or on an empty one.
LEMMA CacheDecode ==
  ASSUME TypeOK, TypeOK', CacheInv, NEW j \in Jobs,
         NEW first \in Nat, NEW last \in Nat, Decode(j, first, last),
         Used # {} => first = last,
         session' = session,
         last < ncur'[j], ncur'[j] >= ncur[j] \/ j \notin {kv[p] : p \in Used},
         pc'[j] \in Unfinished, held'[j] = session,
         \A i \in Jobs \ {j} : /\ pc'[i] = pc[i] /\ held'[i] = held[i]
                               /\ ncur'[i] = ncur[i]
  PROVE  CacheInv'
<1>0. /\ \A p \in Used : kv[p] \in Jobs /\ p \in Positions
      /\ \A p \in Positions : p \in Nat
      /\ \A i \in Jobs : ncur[i] \in Nat /\ ncur'[i] \in Nat
  BY UsedOwners, PositionsAreNat DEF TypeOK
<1>1. CASE kv' = kv
  <2>1. ASSUME NEW p \in Used
        PROVE  LET o == kv[p] IN
           /\ pc'[o] \in Unfinished
           /\ held'[o] = session'
           /\ ncur'[o] >= ncur[o] /\ ncur'[o] \in Nat
    BY <1>0 DEF CacheInv, CacheOwned
  <2> QED
    BY <1>1, <2>1, CacheFrame
<1>2. CASE kv' = Placed(j, first, last) /\ Accepts(first)
  <2>1. \A p \in Positions : kv'[p] = IF first <= p /\ p <= last THEN j ELSE kv[p]
    BY <1>2 DEF Placed
  <2>2. \A p \in Positions : p \in Used' <=> p \in Used \/ (first <= p /\ p <= last)
    BY <2>1, JobsAssumption DEF Used
  <2>3. Used' \subseteq Positions
    BY DEF Used
  <2>4. CacheOwned'
    <3> SUFFICES ASSUME NEW p \in Used'
                 PROVE  /\ pc'[kv'[p]] \in Unfinished
                        /\ held'[kv'[p]] = session'
                        /\ p < ncur'[kv'[p]]
      BY DEF CacheOwned
    <3>1. p \in Positions /\ p \in Nat
      BY <2>3, <1>0
    <3>2. CASE first <= p /\ p <= last
      <4>1. kv'[p] = j
        BY <3>1, <3>2, <2>1
      <4>2. p < ncur'[j]
        BY <3>1, <3>2, <1>0
      <4> QED
        BY <4>1, <4>2
    <3>3. CASE ~(first <= p /\ p <= last)
      <4>1. p \in Used /\ kv'[p] = kv[p]
        BY <3>1, <3>3, <2>1, <2>2
      <4>2. /\ pc[kv[p]] \in Unfinished /\ held[kv[p]] = session
            /\ p < ncur[kv[p]]
        BY <4>1 DEF CacheInv, CacheOwned
      <4>3. CASE kv[p] = j
        BY <4>1, <4>2, <4>3, <3>1, <1>0
      <4>4. CASE kv[p] # j
        BY <4>1, <4>2, <4>4, <1>0
      <4> QED
        BY <4>3, <4>4
    <3> QED
      BY <3>2, <3>3
  <2>5. Gapless'
    <3> SUFFICES ASSUME NEW p \in Used', NEW q \in Used', NEW r \in Positions,
                        p <= r, r <= q
                 PROVE  r \in Used'
      BY DEF Gapless
    <3>1. p \in Nat /\ q \in Nat /\ r \in Nat /\ p \in Positions /\ q \in Positions
      BY <2>3, <1>0
    <3>2. CASE Used = {}
      BY <3>1, <3>2, <2>2
    <3>3. CASE Used # {}
      <4>1. first = last
        BY <3>3
      <4>2. PICK m \in Used : first = m + 1 /\ \A x \in Used : x <= m
        BY <3>3, <1>2 DEF Accepts
      <4>3. m \in Nat /\ m \in Positions
        BY <1>0
      <4>4. p \in Used \/ p = first
        BY <3>1, <4>1, <2>2
      <4>5. q \in Used \/ q = first
        BY <3>1, <4>1, <2>2
      <4>6. CASE p = first
        <5>1. q = first
          BY <3>1, <4>2, <4>3, <4>5, <4>6
        <5> QED
          BY <3>1, <4>6, <5>1
      <4>7. CASE p \in Used /\ r = first
        BY <4>1, <4>7, <2>2, <3>1
      <4>8. CASE p \in Used /\ r # first
        <5>1. r <= m
          BY <3>1, <4>2, <4>3, <4>5, <4>8
        <5>2. r \in Used
          BY <5>1, <4>8 DEF CacheInv, Gapless
        <5> QED
          BY <5>2, <2>2
      <4> QED
        BY <4>4, <4>6, <4>7, <4>8
    <3> QED
      BY <3>2, <3>3
  <2> QED
    BY <2>4, <2>5 DEF CacheInv
<1>3. PICK r \in DecodeResults(first) :
        kv' = IF r = "ok" THEN Placed(j, first, last) ELSE kv
  BY DEF Decode
<1>4. r = "ok" => Accepts(first)
  BY DEF DecodeResults
<1> QED
  BY <1>1, <1>2, <1>3, <1>4

\* Every handler keeps the cache owned and without gaps.
LEMMA CacheStep ==
  ASSUME TypeOK, QueueSound, CacheInv, [Next]_vars
  PROVE  CacheInv'
<1> TypeOK'
  BY TypeStep
<1>0. /\ \A p \in Used : /\ kv[p] \in Jobs /\ p \in Positions /\ p \in Nat
                         /\ pc[kv[p]] \in Unfinished /\ held[kv[p]] = session
      /\ \A i \in Jobs : ncur[i] \in Nat /\ ncur'[i] \in Nat
  BY UsedOwners, PositionsAreNat DEF TypeOK, CacheInv, CacheOwned
<1>1. ASSUME NEW j \in Jobs, Step(j)
      PROVE  CacheInv'
  <2>1. CASE \/ Launch(j) \/ Dispatch(j) \/ LoadAlreadyLoaded(j) \/ LoadFails(j)
             \/ NothingLoaded(j) \/ (Bench(j) /\ session = NoJob)
    <3>1. /\ kv' = kv /\ session' = session /\ held' = held /\ ncur' = ncur
          /\ pc[j] \in {"new", "launched", "queued"}
      BY <2>1 DEF Launch, Dispatch, LoadAlreadyLoaded, LoadFails, NothingLoaded,
                  Bench, Starts, Takes, sendVars, ctxVars
    <3>2. \A i \in Jobs \ {j} : pc'[i] = pc[i]
      BY <2>1 DEF Launch, Dispatch, LoadAlreadyLoaded, LoadFails, NothingLoaded,
                  Bench, TypeOK
    <3>3. \A p \in Used : kv[p] # j
      BY <1>0, <3>1 DEF Unfinished, Aside
    <3> QED
      BY <1>0, <3>1, <3>2, <3>3, CacheFrame
  <2>2. CASE Load(j) \/ Unload(j) \/ (Bench(j) /\ session # NoJob)
    BY <2>2, CacheCleared DEF Load, Unload, Bench
  <2>3. CASE Send(j)
    <3>1. /\ pc[j] = "queued" /\ session' = session
          /\ held' = [held EXCEPT ![j] = session]
      BY <2>3 DEF Send, Starts, Takes
    <3>2. \A p \in Used : kv[p] # j
      BY <1>0, <3>1 DEF Unfinished, Aside
    <3>3. PICK p \in PromptLens :
            /\ CompletionInit(j, p)
            /\ p <= NLen => pc' = [pc EXCEPT ![j] = "loop"] /\ Decode(j, 0, p - 1)
            /\ ~(p <= NLen) => kv' = EmptyCache
      BY <2>3 DEF Send
    <3>4. p \in Nat /\ p >= 1 /\ p - 1 \in Nat
      BY BoundsAssumption
    <3>5. ncur' = [ncur EXCEPT ![j] = p]
      BY <3>3 DEF CompletionInit
    <3>6. \A i \in Jobs \ {j} : held'[i] = held[i] /\ ncur'[i] = ncur[i]
      BY <3>1, <3>5 DEF TypeOK
    <3>7. CASE ~(p <= NLen)
      BY <3>3, <3>7, CacheCleared
    <3>8. CASE p <= NLen
      <4>1. /\ pc'[j] = "loop" /\ held'[j] = session /\ ncur'[j] = p
            /\ \A i \in Jobs \ {j} : pc'[i] = pc[i]
        BY <3>1, <3>3, <3>5, <3>8 DEF TypeOK
      <4>2. CASE Used = {}
        <5>1. j \notin {kv[q] : q \in Used}
          BY <4>2
        <5>2. p - 1 < ncur'[j]
          BY <3>4, <4>1
        <5> QED
          BY <3>1, <3>3, <3>4, <3>6, <3>8, <4>1, <4>2, <5>1, <5>2, CacheDecode
             DEF Unfinished, Aside
      <4>3. CASE Used # {}
        <5>1. ~Accepts(0)
          BY <4>3, <1>0 DEF Accepts
        <5>2. kv' = kv
          BY <3>3, <3>8, <5>1 DEF Decode, DecodeResults
        <5> QED
          BY <1>0, <3>1, <3>2, <3>6, <4>1, <5>2, CacheFrame
      <4> QED
        BY <4>2, <4>3
    <3> QED
      BY <3>7, <3>8
  <2>4. CASE CompletionLoop(j)
    <3>1. /\ pc[j] = "loop" /\ held' = held /\ session' = session
          /\ ncur' = [ncur EXCEPT ![j] = @ + 1]
      BY <2>4 DEF CompletionLoop
    <3>2. pc' \in {pc, [pc EXCEPT ![j] = "suspended"]}
      BY <2>4 DEF CompletionLoop
    <3>3. /\ pc'[j] \in Unfinished /\ ncur'[j] = ncur[j] + 1
          /\ \A i \in Jobs \ {j} : pc'[i] = pc[i] /\ ncur'[i] = ncur[i]
      BY <3>1, <3>2 DEF TypeOK, Unfinished, Aside
    <3>4. CASE held[j] = session
      <4>1. Decode(j, ncur[j], ncur[j])
        BY <2>4, <3>4 DEF CompletionLoop
      <4>2. ncur[j] < ncur'[j] /\ ncur'[j] >= ncur[j]
        BY <1>0, <3>3
      <4> QED
        BY <1>0, <3>1, <3>3, <3>4, <4>1, <4>2, CacheDecode
    <3>5. CASE held[j] # session
      <4>1. kv' = kv
        BY <2>4, <3>5 DEF CompletionLoop, ctxVars
      <4>2. \A p \in Used : kv[p] # j
        BY <1>0, <3>5
      <4> QED
        BY <1>0, <3>1, <3>3, <4>1, <4>2, CacheFrame
    <3> QED
      BY <3>4, <3>5
  <2>5. CASE EndSend(j)
    <3>1. CASE held[j] = session
      BY <2>5, <3>1, CacheCleared DEF EndSend, CacheAfterSend
    <3>2. CASE held[j] # session
      <4>1. /\ kv' = kv /\ held' = held /\ session' = session /\ ncur' = ncur
            /\ pc' = [pc EXCEPT ![j] = "done"]
        BY <2>5, <3>2 DEF EndSend, CacheAfterSend, sendVars
      <4>2. \A p \in Used : kv[p] # j
        BY <1>0, <3>2
      <4>3. \A i \in Jobs \ {j} : pc'[i] = pc[i]
        BY <4>1 DEF TypeOK
      <4> QED
        BY <1>0, <4>1, <4>2, <4>3, CacheFrame
    <3> QED
      BY <3>1, <3>2
  <2>6. CASE Collect(j)
    <3>1. /\ kv' = kv /\ held' = held /\ session' = session /\ ncur' = ncur
          /\ pc' = pc \/ pc' = [pc EXCEPT ![j] = "resumed"]
      BY <2>6 DEF Collect, ctxVars
    <3>2. \A i \in Jobs : pc[i] \in Unfinished => pc'[i] \in Unfinished
      BY <3>1 DEF TypeOK, Unfinished, Aside
    <3> QED
      BY <1>0, <3>1, <3>2, CacheFrame
  <2>7. CASE Resume(j)
    <3>1. /\ kv' = kv /\ held' = held /\ session' = session /\ ncur' = ncur
          /\ pc' = [pc EXCEPT ![j] = "loop"]
      BY <2>7 DEF Resume, ctxVars, sendVars
    <3>2. \A i \in Jobs : pc[i] \in Unfinished => pc'[i] \in Unfinished
      BY <3>1 DEF TypeOK, Unfinished, Aside
    <3> QED
      BY <1>0, <3>1, <3>2, CacheFrame
  <2> QED
    BY <1>1, <2>1, <2>2, <2>3, <2>4, <2>5, <2>6, <2>7 DEF Step, RunLoop
<1>2. CASE Die \/ UNCHANGED vars
  <2>1. kv' = kv /\ held' = held /\ session' = session /\ ncur' = ncur /\ pc' = pc
    BY <1>2 DEF Die, jobVars, ctxVars, vars
  <2> QED
    BY <1>0, <2>1, CacheFrame
<1> QED
  BY <1>1, <1>2 DEF Next

\* The cache is owned and without gaps from the start.
LEMMA CacheAlways == Spec => []CacheInv
<1>1. Init => CacheInv
  <2> SUFFICES ASSUME Init PROVE CacheInv
    OBVIOUS
  <2>1. Used = {}
    BY DEF Init, Used, EmptyCache
  <2> QED
    BY <2>1 DEF CacheInv, CacheOwned, Gapless
<1>2. TypeOK /\ QueueSound /\ CacheInv /\ [Next]_vars => CacheInv'
  BY CacheStep
<1> QED
  BY <1>1, <1>2, TypeCorrect, QueueIsSound, PTL DEF Spec

\* However many sends are parked behind one another, and whatever decode fails,
\* the tokens in the cache are those of unfinished sends of this session.
THEOREM CacheIsOwned == Spec => []CacheOwned
  BY CacheAlways, PTL DEF CacheInv

\* The positions in the cache never have a gap, at any length limit.
THEOREM CacheIsGapless == Spec => []Gapless
  BY CacheAlways, PTL DEF CacheInv

-----------------------------------------------------------------------------
(* Sends that were suspended, and the calls served meanwhile. *)

\* The handles of the session are live while the accounts are right.
LEMMA SessionHandlesLive ==
  ASSUME HeapInv, NEW j \in Jobs, held[j] = session, session # NoJob
  PROVE  HandlesLive(j)
<1>1. session \in Jobs
  BY DEF HeapInv, TypeOK
<1>2. Of(session) = Parts
  BY <1>1 DEF HeapInv, HeapAccounted
<1> QED
  BY <1>2 DEF HandlesLive, Freed, Of

\* A send holds on to a load that is done: the one in effect, unless an unload
\* was served while the send was suspended.
HoldsAt(j) ==
  /\ pc[j] \in Unfinished =>
       /\ held[j] \in Jobs /\ pc[held[j]] = "done"
       /\ "unload" \notin overtaken[j] => held[j] = session
  /\ <<"use_after_free", j>> \in fault => "unload" \in overtaken[j]
Holds == \A j \in Jobs : HoldsAt(j)

\* The sends that are suspended while another is in its loop have been overtaken
\* by a send.
Behind == \A i, j \in Jobs :
  pc[j] = "loop" /\ i # j /\ pc[i] \in Unfinished => "send" \in overtaken[i]

HoldsInv == HeapInv /\ QueueSound /\ Holds /\ Behind

\* What taking a job leaves of the others: none is in its loop, and those not
\* over have one more kind behind them.
LEMMA WhenTaken ==
  ASSUME TypeOK, QueueSound, NEW j \in Jobs, NEW from \in {"queued", "resumed"}, Takes(j, from)
  PROVE  /\ pc[j] = from /\ pc[j] # "loop"
         /\ \A i \in Jobs : pc[i] # "loop"
         /\ \A i \in Jobs \ {j} :
              overtaken'[i] = IF pc[i] \in Unfinished THEN overtaken[i] \cup {kind[j]}
                              ELSE overtaken[i]
         /\ overtaken'[j] = overtaken[j]
<1>1. running = NoJob /\ pc[j] = from /\ Overtakes(j)
  BY DEF Takes
<1>2. \A i \in Jobs : pc[i] # "loop"
  BY <1>1, JobsAssumption DEF QueueSound
<1>3. \A i \in Jobs : pc[i] \in Unfinished <=> pc[i] \in Aside
  BY <1>2 DEF Unfinished, Aside
<1>4. \A i \in Jobs : overtaken'[i] = IF i # j /\ pc[i] \in Aside
                                      THEN overtaken[i] \cup {kind[j]} ELSE overtaken[i]
  BY <1>1 DEF Overtakes
<1> QED
  BY <1>1, <1>2, <1>3, <1>4

\* Every handler keeps the handles of the sends it does not overtake.
LEMMA HoldsStep ==
  ASSUME HoldsInv, [Next]_vars
  PROVE  Holds' /\ Behind'
<1> USE DEF HoldsInv
<1> TypeOK /\ TypeOK' /\ SessionLoaded /\ LoopsAreSends
  BY TypeStep DEF HeapInv
<1>1. ASSUME NEW j \in Jobs, Step(j)
      PROVE  Holds' /\ Behind'
  <2>1. CASE Launch(j) \/ Dispatch(j) \/ Collect(j)
    <3>1. UNCHANGED <<held, session, fault, overtaken>>
      BY <2>1 DEF Launch, Dispatch, Collect, sendVars
    <3>2. \A i \in Jobs : /\ pc[i] = "done" => pc'[i] = "done"
                          /\ pc'[i] \in Unfinished => pc[i] \in Unfinished
                          /\ pc'[i] = "loop" => pc[i] = "loop"
      <4>1. CASE pc' = pc
        BY <4>1
      <4>2. ASSUME pc' # pc
            PROVE  \/ pc[j] \in {"new", "launched"}
                      /\ \E s \in {"launched", "queued"} : pc' = [pc EXCEPT ![j] = s]
                   \/ pc[j] = "suspended" /\ pc' = [pc EXCEPT ![j] = "resumed"]
        BY <2>1, <4>2 DEF Launch, Dispatch, Collect, Wakes
      <4> QED
        BY <4>1, <4>2 DEF TypeOK, Unfinished, Aside
    <3> QED
      BY <3>1, <3>2 DEF Holds, HoldsAt, Behind
  <2>2. ASSUME Takes(j, "queued"), NEW s \in {"done", "failed"}, pc' = [pc EXCEPT ![j] = s],
               UNCHANGED <<held, fault>>,
               \/ session' = session
               \/ kind[j] = "unload"
               \/ session = NoJob /\ session' = j
        PROVE  Holds' /\ Behind'
    <3>1. /\ pc[j] = "queued" /\ \A i \in Jobs : pc[i] # "loop"
          /\ \A i \in Jobs \ {j} :
               overtaken'[i] = IF pc[i] \in Unfinished THEN overtaken[i] \cup {kind[j]}
                               ELSE overtaken[i]
          /\ overtaken'[j] = overtaken[j]
      BY <2>2, WhenTaken
    <3>2. \A i \in Jobs : pc'[i] = IF i = j THEN s ELSE pc[i]
      BY <2>2 DEF TypeOK
    <3>3. Behind'
      BY <3>1, <3>2 DEF Behind
    <3>4. ASSUME NEW i \in Jobs PROVE HoldsAt(i)'
      <4>1. HoldsAt(i) /\ overtaken[i] \subseteq overtaken'[i]
        BY <3>1 DEF Holds
      <4>2. <<"use_after_free", i>> \in fault' => "unload" \in overtaken'[i]
        BY <2>2, <4>1 DEF HoldsAt
      <4>3. ASSUME pc'[i] \in Unfinished
            PROVE  /\ held'[i] \in Jobs /\ pc'[held'[i]] = "done"
                   /\ "unload" \notin overtaken'[i] => held'[i] = session'
        <5>1. i # j /\ pc[i] \in Unfinished
          BY <3>2, <4>3 DEF Unfinished, Aside
        <5>2. held[i] \in Jobs /\ pc[held[i]] = "done" /\ held[i] # j /\ held[i] # NoJob
          BY <3>1, <4>1, <5>1, JobsAssumption DEF HoldsAt
        <5>3. overtaken'[i] = overtaken[i] \cup {kind[j]}
          BY <3>1, <5>1
        <5>4. ASSUME "unload" \notin overtaken'[i] PROVE held[i] = session'
          <6>1. held[i] = session /\ kind[j] # "unload"
            BY <4>1, <5>1, <5>3, <5>4 DEF HoldsAt
          <6> QED
            BY <2>2, <5>2, <6>1
        <5> QED
          BY <2>2, <3>2, <5>2, <5>4
      <4> QED
        BY <4>2, <4>3 DEF HoldsAt
    <3> QED
      BY <3>3, <3>4 DEF Holds
  <2>3. CASE LoadAlreadyLoaded(j) \/ LoadFails(j)
    BY <2>2, <2>3 DEF LoadAlreadyLoaded, LoadFails, Starts, sendVars
  <2>4. CASE Load(j)
    BY <2>2, <2>4 DEF Load, Starts, sendVars
  <2>5. CASE Unload(j)
    BY <2>2, <2>5 DEF Unload, Starts, sendVars
  <2>6. CASE Bench(j)
    BY <2>2, <2>6 DEF Bench, Starts, sendVars
  <2>7. CASE NothingLoaded(j)
    BY <2>2, <2>7 DEF NothingLoaded, Starts, sendVars
  <2>8. CASE Send(j)
    <3>1. /\ Takes(j, "queued") /\ kind[j] = "send" /\ session # NoJob /\ session' = session
          /\ held' = [held EXCEPT ![j] = session]
          /\ \E s \in {"loop", "done"} : pc' = [pc EXCEPT ![j] = s]
          /\ \E p \in PromptLens : CompletionInit(j, p)
      BY <2>8 DEF Send, Starts
    <3>2. /\ pc[j] = "queued" /\ \A i \in Jobs : pc[i] # "loop"
          /\ \A i \in Jobs \ {j} :
               overtaken'[i] = IF pc[i] \in Unfinished THEN overtaken[i] \cup {"send"}
                               ELSE overtaken[i]
          /\ overtaken'[j] = overtaken[j]
      BY <3>1, WhenTaken
    <3>3. \A i \in Jobs \ {j} : pc'[i] = pc[i] /\ held'[i] = held[i]
      BY <3>1 DEF TypeOK
    <3>4. Behind'
      BY <3>2, <3>3 DEF Behind
    <3>5. \A i \in Jobs : <<"use_after_free", i>> \in fault' => <<"use_after_free", i>> \in fault
      BY <3>1 DEF CompletionInit
    <3>6. session \in Jobs /\ pc[session] = "done" /\ session # j
      BY <3>1, <3>2 DEF SessionLoaded, TypeOK
    <3>7. pc'[session] = "done" /\ held'[j] = session
      BY <3>1, <3>3, <3>6 DEF TypeOK
    <3>8. HoldsAt(j)'
      BY <3>1, <3>2, <3>5, <3>6, <3>7 DEF Holds, HoldsAt
    <3>9. ASSUME NEW i \in Jobs \ {j} PROVE HoldsAt(i)'
      <4>1. HoldsAt(i) /\ overtaken[i] \subseteq overtaken'[i] /\ pc'[i] = pc[i] /\ held'[i] = held[i]
        BY <3>2, <3>3 DEF Holds
      <4>2. pc[i] \in Unfinished => held[i] # j
        BY <3>2, <4>1 DEF HoldsAt
      <4> QED
        BY <3>1, <3>3, <3>5, <4>1, <4>2 DEF HoldsAt
    <3> QED
      BY <3>4, <3>8, <3>9 DEF Holds
  <2>9. CASE CompletionLoop(j) \/ EndSend(j)
    <3>1. /\ pc[j] = "loop" /\ Touch(j) /\ UNCHANGED <<held, session, overtaken>>
          /\ \E s \in {"loop", "suspended", "done"} : pc' = [pc EXCEPT ![j] = s]
      <4>1. CASE CompletionLoop(j)
        <5>1. pc[j] = "loop" /\ Touch(j) /\ UNCHANGED <<held, session, overtaken>>
          BY <4>1 DEF CompletionLoop
        <5>2. pc' = [pc EXCEPT ![j] = "suspended"] \/ pc' = pc
          BY <4>1 DEF CompletionLoop
        <5>3. pc = [pc EXCEPT ![j] = "loop"]
          BY <5>1 DEF TypeOK
        <5> QED
          BY <5>1, <5>2, <5>3
      <4>2. CASE EndSend(j)
        BY <4>2 DEF EndSend, sendVars
      <4> QED
        BY <2>9, <4>1, <4>2
    <3>2. \A i \in Jobs \ {j} : pc'[i] = pc[i] /\ pc[i] # "loop"
      BY <3>1 DEF TypeOK, QueueSound
    <3>3. Behind'
      <4>1. \A i \in Jobs \ {j} : pc[i] \in Unfinished => "send" \in overtaken[i]
        BY <3>1 DEF Behind
      <4> QED
        BY <3>1, <3>2, <4>1 DEF Behind
    <3>4. HandlesLive(j) \/ "unload" \in overtaken[j]
      <4>1. "unload" \notin overtaken[j] => held[j] = session /\ held[j] \in Jobs
        BY <3>1 DEF Holds, HoldsAt, Unfinished
      <4> QED
        BY <4>1, SessionHandlesLive, JobsAssumption
    <3>5. \A i \in Jobs : <<"use_after_free", i>> \in fault' => "unload" \in overtaken[i]
      BY <3>1, <3>4 DEF Touch, Holds, HoldsAt
    <3>6. ASSUME NEW i \in Jobs PROVE HoldsAt(i)'
      <4>1. HoldsAt(i) /\ (pc'[i] \in Unfinished => pc[i] \in Unfinished)
        BY <3>1, <3>2 DEF Holds, Unfinished
      <4>2. pc[i] \in Unfinished => held[i] # j /\ pc'[held[i]] = "done"
        BY <3>1, <3>2, <4>1 DEF HoldsAt
      <4> QED
        BY <3>1, <3>5, <4>1, <4>2 DEF HoldsAt
    <3> QED
      BY <3>3, <3>6 DEF Holds
  <2>10. CASE Resume(j)
    <3>1. /\ Takes(j, "resumed") /\ UNCHANGED <<kind, held, session, fault>>
          /\ pc' = [pc EXCEPT ![j] = "loop"]
      BY <2>10 DEF Resume, sendVars
    <3>2. kind[j] = "send"
      BY <3>1 DEF Takes, LoopsAreSends, Unfinished, Aside
    <3>3. /\ pc[j] = "resumed" /\ \A i \in Jobs : pc[i] # "loop"
          /\ \A i \in Jobs \ {j} :
               overtaken'[i] = IF pc[i] \in Unfinished THEN overtaken[i] \cup {"send"}
                               ELSE overtaken[i]
          /\ overtaken'[j] = overtaken[j]
      BY <3>1, <3>2, WhenTaken
    <3>4. /\ \A i \in Jobs \ {j} : pc'[i] = pc[i]
          /\ pc[j] \in Unfinished /\ pc'[j] \in Unfinished
      BY <3>1, <3>3 DEF TypeOK, Unfinished, Aside
    <3>5. Behind'
      BY <3>3, <3>4 DEF Behind
    <3>6. ASSUME NEW i \in Jobs PROVE HoldsAt(i)'
      <4>1. HoldsAt(i) /\ overtaken[i] \subseteq overtaken'[i]
        BY <3>3 DEF Holds
      <4>2. pc'[i] \in Unfinished => pc[i] \in Unfinished
        BY <3>4
      <4>3. pc[i] \in Unfinished => held[i] # j /\ pc'[held[i]] = "done"
        BY <3>3, <3>4, <4>1 DEF HoldsAt
      <4> QED
        BY <3>1, <4>1, <4>2, <4>3 DEF HoldsAt
    <3> QED
      BY <3>5, <3>6 DEF Holds
  <2> QED
    BY <1>1, <2>1, <2>3, <2>4, <2>5, <2>6, <2>7, <2>8, <2>9, <2>10 DEF Step, RunLoop
<1>2. CASE Die \/ UNCHANGED vars
  BY <1>2 DEF Die, jobVars, vars, Holds, HoldsAt, Behind
<1> QED
  BY <1>1, <1>2 DEF Next

\* The handles, for good.
LEMMA HoldsAlways == Spec => []HoldsInv
<1>1. Init => HoldsInv
  BY JobsAssumption, BoundsAssumption
     DEF Init, HoldsInv, HeapInv, TypeOK, Kinds, PCs, Parts, EmptyCache, LoopsAreSends,
         Unfinished, Aside, SessionLoaded, HeapAccounted, Of, QueueSound, Holds, HoldsAt, Behind
<1>2. HoldsInv /\ [Next]_vars => HoldsInv'
  BY HoldsStep, HeapStep, QueueStep DEF HoldsInv, HeapInv
<1> QED
  BY <1>1, <1>2, PTL DEF Spec

\* For any channel, batch, length limit and number of calls: a send's handles are
\* those of the load in effect, and are not used after they were freed, unless an
\* unload was served while that send was suspended.
THEOREM HandlesAreKept == Spec => []HandlesKept
<1>1. HoldsInv => HandlesKept
  <2> SUFFICES ASSUME HoldsInv, NEW j \in Jobs, "unload" \notin overtaken[j]
               PROVE  /\ pc[j] \in Unfinished => held[j] = session /\ HandlesLive(j)
                      /\ <<"use_after_free", j>> \notin fault
    BY DEF HandlesKept
  <2>1. HoldsAt(j) /\ HeapInv
    BY DEF HoldsInv, Holds
  <2> QED
    BY <2>1, SessionHandlesLive, JobsAssumption DEF HoldsAt
<1> QED
  BY <1>1, HoldsAlways, PTL
-----------------------------------------------------------------------------
(* What an answer is sampled from, and what callers see. *)

Own(j) == /\ logits = j
          /\ \A p \in Positions : kv[p] = IF p < ncur[j] THEN j ELSE NoJob
Clean(j) == overtaken[j] \subseteq {"load"} /\ j \notin refused

\* A send not over whose decodes were taken, and which no call but a load came
\* before, has the context to itself, in its loop or suspended.
OwnInv == \A j \in Jobs : pc[j] \in Unfinished /\ Clean(j) => Own(j)

\* A decode that is taken puts the tokens where they belong.
LEMMA DecodeOwns ==
  ASSUME NEW j \in Jobs, NEW first \in Nat, NEW last, Decode(j, first, last), j \notin refused'
  PROVE  /\ Accepts(first) /\ kv' = Placed(j, first, last) /\ logits' = j
         /\ j \notin refused
<1>1. PICK r \in DecodeResults(first) :
        /\ kv' = IF r = "ok" THEN Placed(j, first, last) ELSE kv
        /\ Outcome(j, r)
  BY DEF Decode
<1>2. r = "ok"
  BY <1>1 DEF Outcome
<1> QED
  BY <1>1, <1>2 DEF Outcome, DecodeResults

LEMMA OwnStep ==
  ASSUME HoldsInv, OwnInv, [Next]_vars
  PROVE  OwnInv'
<1> USE DEF HoldsInv
<1> TypeOK /\ TypeOK' /\ LoopsAreSends
  BY TypeStep DEF HeapInv
<1>1. ASSUME NEW j \in Jobs, Step(j)
      PROVE  OwnInv'
  <2>1. CASE Launch(j) \/ Dispatch(j) \/ Collect(j)
    <3>1. UNCHANGED <<kv, logits, ncur, refused, overtaken>>
      BY <2>1 DEF Launch, Dispatch, Collect, sendVars, ctxVars
    <3>2. \A i \in Jobs : pc'[i] \in Unfinished => pc[i] \in Unfinished
      <4>1. CASE pc' = pc
        BY <4>1
      <4>2. ASSUME pc' # pc
            PROVE  \/ \E s \in {"launched", "queued"} : pc' = [pc EXCEPT ![j] = s]
                   \/ pc[j] = "suspended" /\ pc' = [pc EXCEPT ![j] = "resumed"]
        BY <2>1, <4>2 DEF Launch, Dispatch, Collect, Wakes
      <4> QED
        BY <4>1, <4>2 DEF TypeOK, Unfinished, Aside
    <3> QED
      BY <3>1, <3>2 DEF OwnInv, Own, Clean
  <2>2. CASE LoadAlreadyLoaded(j) \/ LoadFails(j) \/ NothingLoaded(j)
    <3>1. /\ Takes(j, "queued") /\ UNCHANGED <<kv, logits, ncur, refused>>
          /\ \E s \in {"done", "failed"} : pc' = [pc EXCEPT ![j] = s]
      BY <2>2 DEF LoadAlreadyLoaded, LoadFails, NothingLoaded, Starts, ctxVars, sendVars
    <3>2. \A i \in Jobs : /\ pc'[i] \in Unfinished => pc[i] \in Unfinished
                          /\ overtaken[i] \subseteq overtaken'[i]
      <4>1. \A i \in Jobs : pc'[i] \in Unfinished => pc[i] \in Unfinished
        BY <3>1 DEF TypeOK, Unfinished, Aside
      <4>2. \A i \in Jobs : \/ overtaken'[i] = overtaken[i] \cup {kind[j]}
                            \/ overtaken'[i] = overtaken[i]
        BY <3>1, WhenTaken
      <4> QED
        BY <4>1, <4>2
    <3> QED
      BY <3>1, <3>2 DEF OwnInv, Own, Clean
  <2>3. CASE Load(j) \/ Unload(j) \/ Bench(j)
    <3>1. /\ Takes(j, "queued") /\ kind[j] \in {"load", "unload", "bench"}
          /\ refused' = refused /\ ncur' = ncur
          /\ \E s \in {"done", "failed"} : pc' = [pc EXCEPT ![j] = s]
      BY <2>3 DEF Load, Unload, Bench, Starts, ctxVars, sendVars
    <3>2. \A i \in Jobs : pc'[i] \in Unfinished =>
            i # j /\ pc[i] \in Unfinished /\ overtaken'[i] = overtaken[i] \cup {kind[j]}
      BY <3>1, WhenTaken DEF TypeOK, Unfinished, Aside
    <3>3. CASE Unload(j) \/ Bench(j)
      <4>1. kind[j] # "load"
        BY <3>3 DEF Unload, Bench, Starts
      <4> QED
        BY <3>2, <4>1 DEF OwnInv, Clean
    <3>4. CASE Load(j)
      <4>1. session = NoJob
        BY <3>4 DEF Load
      <4>2. \A i \in Jobs : pc[i] \in Unfinished => "unload" \in overtaken[i]
        BY <4>1, JobsAssumption DEF Holds, HoldsAt
      <4> QED
        BY <3>2, <4>2 DEF OwnInv, Clean
    <3> QED
      BY <2>3, <3>3, <3>4
  <2>4. CASE Send(j)
    <3>1. /\ Takes(j, "queued") /\ kind[j] = "send"
          /\ \E s \in {"loop", "done"} : pc' = [pc EXCEPT ![j] = s]
      BY <2>4 DEF Send, Starts
    <3>2. \A i \in Jobs \ {j} : pc'[i] \in Unfinished => "send" \in overtaken'[i]
      <4>1. \A i \in Jobs \ {j} : pc'[i] = pc[i]
        BY <3>1 DEF TypeOK
      <4>2. \A i \in Jobs \ {j} : pc[i] \in Unfinished =>
              overtaken'[i] = overtaken[i] \cup {kind[j]}
        BY <3>1, WhenTaken
      <4> QED
        BY <3>1, <4>1, <4>2
    <3>3. PICK p \in PromptLens :
            /\ CompletionInit(j, p)
            /\ p <= NLen => pc' = [pc EXCEPT ![j] = "loop"] /\ Decode(j, 0, p - 1)
            /\ ~(p <= NLen) => pc' = [pc EXCEPT ![j] = "done"]
      BY <2>4 DEF Send
    <3>4. p \in Nat /\ p >= 1 /\ ncur'[j] = p
      BY <3>3, BoundsAssumption DEF CompletionInit, TypeOK
    <3>5. ASSUME pc'[j] \in Unfinished, j \notin refused' PROVE Own(j)'
      <4>1. Decode(j, 0, p - 1)
        BY <3>3, <3>5 DEF TypeOK, Unfinished, Aside
      <4>2. Accepts(0) /\ kv' = Placed(j, 0, p - 1) /\ logits' = j
        BY <3>5, <4>1, DecodeOwns
      <4>3. Used = {}
        BY <4>2, PositionsAreNat DEF Accepts, Used
      <4>4. \A q \in Positions : kv[q] = NoJob /\ q \in Nat
        BY <4>3, PositionsAreNat DEF Used
      <4>5. \A q \in Positions : kv'[q] = IF q < p THEN j ELSE NoJob
        BY <3>4, <4>2, <4>4 DEF Placed
      <4> QED
        BY <3>4, <4>2, <4>5 DEF Own
    <3> QED
      BY <3>2, <3>5 DEF OwnInv, Clean
  <2>5. CASE CompletionLoop(j) \/ EndSend(j)
    <3>1. /\ pc[j] = "loop" /\ overtaken' = overtaken
          /\ \A i \in Jobs \ {j} : pc'[i] = pc[i]
      <4>1. CASE CompletionLoop(j)
        <5>1. pc' = [pc EXCEPT ![j] = "suspended"] \/ pc' = pc
          BY <4>1 DEF CompletionLoop
        <5> QED
          BY <4>1, <5>1 DEF CompletionLoop, TypeOK
      <4>2. CASE EndSend(j)
        BY <4>2 DEF EndSend, TypeOK
      <4> QED
        BY <2>5, <4>1, <4>2
    <3>2. \A i \in Jobs \ {j} : pc'[i] \in Unfinished => "send" \in overtaken'[i]
      BY <3>1 DEF Behind
    <3>3. ASSUME pc'[j] \in Unfinished, Clean(j)' PROVE Own(j)'
      <4>1. CompletionLoop(j)
        BY <2>5, <3>3 DEF EndSend, TypeOK, Unfinished, Aside
      <4>2. "unload" \notin overtaken[j] /\ j \notin refused'
        BY <3>1, <3>3 DEF Clean
      <4>3. held[j] = session
        BY <3>1, <4>2 DEF Holds, HoldsAt, Unfinished
      <4>4. ncur[j] \in Nat /\ ncur'[j] = ncur[j] + 1 /\ Decode(j, ncur[j], ncur[j])
        BY <4>1, <4>3 DEF CompletionLoop, TypeOK
      <4>5. kv' = Placed(j, ncur[j], ncur[j]) /\ logits' = j /\ j \notin refused
        BY <4>2, <4>4, DecodeOwns
      <4>6. Own(j)
        BY <3>1, <3>3, <4>5 DEF OwnInv, Clean, Unfinished
      <4>7. ASSUME NEW q \in Positions PROVE kv'[q] = IF q < ncur'[j] THEN j ELSE NoJob
        <5>1. q \in Nat /\ kv[q] = IF q < ncur[j] THEN j ELSE NoJob
          BY <4>6, PositionsAreNat DEF Own
        <5>2. kv'[q] = IF ncur[j] <= q /\ q <= ncur[j] THEN j ELSE kv[q]
          BY <4>5 DEF Placed
        <5> QED
          BY <4>4, <5>1, <5>2
      <4> QED
        BY <4>5, <4>7 DEF Own
    <3> QED
      BY <3>2, <3>3 DEF OwnInv, Clean
  <2>6. CASE Resume(j)
    <3>1. /\ Takes(j, "resumed") /\ UNCHANGED <<kind, kv, logits, ncur, refused>>
          /\ pc' = [pc EXCEPT ![j] = "loop"]
      BY <2>6 DEF Resume, ctxVars, sendVars
    <3>2. kind[j] = "send" /\ pc[j] \in Unfinished
      BY <3>1 DEF Takes, LoopsAreSends, Unfinished, Aside
    <3>3. /\ \A i \in Jobs \ {j} : pc'[i] \in Unfinished => "send" \in overtaken'[i]
          /\ overtaken'[j] = overtaken[j]
      BY <3>1, <3>2, WhenTaken DEF TypeOK
    <3>4. Clean(j)' => Own(j)'
      BY <3>1, <3>2, <3>3 DEF OwnInv, Own, Clean
    <3> QED
      BY <3>3, <3>4 DEF OwnInv, Clean
  <2> QED
    BY <1>1, <2>1, <2>2, <2>3, <2>4, <2>5, <2>6 DEF Step, RunLoop
<1>2. CASE Die \/ UNCHANGED vars
  <2>1. UNCHANGED <<pc, kv, logits, ncur, refused, overtaken>>
    BY <1>2 DEF Die, jobVars, ctxVars, vars
  <2> QED
    BY <2>1 DEF OwnInv, Own, Clean
<1> QED
  BY <1>1, <1>2 DEF Next

\* However small the channel and however many sends share the session: an answer
\* is sampled from logits computed over its own prompt and tokens and nothing of
\* another's, until a call other than a load comes while it is suspended or one of
\* its own decodes fails.
THEOREM AnswersInOwnContext == Spec => []OwnContext
<1>1. Init => OwnInv
  BY DEF Init, OwnInv, Unfinished, Aside
<1>2. HoldsInv /\ OwnInv /\ [Next]_vars => OwnInv'
  BY OwnStep
<1>3. OwnInv => OwnContext
  BY DEF OwnInv, Own, Clean, OwnContext, Unfinished
<1> QED
  BY <1>1, <1>2, <1>3, HoldsAlways, PTL DEF Spec

\* What callers see of a job that moves to the place s, and whether it is over.
LEMMA StatusUpdate ==
  ASSUME TypeOK, NEW j \in Jobs, NEW s, pc' = [pc EXCEPT ![j] = s]
  PROVE  /\ Status' = [Status EXCEPT ![j] = Seen(s)]
         /\ Status[j] = Seen(pc[j])
         /\ \A i \in Jobs \ {j} : pc'[i] = pc[i]
         /\ pc'[j] = s
  BY DEF Status, TypeOK

LEMMA SeenAs ==
  /\ Seen("new") = "new" /\ Seen("launched") = "asked" /\ Seen("queued") = "asked"
  /\ Seen("loop") = "serving" /\ Seen("suspended") = "aside"
  /\ Seen("resumed") = "aside" /\ Seen("done") = "done" /\ Seen("failed") = "failed"
  BY DEF Seen, Aside

\* What is stale does not change with a step that leaves the session.
LEMMA StaleFrame ==
  ASSUME session' = session,
         \A i \in Jobs : /\ pc'[i] \in Unfinished <=> pc[i] \in Unfinished
                         /\ pc[i] \in Unfinished => held'[i] = held[i]
  PROVE  Stale' = Stale
  BY DEF Stale

\* A call served in one step, while no send is in its loop, is one of
\* ModelResource's.
LEMMA ServedAtOnce ==
  ASSUME HoldsInv, NEW j \in Jobs,
         LoadAlreadyLoaded(j) \/ LoadFails(j) \/ Load(j) \/ Unload(j) \/ Bench(j)
           \/ NothingLoaded(j)
  PROVE  Resource!Next
<1> USE DEF HoldsInv
<1>t. TypeOK
  BY DEF HeapInv
<1>1. /\ running = NoJob /\ running' = running /\ pc[j] = "queued" /\ kind' = kind
      /\ held' = held /\ Takes(j, "queued")
  BY DEF LoadAlreadyLoaded, LoadFails, Load, Unload, Bench, NothingLoaded, Starts, Takes,
         sendVars
<1>2. \A i \in Jobs : pc[i] # "loop"
  BY <1>t, <1>1, WhenTaken
<1>3. \A i \in Jobs : pc[i] \in Unfinished =>
        i # j /\ held[i] \in Jobs /\ pc[held[i]] = "done" /\ held[i] # j /\ pc[i] \in Aside
  BY <1>1, <1>2 DEF Holds, HoldsAt, Unfinished, Aside
<1>4. ASSUME NEW s \in {"done", "failed"}, pc' = [pc EXCEPT ![j] = s]
      PROVE  /\ Resource!Ends(j, s)
             /\ \A i \in Jobs : pc'[i] \in Unfinished <=> pc[i] \in Unfinished
  <2>1. /\ Status' = [Status EXCEPT ![j] = s] /\ Status[j] = "asked"
        /\ \A i \in Jobs \ {j} : pc'[i] = pc[i]
        /\ pc'[j] = s
    <3>1. /\ Status' = [Status EXCEPT ![j] = Seen(s)] /\ Status[j] = Seen(pc[j])
          /\ \A i \in Jobs \ {j} : pc'[i] = pc[i]
          /\ pc'[j] = s
      BY <1>t, <1>4, StatusUpdate
    <3>2. Seen(s) = s
      BY SeenAs
    <3> QED
      BY <1>1, <3>1, <3>2, SeenAs
  <2>2. \A i \in Jobs : pc'[i] \in Unfinished <=> pc[i] \in Unfinished
    BY <1>1, <2>1 DEF Unfinished, Aside
  <2> QED
    BY <1>1, <2>1, <2>2 DEF Resource!Ends
<1>5. ASSUME NEW s \in {"done", "failed"}, pc' = [pc EXCEPT ![j] = s], session' = session
      PROVE  Stale' = Stale
  BY <1>1, <1>4, <1>5, StaleFrame
<1>6. CASE LoadAlreadyLoaded(j) \/ LoadFails(j)
  <2>1. kind[j] = "load" /\ session' = session /\ pc' = [pc EXCEPT ![j] = "failed"]
    BY <1>6 DEF LoadAlreadyLoaded, LoadFails, Starts
  <2>2. Resource!Load(j)
    BY <1>4, <1>5, <2>1 DEF Resource!Load
  <2> QED
    BY <2>2 DEF Resource!Next
<1>7. CASE Load(j)
  <2>1. kind[j] = "load" /\ session = NoJob /\ session' = j /\ pc' = [pc EXCEPT ![j] = "done"]
    BY <1>7 DEF Load, Starts
  <2>2. Stale' = {i \in Jobs : pc[i] \in Unfinished}
    BY <1>1, <1>3, <1>4, <2>1 DEF Stale
  <2>3. Stale = {i \in Jobs : pc[i] \in Unfinished}
    BY <1>3, <2>1, JobsAssumption DEF Stale
  <2>4. Resource!Load(j)
    BY <1>4, <2>1, <2>2, <2>3, JobsAssumption DEF Resource!Load
  <2> QED
    BY <2>4 DEF Resource!Next
<1>8. ASSUME kind[j] = "unload", session' = NoJob, pc' = [pc EXCEPT ![j] = "done"]
      PROVE  Resource!Unload(j)
  <2>1. Stale' = {i \in Jobs : pc[i] \in Unfinished}
    BY <1>1, <1>3, <1>4, <1>8, JobsAssumption DEF Stale
  <2>2. {i \in Jobs : Status[i] = "aside"} = {i \in Jobs : pc[i] \in Unfinished}
    <3>1. \A i \in Jobs : Status[i] = "aside" <=> pc[i] \in Unfinished
      <4> TAKE i \in Jobs
      <4>1. Status[i] = Seen(pc[i]) /\ pc[i] \in PCs
        BY <1>t DEF Status, TypeOK
      <4> QED
        BY <1>2, <4>1, SeenAs DEF PCs, Unfinished, Aside
    <3> QED
      BY <3>1
  <2>3. Stale \cup {i \in Jobs : pc[i] \in Unfinished} = {i \in Jobs : pc[i] \in Unfinished}
    BY DEF Stale
  <2> QED
    BY <1>4, <1>8, <2>1, <2>2, <2>3 DEF Resource!Unload
<1>9. CASE Unload(j)
  <2>1. Resource!Unload(j)
    BY <1>8, <1>9 DEF Unload, Starts
  <2> QED
    BY <2>1 DEF Resource!Next
<1>10. CASE Bench(j)
  <2>1. /\ kind[j] = "bench" /\ session' = session
        /\ pc' = [pc EXCEPT ![j] = IF session # NoJob THEN "done" ELSE "failed"]
    BY <1>10 DEF Bench, Starts
  <2>2. Resource!Bench(j)
    BY <1>4, <1>5, <2>1 DEF Resource!Bench
  <2> QED
    BY <2>2 DEF Resource!Next
<1>11. CASE NothingLoaded(j)
  <2>1. /\ session = NoJob /\ session' = session
        /\ kind[j] = "unload" \/ kind[j] = "send"
        /\ pc' = [pc EXCEPT ![j] = "done"]
    BY <1>11 DEF NothingLoaded, Starts
  <2>2. Resource!Unload(j) \/ Resource!EmptyAnswer(j)
    BY <1>4, <1>5, <1>8, <2>1 DEF Resource!EmptyAnswer
  <2> QED
    BY <2>2 DEF Resource!Next
<1> QED
  BY <1>6, <1>7, <1>9, <1>10, <1>11

\* Each step of the run loop is, to its callers, a step of ModelResource or none.
LEMMA ResourceStep ==
  ASSUME HoldsInv, [Next]_vars
  PROVE  [Resource!Next]_(Resource!vars)
<1> USE DEF HoldsInv
<1>t. TypeOK /\ LoopsAreSends
  BY DEF HeapInv
<1>u. ASSUME NEW j \in Jobs, NEW s, pc' = [pc EXCEPT ![j] = s]
      PROVE  /\ Status' = [Status EXCEPT ![j] = Seen(s)]
             /\ Status[j] = Seen(pc[j])
             /\ \A i \in Jobs \ {j} : pc'[i] = pc[i]
             /\ pc'[j] = s
  BY <1>t, <1>u, StatusUpdate
\* A send goes in or out of its loop and is not over.
<1>v. ASSUME NEW j \in Jobs, NEW s \in Unfinished, pc[j] \in Unfinished,
             pc' = [pc EXCEPT ![j] = s], session' = session, held' = held
      PROVE  Stale' = Stale
  <2>1. \A i \in Jobs : pc'[i] \in Unfinished <=> pc[i] \in Unfinished
    BY <1>u, <1>v
  <2> QED
    BY <1>v, <2>1, StaleFrame
<1>1. ASSUME NEW j \in Jobs, Step(j)
      PROVE  [Resource!Next]_(Resource!vars)
  <2>1. CASE Launch(j)
    <3>1. /\ pc[j] = "new" /\ pc' = [pc EXCEPT ![j] = "launched"]
          /\ \E k \in {"load", "unload", "send", "bench"} : kind' = [kind EXCEPT ![j] = k]
          /\ session' = session /\ running' = running /\ held' = held
      BY <2>1 DEF Launch, Kinds, sendVars
    <3>2. Status[j] = "new" /\ Status' = [Status EXCEPT ![j] = "asked"]
      <4>1. Status' = [Status EXCEPT ![j] = Seen("launched")] /\ Status[j] = Seen(pc[j])
        BY <1>u, <3>1
      <4> QED
        BY <3>1, <4>1, SeenAs
    <3>3. Stale' = Stale
      BY <1>u, <3>1, StaleFrame DEF Unfinished, Aside
    <3>4. Resource!Ask(j)
      BY <3>1, <3>2, <3>3 DEF Resource!Ask
    <3> QED
      BY <3>4 DEF Resource!Next
  <2>2. CASE Dispatch(j)
    <3>1. /\ pc[j] = "launched" /\ pc' = [pc EXCEPT ![j] = "queued"]
          /\ kind' = kind /\ session' = session /\ running' = running /\ held' = held
      BY <2>2 DEF Dispatch, sendVars
    <3>2. Status' = [Status EXCEPT ![j] = Status[j]]
      <4>1. Status' = [Status EXCEPT ![j] = Seen("queued")] /\ Status[j] = Seen(pc[j])
        BY <1>u, <3>1
      <4> QED
        BY <3>1, <4>1, SeenAs
    <3>3. Status' = Status
      BY <3>2 DEF Status
    <3>4. Stale' = Stale
      BY <1>u, <3>1, StaleFrame DEF Unfinished, Aside
    <3> QED
      BY <3>1, <3>3, <3>4 DEF Resource!vars
  <2>3. CASE LoadAlreadyLoaded(j) \/ LoadFails(j) \/ Load(j) \/ Unload(j)
             \/ Bench(j) \/ NothingLoaded(j)
    BY <2>3, ServedAtOnce
  <2>4. CASE Send(j)
    <3>1. /\ running = NoJob /\ pc[j] = "queued" /\ kind' = kind /\ kind[j] = "send"
          /\ session' = session /\ session # NoJob /\ held' = [held EXCEPT ![j] = session]
      BY <2>4 DEF Send, Starts, Takes
    <3>2. /\ held'[j] = session
          /\ \A i \in Jobs \ {j} : held'[i] = held[i]
      BY <1>t, <3>1 DEF TypeOK
    <3>3. \/ pc' = [pc EXCEPT ![j] = "loop"] /\ running' = j
          \/ pc' = [pc EXCEPT ![j] = "done"] /\ running' = running
      BY <2>4 DEF Send
    <3>4. Status[j] = "asked"
      BY <3>1, SeenAs DEF Status
    <3>5. Stale' = Stale
      <4>1. \A i \in Jobs \ {j} : pc'[i] = pc[i]
        BY <1>u, <3>3
      <4>2. \A i \in Jobs : (pc'[i] \in Unfinished /\ held'[i] # session')
                            <=> (pc[i] \in Unfinished /\ held[i] # session)
        BY <3>1, <3>2, <4>1 DEF Unfinished, Aside
      <4> QED
        BY <4>2 DEF Stale
    <3>6. CASE pc' = [pc EXCEPT ![j] = "loop"] /\ running' = j
      <4>1. Status' = [Status EXCEPT ![j] = "serving"]
        <5>1. Status' = [Status EXCEPT ![j] = Seen("loop")] /\ Status[j] = Seen(pc[j])
          BY <1>u, <3>6
        <5> QED
          BY <3>6, <5>1, SeenAs
      <4>2. Resource!BeginAnswer(j)
        BY <3>1, <3>4, <3>5, <3>6, <4>1 DEF Resource!BeginAnswer
      <4> QED
        BY <4>2 DEF Resource!Next
    <3>7. CASE pc' = [pc EXCEPT ![j] = "done"] /\ running' = running
      <4>1. Status' = [Status EXCEPT ![j] = "done"]
        <5>1. Status' = [Status EXCEPT ![j] = Seen("done")] /\ Status[j] = Seen(pc[j])
          BY <1>u, <3>7
        <5> QED
          BY <3>7, <5>1, SeenAs
      <4>2. Resource!EmptyAnswer(j)
        BY <3>1, <3>4, <3>5, <3>7, <4>1 DEF Resource!EmptyAnswer, Resource!Ends
      <4> QED
        BY <4>2 DEF Resource!Next
    <3> QED
      BY <3>3, <3>6, <3>7
  <2>5. CASE CompletionLoop(j)
    <3>1. /\ running = j /\ pc[j] = "loop" /\ kind' = kind /\ held' = held
          /\ session' = session
      BY <2>5 DEF CompletionLoop
    <3>2. CASE BufferFull(j)
      <4>1. pc' = [pc EXCEPT ![j] = "suspended"] /\ running' = NoJob
        BY <2>5, <3>2 DEF CompletionLoop
      <4>2. Status' = [Status EXCEPT ![j] = "aside"]
        <5>1. Status' = [Status EXCEPT ![j] = Seen("suspended")] /\ Status[j] = Seen(pc[j])
          BY <1>u, <4>1
        <5> QED
          BY <4>1, <5>1, SeenAs
      <4>3. Stale' = Stale
        BY <1>v, <3>1, <4>1 DEF Unfinished, Aside
      <4>4. Resource!SetAside(j)
        BY <3>1, <4>1, <4>2, <4>3 DEF Resource!SetAside
      <4> QED
        BY <4>4 DEF Resource!Next
    <3>3. CASE ~BufferFull(j)
      <4>1. pc' = pc /\ running' = running
        BY <2>5, <3>3 DEF CompletionLoop
      <4> QED
        BY <3>1, <4>1 DEF Resource!vars, Status, Stale
    <3> QED
      BY <3>2, <3>3
  <2>6. CASE EndSend(j)
    <3>1. /\ running = j /\ running' = NoJob /\ kind' = kind /\ session' = session
          /\ held' = held /\ pc' = [pc EXCEPT ![j] = "done"]
      BY <2>6 DEF EndSend, sendVars
    <3>2. Status' = [Status EXCEPT ![j] = "done"]
      <4>1. Status' = [Status EXCEPT ![j] = Seen("done")] /\ Status[j] = Seen(pc[j])
        BY <1>u, <3>1
      <4> QED
        BY <3>1, <4>1, SeenAs
    <3>3. Stale' = Stale \ {j}
      BY <1>u, <3>1 DEF Stale, Unfinished, Aside
    <3>4. Resource!EndAnswer(j)
      BY <3>1, <3>2, <3>3 DEF Resource!EndAnswer
    <3> QED
      BY <3>4 DEF Resource!Next
  <2>7. CASE Collect(j)
    <3>1. kind' = kind /\ held' = held /\ session' = session /\ running' = running
      BY <2>7 DEF Collect
    <3>2. CASE Wakes(j)
      <4>1. pc[j] = "suspended" /\ pc' = [pc EXCEPT ![j] = "resumed"]
        BY <2>7, <3>2 DEF Collect, Wakes
      <4>2. Status' = [Status EXCEPT ![j] = Status[j]]
        <5>1. Status' = [Status EXCEPT ![j] = Seen("resumed")] /\ Status[j] = Seen(pc[j])
          BY <1>u, <4>1
        <5> QED
          BY <4>1, <5>1, SeenAs
      <4>3. Status' = Status
        BY <4>2 DEF Status
      <4>4. Stale' = Stale
        BY <1>v, <3>1, <4>1 DEF Unfinished, Aside
      <4> QED
        BY <3>1, <4>3, <4>4 DEF Resource!vars
    <3>3. CASE ~Wakes(j)
      <4>1. pc' = pc
        BY <2>7, <3>3 DEF Collect
      <4> QED
        BY <3>1, <4>1 DEF Resource!vars, Status, Stale
    <3> QED
      BY <3>2, <3>3
  <2>8. CASE Resume(j)
    <3>1. /\ pc[j] = "resumed" /\ pc' = [pc EXCEPT ![j] = "loop"]
          /\ running = NoJob /\ running' = j
          /\ kind' = kind /\ held' = held /\ session' = session
      BY <2>8 DEF Resume, Takes, sendVars
    <3>2. Status[j] = "aside" /\ Status' = [Status EXCEPT ![j] = "serving"]
      <4>1. Status' = [Status EXCEPT ![j] = Seen("loop")] /\ Status[j] = Seen(pc[j])
        BY <1>u, <3>1
      <4> QED
        BY <3>1, <4>1, SeenAs
    <3>3. Stale' = Stale
      BY <1>v, <3>1 DEF Unfinished, Aside
    <3>4. Resource!TakeBack(j)
      BY <3>1, <3>2, <3>3 DEF Resource!TakeBack
    <3> QED
      BY <3>4 DEF Resource!Next
  <2> QED
    BY <1>1, <2>1, <2>2, <2>3, <2>4, <2>5, <2>6, <2>7, <2>8 DEF Step, RunLoop
<1>2. CASE Die \/ UNCHANGED vars
  BY <1>2 DEF Die, jobVars, vars, Resource!vars, Status, Stale
<1> QED
  BY <1>1, <1>2 DEF Next

\* The run loop implements what callers are promised, whatever the channel, the
\* batch and the calls: one model at most and one call served at a time; an answer
\* may be set aside, and is then without its model only if an unload came between.
THEOREM LoopImplementsResource == Spec => ImplementsResource
<1>1. Init => Resource!Init
  BY SeenAs DEF Init, Resource!Init, Status, Stale, Unfinished, Aside
<1>2. HoldsInv /\ [Next]_vars => [Resource!Next]_(Resource!vars)
  BY ResourceStep
<1> QED
  BY <1>1, <1>2, HoldsAlways, PTL DEF Spec, ImplementsResource, Resource!Spec
=============================================================================
