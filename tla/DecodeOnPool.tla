----------------------------- MODULE DecodeOnPool -----------------------------
(***************************************************************************)
(* llama_decode with the threads it computes on: each ubatch's graph is      *)
(* given to ggml_graph_compute, which makes a ThreadPool for it and returns  *)
(* when that is freed.  Meanwhile the caller's thread is the pool's thread 0,*)
(* so nothing else happens to the context.                                   *)
(***************************************************************************)
EXTENDS LlamaContext, ThreadPool

decodeVars == <<contextVars, poolVars>>

DecodeInit == Init /\ InitPool

\* ggml_backend_cpu_graph_compute gives the graph of an ubatch to the pool.
GiveGraph == /\ pc = "compute"
             /\ StartPool
             /\ UNCHANGED contextVars

\* What the pool returned ends the ubatch.
TakeResult == \/ Return("success") /\ ComputeSucceeds
              \/ Return("aborted") /\ ComputeFails(2)

\* The graph cannot be built or allocated: no thread sees it.
GraphFails == /\ tpc[0] = "idle"
              /\ ComputeFails(-2) \/ ComputeFails(-3)
              /\ UNCHANGED poolVars

DecodeNext == \/ CallOrStep /\ UNCHANGED poolVars
              \/ GiveGraph \/ TakeResult \/ GraphFails
              \/ Runs /\ UNCHANGED contextVars

\* The thread that called llama_decode goes on with it, on and off the pool; the
\* system schedules every thread of the pool, and a mutex that is released over
\* and over is in the end given to each that waits for it.
DecodeFairness ==
  /\ WF_decodeVars(/\ Place \/ Placed \/ Restore \/ Prepared \/ Apply
                   /\ UNCHANGED poolVars)
  /\ WF_decodeVars(GiveGraph \/ TakeResult \/ GraphFails)
  /\ WF_decodeVars(Main /\ UNCHANGED contextVars)
  /\ SF_decodeVars((KickLock \/ FreeLock) /\ UNCHANGED contextVars)
  /\ \A t \in Workers : /\ WF_decodeVars(Wakes(t) /\ UNCHANGED contextVars)
                        /\ SF_decodeVars(Lock(t) /\ UNCHANGED contextVars)
  /\ \A t \in Threads : WF_decodeVars(Computes(t) /\ UNCHANGED contextVars)

DecodeSpec == DecodeInit /\ [][DecodeNext]_decodeVars /\ DecodeFairness
-----------------------------------------------------------------------------
\* A call of llama_decode returns, although its threads sleep, poll, spin and
\* are joined; no wake-up is lost, and all leave the graph at the same node.
DecodeReturns == pc # "idle" ~> pc = "idle"
=============================================================================
