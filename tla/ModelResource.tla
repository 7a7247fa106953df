---------------------------- MODULE ModelResource ----------------------------
(***************************************************************************)
(* What LLamaAndroid gives its callers: one model at most is resident       *)
(* ("Enforce only one instance of Llm") and calls are served one at a time,  *)
(* but an answer may be set aside and taken back, and others are served in   *)
(* between.  The model of an answer is resident while it is being served,    *)
(* unless it was unloaded while the answer was aside.                        *)
(***************************************************************************)
CONSTANTS Jobs, NoJob

VARIABLES
  asks,      \* the operation each call asks for
  status,    \* "new", "asked", "serving", "aside", "done" or "failed"
  resident,  \* a model is loaded
  serving,   \* the send being answered, or NoJob
  lost       \* the sends not over whose model was unloaded

vars == <<asks, status, resident, serving, lost>>

Init == /\ asks = [j \in Jobs |-> "none"]
        /\ status = [j \in Jobs |-> "new"]
        /\ resident = FALSE
        /\ serving = NoJob
        /\ lost = {}

Ask(j) ==
  /\ status[j] = "new"
  /\ \E k \in {"load", "unload", "send", "bench"} : asks' = [asks EXCEPT ![j] = k]
  /\ status' = [status EXCEPT ![j] = "asked"]
  /\ UNCHANGED <<resident, serving, lost>>

\* The call is over in one step, in which no other call is being served.
Ends(j, result) == /\ status[j] = "asked"
                   /\ serving = NoJob
                   /\ status' = [status EXCEPT ![j] = result]
                   /\ UNCHANGED <<asks, serving>>

Load(j) == /\ asks[j] = "load"
           /\ \/ ~resident /\ resident' = TRUE /\ Ends(j, "done")
              \/ UNCHANGED resident /\ Ends(j, "failed")
           /\ UNCHANGED lost

\* The answers that are aside lose their model.
Unload(j) == /\ asks[j] = "unload"
             /\ resident' = FALSE
             /\ Ends(j, "done")
             /\ lost' = lost \cup {i \in Jobs : status[i] = "aside"}

Bench(j) == /\ asks[j] = "bench"
            /\ Ends(j, IF resident THEN "done" ELSE "failed")
            /\ UNCHANGED <<resident, lost>>

\* Idle, or a prompt beyond the length limit: an answer without a token.
EmptyAnswer(j) == asks[j] = "send" /\ Ends(j, "done") /\ UNCHANGED <<resident, lost>>

BeginAnswer(j) == /\ asks[j] = "send"
                  /\ resident
                  /\ status[j] = "asked"
                  /\ serving = NoJob
                  /\ serving' = j
                  /\ status' = [status EXCEPT ![j] = "serving"]
                  /\ UNCHANGED <<asks, resident, lost>>

SetAside(j) == /\ serving = j
               /\ serving' = NoJob
               /\ status' = [status EXCEPT ![j] = "aside"]
               /\ UNCHANGED <<asks, resident, lost>>

TakeBack(j) == /\ status[j] = "aside"
               /\ serving = NoJob
               /\ serving' = j
               /\ status' = [status EXCEPT ![j] = "serving"]
               /\ UNCHANGED <<asks, resident, lost>>

EndAnswer(j) == /\ serving = j
                /\ serving' = NoJob
                /\ status' = [status EXCEPT ![j] = "done"]
                /\ lost' = lost \ {j}
                /\ UNCHANGED <<asks, resident>>

Next == \E j \in Jobs : \/ Ask(j) \/ Load(j) \/ Unload(j) \/ Bench(j)
                        \/ EmptyAnswer(j) \/ BeginAnswer(j) \/ SetAside(j)
                        \/ TakeBack(j) \/ EndAnswer(j)

Spec == Init /\ [][Next]_vars
=============================================================================
