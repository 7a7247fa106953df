--------------------------- MODULE MCNativeSession ---------------------------
(* NativeSession for TLC, with the refinement of ModelResource. *)
EXTENDS NativeSession

\* Callers see a call as asked until the run loop takes it, as being served
\* while the run loop is inside it, and as set aside while it is suspended.
Seen(place) == CASE place \in {"launched", "queued"} -> "asked"
                 [] place = "loop" -> "serving"
                 [] place \in Aside -> "aside"
                 [] OTHER -> place

Status == [j \in Jobs |-> Seen(pc[j])]

\* The sends not over that hold on to a load no longer in effect.
Stale == {j \in Jobs : pc[j] \in Unfinished /\ held[j] # session}

Resource == INSTANCE ModelResource WITH
  asks <- kind, status <- Status,
  resident <- (session # NoJob), serving <- running, lost <- Stale

\* The run loop serves one call at a time on one model at most, whatever is set
\* aside; an answer is without its model only if an unload came while it was.
ImplementsResource == Resource!Spec

\* Jobs are numbers here, in the order in which they join the executor's queue:
\* which job is which makes no difference to the code, and a launch has no
\* effect before that, so other orders are renamings of these.
Numbered == \A i, j \in Jobs : i < j =>
  /\ pc[i] = "new" => pc'[j] = "new"
  /\ pc[i] = "launched" => pc'[j] \in {"new", "launched"}
=============================================================================
