------------------------- MODULE ModelLifecycle_proofs -------------------------
(***************************************************************************)
(* The flag, the engine and the preferences agree after any number of        *)
(* operations that do not overlap, for any models, loader threads, engine    *)
(* calls and restarts, in whatever order the engine serves its calls.        *)
(***************************************************************************)
EXTENDS ModelLifecycle, SequenceTheorems, TLAPS

Places == {"off", "unload?", "unload", "load?", "load", "ui", "end"}

\* What a handler of the main thread may have left to do.
Handlers == {<<>>, <<"unload", "clear">>, <<"clear">>, <<"unload">>,
             <<"initialize", "refresh">>, <<"load?", "refresh">>, <<"load", "refresh">>,
             <<"refresh">>, <<"initialize">>, <<"load?">>, <<"load">>}

Types ==
  /\ asks \in [JobIds -> {"none", "load", "unload", "send", "bench"}]
  /\ status \in [JobIds -> {"new", "asked", "serving", "done", "failed"}]
  /\ resident \in BOOLEAN /\ flag \in BOOLEAN
  /\ jobModel \in [JobIds -> Models \cup {None}]
  /\ loader \in [Loaders -> Places]
  /\ want \in [Loaders -> Models \cup {None}]
  /\ current \in Models \cup {None} /\ disk \in Models \cup {None}
  /\ main \in Handlers

\* What is being answered is a send.
AnswersSend == \A j \in JobIds : serving = j => asks[j] = "send" /\ status[j] = "serving"

Pending(op) == {j \in JobIds : asks[j] = op /\ ~Ended(j)}
Active(t) == loader[t] \notin {"off", "end"}

\* The model the engine is to end with: that of a loader thread that has yet to
\* record it, or the current one.
IsTarget(m) == IF \E t \in Loaders : loader[t] = "ui"
               THEN \E t \in Loaders : loader[t] = "ui" /\ m = want[t]
               ELSE m = current

\* One operation at a time.
OneOperation ==
  /\ \A s, t \in Loaders : Active(s) /\ Active(t) => s = t
  /\ \A t \in Loaders : Active(t) => main = <<>>

Settled == Pending("load") = {} /\ Pending("unload") = {}

\* What an operation has read or begun still holds when it acts on it.
ReadsHold ==
  /\ \A t \in Loaders : /\ loader[t] \in {"unload?", "unload"} => Settled
                        /\ loader[t] = "unload" => flag
                        /\ loader[t] \in {"load?", "load"} => ~flag
  /\ At("unload") => flag /\ Settled
  /\ At("load") \/ At("clear") => ~flag

\* The flag says what the engine will hold once it has served its calls.
FlagForetells ==
  /\ \A op \in {"load", "unload"} : \A i, j \in Pending(op) : i = j
  /\ flag <=> (Pending("load") # {} \/ (resident /\ Pending("unload") = {}))
  /\ Pending("unload") # {} => resident
  /\ Pending("load") # {} /\ Pending("unload") = {} => ~resident
  /\ resident /\ Pending("unload") = {} => IsTarget(model)
  /\ \A j \in Pending("load") : IsTarget(jobModel[j])

LifeInv == /\ Types /\ AnswersSend
           /\ ~overlapped => OneOperation /\ ReadsHold /\ FlagForetells

-----------------------------------------------------------------------------
LEMMA InitLife == Init => LifeInv
<1> SUFFICES ASSUME Init PROVE LifeInv
  OBVIOUS
<1>1. Types
  BY DEF Init, Engine!Init, Types, Places, Handlers
<1>2. AnswersSend /\ Settled
  BY LifecycleAssumption DEF Init, Engine!Init, AnswersSend, Settled, Pending, Ended, JobIds
<1>3. OneOperation /\ ReadsHold
  BY DEF Init, OneOperation, ReadsHold, Active, At
<1>4. FlagForetells
  BY <1>2 DEF Init, Engine!Init, FlagForetells, Settled
<1> QED
  BY <1>1, <1>2, <1>3, <1>4 DEF LifeInv

-----------------------------------------------------------------------------
(* The handlers of the main thread *)

LEMMA Ends ==
  ASSUME NEW a, NEW b
  PROVE  /\ Head(<<a>>) = a /\ Tail(<<a>>) = <<>>
         /\ Head(<<a, b>>) = a /\ Tail(<<a, b>>) = <<b>>
  OBVIOUS

LEMMA HandlerShapes ==
  ASSUME NEW s \in Handlers, s # <<>>
  PROVE  /\ Head(s) = "unload" => Tail(s) \in {<<>>, <<"clear">>}
         /\ Head(s) = "clear" => Tail(s) = <<>>
         /\ Head(s) \in {"initialize", "load?", "load"} => Tail(s) \in {<<>>, <<"refresh">>}
         /\ Head(s) = "refresh" => Tail(s) = <<>>
<1>1. \/ \E a : s = <<a>>
      \/ \E a \in {"initialize", "load?", "load"} : s = <<a, "refresh">>
      \/ s = <<"unload", "clear">>
  BY DEF Handlers
<1>2. CASE \E a : s = <<a>>
  <2>1. Tail(s) = <<>>
    BY <1>2, Ends
  <2> QED
    BY <2>1
<1>3. CASE \E a \in {"initialize", "load?", "load"} : s = <<a, "refresh">>
  <2>1. Head(s) \in {"initialize", "load?", "load"} /\ Tail(s) = <<"refresh">>
    BY <1>3, Ends
  <2> QED
    BY <2>1
<1>4. CASE s = <<"unload", "clear">>
  <2>1. Head(s) = "unload" /\ Tail(s) = <<"clear">>
    BY <1>4, Ends
  <2> QED
    BY <2>1
<1> QED
  BY <1>1, <1>2, <1>3, <1>4

LEMMA Join ==
  ASSUME NEW a, NEW b
  PROVE  <<a>> \o <<b>> = <<a, b>>
<1> DEFINE S == {a, b}
           l == <<a>> \o <<b>>
           r == <<a, b>>
<1>1. <<a>> \in Seq(S) /\ <<b>> \in Seq(S) /\ r \in Seq(S)
  OBVIOUS
<1>2. Len(<<a>>) = 1 /\ Len(<<b>>) = 1 /\ Len(r) = 2 /\ r[1] = a /\ r[2] = b
  OBVIOUS
<1> HIDE DEF S, r
<1>3. l \in Seq(S) /\ Len(l) = 2 /\ l[1] = a /\ l[2] = b
  BY <1>1, <1>2, ConcatProperties, Z3
<1> HIDE DEF l
<1>4. l = r
  BY <1>1, <1>2, <1>3, SeqEqual
<1> QED
  BY <1>4 DEF l, r

LEMMA Unjoined ==
  ASSUME NEW a
  PROVE  <<>> \o <<a>> = <<a>> /\ <<a>> \o <<>> = <<a>> /\ <<>> \o <<>> = <<>>
<1>1. <<a>> \in Seq({a}) /\ <<>> \in Seq({a})
  OBVIOUS
<1> QED
  BY <1>1, ConcatEmptySeq

LEMMA Appended ==
  ASSUME NEW a, NEW b
  PROVE  Append(<<>>, b) = <<b>> /\ Append(<<a>>, b) = <<a, b>>
<1> DEFINE S == {a, b}
<1>1. <<>> \in Seq(S) /\ <<a>> \in Seq(S) /\ b \in S
  OBVIOUS
<1>2. Append(<<>>, b) = <<>> \o <<b>> /\ Append(<<a>>, b) = <<a>> \o <<b>>
  BY <1>1, AppendIsConcat
<1> QED
  BY <1>2, Join, Unjoined

\* A step st put before what is left of the handler, or none.
LEMMA HandlerSteps ==
  ASSUME NEW st \in {"initialize", "load?", "load"}, NEW rest \in {<<>>, <<"refresh">>}
  PROVE  /\ <<st>> \o rest \in Handlers /\ Head(<<st>> \o rest) = st
         /\ <<>> \o rest = rest /\ rest \in Handlers
         /\ rest # <<>> => Head(rest) = "refresh"
<1>1. CASE rest = <<>>
  BY <1>1, Unjoined DEF Handlers
<1>2. CASE rest = <<"refresh">>
  BY <1>2, Unjoined, Join DEF Handlers
<1> QED
  BY <1>1, <1>2

-----------------------------------------------------------------------------
(* The calls of the engine *)

LEMMA AskAdds ==
  ASSUME Types, AnswersSend, NEW op \in {"load", "unload", "send"},
         NEW m \in Models \cup {None}, Ask(op, m)
  PROVE  /\ \E j \in JobIds :
              /\ Pending(op)' = Pending(op) \cup {j}
              /\ \A o \in {"load", "unload"} : o # op => Pending(o)' = Pending(o)
              /\ jobModel'[j] = m
              /\ \A i \in Pending("load") : jobModel'[i] = jobModel[i]
         /\ asks' \in [JobIds -> {"none", "load", "unload", "send", "bench"}]
         /\ status' \in [JobIds -> {"new", "asked", "serving", "done", "failed"}]
         /\ jobModel' \in [JobIds -> Models \cup {None}]
         /\ resident' = resident
         /\ AnswersSend'
<1>1. PICK j \in JobIds : /\ status[j] = "new"
                         /\ asks' = [asks EXCEPT ![j] = op]
                         /\ status' = [status EXCEPT ![j] = "asked"]
                         /\ jobModel' = [jobModel EXCEPT ![j] = m]
                         /\ resident' = resident /\ serving' = serving
  BY DEF Ask, Fresh, Engine!Ask
<1>2. \A i \in JobIds : i # j => asks'[i] = asks[i] /\ status'[i] = status[i] /\ jobModel'[i] = jobModel[i]
  BY <1>1 DEF Types
<1>3. asks'[j] = op /\ status'[j] = "asked" /\ jobModel'[j] = m
  BY <1>1 DEF Types
<1>4. \A o : j \notin Pending(o)
  BY <1>1 DEF Pending, Ended
<1>5. Pending(op)' = Pending(op) \cup {j}
  BY <1>2, <1>3 DEF Pending, Ended
<1>6. \A o \in {"load", "unload"} : o # op => Pending(o)' = Pending(o)
  BY <1>2, <1>3, <1>4 DEF Pending, Ended
<1>7. \A i \in Pending("load") : jobModel'[i] = jobModel[i]
  BY <1>2, <1>4 DEF Pending
<1>8. AnswersSend'
  BY <1>1, <1>2 DEF AnswersSend
<1> QED
  BY <1>1, <1>3, <1>5, <1>6, <1>7, <1>8 DEF Types

LEMMA NoAskKeeps ==
  ASSUME Types, NoAsk, AnswersSend
  PROVE  /\ \A o : Pending(o)' = Pending(o)
         /\ asks' = asks /\ status' = status /\ jobModel' = jobModel /\ resident' = resident
         /\ AnswersSend' /\ (Settled' <=> Settled)
<1>1. asks' = asks /\ status' = status /\ jobModel' = jobModel /\ resident' = resident
      /\ serving' = serving
  BY DEF NoAsk, engineVars
<1> QED
  BY <1>1 DEF Pending, Ended, AnswersSend, Settled

-----------------------------------------------------------------------------
(* Each action keeps the invariant. *)

LEMMA RestIsNoStep ==
  ASSUME NEW rest \in {<<>>, <<"refresh">>}, NEW st \in {"unload", "load", "clear"},
         rest # <<>>
  PROVE  Head(rest) # st
  BY Ends

LEMMA NotBusy ==
  ASSUME ~Busy
  PROVE  main = <<>> /\ Settled /\ \A t \in Loaders : ~Active(t)
  BY DEF Busy, Settled, Pending, Active

\* Steps that ask nothing of the engine and leave flag, model and target alone.
LEMMA Untouched ==
  ASSUME LifeInv, NoAsk, UNCHANGED <<flag, model, current>>,
         \A m : IsTarget(m) <=> IsTarget(m)'
  PROVE  ~overlapped => FlagForetells'
<1>1. \A o : Pending(o)' = Pending(o)
  BY NoAskKeeps DEF LifeInv
<1>2. jobModel' = jobModel /\ resident' = resident
  BY NoAskKeeps DEF LifeInv
<1> QED
  BY <1>1, <1>2 DEF LifeInv, FlagForetells

\* An operation begins in a handler of the main thread.
LEMMA HandlerBegins ==
  ASSUME LifeInv, NoAsk, overlapped' = (overlapped \/ Busy),
         UNCHANGED <<flag, model, loader, want, prefVars>>, main' \in Handlers,
         At("unload")' => flag, At("clear")' => ~flag, ~At("load")'
  PROVE  LifeInv'
<1>1. Types' /\ AnswersSend' /\ (Settled' <=> Settled)
  BY NoAskKeeps DEF LifeInv, Types, prefVars
<1>2. ASSUME ~overlapped'
      PROVE  OneOperation' /\ ReadsHold'
  <2>1. Settled /\ \A t \in Loaders : ~Active(t)
    BY <1>2, NotBusy
  <2>2. \A t \in Loaders : ~Active(t)'
    BY <2>1 DEF Active
  <2>3. OneOperation'
    BY <2>2 DEF OneOperation
  <2>4. \A t \in Loaders : loader'[t] \in {"off", "end"}
    BY <2>2 DEF Active
  <2>5. ReadsHold'
    BY <1>1, <2>1, <2>4 DEF ReadsHold
  <2> QED
    BY <2>3, <2>5
<1>3. ~overlapped => FlagForetells'
  <2>1. \A m : IsTarget(m) <=> IsTarget(m)'
    BY DEF IsTarget, prefVars
  <2> QED
    BY <2>1, Untouched DEF prefVars
<1> QED
  BY <1>1, <1>2, <1>3 DEF LifeInv

\* A handler of the main thread goes on without asking the engine.
LEMMA HandlerGoesOn ==
  ASSUME LifeInv, NoAsk, main # <<>>,
         UNCHANGED <<flag, model, loader, want, prefVars, overlapped>>,
         main' \in Handlers, ~At("unload")', At("load")' \/ At("clear")' => ~flag
  PROVE  LifeInv'
<1>1. Types' /\ AnswersSend' /\ (Settled' <=> Settled)
  BY NoAskKeeps DEF LifeInv, Types, prefVars
<1>2. ASSUME ~overlapped
      PROVE  OneOperation' /\ ReadsHold'
  <2>1. \A t \in Loaders : ~Active(t)
    BY <1>2 DEF LifeInv, OneOperation
  <2>2. OneOperation'
    BY <2>1 DEF OneOperation, Active
  <2>3. \A t \in Loaders : loader'[t] \in {"off", "end"}
    BY <2>1 DEF Active
  <2> QED
    BY <1>1, <2>2, <2>3 DEF ReadsHold
<1>3. ~overlapped => FlagForetells'
  <2>1. \A m : IsTarget(m) <=> IsTarget(m)'
    BY DEF IsTarget, prefVars
  <2> QED
    BY <2>1, Untouched DEF prefVars
<1> QED
  BY <1>1, <1>2, <1>3 DEF LifeInv

\* A loader thread goes on without asking the engine.
LEMMA LoaderGoesOn ==
  ASSUME LifeInv, NoAsk, NEW t \in Loaders, Active(t),
         NEW place \in {"unload", "load?", "load", "ui"},
         loader' = [loader EXCEPT ![t] = place],
         loader[t] # "ui",
         place = "unload" => flag /\ loader[t] = "unload?",
         place \in {"load?", "load"} => ~flag,
         place = "ui" => flag /\ loader[t] = "load?",
         UNCHANGED <<flag, model, want, main, prefVars, overlapped>>
  PROVE  LifeInv'
<1>1. Types' /\ AnswersSend' /\ (Settled' <=> Settled)
  BY NoAskKeeps DEF LifeInv, Types, Places, prefVars
<1>2. /\ loader'[t] = place /\ Active(t)'
      /\ \A s \in Loaders : s # t => loader'[s] = loader[s]
      /\ \A s \in Loaders : Active(s)' <=> Active(s)
  BY DEF LifeInv, Types, Active
<1>3. ASSUME ~overlapped
      PROVE  OneOperation' /\ ReadsHold' /\ FlagForetells'
  <2>1. OneOperation /\ ReadsHold /\ FlagForetells
    BY <1>3 DEF LifeInv
  <2>2. main = <<>> /\ \A s \in Loaders : s # t => ~Active(s)
    BY <2>1 DEF OneOperation
  <2>3. OneOperation'
    BY <1>2, <2>1 DEF OneOperation
  <2>4. \A s \in Loaders : s # t => loader'[s] \in {"off", "end"}
    BY <1>2, <2>2 DEF Active
  <2>5. place # "ui"
    BY <2>1 DEF ReadsHold
  <2>6. ~At("unload")' /\ ~At("load")' /\ ~At("clear")'
    BY <2>2 DEF At
  <2>7. ReadsHold'
    BY <1>1, <1>2, <2>1, <2>4, <2>6 DEF ReadsHold
  <2>8. \A m : IsTarget(m) <=> IsTarget(m)'
    BY <1>2, <2>5 DEF IsTarget, prefVars
  <2>9. FlagForetells'
    BY <1>3, <2>8, Untouched DEF prefVars
  <2> QED
    BY <2>3, <2>7, <2>9
<1> QED
  BY <1>1, <1>3 DEF LifeInv

\* The engine is asked to unload: the flag is cleared.
LEMMA UnloadAsked ==
  ASSUME LifeInv, Ask("unload", None), flag' = FALSE, Types',
         ~overlapped => flag /\ Settled,
         ~overlapped => OneOperation' /\ ReadsHold',
         \A m : IsTarget(m)' <=> IsTarget(m),
         UNCHANGED <<model, overlapped>>
  PROVE  LifeInv'
<1>1. PICK j \in JobIds :
        /\ Pending("unload")' = Pending("unload") \cup {j}
        /\ Pending("load")' = Pending("load")
        /\ \A i \in Pending("load") : jobModel'[i] = jobModel[i]
  BY AskAdds DEF LifeInv
<1>2. resident' = resident /\ AnswersSend'
  BY AskAdds DEF LifeInv
<1>3. ASSUME ~overlapped
      PROVE  FlagForetells'
  BY <1>1, <1>2, <1>3 DEF LifeInv, FlagForetells, Settled
<1> QED
  BY <1>2, <1>3 DEF LifeInv

\* The engine is asked to load the target: the flag is set.
LEMMA LoadAsked ==
  ASSUME LifeInv, NEW m \in Models \cup {None}, Ask("load", m), flag' = TRUE, Types',
         ~overlapped => ~flag /\ OneOperation' /\ ReadsHold' /\ IsTarget(m)',
         UNCHANGED <<model, overlapped>>
  PROVE  LifeInv'
<1>1. PICK j \in JobIds :
        /\ Pending("load")' = Pending("load") \cup {j}
        /\ Pending("unload")' = Pending("unload")
        /\ jobModel'[j] = m
  BY AskAdds DEF LifeInv
<1>2. resident' = resident /\ AnswersSend'
  BY AskAdds DEF LifeInv
<1>3. ASSUME ~overlapped
      PROVE  FlagForetells'
  <2>1. Pending("load") = {} /\ ~(resident /\ Pending("unload") = {}) /\ FlagForetells
    BY <1>3 DEF LifeInv, FlagForetells
  <2> QED
    BY <1>1, <1>2, <1>3, <2>1 DEF FlagForetells
<1> QED
  BY <1>2, <1>3 DEF LifeInv

LEMMA MainAsks ==
  ASSUME LifeInv, MainLoads \/ MainUnloads
  PROVE  LifeInv'
<1>1. main # <<>> /\ main' = <<>> \o Tail(main) /\ Head(main) \in {"load", "unload"}
      /\ UNCHANGED <<model, loader, want, prefVars, overlapped>>
  BY DEF MainLoads, MainUnloads, At, Then
<1>2. /\ main' \in Handlers /\ ~At("unload")' /\ ~At("load")'
      /\ At("clear")' => Head(main) = "unload"
  <2>1. Tail(main) \in {<<>>, <<"clear">>, <<"refresh">>}
        /\ (Tail(main) = <<"clear">> => Head(main) = "unload")
    BY <1>1, HandlerShapes DEF LifeInv, Types
  <2>2. main' = Tail(main)
    BY <1>1, <2>1, Unjoined
  <2>3. Head(<<"clear">>) = "clear" /\ Head(<<"refresh">>) = "refresh"
    OBVIOUS
  <2> QED
    BY <2>1, <2>2, <2>3 DEF Handlers, At
<1>3. ASSUME ~overlapped
      PROVE  /\ \A t \in Loaders : loader'[t] \in {"off", "end"}
             /\ OneOperation'
  <2>1. \A t \in Loaders : ~Active(t)
    BY <1>1, <1>3 DEF LifeInv, OneOperation
  <2> QED
    BY <1>1, <2>1 DEF Active, OneOperation
<1>4. CASE MainUnloads
  <2>1. Ask("unload", None) /\ flag' = FALSE /\ Head(main) = "unload"
    BY <1>4 DEF MainUnloads, FlagAfterUnload, At
  <2>2. Types'
    BY <1>1, <1>2, <2>1, AskAdds DEF LifeInv, Types, prefVars
  <2>3. ~overlapped => flag /\ Settled
    BY <1>1, <2>1 DEF LifeInv, ReadsHold, At
  <2>4. ~overlapped => OneOperation' /\ ReadsHold'
    BY <1>2, <1>3, <2>1 DEF ReadsHold
  <2>5. \A m : IsTarget(m)' <=> IsTarget(m)
    BY <1>1 DEF IsTarget, prefVars
  <2> QED
    BY <1>1, <2>1, <2>2, <2>3, <2>4, <2>5, UnloadAsked
<1>5. CASE MainLoads
  <2>1. Ask("load", current) /\ flag' = TRUE /\ Head(main) = "load"
    BY <1>5 DEF MainLoads, At
  <2>2. Types' /\ current \in Models \cup {None}
    BY <1>1, <1>2, <2>1, AskAdds DEF LifeInv, Types, prefVars
  <2>3. ~At("clear")'
    BY <1>2, <2>1
  <2>4. PICK m \in Models \cup {None} : m = current
    BY <2>2
  <2>5. ASSUME ~overlapped
        PROVE  ~flag /\ OneOperation' /\ ReadsHold' /\ IsTarget(m)'
    <3>1. ~flag /\ OneOperation'
      BY <1>1, <1>3, <2>1, <2>5 DEF LifeInv, ReadsHold, At
    <3>2. ReadsHold'
      BY <1>2, <1>3, <2>3, <2>5 DEF ReadsHold
    <3>3. IsTarget(m)'
      BY <1>1, <1>3, <2>4, <2>5 DEF IsTarget, prefVars
    <3> QED
      BY <3>1, <3>2, <3>3
  <2> QED
    BY <1>1, <2>1, <2>2, <2>4, <2>5, LoadAsked
<1> QED
  BY <1>4, <1>5

LEMMA LoaderAsks ==
  ASSUME LifeInv, NEW t \in Loaders, LoaderUnloads(t) \/ LoaderLoads(t)
  PROVE  LifeInv'
<1> DEFINE place == IF loader[t] = "unload" THEN "load?" ELSE "ui"
<1>1. /\ loader[t] \in {"unload", "load"} /\ loader' = [loader EXCEPT ![t] = place]
      /\ UNCHANGED <<model, main, want, prefVars, overlapped>>
  BY DEF LoaderUnloads, LoaderLoads
<1>2. /\ loader' \in [Loaders -> Places] /\ loader'[t] = place
      /\ \A s \in Loaders : s # t => loader'[s] = loader[s]
      /\ \A s \in Loaders : Active(s)' <=> Active(s)
  BY <1>1 DEF LifeInv, Types, Places, Active
<1>3. ASSUME ~overlapped
      PROVE  /\ OneOperation' /\ main' = <<>>
             /\ \A s \in Loaders : s # t => loader[s] \in {"off", "end"}
  BY <1>1, <1>2, <1>3 DEF LifeInv, OneOperation, Active
<1>4. CASE LoaderUnloads(t)
  <2>1. Ask("unload", None) /\ flag' = FALSE /\ loader[t] = "unload"
    BY <1>4 DEF LoaderUnloads
  <2>2. Types'
    BY <1>1, <1>2, <2>1, AskAdds DEF LifeInv, Types, prefVars
  <2>3. ~overlapped => flag /\ Settled
    BY <2>1 DEF LifeInv, ReadsHold
  <2>4. ~overlapped => OneOperation' /\ ReadsHold'
    BY <1>2, <1>3, <2>1 DEF ReadsHold, At
  <2>5. \A m : IsTarget(m)' <=> IsTarget(m)
    BY <1>1, <1>2, <2>1 DEF IsTarget, prefVars
  <2> QED
    BY <1>1, <2>1, <2>2, <2>3, <2>4, <2>5, UnloadAsked
<1>5. CASE LoaderLoads(t)
  <2>1. Ask("load", want[t]) /\ flag' = TRUE /\ loader[t] = "load" /\ want[t] \in Models \cup {None}
    BY <1>5 DEF LoaderLoads, LifeInv, Types
  <2>2. Types'
    BY <1>1, <1>2, <2>1, AskAdds DEF LifeInv, Types, prefVars
  <2>3. ASSUME ~overlapped
        PROVE  ~flag /\ OneOperation' /\ ReadsHold' /\ IsTarget(want[t])'
    <3>1. ~flag /\ OneOperation'
      BY <1>3, <2>1, <2>3 DEF LifeInv, ReadsHold
    <3>2. ReadsHold'
      BY <1>2, <1>3, <2>1, <2>3 DEF ReadsHold, At
    <3>3. IsTarget(want[t])'
      BY <1>1, <1>2, <2>1 DEF IsTarget
    <3> QED
      BY <3>1, <3>2, <3>3
  <2> QED
    BY <1>1, <2>1, <2>2, <2>3, LoadAsked
<1> QED
  BY <1>4, <1>5

\* The target is recorded: it is the current model from now on.
LEMMA LoaderRecordsStep ==
  ASSUME LifeInv, NEW t \in Loaders, LoaderRecords(t)
  PROVE  LifeInv'
<1>1. /\ loader[t] = "ui" /\ loader' = [loader EXCEPT ![t] = "end"] /\ current' = want[t]
      /\ main = <<>> /\ NoAsk
      /\ UNCHANGED <<model, flag, main, want, disk, overlapped>>
  BY DEF LoaderRecords, Recorded
<1>2. Types' /\ AnswersSend' /\ (Settled' <=> Settled)
  BY <1>1, NoAskKeeps DEF LifeInv, Types, Places
<1>3. loader'[t] = "end" /\ \A s \in Loaders : s # t => loader'[s] = loader[s]
  BY <1>1 DEF LifeInv, Types
<1>4. ASSUME ~overlapped
      PROVE  OneOperation' /\ ReadsHold' /\ FlagForetells'
  <2>1. OneOperation /\ \A s \in Loaders : s # t => ~Active(s)
    BY <1>1, <1>4 DEF LifeInv, OneOperation, Active
  <2>2. \A s \in Loaders : loader'[s] \in {"off", "end"}
    BY <1>3, <2>1 DEF Active
  <2>3. OneOperation'
    BY <2>2 DEF OneOperation, Active
  <2>4. ReadsHold'
    BY <1>1, <2>2 DEF ReadsHold, At
  <2>5. \A m : IsTarget(m) <=> IsTarget(m)'
    BY <1>1, <2>1, <2>2 DEF IsTarget, Active
  <2>6. \A o : Pending(o)' = Pending(o)
    BY <1>1, NoAskKeeps DEF LifeInv
  <2>7. jobModel' = jobModel /\ resident' = resident
    BY <1>1, NoAskKeeps DEF LifeInv
  <2>8. FlagForetells'
    BY <1>1, <1>4, <2>5, <2>6, <2>7 DEF LifeInv, FlagForetells
  <2> QED
    BY <2>3, <2>4, <2>8
<1> QED
  BY <1>1, <1>2, <1>4 DEF LifeInv

\* A call that is not a load or an unload changes neither what is pending nor
\* what is resident.
LEMMA AnswersKeep ==
  ASSUME LifeInv, NEW k \in JobIds, asks[k] = "send",
         NEW s \in {"new", "asked", "serving", "done"},
         status' = [status EXCEPT ![k] = s], AnswersSend',
         UNCHANGED <<asks, resident, jobModel, model, flag, main, loader, want,
                     prefVars, overlapped>>
  PROVE  LifeInv'
<1>1. Types'
  BY DEF LifeInv, Types, prefVars
<1>2. \A i \in JobIds : i # k => status'[i] = status[i]
  BY DEF LifeInv, Types
<1>3. \A o \in {"load", "unload"} : Pending(o)' = Pending(o)
  BY <1>2 DEF Pending, Ended
<1>4. ASSUME ~overlapped
      PROVE  OneOperation' /\ ReadsHold' /\ FlagForetells'
  <2>1. OneOperation /\ ReadsHold /\ FlagForetells
    BY <1>4 DEF LifeInv
  <2>2. OneOperation'
    BY <2>1 DEF OneOperation, Active
  <2>3. Settled' <=> Settled
    BY <1>3 DEF Settled
  <2>4. ReadsHold'
    BY <2>1, <2>3 DEF ReadsHold, At
  <2>5. \A m : IsTarget(m) <=> IsTarget(m)'
    BY DEF IsTarget, prefVars
  <2>6. FlagForetells'
    BY <1>3, <2>1, <2>5 DEF FlagForetells
  <2> QED
    BY <2>2, <2>4, <2>6
<1> QED
  BY <1>1, <1>4 DEF LifeInv

LEMMA DieStep ==
  ASSUME LifeInv, NEW why, Die(why)
  PROVE  LifeInv'
<1> USE DEF Die
<1>1. Types'
  BY DEF LifeInv, Types, Places, Handlers
<1>2. AnswersSend'
  BY LifecycleAssumption DEF AnswersSend, JobIds
<1>3. \A o \in {"load", "unload"} : Pending(o)' = {}
  BY DEF Pending
<1>4. OneOperation' /\ ReadsHold' /\ FlagForetells'
  BY <1>3 DEF OneOperation, ReadsHold, FlagForetells, Active, At
<1> QED
  BY <1>1, <1>2, <1>4 DEF LifeInv

LEMMA EngineStep ==
  ASSUME LifeInv, NEW j \in JobIds, EngineServes(j)
  PROVE  LifeInv'
<1>1. CASE EngineLoads(j)
  <2>1. /\ asks[j] = "load" /\ status[j] = "asked" /\ serving = None /\ status'[j] = "done"
        /\ asks' = asks /\ serving' = serving /\ model' = jobModel[j]
        /\ UNCHANGED <<jobModel, flag, main, loader, want, prefVars, overlapped>>
    BY <1>1 DEF EngineLoads, Engine!Load, Engine!Ends
  <2>2. ~resident /\ resident' = TRUE /\ status' = [status EXCEPT ![j] = "done"]
    BY <1>1, <2>1 DEF EngineLoads, Engine!Load, Engine!Ends, LifeInv, Types
  <2>3. Types'
    BY <2>1, <2>2 DEF LifeInv, Types, prefVars
  <2>4. AnswersSend'
    BY <2>1, <2>2, LifecycleAssumption DEF AnswersSend, JobIds
  <2>5. /\ \A i \in JobIds : i # j => status'[i] = status[i]
        /\ j \in Pending("load")
    BY <2>1, <2>2 DEF LifeInv, Types, Pending, Ended
  <2>6. Pending("load")' = Pending("load") \ {j} /\ Pending("unload")' = Pending("unload")
    BY <2>1, <2>5 DEF Pending, Ended
  <2>7. ASSUME ~overlapped
        PROVE  OneOperation' /\ ReadsHold' /\ FlagForetells'
    <3>1. OneOperation /\ ReadsHold /\ FlagForetells
      BY <2>7 DEF LifeInv
    <3>2. OneOperation'
      BY <2>1, <3>1 DEF OneOperation, Active
    <3>3. flag /\ ~Settled /\ Pending("unload") = {} /\ Pending("load") = {j} /\ IsTarget(jobModel[j])
      BY <2>2, <2>5, <3>1 DEF FlagForetells, Settled
    <3>4. ReadsHold'
      BY <2>1, <3>1, <3>3 DEF ReadsHold, At
    <3>5. \A m : IsTarget(m) <=> IsTarget(m)'
      BY <2>1 DEF IsTarget, prefVars
    <3>6. FlagForetells'
      BY <2>1, <2>2, <2>6, <3>3, <3>5 DEF FlagForetells
    <3> QED
      BY <3>2, <3>4, <3>6
  <2> QED
    BY <2>1, <2>3, <2>4, <2>7 DEF LifeInv
<1>2. CASE EngineRefusesLoad(j)
  BY <1>2, DieStep DEF EngineRefusesLoad
<1>3. CASE EngineUnloads(j)
  <2>1. /\ asks[j] = "unload" /\ status[j] = "asked" /\ serving = None
        /\ resident' = FALSE /\ status' = [status EXCEPT ![j] = "done"]
        /\ asks' = asks /\ serving' = serving
        /\ UNCHANGED <<jobModel, flag, main, loader, want, prefVars, overlapped>>
    BY <1>3 DEF EngineUnloads, Engine!Unload, Engine!Ends
  <2>2. Types'
    BY <2>1 DEF LifeInv, Types, prefVars
  <2>3. AnswersSend'
    BY <2>1, LifecycleAssumption DEF AnswersSend, JobIds
  <2>4. /\ \A i \in JobIds : i # j => status'[i] = status[i]
        /\ status'[j] = "done" /\ j \in Pending("unload")
    BY <2>1 DEF LifeInv, Types, Pending, Ended
  <2>5. Pending("unload")' = Pending("unload") \ {j} /\ Pending("load")' = Pending("load")
    BY <2>1, <2>4 DEF Pending, Ended
  <2>6. ASSUME ~overlapped
        PROVE  OneOperation' /\ ReadsHold' /\ FlagForetells'
    <3>1. OneOperation /\ ReadsHold /\ FlagForetells
      BY <2>6 DEF LifeInv
    <3>2. OneOperation'
      BY <2>1, <3>1 DEF OneOperation, Active
    <3>3. ~Settled /\ Pending("unload") = {j}
      BY <2>4, <3>1 DEF FlagForetells, Settled
    <3>4. ReadsHold'
      BY <2>1, <3>1, <3>3 DEF ReadsHold, At
    <3>5. \A m : IsTarget(m) <=> IsTarget(m)'
      BY <2>1 DEF IsTarget, prefVars
    <3>6. FlagForetells'
      BY <2>1, <2>5, <3>1, <3>3, <3>5 DEF FlagForetells
    <3> QED
      BY <3>2, <3>4, <3>6
  <2> QED
    BY <2>1, <2>2, <2>3, <2>6 DEF LifeInv
<1>4. CASE EngineAnswers(j)
  <2>1. /\ asks[j] = "send" /\ asks' = asks /\ resident' = resident
        /\ UNCHANGED <<jobModel, model, flag, main, loader, want, prefVars, overlapped>>
    BY <1>4 DEF EngineAnswers, Engine!EmptyAnswer, Engine!BeginAnswer, Engine!EndAnswer,
                Engine!Ends, LifeInv, AnswersSend
  <2>2. PICK s \in {"serving", "done"} : status' = [status EXCEPT ![j] = s]
    BY <1>4 DEF EngineAnswers, Engine!EmptyAnswer, Engine!BeginAnswer, Engine!EndAnswer, Engine!Ends
  <2>3. AnswersSend'
    <3>1. serving' = None \/ (serving' = j /\ status' = [status EXCEPT ![j] = "serving"])
      BY <1>4 DEF EngineAnswers, Engine!EmptyAnswer, Engine!BeginAnswer, Engine!EndAnswer, Engine!Ends
    <3> QED
      BY <2>1, <3>1, LifecycleAssumption DEF LifeInv, Types, AnswersSend, JobIds
  <2> QED
    BY <2>1, <2>2, <2>3, AnswersKeep
<1> QED
  BY <1>1, <1>2, <1>3, <1>4 DEF EngineServes

-----------------------------------------------------------------------------
(* The handlers, one by one *)

LEMMA UseModelStep ==
  ASSUME LifeInv, NEW t \in Loaders, NEW m \in Models, UseModel(t, m)
  PROVE  LifeInv'
<1>1. /\ loader[t] = "off" /\ loader' = [loader EXCEPT ![t] = "unload?"] /\ want' = [want EXCEPT ![t] = m]
      /\ NoAsk /\ main = <<>> /\ overlapped' = (overlapped \/ Busy)
      /\ UNCHANGED <<model, flag, main, prefVars>>
  BY DEF UseModel
<1>2. Types' /\ AnswersSend' /\ (Settled' <=> Settled)
  BY <1>1, NoAskKeeps DEF LifeInv, Types, Places, prefVars
<1>3. loader'[t] = "unload?" /\ \A s \in Loaders : s # t => loader'[s] = loader[s] /\ want'[s] = want[s]
  BY <1>1 DEF LifeInv, Types
<1>4. ASSUME ~overlapped'
      PROVE  OneOperation' /\ ReadsHold' /\ FlagForetells'
  <2>1. Settled /\ ~overlapped /\ \A s \in Loaders : ~Active(s)
    BY <1>1, <1>4, NotBusy
  <2>2. \A s \in Loaders : s # t => loader'[s] \in {"off", "end"}
    BY <1>3, <2>1 DEF Active
  <2>3. OneOperation'
    BY <1>1, <2>2 DEF OneOperation, Active
  <2>4. ReadsHold'
    BY <1>1, <1>2, <1>3, <2>1, <2>2 DEF ReadsHold, At
  <2>5. \A n : IsTarget(n) <=> IsTarget(n)'
    BY <1>1, <1>3, <2>1, <2>2 DEF IsTarget, Active, prefVars
  <2>6. FlagForetells'
    BY <1>1, <2>1, <2>5, Untouched DEF prefVars
  <2> QED
    BY <2>3, <2>4, <2>6
<1> QED
  BY <1>2, <1>4 DEF LifeInv

LEMMA LoaderStep ==
  ASSUME LifeInv, NEW t \in Loaders, Loader(t)
  PROVE  LifeInv'
<1>1. CASE LoaderReadsForUnload(t)
  BY <1>1, LoaderGoesOn DEF LoaderReadsForUnload, Active
<1>2. CASE LoaderReadsForLoad(t)
  BY <1>2, LoaderGoesOn DEF LoaderReadsForLoad, Active
<1> QED
  BY <1>1, <1>2, LoaderAsks, LoaderRecordsStep DEF Loader

LEMMA MainStep ==
  ASSUME LifeInv, Main
  PROVE  LifeInv'
<1>1. CASE MainLoads \/ MainUnloads
  BY <1>1, MainAsks
<1>2. CASE MainInitializes \/ MainReadsForLoad \/ MainRefreshes
  <2> DEFINE rest == Tail(main)
  <2>1. /\ main # <<>> /\ rest \in {<<>>, <<"refresh">>} /\ NoAsk
        /\ UNCHANGED <<flag, model, loader, want, prefVars, overlapped>>
    BY <1>2, HandlerShapes DEF MainInitializes, MainReadsForLoad, MainRefreshes, At, LifeInv, Types
  <2>2. \/ main' = <<>> \o rest
        \/ \E st \in {"initialize", "load?"} : main' = <<st>> \o rest
        \/ main' = <<"load">> \o rest /\ ~flag
    BY <1>2 DEF MainInitializes, MainReadsForLoad, MainRefreshes, Then
  <2>3. main' \in Handlers /\ ~At("unload")' /\ ~At("clear")' /\ (At("load")' => ~flag)
    BY <2>1, <2>2, HandlerSteps DEF At
  <2> QED
    BY <2>1, <2>3, HandlerGoesOn
<1>3. CASE ClearCurrent
  <2>1. /\ main # <<>> /\ Head(main) = "clear" /\ main' = <<>> \o Tail(main) /\ current' = None /\ NoAsk
        /\ UNCHANGED <<model, flag, loader, want, disk, overlapped>>
    BY <1>3 DEF ClearCurrent, At, Then
  <2>2. main' = <<>>
    BY <2>1, HandlerShapes, Unjoined DEF LifeInv, Types
  <2>3. Types' /\ AnswersSend' /\ (Settled' <=> Settled)
    BY <2>1, <2>2, NoAskKeeps DEF LifeInv, Types, Handlers
  <2>4. ASSUME ~overlapped
        PROVE  OneOperation' /\ ReadsHold' /\ FlagForetells'
    <3>1. OneOperation /\ ReadsHold /\ FlagForetells
      BY <2>4 DEF LifeInv
    <3>2. OneOperation'
      BY <2>1, <2>2, <3>1 DEF OneOperation, Active
    <3>3. ~flag /\ \A t \in Loaders : loader'[t] \in {"off", "end"}
      BY <2>1, <3>1 DEF ReadsHold, OneOperation, Active, At
    <3>4. ReadsHold'
      BY <2>2, <3>3 DEF ReadsHold, At
    <3>5. \A o : Pending(o)' = Pending(o)
      BY <2>1, NoAskKeeps DEF LifeInv
    <3>6. resident' = resident
      BY <2>1, NoAskKeeps DEF LifeInv
    <3>7. FlagForetells'
      BY <2>1, <3>1, <3>3, <3>5, <3>6 DEF FlagForetells
    <3> QED
      BY <3>2, <3>4, <3>7
  <2> QED
    BY <2>1, <2>3, <2>4 DEF LifeInv
<1> QED
  BY <1>1, <1>2, <1>3 DEF Main

\* A send goes to the engine and leaves what is pending alone.
LEMMA SendStep ==
  ASSUME LifeInv, Send
  PROVE  LifeInv'
<1>1. CASE ~llmw
  BY <1>1, DieStep DEF Send
<1>2. CASE llmw
  <2>1. /\ Ask("send", None)
        /\ UNCHANGED <<model, flag, main, loader, want, prefVars, overlapped>>
    BY <1>2 DEF Send
  <2>2. /\ \A o \in {"load", "unload"} : Pending(o)' = Pending(o)
        /\ \A i \in Pending("load") : jobModel'[i] = jobModel[i]
        /\ resident' = resident /\ AnswersSend'
    BY <2>1, AskAdds DEF LifeInv
  <2>3. Types'
    BY <2>1, AskAdds DEF LifeInv, Types, prefVars
  <2>4. ASSUME ~overlapped
        PROVE  OneOperation' /\ ReadsHold' /\ FlagForetells'
    <3>1. OneOperation /\ ReadsHold /\ FlagForetells
      BY <2>4 DEF LifeInv
    <3>2. OneOperation' /\ (Settled' <=> Settled)
      BY <2>1, <2>2, <3>1 DEF OneOperation, Active, Settled
    <3>3. ReadsHold'
      BY <2>1, <3>1, <3>2 DEF ReadsHold, At
    <3>4. \A m : IsTarget(m) <=> IsTarget(m)'
      BY <2>1 DEF IsTarget, prefVars
    <3>5. FlagForetells'
      BY <2>1, <2>2, <3>1, <3>4 DEF FlagForetells
    <3> QED
      BY <3>2, <3>3, <3>5
  <2> QED
    BY <2>1, <2>2, <2>3, <2>4 DEF LifeInv
<1> QED
  BY <1>1, <1>2

\* Steps that touch neither the engine's calls, nor a handler, nor a loader.
LEMMA BystanderStep ==
  ASSUME LifeInv, NoAsk, UNCHANGED <<flag, model, main, loader, want, current, overlapped>>,
         disk' \in {disk, current}
  PROVE  LifeInv'
<1>1. Types' /\ AnswersSend' /\ (Settled' <=> Settled)
  BY NoAskKeeps DEF LifeInv, Types
<1>2. ~overlapped => OneOperation' /\ ReadsHold'
  BY <1>1 DEF LifeInv, OneOperation, ReadsHold, Active, At
<1>3. ~overlapped => FlagForetells'
  <2>1. \A m : IsTarget(m) <=> IsTarget(m)'
    BY DEF IsTarget
  <2> QED
    BY <2>1, Untouched
<1> QED
  BY <1>1, <1>2, <1>3 DEF LifeInv

LEMMA UserStep ==
  ASSUME LifeInv, User
  PROVE  LifeInv'
<1>1. CASE EnterChat \/ ResumeChat \/ BackToChat
  <2>1. /\ NoAsk /\ overlapped' = (overlapped \/ Busy)
        /\ UNCHANGED <<flag, model, loader, want, prefVars>>
        /\ main' \in {<<"refresh">>, <<"initialize", "refresh">>}
    BY <1>1 DEF EnterChat, ResumeChat, BackToChat
  <2>2. main' \in Handlers /\ ~At("unload")' /\ ~At("clear")' /\ ~At("load")'
    BY <2>1 DEF Handlers, At
  <2> QED
    BY <2>1, <2>2, HandlerBegins
<1>2. CASE Logout \/ \E m \in Models : DeleteModel(m)
  <2>1. /\ NoAsk /\ overlapped' = (overlapped \/ Busy)
        /\ UNCHANGED <<flag, model, loader, want, prefVars>>
        /\ main' \in {UnloadIfLoaded, Append(UnloadIfLoaded, "clear"), <<>>}
    BY <1>2 DEF Logout, DeleteModel
  <2>2. /\ Append(<<>>, "clear") = <<"clear">>
        /\ Append(<<"unload">>, "clear") = <<"unload", "clear">>
    BY Appended
  <2>3. \/ main' \in {<<"unload">>, <<"unload", "clear">>} /\ flag
        \/ main' \in {<<>>, <<"clear">>} /\ (main' = <<"clear">> => ~flag)
    <3>1. CASE flag
      <4>1. UnloadIfLoaded = <<"unload">>
        BY <3>1 DEF UnloadIfLoaded
      <4> QED
        BY <2>1, <2>2, <3>1, <4>1
    <3>2. CASE ~flag
      <4>1. UnloadIfLoaded = <<>>
        BY <3>2 DEF UnloadIfLoaded
      <4> QED
        BY <2>1, <2>2, <3>2, <4>1
    <3> QED
      BY <3>1, <3>2
  <2>4. main' \in Handlers
    BY <2>3 DEF Handlers
  <2>5. (At("unload")' => flag) /\ (At("clear")' => ~flag) /\ ~At("load")'
    BY <2>3 DEF At
  <2> QED
    BY <2>1, <2>4, <2>5, HandlerBegins
<1>3. CASE OpenModels \/ Restart
  BY <1>3, BystanderStep DEF OpenModels, Restart, prefVars
<1> QED
  BY <1>1, <1>2, <1>3, SendStep, UseModelStep DEF User

LEMMA LifeStep == LifeInv /\ [Next]_vars => LifeInv'
<1> SUFFICES ASSUME LifeInv, Next \/ UNCHANGED vars PROVE LifeInv'
  OBVIOUS
<1>1. CASE Flush
  BY <1>1, BystanderStep DEF Flush
<1>2. CASE UNCHANGED vars
  <2>1. NoAsk /\ UNCHANGED <<flag, model, main, loader, want, current, disk, overlapped>>
    BY <1>2 DEF vars, NoAsk
  <2> QED
    BY <2>1, BystanderStep
<1> QED
  BY <1>1, <1>2, UserStep, MainStep, LoaderStep, EngineStep DEF Next

LEMMA LifeInvariant == Spec => []LifeInv
  BY InitLife, LifeStep, PTL DEF Spec

\* Between operations that do not overlap LLMW.isLoaded says whether the engine
\* holds a model, and that is the one the preferences name, whatever order the
\* launched coroutines were served in (LLMW, ModelSettingsActivity, AiActivity).
THEOREM SequentialUse == Spec => []SequentialUseAgrees
<1>1. LifeInv => SequentialUseAgrees
  <2> SUFFICES ASSUME LifeInv, ~overlapped, ~Busy
               PROVE  flag = resident /\ (resident => model = current)
    BY DEF SequentialUseAgrees
  <2>1. Settled /\ \A t \in Loaders : loader[t] # "ui"
    BY NotBusy DEF Active
  <2>2. FlagForetells /\ flag \in BOOLEAN /\ resident \in BOOLEAN
    BY DEF LifeInv, Types
  <2>3. flag <=> resident
    BY <2>1, <2>2 DEF FlagForetells, Settled
  <2>4. resident => model = current
    BY <2>1, <2>2 DEF FlagForetells, Settled, IsTarget
  <2> QED
    BY <2>2, <2>3, <2>4
<1> QED
  BY <1>1, LifeInvariant, PTL
=============================================================================
