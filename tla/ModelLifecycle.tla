---------------------------- MODULE ModelLifecycle ----------------------------
(***************************************************************************)
(* Which model is loaded, and who believes so.  LLMW keeps one flag,        *)
(* isLoaded, read and written without a lock by the main thread and by the  *)
(* loader threads of ModelSettingsActivity; each load and unload is a       *)
(* coroutine of its own, that the engine (ModelResource) serves in any      *)
(* order.  A load that throws has no handler: the process dies, and what    *)
(* the preferences had on disk is what it starts from.                      *)
(***************************************************************************)
EXTENDS Naturals, Sequences, FiniteSets

CONSTANTS
  Models,     \* the models of the list
  Loaders,    \* bound: taps on "Use Model" in one process life
  MaxJobs,    \* bound: engine calls in one process life
  MaxDeaths,  \* bound: restarts of the process
  None        \* no model, no job

ASSUME LifecycleAssumption == /\ None \notin Models /\ None \notin Nat
                              /\ MaxJobs \in Nat
                              /\ MaxDeaths \in Nat

JobIds == 1..MaxJobs

VARIABLES
  asks, status, resident, serving,  \* the engine, as ModelResource has it
  jobModel,   \* the model each load is for
  model,      \* the model the engine holds
  flag,       \* LLMW.isLoaded
  llmw,       \* AiActivity's view model has its LLMW
  button,     \* btnSend.isEnabled()
  screen,     \* "chat", "models", "login" or "dead"
  main,       \* the steps left of the handler the main thread is in
  loader,     \* what each loader thread is about to do
  want,       \* the model each loader thread is for
  current,    \* prefs: the current model
  disk,       \* prefs: what apply() has put on disk
  file,       \* each model file: "absent", "good" or "bad" (partial)
  deaths,     \* how often the process has died
  cause,      \* why it died last
  overlapped  \* history: in this life, an operation began within another

engineVars == <<asks, status, resident, serving>>
prefVars == <<current, disk>>
vars == <<engineVars, jobModel, model, flag, llmw, button, screen, main,
          loader, want, current, disk, file, deaths, cause, overlapped>>

\* No answer is set aside here: an unload or a load served in the middle of an
\* answer finds flag and model as one served just before it began.
Engine == INSTANCE ModelResource WITH Jobs <- JobIds, NoJob <- None, lost <- {}

Alive == screen # "dead"

Ended(j) == status[j] \in {"new", "done", "failed"}

\* A load, an unload or the operation that asks for one is under way.
Busy == \/ main # <<>>
        \/ \E t \in Loaders : loader[t] \notin {"off", "end"}
        \/ \E j \in JobIds : asks[j] \in {"load", "unload"} /\ ~Ended(j)

Fresh(j) == status[j] = "new" /\ \A i \in JobIds : i < j => status[i] # "new"

-----------------------------------------------------------------------------
Init == /\ Engine!Init
        /\ jobModel = [j \in JobIds |-> None]
        /\ model = None
        /\ flag = FALSE
        /\ llmw = FALSE
        /\ button = FALSE
        /\ screen = "login"
        /\ main = <<>>
        /\ loader = [t \in Loaders |-> "off"]
        /\ want = [t \in Loaders |-> None]
        /\ current = None
        /\ disk = None
        /\ file \in [Models -> {"absent", "good", "bad"}]
        /\ deaths = 0
        /\ cause = "none"
        /\ overlapped = FALSE

\* GlobalScope.launch: the engine is asked, nothing waits.
Ask(op, m) == \E j \in JobIds :
  /\ Fresh(j)
  /\ Engine!Ask(j)
  /\ asks' = [asks EXCEPT ![j] = op]
  /\ jobModel' = [jobModel EXCEPT ![j] = m]

NoAsk == UNCHANGED <<engineVars, jobModel>>

\* The process dies: what it had in memory is gone.
Die(why) ==
  /\ deaths' = deaths + 1
  /\ cause' = why
  /\ screen' = "dead"
  /\ asks' = [j \in JobIds |-> "none"]
  /\ status' = [j \in JobIds |-> "new"]
  /\ resident' = FALSE
  /\ serving' = None
  /\ jobModel' = [j \in JobIds |-> None]
  /\ model' = None
  /\ flag' = FALSE
  /\ llmw' = FALSE
  /\ button' = FALSE
  /\ main' = <<>>
  /\ loader' = [t \in Loaders |-> "off"]
  /\ want' = [t \in Loaders |-> None]
  /\ current' = disk
  /\ overlapped' = FALSE
  /\ UNCHANGED <<disk, file>>

-----------------------------------------------------------------------------
(* The engine serves its calls. *)

\* load_model accepts a whole file alone.
Loads(j) == file[jobModel[j]] = "good"

EngineLoads(j) ==
  /\ Engine!Load(j)
  /\ status'[j] = "done"
  /\ Loads(j)
  /\ model' = jobModel[j]
  /\ UNCHANGED <<jobModel, flag, llmw, button, screen, main, loader, want,
                 prefVars, file, deaths, cause, overlapped>>

\* load throws in a coroutine without a handler.
EngineRefusesLoad(j) ==
  /\ asks[j] = "load"
  /\ status[j] = "asked"
  /\ serving = None
  /\ \/ resident /\ Die("already_loaded")
     \/ ~resident /\ ~Loads(j) /\ Die("load_failed")

EngineUnloads(j) ==
  /\ Engine!Unload(j)
  /\ model' = None
  /\ UNCHANGED <<jobModel, flag, llmw, button, screen, main, loader, want,
                 prefVars, file, deaths, cause, overlapped>>

EngineAnswers(j) ==
  /\ \/ ~resident /\ Engine!EmptyAnswer(j)
     \/ Engine!BeginAnswer(j)
     \/ Engine!EndAnswer(j)
  /\ UNCHANGED <<jobModel, model, flag, llmw, button, screen, main, loader,
                 want, prefVars, file, deaths, cause, overlapped>>

EngineServes(j) == \/ EngineLoads(j) \/ EngineRefusesLoad(j)
                   \/ EngineUnloads(j) \/ EngineAnswers(j)

-----------------------------------------------------------------------------
(* A loader thread of ModelSettingsActivity.loadModel. *)

UseModel(t, m) ==
  /\ screen = "models"
  /\ main = <<>>
  /\ file[m] # "absent"
  /\ m # current
  /\ loader[t] = "off"
  /\ loader' = [loader EXCEPT ![t] = "unload?"]
  /\ want' = [want EXCEPT ![t] = m]
  /\ overlapped' = (overlapped \/ Busy)
  /\ NoAsk
  /\ UNCHANGED <<model, flag, llmw, button, screen, main, prefVars, file,
                 deaths, cause>>

\* unloadModel reads the flag, then launches the unload and clears it.  The
\* flag is not volatile: a stale read is a read that comes earlier, which the
\* steps of the other threads between two of these already allow.
LoaderReadsForUnload(t) ==
  /\ loader[t] = "unload?"
  /\ loader' = [loader EXCEPT ![t] = IF flag THEN "unload" ELSE "load?"]
  /\ NoAsk
  /\ UNCHANGED <<model, flag, llmw, button, screen, main, want, prefVars,
                 file, deaths, cause, overlapped>>

LoaderUnloads(t) ==
  /\ loader[t] = "unload"
  /\ Ask("unload", None)
  /\ flag' = FALSE
  /\ loader' = [loader EXCEPT ![t] = "load?"]
  /\ UNCHANGED <<model, llmw, button, screen, main, want, prefVars, file,
                 deaths, cause, overlapped>>

\* getInstance reads the flag, then launches the load and sets it.
LoaderReadsForLoad(t) ==
  /\ loader[t] = "load?"
  /\ loader' = [loader EXCEPT ![t] = IF flag THEN "ui" ELSE "load"]
  /\ NoAsk
  /\ UNCHANGED <<model, flag, llmw, button, screen, main, want, prefVars,
                 file, deaths, cause, overlapped>>

LoaderLoads(t) ==
  /\ loader[t] = "load"
  /\ Ask("load", want[t])
  /\ flag' = TRUE
  /\ loader' = [loader EXCEPT ![t] = "ui"]
  /\ UNCHANGED <<model, llmw, button, screen, main, want, prefVars, file,
                 deaths, cause, overlapped>>

\* Mutant: the model is recorded as the one chosen before.
Recorded_Stale(t) == current

Recorded(t) == want[t]

\* runOnUiThread: the model becomes the current one, loaded or not.
LoaderRecords(t) ==
  /\ loader[t] = "ui"
  /\ main = <<>>
  /\ loader' = [loader EXCEPT ![t] = "end"]
  /\ current' = Recorded(t)
  /\ NoAsk
  /\ UNCHANGED <<model, flag, llmw, button, screen, main, want, disk, file,
                 deaths, cause, overlapped>>

Loader(t) == \/ LoaderReadsForUnload(t) \/ LoaderUnloads(t)
             \/ LoaderReadsForLoad(t) \/ LoaderLoads(t) \/ LoaderRecords(t)

-----------------------------------------------------------------------------
(* The main thread. *)

\* The handler the main thread is in reaches step st.
At(st) == main # <<>> /\ Head(main) = st

Then(steps) == main' = steps \o Tail(main)

\* AiActivity.onCreate after a sign-in: a new view model, initializeModel,
\* and refreshModelState in onResume.
EnterChat ==
  /\ screen = "login"
  /\ main = <<>>
  /\ screen' = "chat"
  /\ main' = <<"initialize", "refresh">>
  /\ llmw' = FALSE
  /\ overlapped' = (overlapped \/ Busy)
  /\ NoAsk
  /\ UNCHANGED <<model, flag, button, loader, want, prefVars, file, deaths, cause>>

\* The screen comes back to the front, or is created again by a rotation,
\* which keeps the view model.
ResumeChat ==
  /\ screen = "chat"
  /\ main = <<>>
  /\ main' \in {<<"refresh">>, <<"initialize", "refresh">>}
  /\ overlapped' = (overlapped \/ Busy)
  /\ NoAsk
  /\ UNCHANGED <<model, flag, llmw, button, screen, loader, want, prefVars,
                 file, deaths, cause>>

SavedExists == current # None /\ file[current] # "absent"

\* initializeModel reads the flag: set, the view model takes the LLMW; clear,
\* it goes on to getInstance if there is a file to load.
MainInitializes ==
  /\ At("initialize")
  /\ llmw' = (llmw \/ flag)
  /\ Then(IF ~flag /\ SavedExists THEN <<"load?">> ELSE <<>>)
  /\ NoAsk
  /\ UNCHANGED <<model, flag, button, screen, loader, want, prefVars, file,
                 deaths, cause, overlapped>>

\* getInstance reads the flag once more, then launches the load and sets it.
MainReadsForLoad ==
  /\ At("load?")
  /\ llmw' = TRUE
  /\ Then(IF flag THEN <<>> ELSE <<"load">>)
  /\ NoAsk
  /\ UNCHANGED <<model, flag, button, screen, loader, want, prefVars, file,
                 deaths, cause, overlapped>>

MainLoads ==
  /\ At("load")
  /\ Ask("load", current)
  /\ flag' = TRUE
  /\ Then(<<>>)
  /\ UNCHANGED <<model, llmw, button, screen, loader, want, prefVars, file,
                 deaths, cause, overlapped>>

\* refreshModelState: a loaded model enables the button and that is all;
\* else the button is disabled and a saved model initialised.
MainRefreshes ==
  /\ At("refresh")
  /\ button' = flag
  /\ Then(IF ~flag /\ current # None THEN <<"initialize">> ELSE <<>>)
  /\ NoAsk
  /\ UNCHANGED <<model, flag, llmw, screen, loader, want, prefVars, file,
                 deaths, cause, overlapped>>

OpenModels ==
  /\ screen = "chat"
  /\ main = <<>>
  /\ screen' = "models"
  /\ NoAsk
  /\ UNCHANGED <<model, flag, llmw, button, main, loader, want, prefVars,
                 file, deaths, cause, overlapped>>

BackToChat ==
  /\ screen = "models"
  /\ main = <<>>
  /\ screen' = "chat"
  /\ main' = <<"refresh">>
  /\ overlapped' = (overlapped \/ Busy)
  /\ NoAsk
  /\ UNCHANGED <<model, flag, llmw, button, loader, want, prefVars, file,
                 deaths, cause>>

FlagAfterUnload == FALSE

\* unloadModel on the main thread, from a deletion or a logout.
MainUnloads ==
  /\ At("unload")
  /\ Ask("unload", None)
  /\ flag' = FlagAfterUnload
  /\ Then(<<>>)
  /\ UNCHANGED <<model, llmw, button, screen, loader, want, prefVars, file,
                 deaths, cause, overlapped>>

ClearCurrent ==
  /\ At("clear")
  /\ current' = None
  /\ Then(<<>>)
  /\ NoAsk
  /\ UNCHANGED <<model, flag, llmw, button, screen, loader, want, disk, file,
                 deaths, cause, overlapped>>

UnloadIfLoaded == IF flag THEN <<"unload">> ELSE <<>>

\* deleteModel removes the file; if it is the current model's, it unloads
\* and then forgets it.
DeleteModel(m) ==
  /\ screen = "models"
  /\ main = <<>>
  /\ file[m] # "absent"
  /\ file' = [file EXCEPT ![m] = "absent"]
  /\ main' = IF m = current THEN Append(UnloadIfLoaded, "clear") ELSE <<>>
  /\ overlapped' = (overlapped \/ Busy)
  /\ NoAsk
  /\ UNCHANGED <<model, flag, llmw, button, screen, loader, want, prefVars,
                 deaths, cause>>

Logout ==
  /\ screen = "chat"
  /\ main = <<>>
  /\ screen' = "login"
  /\ main' = UnloadIfLoaded
  /\ llmw' = FALSE
  /\ button' = FALSE
  /\ overlapped' = (overlapped \/ Busy)
  /\ NoAsk
  /\ UNCHANGED <<model, flag, loader, want, prefVars, file, deaths, cause>>

\* sendMessage: the flag is read again, and the view model's LLMW is used.
Send ==
  /\ screen = "chat"
  /\ main = <<>>
  /\ button
  /\ flag
  /\ \/ /\ llmw
        /\ Ask("send", None)
        /\ UNCHANGED <<model, flag, llmw, button, screen, main, loader, want,
                       prefVars, file, deaths, cause, overlapped>>
     \/ ~llmw /\ Die("null_llmw")

\* apply() reaches the disk.
Flush ==
  /\ Alive
  /\ disk # current
  /\ disk' = current
  /\ NoAsk
  /\ UNCHANGED <<model, flag, llmw, button, screen, main, loader, want,
                 current, file, deaths, cause, overlapped>>

\* The process is started again.
Restart ==
  /\ screen = "dead"
  /\ deaths <= MaxDeaths
  /\ screen' = "login"
  /\ NoAsk
  /\ UNCHANGED <<model, flag, llmw, button, main, loader, want, prefVars,
                 file, deaths, cause, overlapped>>

Main == MainInitializes \/ MainReadsForLoad \/ MainLoads \/ MainRefreshes
        \/ MainUnloads \/ ClearCurrent

User == \/ EnterChat \/ ResumeChat \/ OpenModels \/ BackToChat \/ Logout
        \/ Send \/ Restart
        \/ \E m \in Models : DeleteModel(m) \/ \E t \in Loaders : UseModel(t, m)

Next == \/ User \/ Main \/ Flush
        \/ \E t \in Loaders : Loader(t)
        \/ \E j \in JobIds : EngineServes(j)

Spec == Init /\ [][Next]_vars

-----------------------------------------------------------------------------
(* Properties *)

TypeOK ==
  /\ asks \in [JobIds -> {"none", "load", "unload", "send", "bench"}]
  /\ status \in [JobIds -> {"new", "asked", "serving", "done", "failed"}]
  /\ resident \in BOOLEAN
  /\ serving \in JobIds \cup {None}
  /\ \A j \in JobIds : IF asks[j] = "load" THEN jobModel[j] \in Models
                                            ELSE jobModel[j] = None
  /\ model \in Models \cup {None}
  /\ flag \in BOOLEAN
  /\ llmw \in BOOLEAN
  /\ button \in BOOLEAN
  /\ screen \in {"chat", "models", "login", "dead"}
  /\ \A i \in DOMAIN main : main[i] \in {"initialize", "load?", "load", "refresh", "unload", "clear"}
  /\ loader \in [Loaders -> {"off", "unload?", "unload", "load?", "load", "ui", "end"}]
  /\ want \in [Loaders -> Models \cup {None}]
  /\ current \in Models \cup {None}
  /\ disk \in Models \cup {None}
  /\ file \in [Models -> {"absent", "good", "bad"}]
  /\ deaths \in 0..(MaxDeaths + 1)
  /\ cause \in {"none", "already_loaded", "load_failed", "null_llmw"}
  /\ overlapped \in BOOLEAN

\* As long as each operation in a process life began after the one before it
\* and all its coroutines were over, a quiet process is consistent: the flag
\* says what the engine holds, and that is the model the preferences name.
SequentialUseAgrees ==
  Alive /\ ~overlapped /\ ~Busy =>
    /\ flag = resident
    /\ resident => model = current

\* A message goes to a model, or the user is told there is none ("No model
\* loaded", AiActivity.java:151).
SendHasModel == cause # "null_llmw"
=============================================================================
