--------------------------- MODULE DownloadService ---------------------------
(***************************************************************************)
(* The download service of one process life: onStartCommand and onDestroy   *)
(* on the main thread, the OkHttp callbacks on their own threads, the two   *)
(* maps they share, the ref-counted wake lock of each service instance and  *)
(* the model files.  Nothing but the maps is synchronised, so every test    *)
(* and the act it leads to are steps apart.  A process that died before     *)
(* left model files in any condition: Init starts from all of them.         *)
(***************************************************************************)
EXTENDS Naturals, Sequences, FiniteSets

CONSTANTS
  Files,      \* the model files on offer
  MaxCalls,   \* bound: taps on Download
  MaxTaps,    \* bound: taps on Cancel and Delete
  MaxChunks,  \* bound: chunks read by a download
  None        \* no call

ASSUME DownloadAssumption == /\ MaxCalls \in Nat /\ MaxTaps \in Nat
                             /\ MaxChunks \in Nat
                             /\ None \notin Nat /\ None \notin Files

Calls == 1..MaxCalls
Procs == 0..MaxCalls          \* 0 is the main thread
Instances == 1..(MaxCalls + MaxTaps)

VARIABLES
  ongoing,   \* ongoingDownloads: the files with a progress entry
  active,    \* activeCalls: file -> call or None
  dest,      \* each file: "absent", "partial" or "whole"
  todo,      \* what each thread has left to do
  fileOf,    \* the file each thread is at work on
  instOf,    \* the service instance each thread runs in
  canceled,  \* calls on which cancel() was called
  cut,       \* calls whose bytes a later open or delete has taken away
  chunks,    \* chunks read so far
  inbox,     \* the main thread's messages, each for a service instance
  up,        \* the instance the system counts as started, or 0
  made,      \* instances created so far
  wake,      \* the wake lock count of each instance
  starts,    \* taps on Download so far
  taps,      \* taps on Cancel and Delete so far
  alive,     \* the process lives
  hist       \* history: what has happened so far, see Undisturbed

shared == <<ongoing, active, wake>>
streams == <<dest, canceled, cut, chunks>>
system == <<inbox, up, made>>
thread == <<fileOf, instOf>>
ui == <<starts, taps>>
vars == <<shared, streams, system, thread, ui, todo, alive, hist>>

At(p, step) == todo[p] # <<>> /\ Head(todo[p]) = step
Begun == {c \in Calls : fileOf[c] # None}
Live(c) == c \in Begun /\ todo[c] # <<>>
Streaming(c) == Live(c) /\ Head(todo[c]) \in {"read", "check", "write"}
Leaving(c) == Live(c) /\ ~At(c, "await") /\ ~Streaming(c)
Others(c) == {d \in Calls \ {c} : Streaming(d) /\ fileOf[d] = fileOf[c]}

Then(p, steps) == todo' = [todo EXCEPT ![p] = steps \o Tail(@)]

\* A thread that found no active call, or a destruction under way.
Stopping == \/ \E p \in Procs : \E s \in {"held?", "release", "stop"} : At(p, s)
            \/ \E i \in DOMAIN inbox : inbox[i].what = "destroy"

Init == /\ ongoing = {}
        /\ active = [f \in Files |-> None]
        /\ dest \in [Files -> {"absent", "partial", "whole"}]
        /\ todo = [p \in Procs |-> <<>>]
        /\ fileOf = [p \in Procs |-> None]
        /\ instOf = [p \in Procs |-> 0]
        /\ canceled = [c \in Calls |-> FALSE]
        /\ cut = [c \in Calls |-> FALSE]
        /\ chunks = [c \in Calls |-> 0]
        /\ inbox = <<>>
        /\ up = 0
        /\ made = 0
        /\ wake = [i \in Instances |-> 0]
        /\ starts = 0
        /\ taps = 0
        /\ alive = TRUE
        /\ hist = [cancelled |-> {}, deleted |-> {}, overlap |-> {},
                   parallel |-> FALSE, raced |-> FALSE]

-----------------------------------------------------------------------------
(* The screen, the system and the main thread. *)

Msg(what, f, i) == [what |-> what, file |-> f, inst |-> i]

\* startService: an instance is created if none is up, then the intent is
\* delivered to it.
Deliver(what, f) ==
  IF up # 0
  THEN inbox' = Append(inbox, Msg(what, f, up)) /\ UNCHANGED <<up, made>>
  ELSE /\ made' = made + 1
       /\ up' = made'
       /\ inbox' = inbox \o <<Msg("create", None, up'), Msg(what, f, up')>>

Tap == taps < MaxTaps /\ todo[0] = <<>> /\ taps' = taps + 1

\* The list offers Download for a file that is absent and not listed, Cancel
\* for a listed one; what it shows may be out of date by the time the intent
\* is delivered.
TapDownload(f) ==
  /\ starts < MaxCalls
  /\ todo[0] = <<>>
  /\ f \notin ongoing
  /\ dest[f] = "absent"
  /\ starts' = starts + 1
  /\ Deliver("start", f)
  /\ UNCHANGED <<shared, streams, thread, taps, todo, alive, hist>>

TapCancel(f) ==
  /\ Tap
  /\ f \in ongoing
  /\ Deliver("cancel", f)
  /\ UNCHANGED <<shared, streams, thread, starts, todo, alive, hist>>

\* A delete unlinks the file, whoever is writing to it.
Unlink(f) ==
  /\ dest' = [dest EXCEPT ![f] = "absent"]
  /\ cut' = [c \in Calls |-> cut[c] \/ (Streaming(c) /\ fileOf[c] = f)]

\* deleteModel.
TapDelete(f) ==
  /\ Tap
  /\ dest[f] # "absent"
  /\ Unlink(f)
  /\ hist' = [hist EXCEPT !.deleted = @ \cup {f}]
  /\ UNCHANGED <<shared, canceled, chunks, system, thread, starts, todo, alive>>

Cleanup == <<"unlist", "drop", "unlist", "empty?">>

\* Mutant: the finally leaves the call in the map.
Finally_NoDrop == <<"empty?">>

Finally == <<"drop", "empty?">>

\* Mutant: a download is begun whatever the map says.
MayBegin_Always(f) == TRUE

MayBegin(f) == f \notin ongoing

\* The main thread takes its next message.  A start begins a download unless
\* one is listed: it acquires the wake lock and lists the file.  A cancel cancels
\* the active call and cleans up.  A destruction releases the lock once.
Receive ==
  /\ todo[0] = <<>>
  /\ inbox # <<>>
  /\ inbox' = Tail(inbox)
  /\ LET m == Head(inbox)
         begins == m.what = "start" /\ MayBegin(m.file)
         here == m.inst
     IN /\ fileOf' = [fileOf EXCEPT ![0] = m.file]
        /\ instOf' = [instOf EXCEPT ![0] = here]
        /\ todo' = [todo EXCEPT ![0] = CASE begins -> <<"enqueue">>
                                         [] m.what = "cancel" -> Cleanup
                                         [] OTHER -> <<>>]
        /\ ongoing' = IF begins THEN ongoing \cup {m.file} ELSE ongoing
        /\ wake' = CASE begins -> [wake EXCEPT ![here] = @ + 1]
                     [] m.what = "destroy" /\ wake[here] > 0 -> [wake EXCEPT ![here] = @ - 1]
                     [] OTHER -> wake
        /\ canceled' = [c \in Calls |-> \/ canceled[c]
                                        \/ m.what = "cancel" /\ active[m.file] = c]
        /\ hist' = [hist EXCEPT
             !.cancelled = IF m.what = "cancel" THEN @ \cup {m.file} ELSE @,
             !.raced = @ \/ (begins /\ Stopping),
             !.parallel = @ \/ (begins /\ \E c \in Calls : Live(c)),
             !.overlap = IF begins /\ \E c \in Calls : Leaving(c) /\ fileOf[c] = m.file
                         THEN @ \cup {m.file} ELSE @]
  /\ UNCHANGED <<active, dest, cut, chunks, up, made, ui, alive>>

\* activeCalls.put and enqueue: OkHttp has the call.
Enqueue ==
  /\ At(0, "enqueue")
  /\ \E c \in Calls :
       /\ c = Cardinality(Begun) + 1
       /\ active' = [active EXCEPT ![fileOf[0]] = c]
       /\ fileOf' = [fileOf EXCEPT ![c] = fileOf[0]]
       /\ instOf' = [instOf EXCEPT ![c] = instOf[0]]
       /\ todo' = [todo EXCEPT ![0] = Tail(@), ![c] = <<"await">>]
  /\ UNCHANGED <<ongoing, wake, streams, system, ui, alive, hist>>

-----------------------------------------------------------------------------
(* The steps main and the callbacks share: the clean-up and the finally. *)

Unlist(p) ==
  /\ At(p, "unlist")
  /\ ongoing' = ongoing \ {fileOf[p]}
  /\ Then(p, <<>>)
  /\ UNCHANGED <<active, wake, streams, system, thread, ui, alive, hist>>

\* By the file's name, whichever call the map has for it.
Drop(p) ==
  /\ At(p, "drop")
  /\ active' = [active EXCEPT ![fileOf[p]] = None]
  /\ Then(p, <<>>)
  /\ UNCHANGED <<ongoing, wake, streams, system, thread, ui, alive, hist>>

\* Mutant: the emptiness test is left out.
NoneActive_Any == TRUE

NoneActive == \A f \in Files : active[f] = None

TestEmpty(p) ==
  /\ At(p, "empty?")
  /\ Then(p, IF NoneActive THEN <<"held?">> ELSE <<>>)
  /\ hist' = [hist EXCEPT !.raced = @ \/ (NoneActive /\ At(0, "enqueue"))]
  /\ UNCHANGED <<shared, streams, system, thread, ui, alive>>

\* Mutant: the lock is left to onDestroy.
AfterHeld_Stop(i) == <<"stop">>

\* Mutant: the lock is released whether held or not.
AfterHeld_Always(i) == <<"release", "stop">>

AfterHeld(i) == IF wake[i] > 0 THEN <<"release", "stop">> ELSE <<"stop">>

TestHeld(p) ==
  /\ At(p, "held?")
  /\ Then(p, AfterHeld(instOf[p]))
  /\ UNCHANGED <<shared, streams, system, thread, ui, alive, hist>>

\* Releasing a lock another thread has released since throws, and the
\* callback's thread takes the process down.
Release(p) ==
  /\ At(p, "release")
  /\ IF wake[instOf[p]] > 0
     THEN wake' = [wake EXCEPT ![instOf[p]] = @ - 1] /\ Then(p, <<>>) /\ UNCHANGED alive
     ELSE alive' = FALSE /\ UNCHANGED <<wake, todo>>
  /\ UNCHANGED <<ongoing, active, streams, system, thread, ui, hist>>

\* stopSelf: the system destroys this instance, if it is still the one up.
StopSelf(p) ==
  /\ At(p, "stop")
  /\ IF instOf[p] = up
     THEN up' = 0 /\ inbox' = Append(inbox, Msg("destroy", None, up))
     ELSE UNCHANGED <<up, inbox>>
  /\ Then(p, <<>>)
  /\ UNCHANGED <<shared, streams, made, thread, ui, alive, hist>>

Tidy(p) == Unlist(p) \/ Drop(p) \/ TestEmpty(p) \/ TestHeld(p) \/ Release(p) \/ StopSelf(p)

-----------------------------------------------------------------------------
(* The callbacks. *)

Throw(c) == todo' = [todo EXCEPT ![c] = Cleanup \o Finally]

\* Mutant: onFailure only logs.
AfterFailure_Nothing == <<>>

\* onFailure and an unsuccessful response clean up; the finally is not theirs.
AfterFailure == Cleanup

\* A good response opens the file: FileOutputStream truncates it, whoever else
\* is writing to it, or cannot open it.
Answered(c) ==
  /\ At(c, "await")
  /\ \/ Then(c, AfterFailure) /\ UNCHANGED <<dest, cut>>
     \/ /\ dest' = [dest EXCEPT ![fileOf[c]] = "partial"]
        /\ cut' = [d \in Calls |-> cut[d] \/ d \in Others(c)]
        /\ Then(c, <<"read">>)
     \/ Throw(c) /\ UNCHANGED <<dest, cut>>
  /\ UNCHANGED <<shared, canceled, chunks, system, thread, ui, alive, hist>>

\* Every byte of the file was written by c, and is there.
EndsWhole(c) == ~cut[c]

\* A read gives a chunk, the end of the stream, or throws (a cancelled call,
\* a lost connection).
Read(c) ==
  /\ At(c, "read")
  /\ \/ /\ chunks[c] < MaxChunks
        /\ chunks' = [chunks EXCEPT ![c] = @ + 1]
        /\ Then(c, <<"check">>)
        /\ UNCHANGED dest
     \/ /\ dest' = IF EndsWhole(c) THEN [dest EXCEPT ![fileOf[c]] = "whole"] ELSE dest
        /\ todo' = [todo EXCEPT ![c] = <<"complete">> \o Finally]
        /\ UNCHANGED chunks
     \/ Throw(c) /\ UNCHANGED <<dest, chunks>>
  /\ UNCHANGED <<shared, canceled, cut, system, thread, ui, alive, hist>>

\* A cancelled call deletes the file and leaves by the finally.
Check(c) ==
  /\ At(c, "check")
  /\ IF canceled[c]
     THEN Unlink(fileOf[c]) /\ todo' = [todo EXCEPT ![c] = Finally]
     ELSE Then(c, <<"write">>) /\ UNCHANGED <<dest, cut>>
  /\ UNCHANGED <<shared, canceled, chunks, system, thread, ui, alive, hist>>

\* The chunk is written; if the percentage grew, the entry is put.
Write(c) ==
  /\ At(c, "write")
  /\ ongoing' \in {ongoing, ongoing \cup {fileOf[c]}}
  /\ Then(c, <<"read">>)
  /\ UNCHANGED <<active, wake, streams, system, thread, ui, alive, hist>>

Complete(c) ==
  /\ At(c, "complete")
  /\ ongoing' = ongoing \ {fileOf[c]}
  /\ Then(c, <<>>)
  /\ UNCHANGED <<active, wake, streams, system, thread, ui, alive, hist>>

Callback(c) == Answered(c) \/ Read(c) \/ Check(c) \/ Write(c)
               \/ Complete(c) \/ Tidy(c)

MainThread == Receive \/ Enqueue \/ Tidy(0)

User == \E f \in Files : TapDownload(f) \/ TapCancel(f) \/ TapDelete(f)

Next == alive /\ (User \/ MainThread \/ \E c \in Calls : Callback(c))

Spec == Init /\ [][Next]_vars

-----------------------------------------------------------------------------
(* Properties *)

TypeOK ==
  /\ ongoing \subseteq Files
  /\ active \in [Files -> Calls \cup {None}]
  /\ dest \in [Files -> {"absent", "partial", "whole"}]
  /\ DOMAIN todo = Procs
  /\ \A p \in Procs : \A i \in DOMAIN todo[p] : todo[p][i] \in
       {"enqueue", "unlist", "drop", "empty?", "held?", "release",
        "stop", "await", "read", "check", "write", "complete"}
  /\ fileOf \in [Procs -> Files \cup {None}]
  /\ instOf \in [Procs -> 0..made]
  /\ canceled \in [Calls -> BOOLEAN]
  /\ cut \in [Calls -> BOOLEAN]
  /\ chunks \in [Calls -> 0..MaxChunks]
  /\ \A i \in DOMAIN inbox : inbox[i].what \in {"create", "start", "cancel", "destroy"}
  /\ up \in 0..made
  /\ made \in 0..(MaxCalls + MaxTaps)
  /\ wake \in [Instances -> 0..MaxCalls]
  /\ starts \in 0..MaxCalls
  /\ taps \in 0..MaxTaps
  /\ alive \in BOOLEAN

\* So far no download was cancelled, or begun again while an earlier one of
\* the same file was cleaning up, or begun while the service was going down.
Undisturbed == hist.cancelled = {} /\ hist.overlap = {} /\ ~hist.raced

Quiet == alive /\ inbox = <<>> /\ \A p \in Procs : todo[p] = <<>>

\* A download is reported complete only when its file is whole, as long as
\* nobody cancelled a download of that file or deleted it, and none was begun
\* while an earlier one of it was cleaning up.
CompleteIsWhole ==
  \A c \in Calls : At(c, "complete") /\ fileOf[c] \notin hist.cancelled \cup hist.deleted \cup hist.overlap
                     => dest[fileOf[c]] = "whole"

\* While a call is active the service instance it runs in is up and holds its
\* wake lock, unless a download was begun while the service was on its way down.
AwakeWhileActive ==
  ~hist.raced =>
    \A f \in Files : active[f] # None =>
      LET i == instOf[active[f]] IN wake[i] > 0 /\ up = i

\* With every thread at rest the service is down.
StopsWhenIdle == Quiet /\ Undisturbed => up = 0

BegunIn(i) == {c \in Begun : instOf[c] = i}

\* With every thread at rest an instance that began at most two downloads
\* holds no wake lock, unless one was begun while the service was on its way
\* down: one release follows the last download, one comes with onDestroy.
LockFreed == Quiet /\ ~hist.raced =>
  \A i \in Instances : Cardinality(BegunIn(i)) <= 2 => wake[i] = 0

\* Downloads one at a time never release a lock that is not held.  (Two that
\* end together can: onDestroy comes between the isHeld and the release of one.)
NeverUnderLocked == Undisturbed /\ ~hist.parallel => alive

\* With every thread at rest no progress entry is left, unless a download of
\* the file was cancelled: an entry nobody works for keeps the file from ever
\* being downloaded.
EntriesCleared == Quiet => ongoing \subseteq hist.cancelled
=============================================================================
