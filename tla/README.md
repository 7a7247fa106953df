# Specifications of the IdoProject chat app

TLA+ modules, TLC configurations and TLAPS proofs for an Android app that runs a
language model on the device: `src/app` (Java, Kotlin), `src/llama` (Kotlin and
the JNI layer `llama-android.cpp`) and, of the vendored `llama.cpp`, the two
parts every answer goes through: `llama_decode` with its KV cache, and the thread
pool the graphs are computed on.

    tlc -workers 2 -config NativeSession_safe.cfg MCNativeSession.tla
    tlapm DownloadService_proofs.tla

`PROJECT.json` lists the runs with their module and configuration, the source
lines of every definition, the hazards of the code, the theorems, and a mutant
for each checked property: a plausible bug in a definition that makes TLC find
the property violated.

## 1. The system

| Component | State | Operations | Talks to |
|---|---|---|---|
| Native session: `LLamaAndroid.kt`, `llama-android.cpp` | `threadLocalState`, native objects, KV cache, the executor's queue, one channel per send | `load`, `unload`, `bench`, `send` | called by LLMW in coroutines of a thread pool; gives tokens to a collector; calls `llama_decode` |
| llama_decode: `llama-context.cpp`, `llama-kv-cache.cpp`, `llama-kv-cells.h`, `llama-batch.cpp` | cells, search head, the placements to undo, rows of logits | `llama_decode`, `seq_rm`, `clear` | called on the run loop; gives one graph per ubatch to the pool |
| CPU thread pool: `ggml-cpu.c` | the pool's mutex, condition, counters, `abort`, `current_chunk`; each thread's state | `ggml_graph_compute` | made and freed for each graph; its thread 0 is the caller |
| Token text: `cached_token_chars`, `is_valid_utf8` | one global string | `completion_init`, `completion_loop` | part of each send |
| Model lifecycle: `LLMW.kt`, `ChatViewModel.initializeModel`, `ModelSettingsActivity` | `isLoaded`, `instance`, `llmw`, current model in memory and on disk | load, use, delete a model; enter, resume, log out | main thread, loader threads, the run loop |
| Answer generation: `ChatViewModel.generate` | `stopGeneration`, `fullResponseBuffer`, `messages`, `isGenerating`, the looper's queue | send, token, stop sequence, limit, finalize | collector thread, main looper, JSON files |
| Chat storage: `JsonHelper`, chat list | `chats.json`, `chat_<id>.json`, the lists in the view model, `currentChatId` | create, open, delete, save, resume | main thread, file system |
| Model downloads: `DownloadService` | two synchronized maps, a wake lock per instance, files | start, cancel, complete, fail, destroy | main thread, OkHttp threads, the system |
| Accounts: `HelperUserDB`, sign-up, sign-in, settings | users table, `user_<name>` directories, credentials | sign up, in, out; rename; new password; delete | main thread, SQLite, preferences |

What makes each correct: the session, that native objects live exactly as
long as something may use them and that a token is sampled from the logits of
its own conversation; the decode, that a return value tells the truth about the
cache; the pool, that each part of each node is computed once, after what it
needs, and that nobody sleeps for ever; the text, that only whole characters are
handed on; the lifecycle, that flag, engine and preferences agree; the
generation, that an answer is cut where it should be and is saved under its
chat; the storage, that each chat opens its own messages; the downloads, that a
file offered as a model is whole and that the device neither sleeps during a
download nor stays awake after it; the accounts, that people see their own data.

What is hard is the same nearly everywhere: calls are launched and forgotten,
nobody waits for an answer, what was tested is no longer so when it is acted
upon, and one step of several fails. `hazards` lists these places by line.

## 2. Modules

**NativeSession** models the run loop. `load`, `unload` and `bench` never suspend, so
each is one step; a send is a loop of `CompletionLoop` steps that leaves the
thread when `emit` finds the channel full (`BufferFull`) and comes back through
`Resume`, after whatever jobs were queued meanwhile. `Launch` and `Dispatch` are
apart because coroutines of a pool reach the queue in any order. A job is
named by the load whose handles it captured (`held`), and `heap` has one
element per native object and load, so that a leak, a second free and a use
after free are visible; `fault` records undefined behaviour, after which the
process may die or go on. `kv` has the owner of the token at each position and
`logits` whose tokens the logits were computed for: a decode that is refused or
fails (`Decoded`) is logged and ignored, and the loop samples again. For each send,
`overtaken` has the kinds of call that were served while it was suspended, and
`refused` holds the sends one of whose decodes failed.

**ModelResource** is what the run loop gives its callers: one operation at a time on
a model that is there or not, but for answers that are set aside (`SetAside`,
`TakeBack`) while others are served; `lost` holds those whose model an unload took
meanwhile. **MCNativeSession** gives the refinement mapping, which holds for any size
of channel, answer and prompt: the code's channel has 64 places, an answer has
up to 256 tokens, and nothing tests the prompt against the batch of 512.

**LlamaContext** opens up the call NativeSession takes as one step. `Decode` tests the
batch; `Place` finds cells for one ubatch after the other and puts each there;
`Restore` undoes the placements, last one first; `Apply` puts the ubatches in place
again, one by one, each followed by its computation, which may fail and then
takes the positions of its ubatch out again. The search for cells (`SlotsFor`) is
stated by what it finds: the first free cells from the head on, around the end.
`SeqRm` removes any range of positions, as `llama_kv_cache::seq_rm` does; `gaps` remembers
the positions that callers removed from between others, the only ones that may be missing.
The cache is one stream and one sequence without a window, as the app creates it.

**SequenceMemory** is what the callers of `llama_decode` count on: a set of positions
that takes a batch if and only if there is room for it, by whole ubatches.
`ImplementsMemory` is the refinement: placed but not computed tokens do not count.

**ThreadPool** has one action per step of a thread between two accesses to what is
shared: the kick-off under the mutex, polling, sleeping on the condition
(spuriously woken too), the barrier in its three steps (`Enter`, `Count`, `Release`
and `Spin`), the loop over the nodes, the conversion of a product's second
operand, chunks claimed from the counter, the abort callback, stop and join.
`computed` counts how often each part of each node was computed.

**DecodeOnPool** composes the two: a graph is given to the pool in `compute`, and what the
pool returns ends the ubatch. Failures before the graph reaches a thread
(`GraphFails`) are its other outcome.

**TokenText** takes up the bytes of the tokens. A byte is one of the seven classes
`is_valid_utf8` distinguishes; the validity test is a recursive function, compared with
the definition that each byte is one of a whole character's (`WellFormed`).

**ModelLifecycle** has the flag, the engine's jobs (asked, served in any order among
those launched), the main thread's handlers as sequences of steps and the loader
threads with one step per read or write of the shared flag. A load succeeds on a
good file, fails on a partial one, and a failure ends the process, which may be
restarted from the preferences on disk. `overlapped` records that an operation
began before another's coroutines were over.

**ChatGeneration** has the collector (test of `stopGeneration`, then post), the
looper's queue of runnables, and the user who sends, opens chats and resumes.
A token's text is a sequence of letters. `Stops` is the ordered list: the text is cut
at the first *listed* sequence that occurs, with an index found in the lower-cased
copy, where a letter of `Wide` counts for two (U+0130 is one); an index beyond the
text ends the process (`alive`). `parts` are the tokens in the buffer;
`ambiguous` holds the generations that were cut when another listed sequence or a wide
letter was in the text too. `mixed` records that the message list was replaced while a
generation was live. A save writes its whole file here: a failing or torn
`saveMessages` is in ChatStore. **MCChatGeneration** has two sequences, `ab` and `bb`, a wide
letter, and tokens with which a sequence may be cut into two generations'
tokens, the second listed may come first in the text, and a wide letter before either.

**ChatStore** has the file operations of each handler one by one: truncate, fill,
delete. The process may die at each, and a write may fail. A conversation has
a name of its own in the model, as ids are used again. It replaces generation
by "some time later `finalizeGeneration` saves what is shown".

**DownloadService** has one program counter per thread: the steps are the
statements that touch the maps, the lock, the service or a file. A message of the
main thread names the instance it is for: a destroyed instance may have messages
left while a new one is up. Initial states include files in any condition, as left by
an earlier process. Two things are one step (of `Receive`) though the code takes
several: a start tests the map, takes the lock and puts the entry; `onDestroy`
tests and releases the lock. Only another download's end can fall between. In the start
it is as if it came before (the lock is held a moment sooner, the emptiness test finds
the same map, and `raced` marks it); in `onDestroy` it may release the lock
first, one more way to what `NeverUnderLocked` leaves out.

**Accounts** has each handler as a list of steps (table, directory, preferences)
that a death may cut, and preferences that reach the disk later. An account is an
e-mail as it was typed. E-mails, names and passwords may have blanks around them, and
each handler trims (`Trim`) what the code trims: sign-up looks the e-mail up trimmed
and stores all three untrimmed, sign-in and settings trim. `task` is the stack of
screens: sign-in stays under the chat (`Back`), where an account may be reset or
another signed in while the session lasts; `Relaunch` goes past it. `asked` holds the
accounts with an answer on its way: it ends in `FinishAnswer`, whoever is signed in
then, and is saved under the name in the preferences, `user_null` if there is none.
Deleting an account leaves the session (`LogOut` is an action of its own, since its
dialog may be declined). `known` is what an owner stored last, `wrote` who has data,
`loose` what of the session's row was changed behind it, `stray` that data went under
another name than their account's, `clash` that a name was taken twice, `half` that a
death came in mid-change.

`MC*` modules add values for constants, symmetry, a constraint or the mapping. The
histories of each module (`overtaken`, `refused`, `gaps`, `parts`, `ambiguous`, `mixed`,
`overlapped`, `hist`, `known`, `loose`, `stray`, `clash`, `half`, `torn`, `upset`, `saved`, `before`,
`computed` ...) decide nothing the program does. Properties name through them
the circumstances in which the code keeps its promise; section 5 says what
happens outside them. `*_proofs` modules hold theorems and the invariants they need.

## 3. Runs

| Run | Instance | What it shows |
|---|---|---|
| `native_safe` | 4 calls, nlen 3, channel 1, prompts of 1, 2 and 5 tokens, batch 4, decodes may fail, `FairSpec` | the heap is accounted for exactly, leaks included; cache entries belong to unfinished sends and have no gap; a parked send is one the collector will wake; the queue names each waiting job once; every call ends, every token is collected |
| `native_shared` | 4 calls, nlen 4, channel 1, prompts of 1, 2 and 5 tokens, batch 3, decodes may fail | only an unload served while a send is suspended takes its handles; only another's call in between, or a failed decode of its own, its context; `ModelResource` is implemented |
| `native_leak` (violation) | 2 calls | "Unloads the model and frees resources" does not hold of the batch's arrays |
| `decode_safe` | 4 cells, batches up to 4 in ubatches of 2, positions below 6; graphs of 3 nodes on 2 threads, a product in 8 chunks, one in 2, abort | return values tell what became of the cache, `SequenceMemory` is implemented, parts are computed once and in order, no wake-up is lost, the call returns |
| `text_safe` | 2 answers, 4 bytes, tokens of 1 or 2 bytes of all classes | only whole characters are handed on, and the longest possible part of the text |
| `life_safe` | 2 models, 2 loaders, 3 engine calls per life, 1 restart | operations that do not overlap leave flag, engine and preferences in agreement |
| `life_null` (violation) | 2 models, 1 loader | after the first load the chat screen sends through a null `llmw` |
| `chat_safe` | 2 generations of 3 tokens, limit 2, 2 chats, two stop sequences, a wide letter | a stop sequence is shown or saved only where the text had another or a wide letter in it; own tokens in order and within the limit; files keep to their chat, finished answers stay in it |
| `chat_limit` (violation) | 2 generations of 2 tokens, limit 2 | overlapping generations fill one buffer beyond the "Safety Limit" |
| `store_safe` | 3 chats, 1 question, 1 death, 1 failed write | ids distinct, list and index equal, a chat opens its own messages, what was saved survives, what was deleted is gone |
| `download_safe` | 2 files, 2 downloads, 1 cancel or delete, 1 chunk | a completed file is whole; lock and service last as long as a download and no longer; entries are cleared |
| `accounts_safe` | 2 accounts whose e-mails differ in blanks, 2 names and their padded forms, 3 passwords, one of them padded, answers that outlive their session, 1 death | a session sees its own data, data follow renames, a session keeps its row, credentials without blanks stay valid |

Bounds. Two of everything that can interleave is the least that shows a race.
`native_safe` has four calls because a use after free takes four (load, send,
unload, and a load after it); nlen 3 over a channel of 1 makes a send suspend
twice. Jobs are numbers in the order in which they join the executor's queue
(`Numbered`): which job is which makes no difference to the code, a launched job
has no effect before it joins, so every behaviour is a renaming of one that is
explored, for the two liveness properties too. (TLC's symmetry is not sound for
liveness; it is used in runs of safety only.) `decode_safe` fills its four cells
with two batches, has any range of it removed, so that free cells lie between the
others and around the end, and cuts a batch in two ubatches, the last one possibly shorter. Two
threads are enough for a thread that re-enters the barrier while the other still
spins and for a worker that falls asleep while thread 0 announces; three do not
fit in a run with liveness, and what holds for any number of them is proved.
`download_safe` has two calls because every race found lies between two. Four
bytes are the longest character. `accounts_safe` does not go on after a clash of
names, a torn change or stray data (`Explored`): after the first two all its
properties are vacuous, and stray data change nothing but directories, of which
the other two do not speak (the proofs have no such bound). `native_shared` has an
answer that outgrows its channel and a prompt beyond its batch, as the code has. Deadlock is
not checked: every bounded run ends when its calls are used up, the process may
be dead, and an idle decode waits for its caller.

Fairness. `native_safe`: the pool runs each launched coroutine, the executor serves
its queue, a collector goes on collecting: weak fairness of `Dispatch`, `RunLoop` and
`Collect`, since the dispatchers of kotlinx coroutines and the single-thread
executor are FIFO and never drop a task, and the collector (`mh.h`) only posts to
the looper. `Launch`, the callers' part, is not fair. After undefined behaviour
the process may die: both properties allow for it. `decode_safe`: weak fairness of
each thread's own steps, since the system schedules every runnable thread,
and strong fairness of taking the mutex, since workers take and release it over
and over and a thread that waits for it is not passed over for ever. Spurious
wake-ups, failures and the abort callback are not fair.

## 4. Proofs

For every value of the constants, under the assumptions of the modules
(`JobsAssumption`, `BoundsAssumption`, `SizeAssumption`, ...), and for any number of steps.
Each module has a type invariant; the predicates the proofs use for it
(`TypeOK`, `ContextTypes`, `PoolTypes`, `Types`) are the first conjunct of each invariant.

`NativeSession_proofs`
: `TypeCorrect`. `HeapSafe`: on its own the account of the heap is not inductive, as
  `Unload` must know that the session is a load that is done; `HeapInv` adds
  `SessionLoaded` and `LoopsAreSends`. `QueueIsSound`: a queue without duplicates that
  holds exactly the waiting jobs, with lemmas on what append and tail keep.
  `ParkingIsExact`. `CacheIsOwned` and `CacheIsGapless` together (`CacheInv`): an
  accepted decode extends the cache at its end, any other leaves it as it was.
  `HandlesAreKept`: `HoldsInv` says that a send no unload came in between of holds the
  session in effect, so its handles live (`SessionHandlesLive`), and that a send which is
  suspended while another is in its loop was overtaken by a send (`Behind`).
  `AnswersInOwnContext`: `OwnInv` says that a send none of whose decodes failed and which
  only loads overtook has cache and logits to itself, suspended or not.
  `LoopImplementsResource`
  is the step simulation of `ModelResource`; in it an answer is `lost` exactly if it
  holds another load than the one in effect (`StaleFrame`). None of the three assumes
  anything of the sizes of channel, answer, prompt and batch.

`DecodeOnPool_proofs`
: The context: `ContextGapless`, `ContextTells`, `ContextIsMemory`. The invariant (`ContextInv`) says
  of every moment of a decode which ubatches are in place (`InPlace(k)`): the first k,
  each token in the cell found for it, all else as before the call. `Plan` says what
  the cells found are: free before the call, and no cell twice. From these,
  `PlacedHeld` computes what the cache holds, `PlacedGapless` that it has no gap but
  those callers cut (`gaps`),
  `FreeAfter` how many cells are left, so that the search fails exactly when the
  whole batch did not fit before the call (`Room`). `Undoable` adds that what is
  saved takes the cells and the head back. That n free cells can be found in
  the order of the search if there are n (`SlotExists`) takes an induction; it is
  made with the least element of a set of numbers (`Least`, from the
  well-foundedness of `<`), not with a theorem over operators.
  The pool: `InOrder`, `Whole`, `NoWakeupLost`. What makes the first two hold is that all
  threads are in one segment of the graph between two barriers (`LockstepInv`):
  each is before, in or after its parts of one node, the barrier's counter
  is the number that wait (`BarrierInv`), each part is owed by one thread at most,
  or not yet claimed from the counter (`DataInv`). The third needs that the mutex
  is held between the test of the counters and the sleep (`MutexHeld`).
  The two together: `DecodeTells`, `DecodeIsMemory`, `DecodeComputes`: each step of the composition is a step
  of one part or both, so what is proved of each holds of the whole.

`ChatGeneration_proofs`
: `Hidden`, for any list of stop sequences, outside `ambiguous`: no message and no file
  has a whole stop sequence in it, because the runnable that would show one
  cuts it off (`StopFree`). `Cut` says what the cut is when the sequence
  found is the only one in the text and no wide letter is before it: what is in
  front of it, which holds none (`CleanedHides`); a save takes such texts over
  (`SnapshotHides`). `Ordered`: the numbers of a generation's
  tokens in looper, buffer and answers grow, and `count` is ahead of all in the buffer.
  `Belongs` and `FinishedStays`, unless `mixed`: a generation that has not begun is in
  no list, what was finished is in the list shown or in its file (`Unstarted`, `Kept`).

`Accounts_proofs`
: `SessionsHaveRows` and `EveryoneSignsIn` from `OrderlyInv`, as long as no name is given
  twice and no death falls between the steps of one change: the session's row is its
  account's but for what `loose` says (`Held`), and `Doing` has one case for each
  handler and the steps it still has to do. `OnlyOwnData` and `DataIsUnderTheName` from
  `TidyInv`, as long as no data went astray either: where the data of each account are
  while a change is under way (`DirOf`, `DataPlaced`), that a directory with data is of
  one account, which has a row (`DataOwned`), and that rows go after their directory
  (`Emptied`). `NeverAgain`: a clash, a torn change and stray data are for ever.

`ChatStore_proofs`
: `StoreIdsDistinct`, `StoreListIsIndex`, `StoreOpensOwn`, `StoreSavedSurvives`,
  `StoreDeletedGone`. A handler changes memory at once and the files later, so the
  invariant (`StoreInv`) speaks of the lists there are and of those on their way to
  disk (`Known`) alike. `Basic`: the shapes `todo` can have (two operations at most, a
  deletion last), distinct ids in every list, one chat per conversation, nothing older
  than its creation. `HeadingInv`: `chats.json` is the list or becomes it with the last
  write of it. `GoneInv`: no list holds a deleted chat, but for the index while its
  removal is under way. `KeepInv`: an id is one chat's among those known, and the file of
  a saved chat is whole or being filled. `OpenInv`: each file with messages belongs to a
  listed chat or is about to be deleted, which is why an id may be given again.

`ModelLifecycle_proofs`
: `SequentialUse`. The flag runs ahead of the engine, so the invariant (`LifeInv`) says what
  the flag foretells (`FlagForetells`): at most one load and one unload are pending; the
  flag is up exactly if a load is pending, or a model is resident and no unload is; and
  the model the engine will hold is the one the preferences name or the one a loader
  thread has yet to record (`IsTarget`). `ReadsHold`: what an operation read of the flag
  still holds when it acts on it, which is where `overlapped` comes in.

`TokenText_proofs`
: `ValidWellFormed`, for strings of any length: the scan is a recursive function, and that
  it computes `WellFormed` is shown from a greatest place where the two would differ,
  with least and greatest elements of sets of numbers (`Least`, `Greatest`) in place of
  induction. It rests on `OneCharacter`: two characters that share a byte are one.
  `WholeCharactersSent` and `LongestSent`: what was sent and what is cached are the answer's
  tokens so far, cut after a character, and no longer cut would do (`TextInv`).

`DownloadService_proofs`
: `CompletedWhole`, `AwakeThroughout`, `IdleStops`, `LockGivenBack`, `NeverUnder` and `EntriesGone`
  from one invariant (`DownInv`), as each of its parts needs others. `Paths` are the
  programs a thread can have left; the lemmas on them (`PathTails`, `PathOwes`, `OwedPaths`)
  say what a step takes off and what stays owed. `Posts`: the messages of an instance
  come before its destruction and none after it. `Named`: the map names calls that have
  yet to drop their entry. `Awake`: while a call is active or about to be, no thread is on
  its way to stop; it must be proved of all interleavings of the emptiness test with a
  start, of which `raced` marks the one that breaks it. `OneWorker`, `Untouched`, `WholeAtEnd`:
  a file nobody cancelled has one writer, so nobody takes its bytes away. `StopComes`: as
  long as the service is up somebody will ask whether it may stop. `Removed`: an entry has
  a thread that will remove it. `Locks` counts: an instance holds the lock at most once for
  each download it began, once less from `stopSelf` on and twice less after its
  destruction. `Alone`: with one download at a time, one thread holds the lock once or has
  released it. That a fresh call number is free (`EnqueueDoes`) and how the count of an
  instance's calls grows (`AcquiredEnqueue`) are facts on finite sets.

What stays with TLC: liveness (`EveryCallEnds`, `EveryTokenCollected`, `DecodeReturns`), as
fairness and ENABLED are out of the prover's reach; and the bounds in the type
invariants that only stop a run (`TypeOK` of DownloadService caps lock counts and
chunks; the proofs type them as naturals). Every safety property of a passing
run is a theorem.

## 5. What the runs and the models tell of the code

Disagreements with the code's own words, each a run: the leak of the batch
(`native_leak`), the null view model (`life_null`), the limit (`chat_limit`).

Behaviours the models contain and the properties step around, each a hazard
in `PROJECT.json`:

* A send parked on a full channel lets an unload run and then uses freed handles;
  a second send, or a bench, mixes with it in one cache. `HandlesKept` and `OwnContext`
  name exactly these calls (`overtaken`), and the decodes that fail (`refused`), as
  what it takes: the code does nothing against them.
* A prompt of more than 512 tokens is written past the batch.
* A failed `llama_decode` is logged and ignored: the next token is sampled from older
  logits, and later batches no longer follow on the cache and are refused.
* A load that fails ends the process, and as the preferences may name the same
  file, again at each start.
* An answer the engine ends itself is never finalized, spoken or saved.
* The stop sequences are tried in listed order: of two in one text the later listed
  may stand in front of the cut and stays, in message and file. The index comes from the
  lower-cased text: a letter that becomes two moves the cut, past a stop sequence's
  start or past the end, where `substring` throws. `StopSequenceHidden` leaves out
  these texts (`ambiguous`).
* A chat opened or deleted while an answer is generated ends up with messages of
  the other one; `SavedBelongs`, `FinishedIsSaved`, `OpensOwn` and `SavedSurvives` assume
  this does not happen.
* Confirming a delete dialog opened before a resume deletes the file and keeps the
  chat. Files are written in place: what a death tears is lost.
* Downloads: two that overlap and end together may release a lock twice, which ends
  the process (`NeverUnderLocked` assumes no overlap); three leave it held; a start during
  a cancel's clean-up loses its entry or its file; a progress broadcast after a
  cancel puts an entry back for ever.
* A user name can be taken twice, by sign-up and by renaming. A name or password that
  was signed up with blanks around it never signs in: sign-in trims, sign-up does not.
  An e-mail typed with blanks that is stored already adds no row, and its session
  starts all the same. A change torn by a death leaves session and table apart.
* An answer that ends after log-out is saved under the next person's name, or under
  `user_null` (`ChatViewModel.java:153`): `SeesOwnData` and `DataFollowsName` leave this out
  (`stray`).
* A password reset behind a signed-in session (the sign-in screen is still on the
  stack) leaves the preferences with the old one; a log-out declined after an account's
  deletion leaves a session without an account. `SessionHasRow` names both (`loose`).

`llama_decode` and the pool have no such list: what their comments promise holds.

## 6. Not modelled

* The rest of `llama.cpp` and `ggml`: model files, architectures, kernels,
  samplers, grammars, GPU and remote backends, the server, tools and tests. They
  are most of the tree, so only a small share of all its lines is mapped. The app reaches
  none of their state except through the calls modelled; kernels are arithmetic.
* Of the decode: several sequences and streams, sliding windows, recurrent and hybrid
  memories, shifts and copies of sequences, `encode`, embeddings, saved states: the app
  sets up none of them. A failing `output_reserve` cannot happen: the rows are
  reserved when the context is made.
* Of the pool: pools that are attached, paused or resumed (the app has none),
  NUMA, products by expert, the chunking of repacked weights, llamafile's kernels
  (switched off in `src/llama/build.gradle.kts`), and OpenMP: the build asks for it but
  uses it only where it is found, and the pool modelled is the one without it. Atomics are
  sequentially consistent in the model; the code relaxes some of them.
* Prompt building and the helpers of the model list: pure functions that keep no
  state; the lengths they produce are `PromptLens`.
* Screens and adapters, the receiver of broadcasts, speech, sliders and presets
  (independent preferences), profile pictures, test stubs: no state the
  properties above depend on.
* Compositions across threads of the app: ModelLifecycle keeps its own account of the
  engine's jobs rather than that of NativeSession, in which no answer is set aside, and ChatStore its own of a generation.
