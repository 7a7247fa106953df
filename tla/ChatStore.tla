------------------------------ MODULE ChatStore ------------------------------
(***************************************************************************)
(* The user's chats: the list in the view model, chats.json, and one        *)
(* chat_<id>.json per chat (JsonHelper).  Everything runs on the main       *)
(* thread, but the files are written in place: the process may die, or the  *)
(* disk may fail, between the truncation and the last byte, and between two *)
(* files.  A conversation is the history's name for a chat, which ids are   *)
(* not: they are given again.                                               *)
(***************************************************************************)
EXTENDS Naturals, Sequences, FiniteSets, SequencesExt

CONSTANTS
  MaxChats,   \* bound: chats ever created
  MaxSends,   \* bound: messages sent
  MaxDeaths,  \* bound: deaths of the process
  MaxFaults   \* bound: writes the disk fails

ASSUME StoreAssumption == /\ MaxChats \in Nat /\ MaxSends \in Nat
                          /\ MaxDeaths \in Nat /\ MaxFaults \in Nat

Ids == 1..MaxChats
Chat == [id : Ids, conv : Ids]
NoChat == [id |-> 0, conv |-> 0]

VARIABLES
  index,    \* chats.json: [state, chats]
  files,    \* chat_<id>.json: [state, convs], convs whose messages it has
  list,     \* the chats LiveData
  shown,    \* the messages LiveData: the conversations it has messages of
  current,  \* the chat of currentChatId
  inChat,   \* isInChat
  dialog,   \* the chat of the delete confirmation, or NoChat
  reloaded, \* the list was read again since the dialog opened
  live,     \* ids of the chats an answer is being generated for
  todo,     \* the file operations left of the handler the main thread is in
  created, sends, deaths, faults,   \* counters
  saved,    \* history: conversations whose messages were saved
  deleted,  \* history: conversations the user deleted
  torn,     \* history: the files a death or a fault caught being written
  upset     \* history: [mixed, stale, half], see the properties

memory == <<list, shown, current, inChat, dialog, reloaded, live>>
disk == <<index, files>>
counters == <<created, sends, deaths, faults>>
history == <<saved, deleted, torn, upset>>
vars == <<memory, disk, todo, counters, history>>

Missing == "missing"

Init == /\ index = [state |-> Missing, chats |-> <<>>]
        /\ files = [i \in Ids |-> [state |-> Missing, convs |-> {}]]
        /\ list = <<>>
        /\ shown = {}
        /\ current = NoChat
        /\ inChat = FALSE
        /\ dialog = NoChat
        /\ reloaded = FALSE
        /\ live = {}
        /\ todo = <<>>
        /\ created = 0
        /\ sends = 0
        /\ deaths = 0
        /\ faults = 0
        /\ saved = {}
        /\ deleted = {}
        /\ torn = {}
        /\ upset = [mixed |-> FALSE, stale |-> FALSE, half |-> FALSE]

\* loadChats: a file that is missing, empty or half written is no chats.
LoadChats == IF index.state = "ok" THEN index.chats ELSE <<>>

IdsIn(chats) == {chats[i].id : i \in DOMAIN chats}

\* Mutant: the new id is the number of chats plus one.
NewId_Count(chats) == Len(chats) + 1

\* One more than the largest id.
NewId(chats) == CHOOSE n \in 1..(MaxChats + 1) :
  /\ \A i \in IdsIn(chats) : i < n
  /\ \A m \in 1..(n - 1) : \E i \in IdsIn(chats) : m <= i

SaveIndex(chats) == [op |-> "write", id |-> 0, chats |-> chats, convs |-> {}]
SaveFile(i, convs) == [op |-> "write", id |-> i, chats |-> <<>>, convs |-> convs]
DeleteFile(i) == [op |-> "delete", id |-> i, chats |-> <<>>, convs |-> {}]

\* The main thread is free, and no dialog covers the screen.
Idle == todo = <<>>
UserFree == Idle /\ dialog = NoChat

-----------------------------------------------------------------------------
(* The handlers: memory at once, files one operation after the other. *)

\* createNewChat, n times in a row; the last one is entered.
Create(n) ==
  LET Grown(l, k) == Append(l, [id |-> NewId(l), conv |-> created + k])
      one == Grown(list, 1)
      lists == IF n = 1 THEN <<one>> ELSE <<one, Grown(one, 2)>>
  IN /\ created + n <= MaxChats
     /\ created' = created + n
     /\ list' = lists[n]
     /\ todo' = [i \in 1..n |-> SaveIndex(lists[i])]
     /\ current' = Last(lists[n])
     /\ inChat' = TRUE

Mix(b) == upset' = [upset EXCEPT !.mixed = @ \/ b]

\* onNewChat creates a chat, and startNewChatFromUI another.
NewChat ==
  /\ UserFree
  /\ Create(2)
  /\ shown' = {}
  /\ Mix(live # {})
  /\ UNCHANGED <<dialog, reloaded, live, disk, sends, deaths, faults, saved, deleted, torn>>

\* A message outside a chat starts one.
Send ==
  /\ UserFree
  /\ sends < MaxSends
  /\ sends' = sends + 1
  /\ IF inChat
     THEN UNCHANGED <<created, list, todo, current, inChat>> /\ shown' = shown \cup {current.conv}
     ELSE Create(1) /\ shown' = {current'.conv}
  /\ live' = live \cup {current'.id}
  /\ Mix(~inChat /\ live # {})
  /\ UNCHANGED <<dialog, reloaded, disk, deaths, faults, saved, deleted, torn>>

\* finalizeGeneration saves the list shown for the chat of the generation;
\* runnables still queued may save it again.
Finalize(i) ==
  /\ Idle
  /\ i \in live
  /\ live' \in {live, live \ {i}}
  /\ todo' = <<SaveFile(i, shown)>>
  /\ UNCHANGED <<list, shown, current, inChat, dialog, reloaded, disk, counters, history>>

\* onChatSelected; an empty file reads as null, which the observer of the
\* messages does not survive (see Die).
Select(c) ==
  /\ UserFree
  /\ c \in Range(list)
  /\ files[c.id].state # "empty"
  /\ current' = c
  /\ inChat' = TRUE
  /\ shown' = IF files[c.id].state = "ok" THEN files[c.id].convs ELSE {}
  /\ Mix(live # {})
  /\ UNCHANGED <<list, dialog, reloaded, live, disk, todo, counters, saved, deleted, torn>>

AskDelete(c) ==
  /\ UserFree
  /\ c \in Range(list)
  /\ dialog' = c
  /\ reloaded' = FALSE
  /\ UNCHANGED <<list, shown, current, inChat, live, disk, todo, counters, history>>

CancelDelete ==
  /\ Idle
  /\ dialog # NoChat
  /\ dialog' = NoChat
  /\ UNCHANGED <<list, shown, current, inChat, reloaded, live, disk, todo, counters, history>>

\* The list without the chat of id i.
Without(chats, i) ==
  IF i \in IdsIn(chats)
  THEN RemoveAt(chats, CHOOSE p \in DOMAIN chats : chats[p].id = i) ELSE chats

\* Mutants: the file of the messages is named by the chat's place in the
\* list, from 0; the chat goes from memory alone.
RemoveChat_ByPlace(i) ==
  IF i \in IdsIn(LoadChats)
  THEN <<SaveIndex(Without(LoadChats, i)),
         DeleteFile(CHOOSE p \in Ids : \/ p < Len(LoadChats) /\ LoadChats[p + 1].id = i
                                      \/ LoadChats[1].id = i)>>
  ELSE <<>>
RemoveChat_Nothing(i) == <<>>

\* Mutant: the messages of the chat are left on disk.
RemoveChat_KeepFile(i) == IF i \in IdsIn(LoadChats) THEN <<SaveIndex(Without(LoadChats, i))>> ELSE <<>>

\* removeChat works on the file: the index first, the messages after it.
RemoveChat(i) == IF i \in IdsIn(LoadChats)
                 THEN <<SaveIndex(Without(LoadChats, i)), DeleteFile(i)>> ELSE <<>>

\* deleteChat removes the object the dialog holds from the list: a list read
\* again since has other objects, and keeps the chat.
ConfirmDelete ==
  /\ Idle
  /\ dialog # NoChat
  /\ dialog' = NoChat
  /\ todo' = RemoveChat(dialog.id)
  /\ list' = IF reloaded THEN list ELSE Without(list, dialog.id)
  /\ inChat' = (inChat /\ current.id # dialog.id /\ list' # <<>>)
  /\ deleted' = deleted \cup {dialog.conv}
  /\ upset' = [upset EXCEPT !.mixed = @ \/ dialog.id \in live, !.stale = @ \/ reloaded]
  /\ UNCHANGED <<shown, current, reloaded, live, disk, counters, saved, torn>>

\* onResume reads the list again; a rotation creates the screen again.
Resume ==
  /\ Idle
  /\ list' = LoadChats
  /\ \/ /\ reloaded' = (dialog # NoChat)
        /\ inChat' = (inChat /\ list' # <<>>)
        /\ UNCHANGED <<current, dialog>>
     \/ /\ inChat' = FALSE
        /\ current' = NoChat
        /\ dialog' = NoChat
        /\ reloaded' = FALSE
  /\ UNCHANGED <<shown, live, disk, todo, counters, history>>

-----------------------------------------------------------------------------
(* The files. *)

Put(i, state, chats, convs) ==
  IF i = 0 THEN index' = [state |-> state, chats |-> chats] /\ UNCHANGED files
  ELSE files' = [files EXCEPT ![i] = [state |-> state, convs |-> convs]] /\ UNCHANGED index

\* new FileWriter truncates the file.
Truncate ==
  /\ todo # <<>>
  /\ Head(todo).op = "write"
  /\ Put(Head(todo).id, "empty", <<>>, {})
  /\ todo' = <<[Head(todo) EXCEPT !.op = "fill"]>> \o Tail(todo)
  /\ UNCHANGED <<memory, counters, history>>

\* write and close: the data is there.
Fill ==
  /\ todo # <<>>
  /\ LET w == Head(todo) IN
       /\ w.op = "fill"
       /\ Put(w.id, "ok", w.chats, w.convs)
       /\ saved' = saved \cup w.convs
  /\ todo' = Tail(todo)
  /\ UNCHANGED <<memory, counters, deleted, torn, upset>>

\* What a write that ends half-way leaves of the file.
HalfWritten(i) == \E s \in {"empty", "garbled"} : Put(i, s, <<>>, {})

\* The write throws, and is given up: the handler goes on.
WriteFails ==
  /\ todo # <<>>
  /\ Head(todo).op = "fill"
  /\ faults < MaxFaults
  /\ faults' = faults + 1
  /\ HalfWritten(Head(todo).id)
  /\ torn' = torn \cup {Head(todo).id}
  /\ todo' = Tail(todo)
  /\ UNCHANGED <<memory, created, sends, deaths, saved, deleted, upset>>

Delete ==
  /\ todo # <<>>
  /\ Head(todo).op = "delete"
  /\ Put(Head(todo).id, Missing, <<>>, {})
  /\ todo' = Tail(todo)
  /\ UNCHANGED <<memory, counters, history>>

\* The process dies, wherever it is (or as it opens an empty file), and is
\* started again: memory is what the files say.
Die ==
  /\ deaths < MaxDeaths
  /\ deaths' = deaths + 1
  /\ IF todo # <<>> /\ Head(todo).op = "fill"
     THEN HalfWritten(Head(todo).id) /\ torn' = torn \cup {Head(todo).id}
     ELSE UNCHANGED <<disk, torn>>
  /\ upset' = [upset EXCEPT !.half = @ \/ \E i \in DOMAIN todo : todo[i].op = "delete"]
  /\ list' = IF index'.state = "ok" THEN index'.chats ELSE <<>>
  /\ shown' = {}
  /\ current' = NoChat
  /\ inChat' = FALSE
  /\ dialog' = NoChat
  /\ reloaded' = FALSE
  /\ live' = {}
  /\ todo' = <<>>
  /\ UNCHANGED <<created, sends, faults, saved, deleted>>

User == \/ NewChat \/ Send \/ CancelDelete \/ ConfirmDelete \/ Resume
        \/ \E c \in Range(list) : Select(c) \/ AskDelete(c)

Next == \/ User \/ \E i \in live : Finalize(i)
        \/ Truncate \/ Fill \/ WriteFails \/ Delete \/ Die

Spec == Init /\ [][Next]_vars

-----------------------------------------------------------------------------
(* Properties *)

TypeOK ==
  /\ index.state \in {Missing, "empty", "garbled", "ok"}
  /\ \A i \in DOMAIN index.chats : index.chats[i] \in Chat
  /\ files \in [Ids -> [state : {Missing, "empty", "garbled", "ok"}, convs : SUBSET Ids]]
  /\ \A i \in DOMAIN list : list[i] \in Chat
  /\ shown \subseteq Ids
  /\ current \in Chat \cup {NoChat}
  /\ inChat \in BOOLEAN
  /\ dialog \in Chat \cup {NoChat}
  /\ reloaded \in BOOLEAN
  /\ live \subseteq Ids
  /\ \A i \in DOMAIN todo : todo[i].op \in {"write", "fill", "delete"}
  /\ created \in 0..MaxChats /\ sends \in 0..MaxSends
  /\ deaths \in 0..MaxDeaths /\ faults \in 0..MaxFaults

\* No two chats of the list, or of chats.json, have an id in common.
IdsDistinct ==
  /\ Cardinality(IdsIn(list)) = Len(list)
  /\ Cardinality(IdsIn(LoadChats)) = Len(LoadChats)

\* With the main thread idle, the list is what chats.json says, whatever was
\* created and deleted and whenever the process died, unless a write failed
\* or a chat was deleted from a dialog older than the list.
ListIsIndex == Idle /\ faults = 0 /\ ~upset.stale => list = LoadChats

\* An open chat shows messages of its own conversation alone, though its id
\* may have been another chat's; unless an answer was being generated as its
\* chat was left or deleted, the index was torn, a deletion stopped half-way
\* or an old dialog confirmed.
OpensOwn == inChat /\ ~upset.mixed /\ ~upset.half /\ ~upset.stale /\ 0 \notin torn
              => shown \subseteq {current.conv}

\* What was saved of a listed chat, not deleted, stays in its file through any
\* deaths that do not catch that file, or the index, being written.
SavedSurvives == Idle /\ ~upset.mixed /\ 0 \notin torn =>
  \A c \in Range(LoadChats) : c.conv \in saved \ deleted /\ c.id \notin torn
     => files[c.id].state = "ok" /\ c.conv \in files[c.id].convs

\* A chat the user deleted does not come back, unless the process died or the
\* disk failed at it, or the dialog was older than the list.
DeletedGone == Idle /\ ~upset.half /\ ~upset.stale /\ faults = 0 =>
  \A c \in Range(list) \cup Range(LoadChats) : c.conv \notin deleted
=============================================================================
