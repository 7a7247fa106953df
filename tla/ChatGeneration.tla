---------------------------- MODULE ChatGeneration ----------------------------
(***************************************************************************)
(* One answer after another in ChatViewModel: the user sends, a collector   *)
(* on a pool thread receives tokens and posts a runnable per token to the   *)
(* main looper, the runnables build the answer, and finalizeGeneration      *)
(* shows, speaks and saves it.  The fields stopGeneration and               *)
(* fullResponseBuffer are shared by every generation; tokenCount and the    *)
(* message object belong to one.                                            *)
(* A text is a sequence of letters, which stand for characters up to case;  *)
(* a letter of Wide is one that toLowerCase turns into two characters.      *)
(***************************************************************************)
EXTENDS Naturals, Sequences, FiniteSets

CONSTANTS
  Letters,    \* the characters, up to case
  Wide,       \* those that are two in lower case (U+0130)
  Stops,      \* STOP_TOKENS, in the order listed
  Chats,      \* the user's chats
  MaxTokens,  \* prefs.getMaxResponseTokens()
  MaxGens,    \* bound: generations the user starts
  MaxEmit,    \* bound: tokens the engine emits for one
  Texts       \* bound: the texts its first, second ... token may have

ASSUME ChatGenAssumption == /\ Chats # {}
                            /\ MaxTokens \in Nat \ {0}
                            /\ MaxGens \in Nat
                            /\ MaxEmit \in Nat
ASSUME TextAssumption ==
  /\ Texts \in [1 .. MaxEmit -> SUBSET Seq(Letters)]
  /\ Stops \in Seq(Seq(Letters \ Wide) \ {<<>>})

VARIABLES
  gen,         \* generations started so far
  chatOf,      \* the chatId each generation was started with
  source,      \* the collector of each: "idle", "flow", "read" or "over"
  sent,        \* tokens the engine has emitted for each
  hand,        \* the token a collector is about to post
  looper,      \* the runnables posted to the main looper
  count,       \* tokenCount of each
  stop,        \* stopGeneration
  buffer,      \* fullResponseBuffer
  content,     \* the content of each generation's aiMsg object
  generating,  \* isGenerating
  sendEnabled, \* btnSend.isEnabled()
  shown,       \* currentChatId
  messages,    \* the list in the messages LiveData
  files,       \* chat_<id>.json
  finished,    \* times finishedResponse was set by each generation's runnables
  alive,       \* the process runs
  parts,       \* history: the tokens in the buffer
  mixed,       \* history: the list was replaced while a generation was live
  ambiguous    \* history: the generations cut where the code cannot be sure

engineVars == <<source, sent, hand>>
answerVars == <<count, stop, buffer, content, parts, ambiguous, alive>>
uiVars == <<generating, sendEnabled, shown, messages, files, finished>>
vars == <<gen, chatOf, source, sent, hand, looper, count, stop, buffer,
          content, generating, sendEnabled, shown, messages, files,
          finished, alive, parts, mixed, ambiguous>>

Gens == 1..MaxGens
Text == Seq(Letters)
NoToken == [gen |-> 0, n |-> 0, tok |-> <<>>]
Tokens == [gen : Gens, n : 1..MaxEmit, tok : Text]

\* The text contains s from its i-th letter on.
Occurs(text, s, i) == /\ i + Len(s) <= Len(text) + 1
                      /\ \A k \in 1 .. Len(s) : text[i + k - 1] = s[k]
Contains(text, s) == \E i \in 1 .. Len(text) : Occurs(text, s, i)
HasStop(text) == \E k \in DOMAIN Stops : Contains(text, Stops[k])
Least(S) == CHOOSE x \in S : \A y \in S : x <= y

-----------------------------------------------------------------------------
Init == /\ gen = 0
        /\ chatOf \in [Gens -> {CHOOSE c \in Chats : TRUE}]
        /\ source = [g \in Gens |-> "idle"]
        /\ sent = [g \in Gens |-> 0]
        /\ hand = [g \in Gens |-> NoToken]
        /\ looper = <<>>
        /\ count = [g \in Gens |-> 0]
        /\ stop = FALSE
        /\ buffer = <<>>
        /\ content = [g \in Gens |-> <<>>]
        /\ generating = FALSE
        /\ sendEnabled = TRUE
        /\ shown \in Chats
        /\ messages = <<>>
        /\ files = [c \in Chats |-> <<>>]
        /\ finished = [g \in Gens |-> 0]
        /\ alive = TRUE
        /\ parts = <<>>
        /\ mixed = FALSE
        /\ ambiguous = {}

\* The observer of isGenerating sets the button.
Observed(isGen) == ~isGen

\* A generation that can still touch the fields: its collector receives
\* tokens or a runnable of its is queued.
Live(g) == \/ source[g] \in {"flow", "read"}
           \/ \E i \in DOMAIN looper : looper[i].gen = g

\* The send button: a message for the user, an empty one for the answer,
\* a fresh buffer, and a new collector.  The button is the only guard.
SendMessage ==
  LET g == gen + 1 IN
  /\ sendEnabled
  /\ gen < MaxGens
  /\ gen' = g
  /\ chatOf' = [chatOf EXCEPT ![g] = shown]
  /\ messages' = Append(messages, [gen |-> g, live |-> TRUE, text |-> <<>>])
  /\ generating' = TRUE
  /\ sendEnabled' = Observed(TRUE)
  /\ buffer' = <<>>
  /\ parts' = <<>>
  /\ stop' = FALSE
  /\ source' = [source EXCEPT ![g] = "flow"]
  /\ UNCHANGED <<sent, hand, looper, count, content, shown, files, finished, mixed,
                 ambiguous, alive>>

\* The collector receives a token and reads stopGeneration: it drops the
\* token, or goes on to post it.  The field is not volatile, but a post and
\* the looper's poll share the queue's lock, so a stale read lasts one token:
\* it is the read that comes before Handle and the Post that comes after it.
Receive(g) ==
  /\ source[g] = "flow"
  /\ sent[g] < MaxEmit
  /\ sent' = [sent EXCEPT ![g] = @ + 1]
  /\ \E t \in Texts[sent[g] + 1] :
       IF stop
       THEN UNCHANGED <<source, hand>>
       ELSE /\ source' = [source EXCEPT ![g] = "read"]
            /\ hand' = [hand EXCEPT ![g] = [gen |-> g, n |-> sent[g] + 1, tok |-> t]]
  /\ UNCHANGED <<gen, chatOf, looper, answerVars, uiVars, mixed>>

Post(g) ==
  /\ source[g] = "read"
  /\ looper' = Append(looper, hand[g])
  /\ source' = [source EXCEPT ![g] = "flow"]
  /\ hand' = [hand EXCEPT ![g] = NoToken]
  /\ UNCHANGED <<gen, chatOf, sent, answerVars, uiVars, mixed>>

\* The flow completes: end of generation, length limit, or no model.  No one
\* is told.
FlowEnds(g) ==
  /\ source[g] = "flow"
  /\ source' = [source EXCEPT ![g] = "over"]
  /\ UNCHANGED <<gen, chatOf, sent, hand, looper, answerVars, uiVars, mixed>>

\* saveMessages: what the shown list holds, each message as it reads now.
Snapshot(texts) ==
  [i \in DOMAIN messages |->
     [gen |-> messages[i].gen,
      text |-> IF messages[i].live THEN texts[messages[i].gen]
               ELSE messages[i].text]]

\* The list shown is written to the file of the generation's chat.
Finalize(g) ==
  /\ generating' = FALSE
  /\ sendEnabled' = Observed(FALSE)
  /\ finished' = [finished EXCEPT ![g] = @ + 1]
  /\ files' = [files EXCEPT ![chatOf[g]] = Snapshot(content')]
  /\ UNCHANGED <<shown, messages>>

\* Mutant: one token more than the limit.
OverLimit_Late(n) == n > MaxTokens + 1

OverLimit(n) == n > MaxTokens

\* Mutant: only the token itself is searched for a stop sequence.
Completes_TokenOnly(buf, token) == {k \in DOMAIN Stops : Contains(token, Stops[k])}

\* The listed stop sequences in the buffer and the token together.
Completes(buf, token) == {k \in DOMAIN Stops : Contains(buf \o token, Stops[k])}

\* currentFull is cut for the first one listed, where that begins: at its index
\* in the lower-cased text, in which every wide letter before it counts twice.
Start(text, found) ==
  Least({i \in 1 .. Len(text) : Occurs(text, Stops[Least(found)], i)})
WideBefore(text, i) == {k \in 1 .. i - 1 : text[k] \in Wide}
CutLength(text, found) ==
  LET i == Start(text, found) IN i - 1 + Cardinality(WideBefore(text, i))
Cleaned(text, found) == SubSeq(text, 1, CutLength(text, found))

\* Another stop sequence may come before the one cut for, or the index is off.
Ambiguous(text, found) == \/ \E k, m \in found : k # m
                          \/ WideBefore(text, Start(text, found)) # {}

\* The runnable finds a stop sequence.  An index beyond the text makes substring
\* throw, which ends the process.
StopsAt(g, text, found) ==
  /\ stop' = TRUE
  /\ ambiguous' = IF Ambiguous(text, found) THEN ambiguous \cup {g} ELSE ambiguous
  /\ UNCHANGED <<buffer, parts>>
  /\ \/ /\ CutLength(text, found) <= Len(text)
        /\ content' = [content EXCEPT ![g] = Cleaned(text, found)]
        /\ Finalize(g)
        /\ UNCHANGED alive
     \/ /\ CutLength(text, found) > Len(text)
        /\ alive' = FALSE
        /\ UNCHANGED <<content, uiVars>>

Rest == Tail(looper)

\* The main looper runs the runnable at its head.
Handle ==
  /\ looper # <<>>
  /\ LET e == Head(looper)
         g == e.gen
         found == Completes(buffer, e.tok)
     IN  /\ looper' = Rest
         /\ count' = [count EXCEPT ![g] = @ + 1]
         /\ \/ /\ OverLimit(count[g] + 1)
               /\ stop' = TRUE
               /\ UNCHANGED <<buffer, parts, content, ambiguous, alive>>
               /\ Finalize(g)
            \/ /\ ~OverLimit(count[g] + 1)
               /\ found # {}
               /\ StopsAt(g, buffer \o e.tok, found)
            \/ /\ ~OverLimit(count[g] + 1)
               /\ found = {}
               /\ buffer' = buffer \o e.tok
               /\ parts' = Append(parts, e)
               /\ content' = [content EXCEPT ![g] = buffer']
               /\ UNCHANGED <<stop, uiVars, ambiguous, alive>>
  /\ UNCHANGED <<gen, chatOf, engineVars, mixed>>

\* Mutants: loadMessages forgotten, or it loads nothing.
LoadMessages_Kept(c) == messages
LoadMessages_Empty(c) == <<>>

\* New message objects, as the file has them.
LoadMessages(c) ==
  [i \in DOMAIN files[c] |->
     [gen |-> files[c][i].gen, live |-> FALSE, text |-> files[c][i].text]]

\* A chat is picked in the drawer: its messages replace the list, whatever
\* is being generated.
SelectChat(c) ==
  /\ shown' = c
  /\ messages' = LoadMessages(c)
  /\ mixed' = (mixed \/ \E g \in Gens : Live(g))
  /\ UNCHANGED <<gen, chatOf, engineVars, looper, answerVars, generating,
                 sendEnabled, files, finished>>

\* onResume, with a model loaded, enables the button whatever goes on (a
\* voice input or the model screen comes back while an answer is typed).
ResumeActivity ==
  /\ ~sendEnabled
  /\ sendEnabled' = TRUE
  /\ UNCHANGED <<gen, chatOf, engineVars, looper, answerVars, generating,
                 shown, messages, files, finished, mixed>>

Collector(g) == Receive(g) \/ Post(g) \/ FlowEnds(g)

Next == /\ alive
        /\ \/ SendMessage \/ Handle \/ ResumeActivity
           \/ \E g \in Gens : Collector(g)
           \/ \E c \in Chats : SelectChat(c)

Spec == Init /\ [][Next]_vars

-----------------------------------------------------------------------------
(* Properties *)

TypeOK ==
  /\ gen \in 0..MaxGens
  /\ chatOf \in [Gens -> Chats]
  /\ source \in [Gens -> {"idle", "flow", "read", "over"}]
  /\ sent \in [Gens -> 0..MaxEmit]
  /\ hand \in [Gens -> Tokens \cup {NoToken}]
  /\ \A i \in DOMAIN looper : looper[i] \in Tokens
  /\ count \in [Gens -> 0..MaxEmit]
  /\ stop \in BOOLEAN
  /\ buffer \in Text
  /\ content \in [Gens -> Text]
  /\ generating \in BOOLEAN
  /\ sendEnabled \in BOOLEAN
  /\ shown \in Chats
  /\ \A i \in DOMAIN messages : messages[i].gen \in 1..gen
  /\ \A c \in Chats : \A i \in DOMAIN files[c] : files[c][i].gen \in 1..gen
  /\ finished \in [Gens -> 0..MaxEmit]
  /\ alive \in BOOLEAN
  /\ parts \in Seq(Tokens)
  /\ mixed \in BOOLEAN
  /\ ambiguous \subseteq Gens

\* No answer, shown or saved, contains a whole stop sequence, however it was cut
\* into tokens and whichever generations fed it, but those that were cut while
\* two listed sequences were in the text, or behind a letter that is two in lower
\* case: there the code leaves one, or throws.
StopSequenceHidden ==
  /\ \A g \in Gens \ ambiguous : ~HasStop(content[g])
  /\ \A c \in Chats : \A i \in DOMAIN files[c] :
       files[c][i].gen \notin ambiguous => ~HasStop(files[c][i].text)

\* A generation puts at most maxTokens of its tokens in an answer, and they
\* are there in the order the engine emitted them.
OwnTokensOrdered == \A g \in Gens :
  LET own == {i \in DOMAIN parts : parts[i].gen = g} IN
  /\ Cardinality(own) <= MaxTokens
  /\ \A i, k \in own : i < k => parts[i].n < parts[k].n

\* A file holds answers of its own chat's questions alone, unless the list
\* was replaced while a generation was live.
SavedBelongs == ~mixed =>
  \A c \in Chats : \A i \in DOMAIN files[c] : chatOf[files[c][i].gen] = c

\* With the same proviso, an answer that was finished is in its chat's file
\* and stays there, however many answers are finished after it.
FinishedIsSaved == ~mixed =>
  \A g \in Gens : finished[g] > 0 =>
    \E i \in DOMAIN files[chatOf[g]] : files[chatOf[g]][i].gen = g

\* "Safety Limit" (ChatViewModel.java:123): no answer is longer than maxTokens.
SafetyLimit == Len(parts) <= MaxTokens
=============================================================================
