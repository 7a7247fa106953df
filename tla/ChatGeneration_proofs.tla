------------------------- MODULE ChatGeneration_proofs -------------------------
(***************************************************************************)
(* For any chats, stop sequences, token limit, generations and tokens: no    *)
(* answer has a whole stop sequence but where the cut is ambiguous, no       *)
(* generation puts in more than its limit or out of order, and, while the    *)
(* list is not replaced under a generation, files hold their own chat's      *)
(* answers and keep them.                                                    *)
(***************************************************************************)
EXTENDS ChatGeneration, FiniteSetTheorems, SequenceTheorems, WellFoundedInduction, TLAPS

Messages == [gen : Gens, live : BOOLEAN, text : Text]
Entries == [gen : Gens, text : Text]

Types ==
  /\ gen \in 0 .. MaxGens
  /\ chatOf \in [Gens -> Chats]
  /\ source \in [Gens -> {"idle", "flow", "read", "over"}]
  /\ sent \in [Gens -> 0 .. MaxEmit]
  /\ \A g \in Gens : source[g] = "read" =>
       hand[g] \in Tokens /\ hand[g].gen = g /\ hand[g].n = sent[g]
  /\ hand = [g \in Gens |-> hand[g]]
  /\ looper \in Seq(Tokens)
  /\ count \in [Gens -> Nat]
  /\ buffer \in Text
  /\ parts \in Seq(Tokens)
  /\ content \in [Gens -> Text]
  /\ shown \in Chats
  /\ messages \in Seq(Messages)
  /\ files \in [Chats -> Seq(Entries)]
  /\ finished \in [Gens -> Nat]
  /\ mixed \in BOOLEAN

-----------------------------------------------------------------------------
LEMMA Bounds == /\ MaxTokens \in Nat /\ MaxTokens >= 1 /\ MaxGens \in Nat /\ MaxEmit \in Nat
                /\ Gens = 1 .. MaxGens /\ Chats # {}
  BY ChatGenAssumption DEF Gens

\* What the main looper does with the runnable at its head.
Counts(e) ==
  /\ looper # <<>> /\ e = Head(looper)
  /\ looper' = Tail(looper)
  /\ count' = [count EXCEPT ![e.gen] = count[e.gen] + 1]
  /\ UNCHANGED <<gen, chatOf, source, sent, hand, shown, messages, mixed>>

Saves(g) == /\ finished' = [finished EXCEPT ![g] = finished[g] + 1]
            /\ files' = [files EXCEPT ![chatOf[g]] = Snapshot(content')]

\* The answer ends, cut or as it is; the token goes in; or the process dies.
Ends(e) == /\ Counts(e) /\ Saves(e.gen) /\ UNCHANGED <<buffer, parts>>
           /\ ambiguous \subseteq ambiguous'
           /\ \/ content' = content
              \/ LET text == buffer \o e.tok
                     found == Completes(buffer, e.tok)
                 IN  /\ found # {} /\ CutLength(text, found) <= Len(text)
                     /\ content' = [content EXCEPT ![e.gen] = Cleaned(text, found)]
                     /\ Ambiguous(text, found) => e.gen \in ambiguous'

Extends(e) == /\ Counts(e) /\ ~(count[e.gen] + 1 > MaxTokens)
              /\ Completes(buffer, e.tok) = {}
              /\ buffer' = buffer \o e.tok
              /\ parts' = Append(parts, e)
              /\ content' = [content EXCEPT ![e.gen] = buffer']
              /\ UNCHANGED <<finished, files, ambiguous>>

Dies(e) == /\ Counts(e) /\ ambiguous \subseteq ambiguous'
           /\ UNCHANGED <<buffer, parts, content, finished, files>>

Handles(e) == Ends(e) \/ Extends(e) \/ Dies(e)

LEMMA HandleCases ==
  ASSUME Handle
  PROVE  Handles(Head(looper))
<1> DEFINE e == Head(looper)
           text == buffer \o e.tok
           found == Completes(buffer, e.tok)
<1>1. Counts(e)
  BY DEF Handle, StopsAt, Counts, Rest, engineVars, Finalize, uiVars
<1>2. CASE /\ OverLimit(count[e.gen] + 1) /\ UNCHANGED <<buffer, parts, content, ambiguous>>
           /\ Finalize(e.gen)
  BY <1>1, <1>2 DEF Handles, Ends, Saves, Finalize
<1>3. CASE found # {} /\ StopsAt(e.gen, text, found)
  <2>1. /\ UNCHANGED <<buffer, parts>>
        /\ ambiguous' = IF Ambiguous(text, found) THEN ambiguous \cup {e.gen} ELSE ambiguous
    BY <1>3 DEF StopsAt
  <2>2. CASE /\ CutLength(text, found) <= Len(text)
             /\ content' = [content EXCEPT ![e.gen] = Cleaned(text, found)]
             /\ Finalize(e.gen)
    BY <1>1, <1>3, <2>1, <2>2 DEF Handles, Ends, Saves, Finalize
  <2>3. CASE UNCHANGED <<content, uiVars>>
    BY <1>1, <2>1, <2>3 DEF Handles, Dies, uiVars
  <2> QED
    BY <1>3, <2>2, <2>3 DEF StopsAt
<1>4. CASE /\ ~OverLimit(count[e.gen] + 1) /\ found = {}
           /\ buffer' = text /\ parts' = Append(parts, e)
           /\ content' = [content EXCEPT ![e.gen] = buffer']
           /\ UNCHANGED <<uiVars, ambiguous>>
  BY <1>1, <1>4 DEF Handles, Extends, OverLimit, uiVars
<1> QED
  BY <1>2, <1>3, <1>4 DEF Handle

\* Appending, and taking the head off.
LEMMA Grown ==
  ASSUME NEW S, NEW s \in Seq(S), NEW x \in S
  PROVE  /\ Append(s, x) \in Seq(S) /\ Len(Append(s, x)) = Len(s) + 1 /\ Len(s) \in Nat
         /\ \A i \in 1 .. Len(s) : Append(s, x)[i] = s[i]
         /\ Append(s, x)[Len(s) + 1] = x
         /\ \A i \in 1 .. Len(s) : s[i] \in S
         /\ DOMAIN s = 1 .. Len(s) /\ DOMAIN Append(s, x) = 1 .. Len(s) + 1
<1>1. Append(s, x) \in Seq(S)
  BY AppendProperties
<1> QED
  BY <1>1, AppendProperties, LenProperties, ElementOfSeq

LEMMA Taken ==
  ASSUME NEW S, NEW s \in Seq(S), s # <<>>
  PROVE  /\ Tail(s) \in Seq(S) /\ Head(s) \in S /\ Head(s) = s[1]
         /\ Len(s) \in Nat /\ Len(s) >= 1 /\ Len(Tail(s)) = Len(s) - 1
         /\ DOMAIN s = 1 .. Len(s) /\ DOMAIN Tail(s) = 1 .. Len(s) - 1
         /\ \A i \in 1 .. Len(s) - 1 : Tail(s)[i] = s[i + 1]
         /\ \A i \in 1 .. Len(s) : s[i] \in S
<1>1. Tail(s) \in Seq(S)
  BY HeadTailProperties
<1>2. Len(s) \in Nat /\ Len(s) >= 1
  BY EmptySeq
<1> QED
  BY <1>1, <1>2, HeadTailProperties, LenProperties, ElementOfSeq

\* A sequence built element by element.
LEMMA SnapshotTyped ==
  ASSUME messages \in Seq(Messages), NEW texts \in [Gens -> Text]
  PROVE  /\ Snapshot(texts) \in Seq(Entries)
         /\ DOMAIN Snapshot(texts) = 1 .. Len(messages)
         /\ \A i \in 1 .. Len(messages) :
              /\ Snapshot(texts)[i].gen = messages[i].gen
              /\ \/ Snapshot(texts)[i].text = texts[messages[i].gen]
                 \/ /\ ~messages[i].live
                    /\ Snapshot(texts)[i].text = messages[i].text
<1>1. DOMAIN messages = 1 .. Len(messages) /\ Len(messages) \in Nat
  BY LenProperties
<1>2. \A i \in 1 .. Len(messages) : messages[i] \in Messages
  BY ElementOfSeq
<1>3. Snapshot(texts) \in [1 .. Len(messages) -> Entries]
  BY <1>1, <1>2 DEF Snapshot, Messages, Entries
<1>4. Snapshot(texts) \in Seq(Entries)
  BY <1>1, <1>3, SeqDef
<1> QED
  BY <1>1, <1>2, <1>4 DEF Snapshot, Messages

LEMMA LoadTyped ==
  ASSUME files \in [Chats -> Seq(Entries)], NEW c \in Chats
  PROVE  /\ LoadMessages(c) \in Seq(Messages)
         /\ DOMAIN LoadMessages(c) = DOMAIN files[c]
         /\ \A i \in DOMAIN files[c] : /\ LoadMessages(c)[i].gen = files[c][i].gen
                                       /\ LoadMessages(c)[i].text = files[c][i].text
                                       /\ files[c][i] \in Entries
<1>1. DOMAIN files[c] = 1 .. Len(files[c]) /\ Len(files[c]) \in Nat
  BY LenProperties
<1>2. \A i \in 1 .. Len(files[c]) : files[c][i] \in Entries
  BY ElementOfSeq
<1>3. LoadMessages(c) \in [1 .. Len(files[c]) -> Messages]
  BY <1>1, <1>2 DEF LoadMessages, Messages, Entries
<1>4. LoadMessages(c) \in Seq(Messages)
  BY <1>1, <1>3, SeqDef
<1> QED
  BY <1>1, <1>2, <1>4 DEF LoadMessages

LEMMA NewMessage ==
  ASSUME gen < MaxGens, gen \in 0 .. MaxGens
  PROVE  gen + 1 \in Gens /\ [gen |-> gen + 1, live |-> TRUE, text |-> <<>>] \in Messages
<1>1. <<>> \in Text
  BY EmptySeq DEF Text
<1> QED
  BY <1>1, Bounds DEF Messages

\* A set of naturals has a least one.
LEMMA LeastOf ==
  ASSUME NEW S, S \subseteq Nat, S # {}
  PROVE  Least(S) \in S /\ \A m \in S : Least(S) <= m
<1> DEFINE R == OpToRel(<, Nat)
<1>1. IsWellFoundedOn(R, Nat)
  BY NatLessThanWellFounded
<1>2. \A m, n \in Nat : m < n => <<m, n>> \in R
  BY DEF OpToRel
<1> HIDE DEF R
<1>3. PICK n \in S : \A m \in S : ~(<<m, n>> \in R)
  BY <1>1, WFMin
<1>4. \A m \in S : ~(m < n)
  BY <1>2, <1>3
<1>5. \A m \in S : n <= m
  BY <1>4
<1> QED
  BY <1>5 DEF Least

LEMMA StopTyped == /\ DOMAIN Stops \subseteq Nat
                   /\ \A k \in DOMAIN Stops : Stops[k] \in Text /\ Len(Stops[k]) \in Nat
<1>1. /\ Stops \in Seq(Seq(Letters \ Wide) \ {<<>>})
      /\ DOMAIN Stops = 1 .. Len(Stops) /\ Len(Stops) \in Nat
  BY TextAssumption, LenProperties
<1>2. \A k \in DOMAIN Stops : Stops[k] \in Seq(Letters \ Wide)
  BY <1>1, ElementOfSeq
<1>3. Seq(Letters \ Wide) \subseteq Text
  <2>1. Letters \ Wide \subseteq Letters
    OBVIOUS
  <2> QED
    BY <2>1, SeqMonotonic DEF Text
<1> QED
  BY <1>1, <1>2, <1>3, LenProperties

\* What a text that has a stop sequence is cut to.
LEMMA Cut ==
  ASSUME NEW text \in Text, NEW found, found # {},
         found = {k \in DOMAIN Stops : Contains(text, Stops[k])}
  PROVE  /\ Least(found) \in found
         /\ Start(text, found) \in 1 .. Len(text) /\ Len(text) \in Nat
         /\ \A i \in 1 .. Len(text) :
              Occurs(text, Stops[Least(found)], i) => Start(text, found) <= i
         /\ CutLength(text, found) \in Nat
         /\ WideBefore(text, Start(text, found)) = {} =>
              CutLength(text, found) = Start(text, found) - 1
<1>1. Least(found) \in found /\ Len(text) \in Nat
  BY StopTyped, LeastOf, LenProperties DEF Text
<1> DEFINE I == {i \in 1 .. Len(text) : Occurs(text, Stops[Least(found)], i)}
<1>2. I # {} /\ I \subseteq Nat
  BY <1>1 DEF Contains
<1>3. Least(I) \in I /\ \A i \in I : Least(I) <= i
  <2> HIDE DEF I
  <2> QED
    BY <1>2, LeastOf
<1>4. Start(text, found) = Least(I)
  BY DEF Start
<1> HIDE DEF I
<1> DEFINE W == WideBefore(text, Start(text, found))
<1>5. Start(text, found) \in 1 .. Len(text) /\ Start(text, found) - 1 \in Nat
  BY <1>1, <1>3, <1>4 DEF I
<1>6. IsFiniteSet(1 .. Start(text, found) - 1) /\ W \subseteq 1 .. Start(text, found) - 1
  BY <1>5, FS_Interval DEF WideBefore
<1> HIDE DEF W
<1>7. IsFiniteSet(W)
  BY <1>6, FS_Subset
<1>8. Cardinality(W) \in Nat /\ (W = {} => Cardinality(W) = 0)
  BY <1>7, FS_CardinalityType, FS_EmptySet
<1>9. CutLength(text, found) = Start(text, found) - 1 + Cardinality(W)
  BY DEF CutLength, W
<1>10. \A i \in 1 .. Len(text) :
         Occurs(text, Stops[Least(found)], i) => Start(text, found) <= i
  BY <1>3, <1>4 DEF I
<1>11. /\ CutLength(text, found) \in Nat
       /\ W = {} => CutLength(text, found) = Start(text, found) - 1
  BY <1>5, <1>8, <1>9
<1> QED
  BY <1>1, <1>5, <1>10, <1>11 DEF W

LEMMA CleanedTyped ==
  ASSUME NEW text \in Text, NEW found, found # {},
         found = {k \in DOMAIN Stops : Contains(text, Stops[k])},
         CutLength(text, found) <= Len(text)
  PROVE  /\ Cleaned(text, found) \in Text
         /\ Len(Cleaned(text, found)) = CutLength(text, found)
         /\ \A i \in 1 .. CutLength(text, found) : Cleaned(text, found)[i] = text[i]
<1>1. PICK m \in Nat : m = CutLength(text, found)
  BY Cut
<1>2. Len(text) \in Nat /\ m <= Len(text) /\ text \in Seq(Letters)
  BY <1>1, Cut DEF Text
<1>3. \A i \in 1 .. m : text[i] \in Letters
  BY <1>2, ElementOfSeq
<1>4. /\ SubSeq(text, 1, m) \in Seq(Letters)
      /\ Len(SubSeq(text, 1, m)) = IF 1 <= m THEN m - 1 + 1 ELSE 0
      /\ \A i \in 1 .. m - 1 + 1 : SubSeq(text, 1, m)[i] = text[1 + i - 1]
  BY <1>2, <1>3, SubSeqProperties
<1>5. /\ Len(SubSeq(text, 1, m)) = m
      /\ \A i \in 1 .. m : SubSeq(text, 1, m)[i] = text[i]
  <2>1. m - 1 + 1 = m /\ \A i \in 1 .. m : 1 + i - 1 = i
    OBVIOUS
  <2> QED
    BY <1>4, <2>1
<1> QED
  BY <1>1, <1>4, <1>5 DEF Cleaned, Text
-----------------------------------------------------------------------------
(* Types *)

LEMMA TypesInit == Init => Types
<1> SUFFICES ASSUME Init PROVE Types
  OBVIOUS
<1>1. /\ <<>> \in Seq(Tokens) /\ <<>> \in Seq(Messages) /\ <<>> \in Seq(Entries)
      /\ <<>> \in Text
  BY EmptySeq DEF Text
<1>2. chatOf \in [Gens -> Chats]
  BY Bounds DEF Init
<1>3. /\ gen = 0 /\ source = [g \in Gens |-> "idle"] /\ sent = [g \in Gens |-> 0]
      /\ looper = <<>> /\ count = [g \in Gens |-> 0] /\ buffer = <<>> /\ parts = <<>>
      /\ content = [g \in Gens |-> <<>>] /\ shown \in Chats /\ messages = <<>>
      /\ files = [c \in Chats |-> <<>>] /\ finished = [g \in Gens |-> 0] /\ mixed = FALSE
      /\ hand = [g \in Gens |-> NoToken]
  BY DEF Init
<1>4. hand = [g \in Gens |-> hand[g]]
  BY <1>3
<1>5. /\ gen \in 0 .. MaxGens /\ sent \in [Gens -> 0 .. MaxEmit]
      /\ source \in [Gens -> {"idle", "flow", "read", "over"}]
      /\ \A g \in Gens : source[g] # "read"
  BY <1>3, Bounds
<1>6. /\ looper \in Seq(Tokens) /\ buffer \in Text /\ parts \in Seq(Tokens)
      /\ messages \in Seq(Messages)
      /\ content \in [Gens -> Text] /\ files \in [Chats -> Seq(Entries)]
  BY <1>1, <1>3
<1> QED
  BY <1>2, <1>3, <1>4, <1>5, <1>6 DEF Types

LEMMA HandleTypes ==
  ASSUME Types, NEW e, Handles(e)
  PROVE  Types' /\ e \in Tokens /\ e.gen \in Gens
<1>1. /\ looper \in Seq(Tokens) /\ looper # <<>> /\ e = Head(looper) /\ looper' = Tail(looper)
      /\ count' = [count EXCEPT ![e.gen] = count[e.gen] + 1]
      /\ UNCHANGED <<gen, chatOf, source, sent, hand, shown, messages, mixed>>
  <2>1. Counts(e)
    BY DEF Handles, Ends, Extends, Dies
  <2>2. looper \in Seq(Tokens)
    BY DEF Types
  <2> QED
    BY <2>1, <2>2 DEF Counts
<1>2. e \in Tokens /\ e.gen \in Gens /\ looper' \in Seq(Tokens)
  <2>1. e \in Tokens /\ looper' \in Seq(Tokens)
    BY <1>1, Taken
  <2> QED
    BY <2>1 DEF Tokens
<1>3. count' \in [Gens -> Nat]
  <2>1. count \in [Gens -> Nat]
    BY DEF Types
  <2> QED
    BY <1>1, <1>2, <2>1
<1>4. e.tok \in Text /\ buffer \in Text /\ buffer \o e.tok \in Text
  <2>1. e.tok \in Text /\ buffer \in Text
    BY <1>2 DEF Tokens, Types
  <2> QED
    BY <2>1, ConcatProperties DEF Text
<1>5. CASE Extends(e)
  <2>1. /\ buffer' = buffer \o e.tok /\ parts' = Append(parts, e)
        /\ content' = [content EXCEPT ![e.gen] = buffer']
        /\ UNCHANGED <<finished, files>>
    BY <1>5 DEF Extends
  <2>2. parts' \in Seq(Tokens)
    BY <2>1, <1>2, Grown DEF Types
  <2>3. content' \in [Gens -> Text]
    BY <1>4, <2>1 DEF Types
  <2> QED
    BY <1>1, <1>2, <1>3, <1>4, <2>1, <2>2, <2>3 DEF Types
<1>6. CASE Ends(e)
  <2>1. /\ buffer' = buffer /\ parts' = parts
        /\ finished' = [finished EXCEPT ![e.gen] = finished[e.gen] + 1]
        /\ files' = [files EXCEPT ![chatOf[e.gen]] = Snapshot(content')]
    BY <1>6 DEF Ends, Saves
  <2>2. content' \in [Gens -> Text]
    <3>1. CASE content' = content
      BY <3>1 DEF Types
    <3>2. CASE content' # content
      <4>1. PICK text, found :
              /\ text = buffer \o e.tok /\ found = Completes(buffer, e.tok) /\ found # {}
              /\ CutLength(text, found) <= Len(text)
              /\ content' = [content EXCEPT ![e.gen] = Cleaned(text, found)]
        BY <1>6, <3>2 DEF Ends
      <4>2. Cleaned(text, found) \in Text
        BY <1>4, <4>1, CleanedTyped DEF Completes
      <4> QED
        BY <4>1, <4>2 DEF Types
    <3> QED
      BY <3>1, <3>2
  <2>3. Snapshot(content') \in Seq(Entries)
    BY <2>2, SnapshotTyped DEF Types
  <2>4. files' \in [Chats -> Seq(Entries)] /\ finished' \in [Gens -> Nat]
    <3>1. files \in [Chats -> Seq(Entries)] /\ finished \in [Gens -> Nat]
      BY DEF Types
    <3>2. files' \in [Chats -> Seq(Entries)]
      BY <2>1, <2>3, <3>1
    <3>3. finished' \in [Gens -> Nat]
      BY <1>2, <2>1, <3>1
    <3> QED
      BY <3>2, <3>3
  <2>5. parts' \in Seq(Tokens)
    BY <2>1 DEF Types
  <2> QED
    BY <1>1, <1>2, <1>3, <1>4, <2>1, <2>2, <2>4, <2>5 DEF Types
<1>7. CASE Dies(e)
  <2>1. UNCHANGED <<buffer, parts, content, finished, files>>
    BY <1>7 DEF Dies
  <2> QED
    BY <1>1, <1>2, <1>3, <2>1 DEF Types
<1> QED
  BY <1>2, <1>5, <1>6, <1>7 DEF Handles

LEMMA TypesNext == Types /\ [Next]_vars => Types'
<1> SUFFICES ASSUME Types, [Next]_vars PROVE Types'
  OBVIOUS
<1> USE Bounds
<1>1. CASE SendMessage
  <2>1. /\ gen < MaxGens /\ gen' = gen + 1
        /\ chatOf' = [chatOf EXCEPT ![gen + 1] = shown]
        /\ messages' = Append(messages, [gen |-> gen + 1, live |-> TRUE, text |-> <<>>])
        /\ buffer' = <<>> /\ parts' = <<>>
        /\ source' = [source EXCEPT ![gen + 1] = "flow"]
        /\ UNCHANGED <<sent, hand, looper, count, content, shown, files, finished, mixed>>
    BY <1>1 DEF SendMessage
  <2>2. /\ gen + 1 \in Gens /\ gen' \in 0 .. MaxGens
        /\ [gen |-> gen + 1, live |-> TRUE, text |-> <<>>] \in Messages
    BY <2>1, NewMessage DEF Types
  <2>3. messages' \in Seq(Messages)
    BY <2>1, <2>2, Grown DEF Types
  <2>4. <<>> \in Seq(Tokens) /\ <<>> \in Text
    BY EmptySeq DEF Text
  <2>5. chatOf' \in [Gens -> Chats]
    BY <2>1 DEF Types
  <2>6. /\ source' \in [Gens -> {"idle", "flow", "read", "over"}]
        /\ \A g \in Gens : source'[g] = "read" => source[g] = "read"
    BY <2>1 DEF Types
  <2> QED
    BY <2>1, <2>2, <2>3, <2>4, <2>5, <2>6 DEF Types
<1>2. CASE Handle
  BY <1>2, HandleCases, HandleTypes
<1>3. CASE ResumeActivity
  BY <1>3 DEF ResumeActivity, engineVars, answerVars, Types
<1>4. ASSUME NEW g \in Gens, Receive(g)
      PROVE  Types'
  <2>1. /\ source[g] = "flow" /\ sent[g] < MaxEmit
        /\ sent' = [sent EXCEPT ![g] = sent[g] + 1]
        /\ UNCHANGED <<gen, chatOf, looper, count, buffer, parts, content, shown, messages, files,
                       finished, mixed>>
    BY <1>4 DEF Receive, answerVars, uiVars
  <2>2. PICK t \in Texts[sent[g] + 1] :
          \/ UNCHANGED <<source, hand>>
          \/ /\ source' = [source EXCEPT ![g] = "read"]
             /\ hand' = [hand EXCEPT ![g] = [gen |-> g, n |-> sent[g] + 1, tok |-> t]]
    BY <1>4 DEF Receive
  <2>3. /\ sent' \in [Gens -> 0 .. MaxEmit] /\ sent'[g] = sent[g] + 1 /\ sent[g] + 1 \in 1 .. MaxEmit
        /\ \A h \in Gens \ {g} : sent'[h] = sent[h]
    <3>1. sent \in [Gens -> 0 .. MaxEmit]
      BY DEF Types
    <3>2. sent[g] \in 0 .. MaxEmit /\ sent[g] + 1 \in 1 .. MaxEmit
      BY <2>1, <3>1
    <3> QED
      BY <2>1, <3>1, <3>2
  <2>4. CASE UNCHANGED <<source, hand>>
    <3>1. \A h \in Gens : source'[h] = "read" => h # g
      BY <2>1, <2>4
    <3> QED
      BY <2>1, <2>3, <2>4, <3>1 DEF Types
  <2>5. CASE /\ source' = [source EXCEPT ![g] = "read"]
             /\ hand' = [hand EXCEPT ![g] = [gen |-> g, n |-> sent[g] + 1, tok |-> t]]
    <3>1. [gen |-> g, n |-> sent[g] + 1, tok |-> t] \in Tokens
      BY <2>3, TextAssumption DEF Tokens, Text
    <3>2. /\ source' \in [Gens -> {"idle", "flow", "read", "over"}]
          /\ hand' = [h \in Gens |-> hand'[h]]
          /\ hand'[g] = [gen |-> g, n |-> sent[g] + 1, tok |-> t]
          /\ \A h \in Gens \ {g} : source'[h] = source[h] /\ hand'[h] = hand[h]
      BY <2>5 DEF Types
    <3>3. \A h \in Gens : source'[h] = "read" =>
            hand'[h] \in Tokens /\ hand'[h].gen = h /\ hand'[h].n = sent'[h]
      <4>1. \A h \in Gens \ {g} : source'[h] = "read" =>
              hand'[h] \in Tokens /\ hand'[h].gen = h /\ hand'[h].n = sent'[h]
        BY <2>3, <3>2 DEF Types
      <4>2. hand'[g] \in Tokens /\ hand'[g].gen = g /\ hand'[g].n = sent'[g]
        BY <2>3, <3>1, <3>2
      <4> QED
        BY <4>1, <4>2
    <3> QED
      BY <2>1, <2>3, <3>2, <3>3 DEF Types
  <2> QED
    BY <2>2, <2>4, <2>5
<1>5. ASSUME NEW g \in Gens, Post(g) \/ FlowEnds(g)
      PROVE  Types'
  <2>1. /\ UNCHANGED <<gen, chatOf, sent, count, buffer, parts, content, shown, messages, files,
                       finished, mixed>>
        /\ \E s \in {"flow", "over"} : source' = [source EXCEPT ![g] = s]
        /\ hand' = hand \/ hand' = [hand EXCEPT ![g] = NoToken]
        /\ \/ looper' = looper
           \/ source[g] = "read" /\ looper' = Append(looper, hand[g])
    BY <1>5 DEF Post, FlowEnds, answerVars, uiVars
  <2>2. looper' \in Seq(Tokens)
    <3>1. source[g] = "read" => hand[g] \in Tokens
      BY DEF Types
    <3>2. looper \in Seq(Tokens)
      BY DEF Types
    <3>3. CASE source[g] = "read" /\ looper' = Append(looper, hand[g])
      BY <3>1, <3>2, <3>3, Grown
    <3> QED
      BY <2>1, <3>2, <3>3
  <2>3. /\ source' \in [Gens -> {"idle", "flow", "read", "over"}]
        /\ source'[g] # "read"
        /\ hand' = [h \in Gens |-> hand'[h]]
        /\ \A h \in Gens \ {g} : source'[h] = source[h] /\ hand'[h] = hand[h]
    <3>1. /\ source \in [Gens -> {"idle", "flow", "read", "over"}]
          /\ hand = [h \in Gens |-> hand[h]]
      BY DEF Types
    <3>2. /\ hand' = [h \in Gens |-> hand'[h]]
          /\ \A h \in Gens \ {g} : hand'[h] = hand[h]
      <4>1. CASE hand' = hand
        BY <3>1, <4>1
      <4>2. CASE hand' = [hand EXCEPT ![g] = NoToken]
        BY <3>1, <4>2
      <4> QED
        BY <2>1, <4>1, <4>2
    <3>3. PICK v \in {"flow", "over"} : source' = [source EXCEPT ![g] = v]
      BY <2>1
    <3>4. /\ source' \in [Gens -> {"idle", "flow", "read", "over"}]
          /\ source'[g] = v /\ v # "read"
          /\ \A h \in Gens \ {g} : source'[h] = source[h]
      BY <3>1, <3>3
    <3> QED
      BY <3>2, <3>4
  <2>4. \A h \in Gens : source'[h] = "read" =>
          hand'[h] \in Tokens /\ hand'[h].gen = h /\ hand'[h].n = sent'[h]
    <3>1. \A h \in Gens : source[h] = "read" =>
            hand[h] \in Tokens /\ hand[h].gen = h /\ hand[h].n = sent[h]
      BY DEF Types
    <3>2. sent' = sent
      BY <2>1
    <3> QED
      BY <2>3, <3>1, <3>2
  <2> QED
    BY <2>1, <2>2, <2>3, <2>4 DEF Types
<1>6. ASSUME NEW c \in Chats, SelectChat(c)
      PROVE  Types'
  <2>1. /\ shown' = c /\ messages' = LoadMessages(c) /\ mixed' \in BOOLEAN
        /\ UNCHANGED <<gen, chatOf, source, sent, hand, looper, count, buffer, parts, content,
                       files, finished>>
    BY <1>6 DEF SelectChat, engineVars, answerVars, Types
  <2>2. messages' \in Seq(Messages)
    BY <2>1, LoadTyped DEF Types
  <2> QED
    BY <2>1, <2>2 DEF Types
<1>7. CASE UNCHANGED vars
  BY <1>7 DEF vars, Types
<1> QED
  BY <1>1, <1>2, <1>3, <1>4, <1>5, <1>6, <1>7 DEF Next, Collector
-----------------------------------------------------------------------------
(* No whole stop sequence *)

LEMMA NothingYet == ~HasStop(<<>>)
<1>1. Len(<<>>) = 0
  BY EmptySeq
<1> QED
  BY <1>1 DEF HasStop, Contains

\* A text cut for the only stop sequence it has, with no wide letter before it,
\* has none left.
LEMMA CleanedHides ==
  ASSUME NEW text \in Text, NEW found, found # {},
         found = {k \in DOMAIN Stops : Contains(text, Stops[k])},
         CutLength(text, found) <= Len(text), ~Ambiguous(text, found)
  PROVE  ~HasStop(Cleaned(text, found))
<1> DEFINE cut == Cleaned(text, found)
           len == CutLength(text, found)
           start == Start(text, found)
<1>1. /\ cut \in Text /\ Len(cut) = len /\ len \in Nat /\ Len(text) \in Nat /\ len <= Len(text)
      /\ \A i \in 1 .. len : cut[i] = text[i]
  BY CleanedTyped, Cut
<1>2. /\ len = start - 1 /\ start \in Nat /\ Least(found) \in found
      /\ \A i \in 1 .. Len(text) : Occurs(text, Stops[Least(found)], i) => start <= i
      /\ \A k, m \in found : k = m
  <2>1. WideBefore(text, start) = {} /\ \A k, m \in found : k = m
    BY DEF Ambiguous
  <2>2. /\ Least(found) \in found /\ start \in 1 .. Len(text) /\ Len(text) \in Nat
        /\ \A i \in 1 .. Len(text) : Occurs(text, Stops[Least(found)], i) => start <= i
        /\ WideBefore(text, start) = {} => len = start - 1
    BY Cut
  <2> HIDE DEF len, start
  <2> QED
    BY <2>1, <2>2
<1> HIDE DEF cut, len, start
<1>3. SUFFICES ASSUME NEW k \in DOMAIN Stops, NEW i \in 1 .. Len(cut), Occurs(cut, Stops[k], i)
               PROVE  FALSE
  BY DEF HasStop, Contains, cut
<1>4. Len(Stops[k]) \in Nat
  BY StopTyped
<1>5. /\ i \in 1 .. Len(text) /\ i \in Nat /\ i >= 1 /\ i <= len
      /\ i + Len(Stops[k]) <= len + 1
      /\ \A m \in 1 .. Len(Stops[k]) : cut[i + m - 1] = Stops[k][m]
  BY <1>1, <1>3 DEF Occurs
<1>6. \A m \in 1 .. Len(Stops[k]) : i + m - 1 \in 1 .. len
  BY <1>1, <1>4, <1>5
<1>7. Occurs(text, Stops[k], i)
  BY <1>1, <1>4, <1>5, <1>6 DEF Occurs
<1>8. k \in found
  BY <1>5, <1>7 DEF Contains
<1>9. k = Least(found)
  BY <1>2, <1>8
<1> QED
  BY <1>2, <1>5, <1>7, <1>9

\* Every text there is: those shown, and those saved.
StopFree ==
  /\ \A g \in Gens \ ambiguous : ~HasStop(content[g])
  /\ \A i \in DOMAIN messages : messages[i].gen \notin ambiguous => ~HasStop(messages[i].text)
  /\ \A c \in Chats : \A i \in DOMAIN files[c] :
       files[c][i].gen \notin ambiguous => ~HasStop(files[c][i].text)

LEMMA StopFreeInit == Init => StopFree
<1> SUFFICES ASSUME Init PROVE StopFree
  OBVIOUS
<1>1. DOMAIN <<>> = {}
  BY EmptySeq
<1>2. content = [g \in Gens |-> <<>>] /\ messages = <<>> /\ files = [c \in Chats |-> <<>>]
  BY DEF Init
<1> QED
  BY <1>1, <1>2, NothingYet DEF StopFree

LEMMA SnapshotHides ==
  ASSUME Types, NEW texts \in [Gens -> Text], NEW spared,
         \A g \in Gens : g \notin spared => ~HasStop(texts[g]),
         \A i \in DOMAIN messages : messages[i].gen \notin spared => ~HasStop(messages[i].text)
  PROVE  \A i \in DOMAIN Snapshot(texts) :
           Snapshot(texts)[i].gen \notin spared => ~HasStop(Snapshot(texts)[i].text)
<1>1. messages \in Seq(Messages)
  BY DEF Types
<1>2. DOMAIN messages = 1 .. Len(messages) /\ \A i \in 1 .. Len(messages) : messages[i] \in Messages
  BY <1>1, LenProperties, ElementOfSeq
<1>3. \A i \in 1 .. Len(messages) : messages[i].gen \in Gens
  BY <1>2 DEF Messages
<1>4. /\ DOMAIN Snapshot(texts) = 1 .. Len(messages)
      /\ \A i \in 1 .. Len(messages) :
           /\ Snapshot(texts)[i].gen = messages[i].gen
           /\ \/ Snapshot(texts)[i].text = texts[messages[i].gen]
              \/ Snapshot(texts)[i].text = messages[i].text
  BY <1>1, SnapshotTyped
<1> QED
  BY <1>2, <1>3, <1>4

LEMMA StopFreeNext == Types /\ StopFree /\ [Next]_vars => StopFree'
<1> SUFFICES ASSUME Types, StopFree, [Next]_vars PROVE StopFree'
  OBVIOUS
<1>1. CASE SendMessage
  <2>1. /\ messages' = Append(messages, [gen |-> gen + 1, live |-> TRUE, text |-> <<>>])
        /\ gen < MaxGens
        /\ UNCHANGED <<content, files, ambiguous>>
    BY <1>1 DEF SendMessage
  <2>2. [gen |-> gen + 1, live |-> TRUE, text |-> <<>>] \in Messages /\ messages \in Seq(Messages)
    BY <2>1, NewMessage DEF Types
  <2>3. /\ DOMAIN messages = 1 .. Len(messages) /\ Len(messages) \in Nat
        /\ DOMAIN messages' = 1 .. Len(messages) + 1
        /\ \A i \in 1 .. Len(messages) : messages'[i] = messages[i]
        /\ messages'[Len(messages) + 1] = [gen |-> gen + 1, live |-> TRUE, text |-> <<>>]
    BY <2>1, <2>2, Grown
  <2>4. \A i \in DOMAIN messages' : i \in DOMAIN messages \/ i = Len(messages) + 1
    BY <2>3
  <2>5. \A i \in DOMAIN messages' : messages'[i].gen \notin ambiguous => ~HasStop(messages'[i].text)
    BY <2>3, <2>4, NothingYet DEF StopFree
  <2> QED
    BY <2>1, <2>5, NothingYet DEF StopFree
<1>2. CASE Handle
  <2>1. PICK e : Handles(e)
    BY <1>2, HandleCases
  <2>2. e \in Tokens /\ e.gen \in Gens /\ Types'
    BY <2>1, HandleTypes
  <2>3. messages' = messages /\ ambiguous \subseteq ambiguous'
    BY <2>1 DEF Handles, Ends, Extends, Dies, Counts
  <2>4. ASSUME \A g \in Gens : g \notin ambiguous' => ~HasStop(content'[g]),
               \/ files' = files
               \/ files' = [files EXCEPT ![chatOf[e.gen]] = Snapshot(content')]
        PROVE  StopFree'
    <3>1. \A i \in DOMAIN messages : messages[i].gen \notin ambiguous' => ~HasStop(messages[i].text)
      BY <2>3 DEF StopFree
    <3>2. content' \in [Gens -> Text]
      BY <2>2 DEF Types
    <3>3. \A i \in DOMAIN Snapshot(content') : Snapshot(content')[i].gen \notin ambiguous' =>
            ~HasStop(Snapshot(content')[i].text)
      BY <2>4, <3>1, <3>2, SnapshotHides
    <3>4. \A c \in Chats : files'[c] = files[c] \/ files'[c] = Snapshot(content')
      BY <2>4 DEF Types
    <3>5. \A c \in Chats : \A i \in DOMAIN files'[c] :
            files'[c][i].gen \notin ambiguous' => ~HasStop(files'[c][i].text)
      BY <2>3, <3>3, <3>4 DEF StopFree
    <3> QED
      BY <2>3, <2>4, <3>1, <3>5 DEF StopFree
  <2>5. buffer \o e.tok \in Text
    <3>1. e.tok \in Text /\ buffer \in Text
      BY <2>2 DEF Tokens, Types
    <3> QED
      BY <3>1, ConcatProperties DEF Text
  <2>6. CASE Extends(e)
    <3>1. /\ Completes(buffer, e.tok) = {} /\ buffer' = buffer \o e.tok /\ files' = files
          /\ content' = [content EXCEPT ![e.gen] = buffer'] /\ ambiguous' = ambiguous
      BY <2>6 DEF Extends
    <3>2. ~HasStop(buffer')
      BY <3>1 DEF Completes, HasStop
    <3> QED
      BY <2>2, <2>4, <3>1, <3>2 DEF Types, StopFree
  <2>7. CASE Dies(e)
    BY <2>3, <2>4, <2>7 DEF Dies, StopFree
  <2>8. CASE Ends(e)
    <3>1. files' = [files EXCEPT ![chatOf[e.gen]] = Snapshot(content')]
      BY <2>8 DEF Ends, Saves
    <3>2. CASE content' = content
      BY <2>3, <2>4, <3>1, <3>2 DEF StopFree
    <3>3. CASE content' # content
      <4>1. PICK text, found :
              /\ text = buffer \o e.tok /\ found = Completes(buffer, e.tok) /\ found # {}
              /\ CutLength(text, found) <= Len(text)
              /\ content' = [content EXCEPT ![e.gen] = Cleaned(text, found)]
              /\ Ambiguous(text, found) => e.gen \in ambiguous'
        BY <2>8, <3>3 DEF Ends
      <4>2. e.gen \notin ambiguous' => ~HasStop(Cleaned(text, found))
        BY <2>5, <4>1, CleanedHides DEF Completes
      <4>3. \A g \in Gens : content'[g] = IF g = e.gen THEN Cleaned(text, found) ELSE content[g]
        BY <4>1 DEF Types
      <4>4. \A g \in Gens : g \notin ambiguous' => ~HasStop(content'[g])
        BY <2>3, <4>2, <4>3 DEF StopFree
      <4> QED
        BY <2>4, <3>1, <4>4
    <3> QED
      BY <3>2, <3>3
  <2> QED
    BY <2>1, <2>6, <2>7, <2>8 DEF Handles
<1>3. CASE ResumeActivity
  BY <1>3 DEF ResumeActivity, answerVars, StopFree
<1>4. ASSUME NEW g \in Gens, Collector(g)
      PROVE  StopFree'
  BY <1>4 DEF Collector, Receive, Post, FlowEnds, answerVars, uiVars, StopFree
<1>5. ASSUME NEW c \in Chats, SelectChat(c)
      PROVE  StopFree'
  <2>1. messages' = LoadMessages(c) /\ UNCHANGED <<content, files, ambiguous>>
    BY <1>5 DEF SelectChat, answerVars
  <2>2. /\ DOMAIN messages' = DOMAIN files[c]
        /\ \A i \in DOMAIN files[c] : /\ messages'[i].text = files[c][i].text
                                      /\ messages'[i].gen = files[c][i].gen
    BY <2>1, LoadTyped DEF Types
  <2> QED
    BY <2>1, <2>2 DEF StopFree
<1>6. CASE UNCHANGED vars
  BY <1>6 DEF vars, StopFree
<1> QED
  BY <1>1, <1>2, <1>3, <1>4, <1>5, <1>6 DEF Next

\* StopSequenceHidden for any stop sequences, generations, chats and tokens: one
\* completed by another generation's token is cut too, and none is left where the
\* text had no other and no wide letter came before it.
THEOREM Hidden == Spec => []StopSequenceHidden
<1>1. StopFree => StopSequenceHidden
  BY DEF StopFree, StopSequenceHidden
<1> QED
  BY <1>1, TypesInit, TypesNext, StopFreeInit, StopFreeNext, PTL DEF Spec
-----------------------------------------------------------------------------
(* The order and the number of a generation's tokens *)

Before(t, u) == t.gen = u.gen => t.n < u.n

\* The tokens emitted so far, before the one their collector holds.
Emitted == {t \in Tokens : /\ t.n <= sent[t.gen]
                           /\ source[t.gen] = "read" => t.n < sent[t.gen]}

Own(s, g) == {i \in DOMAIN s : s[i].gen = g}

\* In one line: the answer being built, the looper, the token in hand.
Order ==
  /\ \A i \in DOMAIN parts : parts[i] \in Emitted
  /\ \A i \in DOMAIN looper : looper[i] \in Emitted
  /\ \A i, k \in DOMAIN parts : i < k => Before(parts[i], parts[k])
  /\ \A i, k \in DOMAIN looper : i < k => Before(looper[i], looper[k])
  /\ \A i \in DOMAIN parts : \A k \in DOMAIN looper : Before(parts[i], looper[k])
  /\ \A g \in Gens : /\ IsFiniteSet(Own(parts, g))
                     /\ Cardinality(Own(parts, g)) <= count[g]
                     /\ Cardinality(Own(parts, g)) <= MaxTokens

\* An empty answer has nothing to put in order.
LEMMA OrderEmpty ==
  ASSUME NEW s, s = <<>>, NEW g
  PROVE  DOMAIN s = {} /\ IsFiniteSet(Own(s, g)) /\ Cardinality(Own(s, g)) = 0
<1>1. DOMAIN s = {}
  BY EmptySeq
<1>2. Own(s, g) = {}
  BY <1>1 DEF Own
<1> QED
  BY <1>1, <1>2, FS_EmptySet

LEMMA OrderInit == Init => Order
<1> SUFFICES ASSUME Init PROVE Order
  OBVIOUS
<1>1. parts = <<>> /\ looper = <<>> /\ count = [g \in Gens |-> 0]
  BY DEF Init
<1>2. DOMAIN parts = {} /\ DOMAIN looper = {}
  BY <1>1, EmptySeq
<1>3. \A g \in Gens : /\ IsFiniteSet(Own(parts, g)) /\ Cardinality(Own(parts, g)) = 0
  BY <1>1, OrderEmpty
<1> QED
  BY <1>1, <1>2, <1>3, Bounds DEF Order

\* The collector of one generation moves: what was emitted stays so.
LEMMA CollectorEmits ==
  ASSUME Types, NEW g \in Gens, Collector(g), NEW t \in Emitted
  PROVE  t \in Emitted'
<1>1. t.gen \in Gens /\ t.n \in Nat /\ sent[t.gen] \in Nat /\ sent[g] \in Nat
  <2>1. t \in Tokens
    BY DEF Emitted
  <2> QED
    BY <2>1, Bounds DEF Tokens, Types
<1>2. CASE Receive(g)
  <2>1. /\ sent' = [sent EXCEPT ![g] = sent[g] + 1]
        /\ source' = source \/ source' = [source EXCEPT ![g] = "read"]
        /\ source[g] = "flow"
    BY <1>2 DEF Receive
  <2>2. CASE t.gen = g
    <3>1. sent'[t.gen] = sent[t.gen] + 1
      BY <1>1, <2>1, <2>2 DEF Types
    <3>2. t.n <= sent[t.gen]
      BY DEF Emitted
    <3> QED
      BY <1>1, <3>1, <3>2 DEF Emitted
  <2>3. CASE t.gen # g
    BY <1>1, <2>1, <2>3 DEF Emitted, Types
  <2> QED
    BY <2>2, <2>3
<1>3. CASE Post(g) \/ FlowEnds(g)
  <2>1. /\ sent' = sent
        /\ \E s \in {"flow", "over"} : source' = [source EXCEPT ![g] = s]
    BY <1>3 DEF Post, FlowEnds
  <2>2. source'[t.gen] = "read" => source[t.gen] = "read"
    BY <1>1, <2>1 DEF Types
  <2> QED
    BY <2>1, <2>2 DEF Emitted
<1> QED
  BY <1>2, <1>3 DEF Collector

\* A posted token is one the engine emitted, after all its generation's others.
LEMMA PostEmits ==
  ASSUME Types, NEW g \in Gens, Post(g), NEW e, e = hand[g]
  PROVE  e \in Emitted' /\ e \in Tokens
<1>1. /\ e \in Tokens /\ e.gen = g /\ e.n = sent[g] /\ sent[g] \in Nat
      /\ sent' = sent /\ source' = [source EXCEPT ![g] = "flow"]
  <2>1. source[g] = "read" /\ sent' = sent /\ source' = [source EXCEPT ![g] = "flow"]
    BY DEF Post
  <2>2. e \in Tokens /\ e.gen = g /\ e.n = sent[g]
    BY <2>1 DEF Types
  <2>3. sent[g] \in Nat
    BY Bounds DEF Types
  <2> QED
    BY <2>1, <2>2, <2>3
<1>2. source'[g] = "flow"
  BY <1>1 DEF Types
<1> QED
  BY <1>1, <1>2 DEF Emitted

LEMMA PostComesLast ==
  ASSUME Types, NEW g \in Gens, Post(g), NEW t \in Emitted
  PROVE  Before(t, hand[g])
<1>1. source[g] = "read" /\ hand[g].gen = g /\ hand[g].n = sent[g]
  BY DEF Post, Types
<1> QED
  BY <1>1 DEF Before, Emitted

\* A token put at the end, after all that are there.
LEMMA AppendInOrder ==
  ASSUME NEW s \in Seq(Tokens), NEW e \in Tokens,
         \A i, k \in DOMAIN s : i < k => Before(s[i], s[k]),
         \A i \in DOMAIN s : Before(s[i], e)
  PROVE  \A i, k \in DOMAIN Append(s, e) : i < k => Before(Append(s, e)[i], Append(s, e)[k])
<1> DEFINE a == Append(s, e)
<1>1. /\ DOMAIN a = 1 .. Len(s) + 1 /\ DOMAIN s = 1 .. Len(s) /\ Len(s) \in Nat
      /\ a[Len(s) + 1] = e /\ \A i \in 1 .. Len(s) : a[i] = s[i]
  BY Grown
<1>2. SUFFICES ASSUME NEW i \in DOMAIN a, NEW k \in DOMAIN a, i < k
               PROVE  Before(a[i], a[k])
  OBVIOUS
<1>3. i \in 1 .. Len(s)
  BY <1>1, <1>2
<1>4. CASE k = Len(s) + 1
  BY <1>1, <1>3, <1>4
<1>5. CASE k # Len(s) + 1
  <2>1. k \in 1 .. Len(s)
    BY <1>1, <1>5
  <2> QED
    BY <1>1, <1>2, <1>3, <2>1
<1> QED
  BY <1>4, <1>5

\* The head taken off, the rest is in order and after it.
LEMMA TailInOrder ==
  ASSUME NEW s \in Seq(Tokens), s # <<>>,
         \A i, k \in DOMAIN s : i < k => Before(s[i], s[k])
  PROVE  /\ \A i, k \in DOMAIN Tail(s) : i < k => Before(Tail(s)[i], Tail(s)[k])
         /\ \A i \in DOMAIN Tail(s) : Before(Head(s), Tail(s)[i])
         /\ \A i \in DOMAIN Tail(s) : \E k \in DOMAIN s : Tail(s)[i] = s[k]
<1>1. /\ DOMAIN Tail(s) = 1 .. Len(s) - 1 /\ DOMAIN s = 1 .. Len(s) /\ Len(s) \in Nat
      /\ Head(s) = s[1] /\ Len(s) >= 1
      /\ \A i \in 1 .. Len(s) - 1 : Tail(s)[i] = s[i + 1]
  BY Taken
<1>2. \A i \in DOMAIN Tail(s) : i + 1 \in DOMAIN s /\ 1 \in DOMAIN s /\ 1 < i + 1 /\ i \in Int
  BY <1>1
<1>3. \A i, k \in DOMAIN Tail(s) : i < k => i + 1 < k + 1
  BY <1>2
<1>4. \A i, k \in DOMAIN Tail(s) : i < k => Before(Tail(s)[i], Tail(s)[k])
  BY <1>1, <1>2, <1>3
<1>5. \A i \in DOMAIN Tail(s) : Before(Head(s), Tail(s)[i])
  BY <1>1, <1>2
<1>6. \A i \in DOMAIN Tail(s) : \E k \in DOMAIN s : Tail(s)[i] = s[k]
  BY <1>1, <1>2
<1> QED
  BY <1>4, <1>5, <1>6

\* One more token is one more of its own generation's.
LEMMA AppendOwn ==
  ASSUME NEW s \in Seq(Tokens), NEW e \in Tokens, NEW g, IsFiniteSet(Own(s, g))
  PROVE  /\ IsFiniteSet(Own(Append(s, e), g))
         /\ Cardinality(Own(s, g)) \in Nat
         /\ e.gen # g => Cardinality(Own(Append(s, e), g)) = Cardinality(Own(s, g))
         /\ Cardinality(Own(Append(s, e), g)) <= Cardinality(Own(s, g)) + 1
<1> DEFINE a == Append(s, e)
<1>1. /\ DOMAIN a = 1 .. Len(s) + 1 /\ DOMAIN s = 1 .. Len(s) /\ Len(s) \in Nat
      /\ a[Len(s) + 1] = e /\ \A i \in 1 .. Len(s) : a[i] = s[i]
  BY Grown
<1>2. Cardinality(Own(s, g)) \in Nat
  BY FS_CardinalityType
<1>3. CASE e.gen = g
  <2>1. Own(a, g) = Own(s, g) \cup {Len(s) + 1} /\ Len(s) + 1 \notin Own(s, g)
    BY <1>1, <1>3 DEF Own
  <2>2. /\ IsFiniteSet(Own(s, g) \cup {Len(s) + 1})
        /\ Cardinality(Own(s, g) \cup {Len(s) + 1}) = Cardinality(Own(s, g)) + 1
    BY <2>1, FS_AddElement
  <2> QED
    BY <1>2, <1>3, <2>1, <2>2
<1>4. CASE e.gen # g
  <2>1. Own(a, g) = Own(s, g)
    BY <1>1, <1>4 DEF Own
  <2> QED
    BY <1>2, <1>4, <2>1
<1> QED
  BY <1>3, <1>4

LEMMA OrderHandle ==
  ASSUME Types, Order, NEW e, Handles(e)
  PROVE  Order'
<1>1. /\ looper \in Seq(Tokens) /\ looper # <<>> /\ e = Head(looper) /\ looper' = Tail(looper)
      /\ count' = [count EXCEPT ![e.gen] = count[e.gen] + 1]
      /\ UNCHANGED <<sent, source>> /\ e \in Tokens /\ e.gen \in Gens
  <2>1. Counts(e)
    BY DEF Handles, Ends, Extends, Dies
  <2>2. looper \in Seq(Tokens)
    BY DEF Types
  <2>3. e \in Tokens /\ e.gen \in Gens
    BY HandleTypes
  <2> QED
    BY <2>1, <2>2, <2>3 DEF Counts
<1>2. \A t \in Emitted : t \in Emitted'
  BY <1>1 DEF Emitted
<1>3. /\ \A i, k \in DOMAIN looper' : i < k => Before(looper'[i], looper'[k])
      /\ \A i \in DOMAIN looper' : Before(e, looper'[i])
      /\ \A i \in DOMAIN looper' : \E k \in DOMAIN looper : looper'[i] = looper[k]
  <2>1. \A i, k \in DOMAIN looper : i < k => Before(looper[i], looper[k])
    BY DEF Order
  <2> QED
    BY <1>1, <2>1, TailInOrder
<1>4. \A i \in DOMAIN looper' : looper'[i] \in Emitted'
  BY <1>2, <1>3 DEF Order, Emitted
<1>5. \A i \in DOMAIN parts : \A k \in DOMAIN looper' : Before(parts[i], looper'[k])
  BY <1>3 DEF Order
<1>6. \A g \in Gens : count'[g] \in Nat /\ count[g] \in Nat /\ count'[g] >= count[g]
  <2>1. count \in [Gens -> Nat]
    BY DEF Types
  <2> QED
    BY <1>1, <2>1
<1>7. CASE Ends(e) \/ Dies(e)
  <2>1. parts' = parts
    BY <1>7 DEF Ends, Dies
  <2>2. \A g \in Gens : /\ IsFiniteSet(Own(parts', g))
                        /\ Cardinality(Own(parts', g)) <= count'[g]
                        /\ Cardinality(Own(parts', g)) <= MaxTokens
    <3>1. \A g \in Gens : IsFiniteSet(Own(parts, g)) => Cardinality(Own(parts, g)) \in Nat
      BY FS_CardinalityType
    <3> QED
      BY <1>6, <2>1, <3>1 DEF Order
  <2>3. \A i \in DOMAIN parts' : parts'[i] \in Emitted'
    BY <1>2, <2>1 DEF Order, Emitted
  <2>4. \A i, k \in DOMAIN parts' : i < k => Before(parts'[i], parts'[k])
    BY <2>1 DEF Order
  <2>5. (\A g \in Gens : /\ IsFiniteSet(Own(parts, g))
                         /\ Cardinality(Own(parts, g)) <= count[g]
                         /\ Cardinality(Own(parts, g)) <= MaxTokens)'
    BY <2>1, <2>2 DEF Own
  <2> QED
    BY <1>3, <1>4, <1>5, <2>1, <2>3, <2>4, <2>5 DEF Order, Before, Emitted
<1>8. CASE Extends(e)
  <2>1. parts' = Append(parts, e) /\ ~(count[e.gen] + 1 > MaxTokens) /\ parts \in Seq(Tokens)
    BY <1>8 DEF Extends, Types
  <2>2. /\ DOMAIN parts' = 1 .. Len(parts) + 1 /\ DOMAIN parts = 1 .. Len(parts)
        /\ Len(parts) \in Nat /\ parts'[Len(parts) + 1] = e
        /\ \A i \in 1 .. Len(parts) : parts'[i] = parts[i]
    BY <1>1, <2>1, Grown
  <2>3. 1 \in DOMAIN looper /\ e = looper[1]
    BY <1>1, Taken
  <2>4. e \in Emitted' /\ \A i \in DOMAIN parts : Before(parts[i], e)
    BY <1>2, <2>3 DEF Order
  <2>5. \A i, k \in DOMAIN parts' : i < k => Before(parts'[i], parts'[k])
    BY <1>1, <2>1, <2>4, AppendInOrder DEF Order
  <2>6. \A i \in DOMAIN parts' : parts'[i] = e \/ \E k \in DOMAIN parts : parts'[i] = parts[k]
    BY <2>2
  <2>7. \A i \in DOMAIN parts' : parts'[i] \in Emitted'
    BY <1>2, <2>4, <2>6 DEF Order, Emitted
  <2>8. \A i \in DOMAIN parts' : \A k \in DOMAIN looper' : Before(parts'[i], looper'[k])
    BY <1>3, <1>5, <2>6
  <2>9. \A g \in Gens : /\ IsFiniteSet(Own(parts', g))
                        /\ Cardinality(Own(parts', g)) <= count'[g]
                        /\ Cardinality(Own(parts', g)) <= MaxTokens
    <3> SUFFICES ASSUME NEW g \in Gens
                 PROVE  /\ IsFiniteSet(Own(parts', g))
                        /\ Cardinality(Own(parts', g)) <= count'[g]
                        /\ Cardinality(Own(parts', g)) <= MaxTokens
      OBVIOUS
    <3>1. /\ IsFiniteSet(Own(parts, g)) /\ Cardinality(Own(parts, g)) <= count[g]
          /\ Cardinality(Own(parts, g)) <= MaxTokens
      BY DEF Order
    <3>2. /\ IsFiniteSet(Own(parts', g)) /\ Cardinality(Own(parts, g)) \in Nat
          /\ e.gen # g => Cardinality(Own(parts', g)) = Cardinality(Own(parts, g))
          /\ Cardinality(Own(parts', g)) <= Cardinality(Own(parts, g)) + 1
      BY <1>1, <2>1, <3>1, AppendOwn
    <3>3. IsFiniteSet(Own(parts', g)) => Cardinality(Own(parts', g)) \in Nat
      BY FS_CardinalityType
    <3>4. CASE e.gen = g
      <4>1. count'[g] = count[g] + 1
        BY <1>1, <3>4 DEF Types
      <4> QED
        BY <1>6, <2>1, <3>1, <3>2, <3>3, <3>4, <4>1, Bounds
    <3>5. CASE e.gen # g
      BY <1>6, <3>1, <3>2, <3>5
    <3> QED
      BY <3>4, <3>5
  <2>10. (\A g \in Gens : /\ IsFiniteSet(Own(parts, g))
                          /\ Cardinality(Own(parts, g)) <= count[g]
                          /\ Cardinality(Own(parts, g)) <= MaxTokens)'
    BY <2>9 DEF Own
  <2> QED
    BY <1>3, <1>4, <2>5, <2>7, <2>8, <2>10 DEF Order, Before, Emitted
<1> QED
  BY <1>7, <1>8 DEF Handles

LEMMA OrderCollector ==
  ASSUME Types, Order, NEW g \in Gens, Collector(g)
  PROVE  Order'
<1>1. /\ UNCHANGED <<parts, count>> /\ looper \in Seq(Tokens) /\ parts \in Seq(Tokens)
      /\ looper' = looper \/ (Post(g) /\ looper' = Append(looper, hand[g]))
  <2>1. UNCHANGED <<parts, count>>
    BY DEF Collector, Receive, Post, FlowEnds, answerVars
  <2>2. Receive(g) \/ FlowEnds(g) => looper' = looper
    BY DEF Receive, FlowEnds
  <2>3. Post(g) => looper' = Append(looper, hand[g])
    BY DEF Post
  <2>4. looper \in Seq(Tokens) /\ parts \in Seq(Tokens)
    BY DEF Types
  <2> QED
    BY <2>1, <2>2, <2>3, <2>4 DEF Collector
<1>2. \A t \in Emitted : t \in Emitted'
  BY CollectorEmits
<1>3. /\ \A i \in DOMAIN parts' : parts'[i] \in Emitted'
      /\ \A i, k \in DOMAIN parts' : i < k => Before(parts'[i], parts'[k])
  BY <1>1, <1>2 DEF Order
<1>4. (\A h \in Gens : /\ IsFiniteSet(Own(parts, h))
                       /\ Cardinality(Own(parts, h)) <= count[h]
                       /\ Cardinality(Own(parts, h)) <= MaxTokens)'
  BY <1>1 DEF Order, Own
<1>5. /\ \A i \in DOMAIN looper' : looper'[i] \in Emitted'
      /\ \A i, k \in DOMAIN looper' : i < k => Before(looper'[i], looper'[k])
      /\ \A i \in DOMAIN parts' : \A k \in DOMAIN looper' : Before(parts'[i], looper'[k])
  <2>1. CASE looper' = looper
    BY <1>1, <1>2, <2>1 DEF Order
  <2>2. CASE Post(g) /\ looper' = Append(looper, hand[g])
    <3>1. PICK e : e = hand[g]
      OBVIOUS
    <3>2. e \in Emitted' /\ e \in Tokens
      BY <2>2, <3>1, PostEmits
    <3>3. \A t \in Emitted : Before(t, e)
      BY <2>2, <3>1, PostComesLast
    <3>4. \A i, k \in DOMAIN looper' : i < k => Before(looper'[i], looper'[k])
      BY <1>1, <2>2, <3>1, <3>2, <3>3, AppendInOrder DEF Order
    <3>5. \A k \in DOMAIN looper' : looper'[k] = e \/ \E m \in DOMAIN looper : looper'[k] = looper[m]
      <4>1. /\ DOMAIN looper' = 1 .. Len(looper) + 1 /\ DOMAIN looper = 1 .. Len(looper)
            /\ looper'[Len(looper) + 1] = e /\ Len(looper) \in Nat
            /\ \A i \in 1 .. Len(looper) : looper'[i] = looper[i]
        BY <1>1, <2>2, <3>1, <3>2, Grown
      <4> QED
        BY <4>1
    <3> QED
      BY <1>1, <1>2, <3>2, <3>3, <3>4, <3>5 DEF Order
  <2> QED
    BY <1>1, <2>1, <2>2
<1> QED
  BY <1>3, <1>4, <1>5 DEF Order, Before

LEMMA OrderNext == Types /\ Order /\ [Next]_vars => Order'
<1> SUFFICES ASSUME Types, Order, [Next]_vars PROVE Order'
  OBVIOUS
<1>1. CASE SendMessage
  <2>1. /\ parts' = <<>> /\ gen \in 0 .. MaxGens /\ gen < MaxGens
        /\ source' = [source EXCEPT ![gen + 1] = "flow"]
        /\ UNCHANGED <<sent, looper, count>>
    BY <1>1 DEF SendMessage, Types
  <2>2. \A t \in Emitted : t \in Emitted'
    <3>1. \A h \in Gens : source'[h] = "read" => source[h] = "read"
      BY <2>1 DEF Types
    <3> QED
      BY <2>1, <3>1 DEF Emitted, Tokens
  <2>3. DOMAIN parts' = {}
    BY <2>1, EmptySeq
  <2>4. (\A g \in Gens : /\ IsFiniteSet(Own(parts, g)) /\ Cardinality(Own(parts, g)) = 0)'
    BY <2>1, OrderEmpty DEF Own
  <2>5. (\A g \in Gens : /\ IsFiniteSet(Own(parts, g))
                         /\ Cardinality(Own(parts, g)) <= count[g]
                         /\ Cardinality(Own(parts, g)) <= MaxTokens)'
    <3>1. \A g \in Gens : count'[g] \in Nat
      BY <2>1 DEF Types
    <3> QED
      BY <2>4, <3>1, Bounds
  <2> QED
    BY <2>1, <2>2, <2>3, <2>5 DEF Order, Before
<1>2. CASE Handle
  BY <1>2, HandleCases, OrderHandle
<1>3. ASSUME NEW g \in Gens, Collector(g)
      PROVE  Order'
  BY <1>3, OrderCollector
<1>4. CASE ResumeActivity \/ (\E c \in Chats : SelectChat(c)) \/ UNCHANGED vars
  <2>1. UNCHANGED <<sent, source, looper, count, parts>>
    BY <1>4 DEF ResumeActivity, SelectChat, vars, engineVars, answerVars
  <2> QED
    BY <2>1 DEF Order, Before, Emitted, Own
<1> QED
  BY <1>1, <1>2, <1>3, <1>4 DEF Next

\* OwnTokensOrdered for any number of generations sharing the answer: the
\* limit counts each one's tokens, and none overtakes another of its own.
THEOREM Ordered == Spec => []OwnTokensOrdered
<1>1. Types /\ Order => OwnTokensOrdered
  <2> SUFFICES ASSUME Types, Order, NEW g \in Gens
               PROVE  /\ Cardinality(Own(parts, g)) <= MaxTokens
                      /\ \A i, k \in Own(parts, g) : i < k => parts[i].n < parts[k].n
    BY DEF OwnTokensOrdered, Own
  <2> QED
    BY DEF Order, Own, Before
<1> QED
  BY <1>1, TypesInit, TypesNext, OrderInit, OrderNext, PTL DEF Spec
-----------------------------------------------------------------------------
(* What the files hold *)

\* Nothing is known of a generation that has not been started.
Unstarted ==
  /\ \A g \in Gens : g > gen => source[g] = "idle" /\ finished[g] = 0
  /\ \A i \in DOMAIN looper : looper[i].gen <= gen
  /\ \A i \in DOMAIN messages : messages[i].gen <= gen
  /\ \A c \in Chats : \A i \in DOMAIN files[c] : files[c][i].gen <= gen

LEMMA UnstartedInit == Init => Unstarted
<1> SUFFICES ASSUME Init PROVE Unstarted
  OBVIOUS
<1>1. looper = <<>> /\ messages = <<>> /\ files = [c \in Chats |-> <<>>]
      /\ source = [g \in Gens |-> "idle"] /\ finished = [g \in Gens |-> 0]
  BY DEF Init
<1>2. DOMAIN <<>> = {}
  BY EmptySeq
<1> QED
  BY <1>1, <1>2 DEF Unstarted

LEMMA UnstartedNext == Types /\ Unstarted /\ [Next]_vars => Unstarted'
<1> SUFFICES ASSUME Types, Unstarted, [Next]_vars PROVE Unstarted'
  OBVIOUS
<1> USE Bounds
<1>0. gen \in 0 .. MaxGens
  BY DEF Types
<1>1. CASE SendMessage
  <2>1. /\ gen < MaxGens /\ gen' = gen + 1
        /\ messages' = Append(messages, [gen |-> gen + 1, live |-> TRUE, text |-> <<>>])
        /\ source' = [source EXCEPT ![gen + 1] = "flow"]
        /\ UNCHANGED <<looper, files, finished>>
    BY <1>1 DEF SendMessage
  <2>2. messages \in Seq(Messages)
        /\ [gen |-> gen + 1, live |-> TRUE, text |-> <<>>] \in Messages
    BY <2>1, NewMessage DEF Types
  <2>3. /\ DOMAIN messages' = 1 .. Len(messages) + 1 /\ DOMAIN messages = 1 .. Len(messages)
        /\ Len(messages) \in Nat /\ messages'[Len(messages) + 1].gen = gen + 1
        /\ \A i \in 1 .. Len(messages) : messages'[i] = messages[i]
        /\ \A i \in 1 .. Len(messages) : messages[i] \in Messages
    BY <2>1, <2>2, Grown
  <2>4. \A i \in DOMAIN messages' : messages'[i].gen <= gen'
    <3>1. \A i \in DOMAIN messages' : i \in DOMAIN messages \/ i = Len(messages) + 1
      BY <2>3
    <3>2. \A i \in DOMAIN messages : messages[i].gen <= gen /\ messages[i].gen \in Int
      BY <2>3 DEF Unstarted, Messages
    <3> QED
      BY <1>0, <2>1, <2>3, <3>1, <3>2
  <2>5. \A g \in Gens : g > gen' => source'[g] = "idle" /\ finished'[g] = 0
    <3>1. \A g \in Gens : g > gen + 1 => g > gen /\ g # gen + 1
      BY <1>0
    <3> QED
      BY <2>1, <3>1 DEF Unstarted, Types
  <2>6. \A i \in DOMAIN looper : looper[i].gen \in Int
    <3>1. \A i \in DOMAIN looper : looper[i] \in Tokens
      BY ElementOfSeq, LenProperties DEF Types
    <3> QED
      BY <3>1 DEF Tokens
  <2>7. \A c \in Chats : \A i \in DOMAIN files[c] : files[c][i].gen \in Int
    <3>1. \A c \in Chats : \A i \in DOMAIN files[c] : files[c][i] \in Entries
      BY LoadTyped DEF Types
    <3> QED
      BY <3>1 DEF Entries
  <2>8. /\ \A i \in DOMAIN looper' : looper'[i].gen <= gen'
        /\ \A c \in Chats : \A i \in DOMAIN files'[c] : files'[c][i].gen <= gen'
    BY <1>0, <2>1, <2>6, <2>7 DEF Unstarted
  <2> QED
    BY <2>4, <2>5, <2>8 DEF Unstarted
<1>2. CASE Handle
  <2>1. PICK e : Handles(e)
    BY <1>2, HandleCases
  <2>2. e \in Tokens /\ e.gen \in Gens /\ Types'
    BY <2>1, HandleTypes
  <2>3. /\ looper \in Seq(Tokens) /\ looper # <<>> /\ e = Head(looper) /\ looper' = Tail(looper)
        /\ UNCHANGED <<gen, source, messages>>
    BY <2>1 DEF Handles, Ends, Extends, Dies, Counts, Types
  <2>4. /\ \A i \in DOMAIN looper' : \E k \in DOMAIN looper : looper'[i] = looper[k]
        /\ \E k \in DOMAIN looper : e = looper[k]
    <3>1. /\ DOMAIN looper' = 1 .. Len(looper) - 1 /\ DOMAIN looper = 1 .. Len(looper)
          /\ Len(looper) \in Nat /\ Len(looper) >= 1 /\ e = looper[1]
          /\ \A i \in 1 .. Len(looper) - 1 : looper'[i] = looper[i + 1]
      BY <2>3, Taken
    <3> QED
      BY <3>1
  <2>5. \A i \in DOMAIN looper' : looper'[i].gen <= gen'
    BY <2>3, <2>4 DEF Unstarted
  <2>6. \A i \in DOMAIN messages' : messages'[i].gen <= gen'
    BY <2>3 DEF Unstarted
  <2>7. e.gen <= gen
    BY <2>4 DEF Unstarted
  <2>8. CASE Extends(e)
    BY <2>3, <2>5, <2>6, <2>8 DEF Extends, Unstarted
  <2>9. CASE Ends(e)
    <3>1. /\ finished' = [finished EXCEPT ![e.gen] = finished[e.gen] + 1]
          /\ files' = [files EXCEPT ![chatOf[e.gen]] = Snapshot(content')]
      BY <2>9 DEF Ends, Saves
    <3>2. \A g \in Gens : g > gen' => source'[g] = "idle" /\ finished'[g] = 0
      <4>1. \A g \in Gens : g > gen => g # e.gen
        BY <1>0, <2>2, <2>7
      <4> QED
        BY <2>3, <3>1, <4>1 DEF Unstarted, Types
    <3>3. \A i \in DOMAIN Snapshot(content') : Snapshot(content')[i].gen <= gen
      <4>1. content' \in [Gens -> Text] /\ messages \in Seq(Messages)
        BY <2>2 DEF Types
      <4>2. /\ DOMAIN Snapshot(content') = 1 .. Len(messages)
            /\ \A i \in 1 .. Len(messages) : Snapshot(content')[i].gen = messages[i].gen
            /\ DOMAIN messages = 1 .. Len(messages)
        BY <4>1, SnapshotTyped, LenProperties
      <4> QED
        BY <4>2 DEF Unstarted
    <3>4. \A c \in Chats : files'[c] = files[c] \/ files'[c] = Snapshot(content')
      BY <3>1 DEF Types
    <3>5. \A c \in Chats : \A i \in DOMAIN files'[c] : files'[c][i].gen <= gen'
      BY <2>3, <3>3, <3>4 DEF Unstarted
    <3> QED
      BY <2>5, <2>6, <3>2, <3>5 DEF Unstarted
  <2>10. CASE Dies(e)
    BY <2>3, <2>5, <2>6, <2>10 DEF Dies, Unstarted
  <2> QED
    BY <2>1, <2>8, <2>9, <2>10 DEF Handles
<1>3. CASE ResumeActivity
  BY <1>3 DEF ResumeActivity, engineVars, answerVars, Unstarted
<1>4. ASSUME NEW g \in Gens, Collector(g)
      PROVE  Unstarted'
  <2>1. UNCHANGED <<gen, finished, messages, files>>
    BY <1>4 DEF Collector, Receive, Post, FlowEnds, uiVars
  <2>2. source[g] # "idle" /\ \A h \in Gens \ {g} : source'[h] = source[h]
    <3>1. /\ source[g] \in {"flow", "read"}
          /\ source' = source \/ \E s : source' = [source EXCEPT ![g] = s]
      BY <1>4 DEF Collector, Receive, Post, FlowEnds
    <3> QED
      BY <3>1 DEF Types
  <2>3. ~(g > gen)
    BY <2>2 DEF Unstarted
  <2>4. \A i \in DOMAIN looper' : looper'[i].gen <= gen
    <3>1. CASE looper' = looper
      BY <3>1 DEF Unstarted
    <3>2. CASE Post(g)
      <4>1. PICK e : e = hand[g]
        OBVIOUS
      <4>2. looper' = Append(looper, e) /\ e \in Tokens /\ e.gen = g /\ looper \in Seq(Tokens)
        BY <3>2, <4>1 DEF Post, Types
      <4>3. /\ DOMAIN looper' = 1 .. Len(looper) + 1 /\ DOMAIN looper = 1 .. Len(looper)
            /\ Len(looper) \in Nat /\ looper'[Len(looper) + 1] = e
            /\ \A i \in 1 .. Len(looper) : looper'[i] = looper[i]
        BY <4>2, Grown
      <4>4. \A i \in DOMAIN looper' : looper'[i] = e \/ (i \in DOMAIN looper /\ looper'[i] = looper[i])
        BY <4>3
      <4>5. g <= gen
        BY <1>0, <2>3
      <4> QED
        BY <4>2, <4>4, <4>5 DEF Unstarted
    <3>3. CASE Receive(g) \/ FlowEnds(g)
      BY <3>1, <3>3 DEF Receive, FlowEnds
    <3> QED
      BY <1>4, <3>2, <3>3 DEF Collector
  <2> QED
    BY <2>1, <2>2, <2>3, <2>4 DEF Unstarted
<1>5. ASSUME NEW c \in Chats, SelectChat(c)
      PROVE  Unstarted'
  <2>1. messages' = LoadMessages(c) /\ UNCHANGED <<gen, source, looper, files, finished>>
    BY <1>5 DEF SelectChat, engineVars
  <2>2. /\ DOMAIN messages' = DOMAIN files[c]
        /\ \A i \in DOMAIN files[c] : messages'[i].gen = files[c][i].gen
    BY <2>1, LoadTyped DEF Types
  <2> QED
    BY <2>1, <2>2 DEF Unstarted
<1>6. CASE UNCHANGED vars
  BY <1>6 DEF vars, Unstarted
<1> QED
  BY <1>1, <1>2, <1>3, <1>4, <1>5, <1>6 DEF Next

HasGen(s, g) == \E i \in DOMAIN s : s[i].gen = g

\* While the list is never replaced under a generation: the list is of the
\* chat shown, a live generation is of it and in it, and what was finished is
\* in its file, and in the list when its chat is shown.
Kept ==
  /\ \A i \in DOMAIN messages : chatOf[messages[i].gen] = shown
  /\ \A g \in Gens : Live(g) => chatOf[g] = shown /\ HasGen(messages, g)
  /\ \A c \in Chats : \A i \in DOMAIN files[c] : chatOf[files[c][i].gen] = c
  /\ \A g \in Gens : finished[g] > 0 => HasGen(files[chatOf[g]], g)
  /\ \A g \in Gens : finished[g] > 0 /\ chatOf[g] = shown => HasGen(messages, g)

LEMMA KeptInit == Init => Kept
<1> SUFFICES ASSUME Init PROVE Kept
  OBVIOUS
<1>1. /\ looper = <<>> /\ messages = <<>> /\ files = [c \in Chats |-> <<>>]
      /\ source = [g \in Gens |-> "idle"] /\ finished = [g \in Gens |-> 0]
  BY DEF Init
<1>2. DOMAIN <<>> = {}
  BY EmptySeq
<1>3. \A g \in Gens : ~Live(g) /\ finished[g] = 0
  BY <1>1, <1>2 DEF Live
<1> QED
  BY <1>1, <1>2, <1>3 DEF Kept

LEMMA KeptSend ==
  ASSUME Types, Unstarted, Kept, SendMessage
  PROVE  Kept'
<1> USE Bounds
<1>1. /\ gen \in 0 .. MaxGens /\ gen < MaxGens /\ gen + 1 \in Gens
      /\ chatOf' = [chatOf EXCEPT ![gen + 1] = shown]
      /\ messages' = Append(messages, [gen |-> gen + 1, live |-> TRUE, text |-> <<>>])
      /\ source' = [source EXCEPT ![gen + 1] = "flow"]
      /\ UNCHANGED <<looper, shown, files, finished>>
  BY NewMessage DEF SendMessage, Types
<1>2. /\ messages \in Seq(Messages)
      /\ [gen |-> gen + 1, live |-> TRUE, text |-> <<>>] \in Messages
  BY <1>1, NewMessage DEF Types
<1>3. /\ DOMAIN messages' = 1 .. Len(messages) + 1 /\ DOMAIN messages = 1 .. Len(messages)
      /\ Len(messages) \in Nat /\ messages'[Len(messages) + 1].gen = gen + 1
      /\ \A i \in 1 .. Len(messages) : messages'[i] = messages[i]
      /\ \A i \in 1 .. Len(messages) : messages[i] \in Messages
  BY <1>1, <1>2, Grown
<1>4. /\ \A i \in DOMAIN messages : i \in DOMAIN messages' /\ messages'[i] = messages[i]
      /\ \A i \in DOMAIN messages' : i \in DOMAIN messages \/ messages'[i].gen = gen + 1
      /\ \E i \in DOMAIN messages' : messages'[i].gen = gen + 1
  BY <1>3
<1>5. /\ chatOf'[gen + 1] = shown
      /\ \A g \in Gens : g <= gen => chatOf'[g] = chatOf[g]
  <2>1. chatOf \in [Gens -> Chats]
    BY DEF Types
  <2>2. \A g \in Gens : g <= gen => g # gen + 1
    BY <1>1
  <2> QED
    BY <1>1, <2>1, <2>2
<1>6. \A i \in DOMAIN messages : messages[i].gen \in Gens /\ messages[i].gen <= gen
  BY <1>3 DEF Unstarted, Messages
<1>7. \A i \in DOMAIN messages' : chatOf'[messages'[i].gen] = shown'
  BY <1>1, <1>4, <1>5, <1>6 DEF Kept
<1>8. \A g \in Gens : HasGen(messages, g) => HasGen(messages', g)
  BY <1>4 DEF HasGen
<1>9. HasGen(messages', gen + 1)
  BY <1>4 DEF HasGen
<1>10. \A g \in Gens : Live(g)' => g = gen + 1 \/ (Live(g) /\ g <= gen)
  <2>1. \A g \in Gens : g # gen + 1 => source'[g] = source[g]
    BY <1>1 DEF Types
  <2>2. \A g \in Gens : Live(g) => g <= gen
    <3> SUFFICES ASSUME NEW g \in Gens, Live(g), g > gen PROVE FALSE
      BY <1>1
    <3>1. source[g] = "idle"
      BY DEF Unstarted
    <3>2. PICK i \in DOMAIN looper : looper[i].gen = g
      BY <3>1 DEF Live
    <3> QED
      BY <1>1, <3>2 DEF Unstarted
  <2> QED
    BY <1>1, <2>1, <2>2 DEF Live
<1>11. \A g \in Gens : Live(g)' => chatOf'[g] = shown' /\ HasGen(messages', g)
  <2> SUFFICES ASSUME NEW g \in Gens, Live(g)'
               PROVE  chatOf'[g] = shown' /\ HasGen(messages', g)
    OBVIOUS
  <2>1. CASE g = gen + 1
    BY <1>1, <1>5, <1>9, <2>1
  <2>2. CASE Live(g) /\ g <= gen
    BY <1>1, <1>5, <1>8, <2>2 DEF Kept
  <2> QED
    BY <1>10, <2>1, <2>2
<1>12. \A c \in Chats : \A i \in DOMAIN files[c] : files[c][i].gen \in Gens /\ files[c][i].gen <= gen
  <2>1. \A c \in Chats : \A i \in DOMAIN files[c] : files[c][i] \in Entries
    BY LoadTyped DEF Types
  <2> QED
    BY <2>1 DEF Unstarted, Entries
<1>13. \A c \in Chats : \A i \in DOMAIN files'[c] : chatOf'[files'[c][i].gen] = c
  BY <1>1, <1>5, <1>12 DEF Kept
<1>14. \A g \in Gens : finished'[g] > 0 => g <= gen /\ finished[g] > 0
  BY <1>1 DEF Unstarted
<1>15. \A g \in Gens : finished'[g] > 0 => HasGen(files'[chatOf'[g]], g)
  BY <1>1, <1>5, <1>14 DEF Kept
<1>16. \A g \in Gens : finished'[g] > 0 /\ chatOf'[g] = shown' => HasGen(messages', g)
  BY <1>1, <1>5, <1>8, <1>14 DEF Kept
<1> QED
  BY <1>7, <1>11, <1>13, <1>15, <1>16 DEF Kept, HasGen

LEMMA KeptHandle ==
  ASSUME Types, Kept, NEW e, Handles(e)
  PROVE  Kept'
<1>1. /\ looper \in Seq(Tokens) /\ looper # <<>> /\ e = Head(looper) /\ looper' = Tail(looper)
      /\ UNCHANGED <<gen, chatOf, source, shown, messages>>
  BY DEF Handles, Ends, Extends, Dies, Counts, Types
<1>2. e \in Tokens /\ e.gen \in Gens /\ Types'
  BY HandleTypes
<1>3. /\ \A i \in DOMAIN looper' : \E k \in DOMAIN looper : looper'[i] = looper[k]
      /\ \E k \in DOMAIN looper : looper[k] = e
  <2>1. /\ DOMAIN looper' = 1 .. Len(looper) - 1 /\ DOMAIN looper = 1 .. Len(looper)
        /\ Len(looper) \in Nat /\ Len(looper) >= 1 /\ e = looper[1]
        /\ \A i \in 1 .. Len(looper) - 1 : looper'[i] = looper[i + 1]
    BY <1>1, Taken
  <2> QED
    BY <2>1
<1>4. Live(e.gen)
  BY <1>3 DEF Live
<1>5. chatOf[e.gen] = shown /\ HasGen(messages, e.gen)
  BY <1>2, <1>4 DEF Kept
<1>6. \A g \in Gens : Live(g)' => Live(g)
  BY <1>1, <1>3 DEF Live
<1>7. \A g \in Gens : Live(g)' => chatOf'[g] = shown' /\ HasGen(messages', g)
  BY <1>1, <1>6 DEF Kept
<1>8. CASE Extends(e) \/ Dies(e)
  <2>1. UNCHANGED <<files, finished>>
    BY <1>8 DEF Extends, Dies
  <2> QED
    BY <1>1, <1>7, <2>1 DEF Kept, HasGen
<1>9. CASE Ends(e)
  <2>1. /\ finished' = [finished EXCEPT ![e.gen] = finished[e.gen] + 1]
        /\ files' = [files EXCEPT ![shown] = Snapshot(content')]
    BY <1>5, <1>9 DEF Ends, Saves
  <2>2. /\ DOMAIN Snapshot(content') = 1 .. Len(messages)
        /\ \A i \in 1 .. Len(messages) : Snapshot(content')[i].gen = messages[i].gen
        /\ DOMAIN messages = 1 .. Len(messages)
    <3>1. content' \in [Gens -> Text] /\ messages \in Seq(Messages)
      BY <1>2 DEF Types
    <3> QED
      BY <3>1, SnapshotTyped, LenProperties
  <2>3. /\ shown \in Chats /\ files'[shown] = Snapshot(content')
        /\ \A c \in Chats \ {shown} : files'[c] = files[c]
    BY <2>1 DEF Types
  <2>4. \A c \in Chats : \A i \in DOMAIN files'[c] : chatOf[files'[c][i].gen] = c
    <3> SUFFICES ASSUME NEW c \in Chats, NEW i \in DOMAIN files'[c]
                 PROVE  chatOf[files'[c][i].gen] = c
      OBVIOUS
    <3>1. CASE c = shown
      BY <2>2, <2>3, <3>1 DEF Kept
    <3>2. CASE c # shown
      BY <2>3, <3>2 DEF Kept
    <3> QED
      BY <3>1, <3>2
  <2>5. \A g \in Gens : finished'[g] > 0 => g = e.gen \/ finished[g] > 0
    BY <1>2, <2>1 DEF Types
  <2>6. \A g \in Gens : finished'[g] > 0 /\ chatOf[g] = shown => HasGen(messages, g)
    BY <1>5, <2>5 DEF Kept
  <2>7. \A g \in Gens : HasGen(messages, g) => HasGen(files'[shown], g)
    BY <2>2, <2>3 DEF HasGen
  <2>8. \A g \in Gens : finished'[g] > 0 => HasGen(files'[chatOf[g]], g)
    <3> SUFFICES ASSUME NEW g \in Gens, finished'[g] > 0
                 PROVE  HasGen(files'[chatOf[g]], g)
      OBVIOUS
    <3>1. CASE chatOf[g] = shown
      BY <2>6, <2>7, <3>1
    <3>2. CASE chatOf[g] # shown
      <4>1. finished[g] > 0 /\ chatOf[g] \in Chats
        BY <1>5, <2>5, <3>2 DEF Types
      <4>2. files'[chatOf[g]] = files[chatOf[g]]
        BY <2>3, <3>2, <4>1
      <4> QED
        BY <4>1, <4>2 DEF Kept
    <3> QED
      BY <3>1, <3>2
  <2> QED
    BY <1>1, <1>7, <2>4, <2>6, <2>8 DEF Kept, HasGen
<1> QED
  BY <1>8, <1>9 DEF Handles

KeptUnlessMixed == mixed = FALSE => Kept

LEMMA KeptNext == Types /\ Unstarted /\ KeptUnlessMixed /\ [Next]_vars => KeptUnlessMixed'
<1> SUFFICES ASSUME Types, Unstarted, mixed = FALSE => Kept, [Next]_vars, mixed' = FALSE
             PROVE  Kept'
  BY DEF KeptUnlessMixed
<1>1. CASE SendMessage
  BY <1>1, KeptSend DEF SendMessage
<1>2. CASE Handle
  <2>1. mixed' = mixed
    BY <1>2 DEF Handle
  <2> QED
    BY <1>2, <2>1, HandleCases, KeptHandle
<1>3. CASE ResumeActivity \/ UNCHANGED vars
  <2>1. UNCHANGED <<chatOf, source, looper, shown, messages, files, finished, mixed>>
    BY <1>3 DEF ResumeActivity, vars, engineVars
  <2> QED
    BY <2>1 DEF Kept, HasGen, Live
<1>4. ASSUME NEW g \in Gens, Collector(g)
      PROVE  Kept'
  <2>1. UNCHANGED <<chatOf, shown, messages, files, finished, mixed>>
    BY <1>4 DEF Collector, Receive, Post, FlowEnds, uiVars
  <2>2. Live(g) /\ \A h \in Gens \ {g} : source'[h] = source[h]
    <3>1. /\ source[g] \in {"flow", "read"}
          /\ source' = source \/ \E s : source' = [source EXCEPT ![g] = s]
      BY <1>4 DEF Collector, Receive, Post, FlowEnds
    <3> QED
      BY <3>1 DEF Types, Live
  <2>3. \A i \in DOMAIN looper' : looper'[i].gen = g \/ \E k \in DOMAIN looper : looper'[i] = looper[k]
    <3>1. CASE Post(g)
      <4>1. PICK e : e = hand[g]
        OBVIOUS
      <4>2. looper' = Append(looper, e) /\ e \in Tokens /\ e.gen = g /\ looper \in Seq(Tokens)
        BY <3>1, <4>1 DEF Post, Types
      <4>3. /\ DOMAIN looper' = 1 .. Len(looper) + 1 /\ DOMAIN looper = 1 .. Len(looper)
            /\ Len(looper) \in Nat /\ looper'[Len(looper) + 1] = e
            /\ \A i \in 1 .. Len(looper) : looper'[i] = looper[i]
        BY <4>2, Grown
      <4> QED
        BY <4>2, <4>3
    <3>2. CASE Receive(g) \/ FlowEnds(g)
      BY <3>2 DEF Receive, FlowEnds
    <3> QED
      BY <1>4, <3>1, <3>2 DEF Collector
  <2>4. \A h \in Gens : Live(h)' => Live(h)
    BY <2>2, <2>3 DEF Live
  <2> QED
    BY <2>1, <2>4 DEF Kept, HasGen
<1>5. ASSUME NEW c \in Chats, SelectChat(c)
      PROVE  Kept'
  <2>1. /\ shown' = c /\ messages' = LoadMessages(c)
        /\ UNCHANGED <<chatOf, source, looper, files, finished>>
    BY <1>5 DEF SelectChat, engineVars
  <2>2. mixed = FALSE /\ \A g \in Gens : ~Live(g)
    <3>1. mixed' = (mixed \/ \E g \in Gens : Live(g))
      BY <1>5 DEF SelectChat
    <3> QED
      BY <3>1 DEF Types
  <2>3. Kept
    BY <2>2
  <2>4. \A g \in Gens : ~Live(g)'
    BY <2>1, <2>2 DEF Live
  <2>5. /\ DOMAIN messages' = DOMAIN files[c]
        /\ \A i \in DOMAIN files[c] : messages'[i].gen = files[c][i].gen
    BY <2>1, LoadTyped DEF Types
  <2>6. \A g \in Gens : HasGen(files[c], g) => HasGen(messages', g)
    BY <2>5 DEF HasGen
  <2> QED
    BY <2>1, <2>3, <2>4, <2>5, <2>6 DEF Kept, HasGen
<1> QED
  BY <1>1, <1>2, <1>3, <1>4, <1>5 DEF Next

\* SavedBelongs for any chats and generations, however their tokens and the
\* user's steps interleave, as long as no chat is picked under an answer.
THEOREM Belongs == Spec => []SavedBelongs
<1>1. Types /\ KeptUnlessMixed => SavedBelongs
  BY DEF KeptUnlessMixed, Kept, SavedBelongs, Types
<1>2. Init => KeptUnlessMixed
  BY KeptInit DEF KeptUnlessMixed
<1> QED
  BY <1>1, <1>2, TypesInit, TypesNext, UnstartedInit, UnstartedNext, KeptNext, PTL DEF Spec

\* FinishedIsSaved for any chats and generations: no later answer's save, of
\* the whole list shown, drops one that was finished.
THEOREM FinishedStays == Spec => []FinishedIsSaved
<1>1. Types /\ KeptUnlessMixed => FinishedIsSaved
  BY DEF KeptUnlessMixed, Kept, HasGen, FinishedIsSaved, Types
<1>2. Init => KeptUnlessMixed
  BY KeptInit DEF KeptUnlessMixed
<1> QED
  BY <1>1, <1>2, TypesInit, TypesNext, UnstartedInit, UnstartedNext, KeptNext, PTL DEF Spec
=============================================================================
