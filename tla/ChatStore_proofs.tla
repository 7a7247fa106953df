--------------------------- MODULE ChatStore_proofs ---------------------------
(***************************************************************************)
(* What holds of the chats and their files for any number of chats,          *)
(* messages, deaths and failed writes.                                       *)
(***************************************************************************)
EXTENDS ChatStore, FiniteSetTheorems, SequenceTheorems, WellFoundedInduction, TLAPS

States == {Missing, "empty", "garbled", "ok"}
FileOps == [op : {"write", "fill", "delete"}, id : 0..MaxChats,
            chats : Seq(Chat), convs : SUBSET Ids]

Types ==
  /\ index \in [state : States, chats : Seq(Chat)]
  /\ index.state # "ok" => index.chats = <<>>
  /\ files \in [Ids -> [state : States, convs : SUBSET Ids]]
  /\ list \in Seq(Chat)
  /\ shown \subseteq Ids
  /\ current \in Chat \cup {NoChat}
  /\ inChat \in BOOLEAN
  /\ dialog \in Chat \cup {NoChat}
  /\ reloaded \in BOOLEAN
  /\ live \subseteq Ids
  /\ todo \in Seq(FileOps)
  /\ created \in 0..MaxChats
  /\ faults \in Nat
  /\ saved \subseteq Ids /\ deleted \subseteq Ids
  /\ torn \subseteq 0..MaxChats
  /\ upset \in [mixed : BOOLEAN, stale : BOOLEAN, half : BOOLEAN]

IsIndex(w) == w.id = 0
IsFile(w) == w.id # 0 /\ w.op # "delete"

\* A handler leaves two file operations at most: a file is written alone, and a
\* deletion comes last.
Shape ==
  /\ Len(todo) <= 2
  /\ \A k \in DOMAIN todo :
       /\ todo[k].op = "fill" => k = 1
       /\ todo[k].op = "delete" => k = Len(todo) /\ todo[k].id # 0
       /\ IsFile(todo[k]) => Len(todo) = 1
       /\ IF IsIndex(todo[k]) THEN todo[k].convs = {} ELSE todo[k].chats = <<>>

\* Every list there is: in memory, on disk, and on its way there.
Distinct(s) == \A p, q \in DOMAIN s : s[p].id = s[q].id => p = q

AllDistinct == /\ Distinct(list) /\ Distinct(index.chats)
               /\ \A k \in DOMAIN todo : Distinct(todo[k].chats)

Known == Range(list) \cup Range(index.chats)
           \cup UNION {Range(todo[k].chats) : k \in DOMAIN todo}

Upto == 1..created

\* Nothing is older than its creation.
Fresh ==
  /\ \A c \in Known : c.id <= created /\ c.conv <= created
  /\ shown \subseteq Upto /\ deleted \subseteq Upto /\ saved \subseteq Upto
  /\ \A i \in Ids : files[i].convs \subseteq Upto
  /\ \A k \in DOMAIN todo : todo[k].convs \subseteq Upto

\* A conversation is one chat.
OneChat ==
  /\ \A c, d \in Known : c.conv = d.conv => c = d
  /\ inChat => /\ current \in Chat /\ current.conv <= created
               /\ \A c \in Known : c.conv = current.conv => c = current
  /\ dialog # NoChat /\ ~reloaded => dialog \in Range(list)
  /\ dialog.conv <= created

Basic == Types /\ Shape /\ AllDistinct /\ Fresh /\ OneChat

\* chats.json is the list, or becomes it with the last write of it.
LastIndex(k) == IsIndex(todo[k]) /\ \A j \in DOMAIN todo : j > k => ~IsIndex(todo[j])
NoIndex == \A k \in DOMAIN todo : ~IsIndex(todo[k])

Heading == \/ \E k \in DOMAIN todo : LastIndex(k) /\ todo[k].chats = list
           \/ NoIndex /\ list = index.chats

HeadingInv == ~upset.stale /\ (faults = 0 \/ 0 \notin torn) => Heading

\* No deleted chat among s.
Clean(s) == \A c \in Range(s) : c.conv \notin deleted

Removing == Len(todo) = 2 /\ IsIndex(todo[1]) /\ todo[2].op = "delete"

GoneInv == ~upset.half /\ ~upset.stale /\ faults = 0 =>
  /\ Clean(list)
  /\ \A k \in DOMAIN todo : Clean(todo[k].chats)
  /\ Clean(index.chats) \/ Removing

(* What saved messages rest on, with the index whole and no answer mixed up. *)

\* An id is one chat's: among those known, the one asked about and the one open.
OneId ==
  /\ \A c, d \in Known : c.id = d.id => c = d
  /\ dialog # NoChat => \A c \in Known : c.id = dialog.id => c = dialog
  /\ inChat => \A c \in Known : c.id = current.id => c = current

\* The list has what chats.json has, or will have.
ListCovers ==
  /\ \A k \in DOMAIN todo : LastIndex(k) => Range(todo[k].chats) \subseteq Range(list)
  /\ NoIndex => Range(index.chats) \subseteq Range(list)

\* The convs are of the chat of id i, apart from what was deleted.
OnlyOf(i, convs) == \A c \in Known : c.conv \in convs \ deleted => c.id = i
Includes(i, convs) == \A c \in Known : c.id = i => c.conv \in convs

\* One answer at a time, and what is shown is the chat it is for.
OneAnswer ==
  /\ \A i \in live : /\ \A j \in live : i = j
                     /\ inChat => current.id = i
                     /\ Includes(i, shown) /\ OnlyOf(i, shown)
  /\ inChat => \A c \in Known : c.conv \in shown \ deleted => c = current

FilesRight ==
  /\ \A k \in DOMAIN todo :
       /\ IsFile(todo[k]) => /\ Includes(todo[k].id, todo[k].convs)
                             /\ OnlyOf(todo[k].id, todo[k].convs)
       /\ todo[k].op = "delete" => \A c \in Known : c.id = todo[k].id => c.conv \in deleted
  /\ \A i \in Ids : files[i].state = "ok" => OnlyOf(i, files[i].convs)

Filling(i) == todo # <<>> /\ todo[1].op = "fill" /\ todo[1].id = i

Kept == \A c \in Known : c.conv \in saved \ deleted /\ c.id \notin torn =>
  \/ files[c.id].state = "ok" /\ c.conv \in files[c.id].convs
  \/ Filling(c.id)

KeepInv == ~upset.mixed /\ 0 \notin torn =>
  OneId /\ ListCovers /\ OneAnswer /\ FilesRight /\ Kept

(* What the open chat rests on, with no deletion cut short or confirmed late *)
(* either.                                                                   *)
Owner(s, i, convs) == \E c \in Range(s) : c.id = i /\ convs \subseteq {c.conv}
Leaving(i) == \E k \in DOMAIN todo : todo[k].op = "delete" /\ todo[k].id = i
Owned(s) == \A i \in Ids :
  files[i].state = "ok" /\ files[i].convs # {} => Owner(s, i, files[i].convs) \/ Leaving(i)

ShownOwned ==
  /\ inChat => current \in Range(list) /\ shown \subseteq {current.conv}
  /\ \A i \in live : Owner(list, i, shown)
  /\ \A k \in DOMAIN todo : IsFile(todo[k]) => Owner(list, todo[k].id, todo[k].convs)

FilesOwned ==
  /\ Owned(list)
  /\ \A k \in DOMAIN todo : IsIndex(todo[k]) => Owned(todo[k].chats)
  /\ Owned(index.chats) \/ Filling(0)

OpenInv == ~upset.mixed /\ ~upset.half /\ ~upset.stale /\ 0 \notin torn =>
  ShownOwned /\ FilesOwned

StoreInv == Basic /\ HeadingInv /\ GoneInv /\ KeepInv /\ OpenInv

-----------------------------------------------------------------------------
(* Lists of chats *)

LEMMA ChatIsNot == \A c \in Chat : c # NoChat /\ c.id \in Ids /\ c.conv \in Ids /\ c.id # 0
  BY StoreAssumption DEF Chat, NoChat, Ids

LEMMA RangeOf ==
  ASSUME NEW S, NEW s \in Seq(S)
  PROVE  /\ DOMAIN s = 1 .. Len(s) /\ Len(s) \in Nat
         /\ Range(s) \subseteq S
         /\ \A p \in DOMAIN s : s[p] \in Range(s)
         /\ \A c \in Range(s) : \E p \in DOMAIN s : s[p] = c
  BY DEF Range

LEMMA RangeEmpty == Range(<<>>) = {} /\ Distinct(<<>>)
  BY DEF Range, Distinct

LEMMA IdsOfRange == \A s : IdsIn(s) = {c.id : c \in Range(s)}
  BY DEF IdsIn, Range

\* A removal takes the chat of that id, and it alone.
LEMMA WithoutOne ==
  ASSUME NEW s \in Seq(Chat), Distinct(s), NEW i
  PROVE  /\ Without(s, i) \in Seq(Chat)
         /\ Distinct(Without(s, i))
         /\ Range(Without(s, i)) = {c \in Range(s) : c.id # i}
<1>1. CASE i \notin IdsIn(s)
  BY <1>1, IdsOfRange DEF Without
<1>2. CASE i \in IdsIn(s)
  <2> DEFINE q == CHOOSE p \in DOMAIN s : s[p].id = i
             w == SubSeq(s, 1, q - 1) \o SubSeq(s, q + 1, Len(s))
  <2>1. q \in DOMAIN s /\ s[q].id = i
    BY <1>2 DEF IdsIn
  <2>2. Without(s, i) = w
    BY <1>2 DEF Without, RemoveAt
  <2> HIDE DEF q
  <2>3. q \in 1 .. Len(s) /\ Len(s) \in Nat /\ DOMAIN s = 1 .. Len(s)
    BY <2>1
  <2>4. /\ w \in Seq(Chat) /\ Len(w) = Len(s) - 1
        /\ \A k \in 1 .. Len(s) - 1 : w[k] = IF k < q THEN s[k] ELSE s[k + 1]
    <3> DEFINE u == SubSeq(s, 1, q - 1)
               v == SubSeq(s, q + 1, Len(s))
    <3>1. u \in Seq(Chat) /\ Len(u) = q - 1 /\ \A k \in 1 .. q - 1 : u[k] = s[k]
      BY <2>3
    <3>2. v \in Seq(Chat) /\ Len(v) = Len(s) - q /\ \A k \in 1 .. Len(s) - q : v[k] = s[k + q]
      <4>1. q + 1 \in 1 .. Len(s) + 1 /\ Len(s) - (q + 1) + 1 = Len(s) - q /\ Len(s) - q \in Nat
        BY <2>3
      <4>2. q + 1 \in Int /\ Len(s) \in Int /\ \A k \in q + 1 .. Len(s) : s[k] \in Chat
        BY <2>3
      <4>3. /\ v \in Seq(Chat)
            /\ Len(v) = IF q + 1 <= Len(s) THEN Len(s) - (q + 1) + 1 ELSE 0
            /\ \A k \in 1 .. Len(s) - (q + 1) + 1 : v[k] = s[(q + 1) + k - 1]
        BY <4>2, SubSeqProperties
      <4> HIDE DEF v
      <4>5. Len(v) = Len(s) - q
        <5>3. q \in Int /\ Len(s) \in Int /\ q <= Len(s)
          BY <2>3
        <5>1. CASE q < Len(s)
          <6>1. q + 1 <= Len(s)
            BY <5>3, <5>1
          <6> QED
            BY <4>1, <4>3, <6>1
        <5>2. CASE q = Len(s)
          <6>1. ~(q + 1 <= Len(s)) /\ Len(s) - q = 0
            BY <2>3, <5>2
          <6> QED
            BY <4>3, <6>1
        <5> QED
          BY <5>1, <5>2, <5>3
      <4>4. \A k \in 1 .. Len(s) - q : (q + 1) + k - 1 = k + q
        BY <2>3
      <4> QED
        BY <4>1, <4>3, <4>4, <4>5
    <3> HIDE DEF u, v
    <3>3. /\ u \o v \in Seq(Chat) /\ Len(u \o v) = Len(s) - 1
          /\ \A k \in 1 .. Len(s) - 1 : (u \o v)[k] = IF k < q THEN u[k] ELSE v[k - (q - 1)]
      <4>1. u \in Seq(Chat) /\ v \in Seq(Chat) /\ Len(u) + Len(v) = Len(s) - 1
        BY <2>3, <3>1, <3>2
      <4>2. u \o v \in Seq(Chat) /\ Len(u \o v) = Len(s) - 1
        BY <4>1
      <4>3. \A k \in 1 .. Len(s) - 1 : (u \o v)[k] = IF k <= Len(u) THEN u[k] ELSE v[k - Len(u)]
        BY <4>1
      <4>4. \A k \in 1 .. Len(s) - 1 : k <= q - 1 <=> k < q
        BY <2>3
      <4> QED
        BY <3>1, <4>2, <4>3, <4>4
    <3>4. ASSUME NEW k \in 1 .. Len(s) - 1, k >= q
          PROVE  v[k - (q - 1)] = s[k + 1]
      <4>1. k - (q - 1) \in 1 .. Len(s) - q /\ (k - (q - 1)) + q = k + 1
        BY <2>3, <3>4
      <4> QED
        BY <3>2, <4>1
    <3>5. \A k \in 1 .. Len(s) - 1 : (u \o v)[k] = IF k < q THEN s[k] ELSE s[k + 1]
      BY <2>3, <3>1, <3>3, <3>4
    <3> QED
      BY <3>3, <3>5 DEF u, v
  <2> HIDE DEF w
  <2>5. \A p \in DOMAIN s : s[p].id = i <=> p = q
    BY <2>1 DEF Distinct
  <2>6. DOMAIN w = 1 .. Len(s) - 1
    BY <2>4
  <2>7. Distinct(w)
    <3> SUFFICES ASSUME NEW j \in DOMAIN w, NEW k \in DOMAIN w, w[j].id = w[k].id PROVE j = k
      BY DEF Distinct
    <3> DEFINE a(x) == IF x < q THEN x ELSE x + 1
    <3>1. a(j) \in DOMAIN s /\ a(k) \in DOMAIN s /\ w[j] = s[a(j)] /\ w[k] = s[a(k)]
      BY <2>3, <2>4, <2>6
    <3>2. a(j) = a(k)
      BY <3>1 DEF Distinct
    <3> QED
      BY <3>2, <2>3, <2>6
  <2>8. \A k \in DOMAIN w : w[k] \in Range(s) /\ w[k].id # i
    <3> TAKE k \in DOMAIN w
    <3> DEFINE a == IF k < q THEN k ELSE k + 1
    <3>1. a \in DOMAIN s /\ a # q /\ w[k] = s[a]
      BY <2>3, <2>4, <2>6
    <3> QED
      BY <3>1, <2>5 DEF Range
  <2>9. \A c \in Range(s) : c.id # i => c \in Range(w)
    <3> TAKE c \in Range(s)
    <3> HAVE c.id # i
    <3>1. PICK p \in DOMAIN s : s[p] = c
      BY DEF Range
    <3>2. p # q
      BY <2>1, <3>1
    <3> DEFINE b == IF p < q THEN p ELSE p - 1
    <3>3. b \in DOMAIN w /\ w[b] = c
      BY <2>3, <2>4, <2>6, <3>1, <3>2
    <3> QED
      BY <3>3 DEF Range
  <2>10. Range(w) = {c \in Range(s) : c.id # i}
    BY <2>8, <2>9 DEF Range
  <2> QED
    BY <2>2, <2>4, <2>7, <2>10
<1> QED
  BY <1>1, <1>2

\* A set of naturals has a least one.
LEMMA LeastOf ==
  ASSUME NEW S, S \subseteq Nat, S # {}
  PROVE  \E n \in S : \A m \in S : n <= m
<1> DEFINE R == OpToRel(<, Nat)
<1>1. IsWellFoundedOn(R, Nat)
  BY NatLessThanWellFounded
<1>2. \A m, n \in Nat : m < n => <<m, n>> \in R
  BY DEF OpToRel
<1> HIDE DEF R
<1>3. PICK n \in S : \A m \in S : ~(<<m, n>> \in R)
  BY <1>1, WFMin
<1>4. \A m \in S : ~(m < n)
  BY <1>2, <1>3
<1> QED
  BY <1>3, <1>4

\* A new id is larger than every id there is, and no more than one beyond them.
LEMMA NewIdIsNew ==
  ASSUME NEW s \in Seq(Chat), NEW n \in 0 .. MaxChats, \A c \in Range(s) : c.id <= n
  PROVE  NewId(s) \in 1 .. n + 1 /\ \A c \in Range(s) : c.id < NewId(s)
<1> DEFINE T == {m \in Nat : \A i \in IdsIn(s) : i <= m}
<1>1. IdsIn(s) \subseteq Nat
  BY RangeOf, IdsOfRange, ChatIsNot DEF Ids
<1>2. n \in T /\ MaxChats \in Nat
  BY StoreAssumption, IdsOfRange
<1>3. PICK m \in T : \A k \in T : m <= k
  <2>1. T \subseteq Nat /\ T # {}
    BY <1>2
  <2> HIDE DEF T
  <2> QED
    BY <2>1, LeastOf
<1>4. m \in Nat /\ m <= n
  BY <1>2, <1>3
<1>5. \A i \in IdsIn(s) : i < m + 1
  BY <1>1, <1>3
<1>6. \A k \in 1 .. m : \E i \in IdsIn(s) : k <= i
  <2> TAKE k \in 1 .. m
  <2>1. k - 1 \in Nat /\ k - 1 \notin T
    BY <1>3, <1>4
  <2> QED
    BY <2>1, <1>1
<1> DEFINE P(x) == /\ \A i \in IdsIn(s) : i < x
                   /\ \A k \in 1 .. (x - 1) : \E i \in IdsIn(s) : k <= i
<1>7. m + 1 \in 1 .. MaxChats + 1 /\ P(m + 1)
  BY <1>2, <1>4, <1>5, <1>6
<1>8. NewId(s) = CHOOSE x \in 1 .. MaxChats + 1 : P(x)
  BY DEF NewId
<1>9. NewId(s) \in 1 .. MaxChats + 1 /\ P(NewId(s))
  <2> HIDE DEF P
  <2> QED
    BY <1>7, <1>8
<1>10. NewId(s) <= m + 1
  <2> SUFFICES ASSUME NewId(s) > m + 1 PROVE FALSE
    BY <1>4, <1>9
  <2>1. m + 1 \in 1 .. NewId(s) - 1
    BY <1>4, <1>9
  <2> QED
    BY <2>1, <1>5, <1>9, <1>1, <1>4
<1> QED
  BY <1>4, <1>9, <1>10, IdsOfRange

\* A list without repeated ids has as many chats as ids.
LEMMA CountIds ==
  ASSUME NEW s \in Seq(Chat), Distinct(s)
  PROVE  Cardinality(IdsIn(s)) = Len(s)
<1> DEFINE f == [p \in 1 .. Len(s) |-> s[p].id]
<1>1. DOMAIN s = 1 .. Len(s) /\ Len(s) \in Nat
  BY RangeOf
<1>2. f \in Bijection(1 .. Len(s), IdsIn(s))
  <2>1. f \in [1 .. Len(s) -> IdsIn(s)]
    BY <1>1 DEF IdsIn
  <2>2. f \in Injection(1 .. Len(s), IdsIn(s))
    BY <1>1, <2>1 DEF Injection, IsInjective, Distinct
  <2>3. \A i \in IdsIn(s) : \E p \in 1 .. Len(s) : f[p] = i
    BY <1>1 DEF IdsIn
  <2> QED
    BY <2>1, <2>2, <2>3 DEF Bijection, Surjection
<1>3. ExistsBijection(1 .. Len(s), IdsIn(s))
  BY <1>2 DEF ExistsBijection
<1>4. IsFiniteSet(1 .. Len(s)) /\ Cardinality(1 .. Len(s)) = Len(s)
  BY <1>1, FS_Interval
<1> QED
  BY <1>3, <1>4, FS_Bijection

-----------------------------------------------------------------------------
(* The state *)

LEMMA SingleOf ==
  ASSUME NEW S, NEW s \in Seq(S), Len(s) = 1
  PROVE  s # <<>> /\ DOMAIN s = 1 .. 1
OBVIOUS

LEMMA Loaded == Types => LoadChats = index.chats
  BY DEF Types, LoadChats

LEMMA KnownChats ==
  ASSUME Types
  PROVE  /\ Known \subseteq Chat
         /\ Range(list) \subseteq Known /\ Range(index.chats) \subseteq Known
         /\ \A k \in DOMAIN todo : Range(todo[k].chats) \subseteq Known
<1>1. /\ list \in Seq(Chat) /\ todo \in Seq(FileOps)
      /\ index \in [state : States, chats : Seq(Chat)]
  BY DEF Types
<1>4. index.chats \in Seq(Chat)
  BY <1>1
<1>2. \A k \in DOMAIN todo : todo[k] \in FileOps
  BY <1>1
<1>5. \A w \in FileOps : w.chats \in Seq(Chat)
  BY DEF FileOps
<1>3. /\ Range(list) \subseteq Chat /\ Range(index.chats) \subseteq Chat
      /\ \A k \in DOMAIN todo : Range(todo[k].chats) \subseteq Chat
  BY <1>1, <1>2, <1>4, <1>5, RangeOf
<1> QED
  BY <1>3 DEF Known

\* With the main thread idle there is the list and the index.
LEMMA AtRest ==
  ASSUME todo = <<>>
  PROVE  /\ Known = Range(list) \cup Range(index.chats)
         /\ DOMAIN todo = {} /\ NoIndex
         /\ \A i : ~Filling(i) /\ ~Leaving(i)
         /\ ~Removing
<1>1. DOMAIN todo = {}
  OBVIOUS
<1>2. UNION {Range(todo[k].chats) : k \in DOMAIN todo} = {}
  BY <1>1
<1> QED
  BY <1>1, <1>2 DEF Known, NoIndex, Filling, Leaving, Removing

LEMMA InitStore == Init => StoreInv
<1> SUFFICES ASSUME Init PROVE StoreInv
  OBVIOUS
<1> USE DEF Init
<1>1. Types
  <2>1. /\ index \in [state : States, chats : Seq(Chat)]
        /\ index.state # "ok" => index.chats = <<>>
    BY DEF States, Missing
  <2>2. files \in [Ids -> [state : States, convs : SUBSET Ids]]
    BY DEF States, Missing
  <2>3. list \in Seq(Chat) /\ todo \in Seq(FileOps)
    OBVIOUS
  <2>4. created \in 0 .. MaxChats /\ faults \in Nat
    BY StoreAssumption
  <2>5. upset \in [mixed : BOOLEAN, stale : BOOLEAN, half : BOOLEAN]
    OBVIOUS
  <2> QED
    BY <2>1, <2>2, <2>3, <2>4, <2>5 DEF Types
<1>2. Known = {} /\ DOMAIN todo = {} /\ NoIndex /\ \A i : ~Filling(i) /\ ~Leaving(i)
  BY AtRest, RangeEmpty
<1>3. Shape /\ AllDistinct /\ Fresh /\ OneChat
  BY <1>2, RangeEmpty DEF Shape, AllDistinct, Fresh, OneChat, NoChat
<1>4. HeadingInv /\ GoneInv
  BY <1>2, RangeEmpty DEF HeadingInv, Heading, GoneInv, Clean
<1>5. KeepInv
  BY <1>2, RangeEmpty DEF KeepInv, OneId, ListCovers, OneAnswer, FilesRight, Kept, OnlyOf, Missing
<1>6. OpenInv
  BY <1>2, RangeEmpty DEF OpenInv, ShownOwned, FilesOwned, Owned, Missing
<1> QED
  BY <1>1, <1>3, <1>4, <1>5, <1>6 DEF StoreInv, Basic

-----------------------------------------------------------------------------
(* Steps of the user that create nothing and touch no file *)

\* Known chats, the lists and the files as they were.
Still == /\ index' = index /\ files' = files /\ list' = list /\ todo' = todo
         /\ created' = created /\ faults' = faults
         /\ saved' = saved /\ deleted' = deleted /\ torn' = torn

LEMMA StillFacts ==
  ASSUME Still
  PROVE  /\ Known' = Known /\ Upto' = Upto
         /\ Shape' = Shape /\ AllDistinct' = AllDistinct
         /\ Heading' = Heading /\ ListCovers' = ListCovers
         /\ FilesRight' = FilesRight /\ Kept' = Kept /\ FilesOwned' = FilesOwned
         /\ (upset'.stale = upset.stale /\ upset'.half = upset.half) => (GoneInv => GoneInv')
<1> USE DEF Still
<1>1. Known' = Known /\ Upto' = Upto
  BY DEF Known, Upto
<1>2. Shape' = Shape /\ AllDistinct' = AllDistinct
  BY DEF Shape, AllDistinct, IsFile, IsIndex
<1>3. Heading' = Heading /\ ListCovers' = ListCovers
  BY DEF Heading, ListCovers, LastIndex, NoIndex, IsIndex
<1>4. FilesRight' = FilesRight
  BY <1>1 DEF FilesRight, IsFile, Includes, OnlyOf
<1>5. Kept' = Kept
  BY <1>1 DEF Kept, Filling
<1>6. FilesOwned' = FilesOwned
  BY DEF FilesOwned, Owned, Owner, Leaving, Filling, IsIndex
<1>7. ASSUME upset'.stale = upset.stale, upset'.half = upset.half, GoneInv
      PROVE  GoneInv'
  BY <1>7 DEF GoneInv, Clean, Removing, IsIndex
<1> QED
  BY <1>1, <1>2, <1>3, <1>4, <1>5, <1>6, <1>7

\* The dialog opens on a chat of the list, or closes.
LEMMA DialogStep ==
  ASSUME StoreInv, Still, UNCHANGED <<shown, current, inChat, live, upset>>,
         dialog' = NoChat \/ (dialog' \in Range(list) /\ ~reloaded'),
         reloaded' \in BOOLEAN
  PROVE  StoreInv'
<1> USE DEF StoreInv, Basic
<1>1. dialog' \in Chat \cup {NoChat} /\ (dialog' # NoChat => dialog' \in Known)
  BY KnownChats
<1>2. Types'
  BY <1>1 DEF Types, Still
<1>3. Fresh' /\ OneChat'
  <2>1. dialog'.conv <= created'
    BY <1>1 DEF Still, Types, Fresh, NoChat
  <2> QED
    BY <2>1, StillFacts DEF Still, Fresh, OneChat
<1>4. HeadingInv' /\ GoneInv'
  BY StillFacts DEF Still, HeadingInv
<1>5. ASSUME OneId PROVE OneId'
  BY <1>1, <1>5, StillFacts DEF OneId
<1>6. OneAnswer' = OneAnswer
  BY StillFacts DEF Still, OneAnswer, Includes, OnlyOf
<1>7. KeepInv'
  BY <1>5, <1>6, StillFacts DEF Still, KeepInv
<1>8. ShownOwned' = ShownOwned
  BY DEF Still, ShownOwned, IsFile, Owner
<1>9. OpenInv'
  BY <1>8, StillFacts DEF Still, OpenInv
<1> QED
  BY <1>2, <1>3, <1>4, <1>7, <1>9, StillFacts

LEMMA AskDeleteStep ==
  ASSUME StoreInv, NEW c, AskDelete(c)
  PROVE  StoreInv'
  BY DialogStep DEF AskDelete, Still, disk, counters, history

LEMMA CancelDeleteStep ==
  ASSUME StoreInv, CancelDelete
  PROVE  StoreInv'
<1>1. Still /\ UNCHANGED <<shown, current, inChat, live, upset>> /\ dialog' = NoChat
  BY DEF CancelDelete, Still, disk, counters, history
<1>2. reloaded' \in BOOLEAN
  BY DEF CancelDelete, StoreInv, Basic, Types
<1> QED
  BY <1>1, <1>2, DialogStep

\* The chat entered shows what its file has, which is its own.
LEMMA SelectStep ==
  ASSUME StoreInv, NEW c, Select(c)
  PROVE  StoreInv'
<1> USE DEF StoreInv, Basic
<1>1. /\ todo = <<>> /\ dialog = NoChat /\ c \in Range(list)
      /\ current' = c /\ inChat' = TRUE
      /\ shown' = IF files[c.id].state = "ok" THEN files[c.id].convs ELSE {}
      /\ upset' = [upset EXCEPT !.mixed = @ \/ live # {}]
      /\ dialog' = dialog /\ reloaded' = reloaded /\ live' = live /\ Still
  BY DEF Select, UserFree, Idle, Mix, Still, disk, counters
<1>2. c \in Chat /\ c \in Known /\ c.id \in Ids
  BY <1>1, KnownChats, ChatIsNot
<1>3. /\ upset' \in [mixed : BOOLEAN, stale : BOOLEAN, half : BOOLEAN]
      /\ upset'.stale = upset.stale /\ upset'.half = upset.half
      /\ ~upset'.mixed => ~upset.mixed /\ live = {}
  BY <1>1 DEF Types
<1>4. files[c.id] \in [state : States, convs : SUBSET Ids] /\ files[c.id].convs \subseteq Upto
  BY <1>2 DEF Types, Fresh
<1>5. Types'
  BY <1>1, <1>2, <1>3, <1>4 DEF Types, Still
<1>6. Fresh' /\ OneChat'
  BY <1>1, <1>2, <1>4, StillFacts DEF Still, Fresh, OneChat
<1>7. HeadingInv' /\ GoneInv'
  BY <1>1, <1>3, StillFacts DEF Still, HeadingInv
<1>8. ASSUME ~upset'.mixed, 0 \notin torn'
      PROVE  OneId' /\ OneAnswer' /\ FilesRight' /\ ListCovers' /\ Kept'
  <2>1. live = {} /\ OneId /\ FilesRight /\ ListCovers /\ Kept
    BY <1>1, <1>3, <1>8 DEF KeepInv, Still
  <2>2. OneId'
    BY <1>1, <1>2, <2>1, StillFacts DEF OneId
  <2>3. OneAnswer'
    BY <1>1, <1>2, <2>1, StillFacts DEF OneAnswer, FilesRight, OnlyOf, OneId, Still
  <2> QED
    BY <1>1, <2>1, <2>2, <2>3, StillFacts
<1>9. KeepInv'
  BY <1>8 DEF KeepInv
<1>10. ASSUME ~upset'.mixed, ~upset'.half, ~upset'.stale, 0 \notin torn'
       PROVE  ShownOwned' /\ FilesOwned'
  <2>1. live = {} /\ ShownOwned /\ FilesOwned
    BY <1>1, <1>3, <1>10 DEF OpenInv, Still
  <2>2. shown' \subseteq {c.conv}
    <3> SUFFICES ASSUME files[c.id].state = "ok", files[c.id].convs # {}
                 PROVE  files[c.id].convs \subseteq {c.conv}
      BY <1>1
    <3>1. PICK d \in Range(list) : d.id = c.id /\ files[c.id].convs \subseteq {d.conv}
      BY <1>1, <1>2, <2>1, AtRest DEF FilesOwned, Owned, Owner
    <3>2. d = c
      BY <1>1, <3>1 DEF AllDistinct, Distinct, Range
    <3> QED
      BY <3>1, <3>2
  <2>3. ShownOwned'
    BY <1>1, <2>1, <2>2 DEF ShownOwned, Still
  <2> QED
    BY <1>1, <2>1, <2>3, StillFacts
<1>11. OpenInv'
  BY <1>10 DEF OpenInv
<1> QED
  BY <1>1, <1>5, <1>6, <1>7, <1>9, <1>11, StillFacts

\* Another message in the chat that is open: the answer is for it.
LEMMA SendInChatStep ==
  ASSUME StoreInv, Send, inChat
  PROVE  StoreInv'
<1> USE DEF StoreInv, Basic
<1>1. /\ todo = <<>> /\ dialog = NoChat
      /\ current' = current /\ inChat' = inChat /\ Still
      /\ shown' = shown \cup {current.conv}
      /\ live' = live \cup {current.id}
      /\ dialog' = dialog /\ reloaded' = reloaded
      /\ upset' = [upset EXCEPT !.mixed = @ \/ (~inChat /\ live # {})]
  BY DEF Send, UserFree, Idle, Mix, Still, disk
<1>2. /\ current \in Chat /\ current.id \in Ids /\ current.conv \in Ids /\ current.conv \in Upto
  BY ChatIsNot DEF OneChat, Upto, Ids
<1>3. upset' = upset
  BY <1>1 DEF Types
<1>4. Types'
  BY <1>1, <1>2, <1>3 DEF Types, Still
<1>5. Fresh' /\ OneChat'
  BY <1>1, <1>2, StillFacts DEF Still, Fresh, OneChat
<1>6. HeadingInv' /\ GoneInv'
  BY <1>1, <1>3, StillFacts DEF Still, HeadingInv
<1>7. ASSUME ~upset.mixed, 0 \notin torn
      PROVE  OneId' /\ OneAnswer'
  <2>1. OneId /\ OneAnswer
    BY <1>7 DEF KeepInv
  <2>2. OneId'
    BY <1>1, <2>1, StillFacts DEF OneId
  <2>3. \A i \in live' : i = current.id
    BY <1>1, <2>1 DEF OneAnswer
  <2>4. \A c \in Known : c.conv \in shown' \ deleted => c = current
    BY <1>1, <2>1 DEF OneAnswer, OneChat
  <2>5. \A c \in Known : c.id = current.id => c.conv \in shown'
    BY <1>1, <2>1 DEF OneId
  <2>6. OneAnswer'
    BY <1>1, <2>3, <2>4, <2>5, StillFacts DEF OneAnswer, Includes, OnlyOf, Still
  <2> QED
    BY <2>2, <2>6
<1>8. KeepInv'
  BY <1>3, <1>7, StillFacts, <1>1 DEF KeepInv, Still
<1>9. ASSUME ~upset.mixed, ~upset.half, ~upset.stale, 0 \notin torn
      PROVE  ShownOwned'
  <2>1. OneAnswer /\ ShownOwned
    BY <1>9 DEF KeepInv, OpenInv
  <2>2. current \in Range(list) /\ shown' \subseteq {current.conv}
    BY <1>1, <2>1 DEF ShownOwned
  <2>3. \A i \in live' : i = current.id
    BY <1>1, <2>1 DEF OneAnswer
  <2> QED
    BY <1>1, <2>1, <2>2, <2>3 DEF ShownOwned, Owner, Still, IsFile
<1>10. OpenInv'
  BY <1>1, <1>3, <1>9, StillFacts DEF OpenInv, Still
<1> QED
  BY <1>1, <1>4, <1>5, <1>6, <1>8, <1>10, StillFacts

-----------------------------------------------------------------------------
(* A chat is created *)

LEMMA Grow ==
  ASSUME NEW s \in Seq(Chat), Distinct(s), NEW n \in Nat, n < MaxChats,
         \A c \in Range(s) : c.id <= n /\ c.conv <= n,
         NEW c, c = [id |-> NewId(s), conv |-> n + 1]
  PROVE  /\ c \in Chat /\ c.id <= n + 1 /\ c.conv = n + 1
         /\ \A d \in Range(s) : d.id < c.id
         /\ Append(s, c) \in Seq(Chat) /\ Distinct(Append(s, c))
         /\ Range(Append(s, c)) = Range(s) \cup {c}
         /\ Last(Append(s, c)) = c
<1>1. n \in 0 .. MaxChats /\ n + 1 \in 1 .. MaxChats /\ MaxChats \in Nat
  BY StoreAssumption
<1>2. NewId(s) \in 1 .. n + 1 /\ \A d \in Range(s) : d.id < NewId(s)
  BY <1>1, NewIdIsNew
<1>3. c \in Chat /\ c.id = NewId(s) /\ c.conv = n + 1
  BY <1>1, <1>2 DEF Chat, Ids
<1>4. /\ DOMAIN s = 1 .. Len(s) /\ Len(s) \in Nat
      /\ \A p \in DOMAIN s : s[p] \in Range(s)
  BY RangeOf
<1> DEFINE t == Append(s, c)
<1>5. /\ t \in Seq(Chat) /\ Len(t) = Len(s) + 1 /\ DOMAIN t = 1 .. Len(s) + 1
      /\ t[Len(s) + 1] = c /\ \A p \in 1 .. Len(s) : t[p] = s[p]
  BY <1>3, <1>4
<1> HIDE DEF t
<1>6. \A p \in DOMAIN s : s[p].id < c.id /\ s[p].id \in Nat /\ c.id \in Nat
  BY <1>2, <1>3, <1>4, RangeOf, ChatIsNot DEF Ids
<1>7. Distinct(t)
  BY <1>4, <1>5, <1>6 DEF Distinct
<1>8. Range(t) = Range(s) \cup {c}
  <2>1. Range(t) \subseteq Range(s) \cup {c}
    BY <1>4, <1>5 DEF Range
  <2>2. Range(s) \cup {c} \subseteq Range(t)
    <3>1. Len(s) + 1 \in DOMAIN t
      BY <1>4, <1>5
    <3>2. \A p \in DOMAIN s : p \in DOMAIN t /\ t[p] = s[p]
      BY <1>4, <1>5
    <3> QED
      BY <1>5, <3>1, <3>2 DEF Range
  <2> QED
    BY <2>1, <2>2
<1>9. Last(t) = c
  BY <1>5 DEF Last
<1> QED
  BY <1>2, <1>3, <1>5, <1>7, <1>8, <1>9 DEF t

\* The lists on their way to disk grow from the list to the new one.
Growth(n) ==
  /\ created' = created + n /\ created' \in 0 .. MaxChats
  /\ list' \in Seq(Chat) /\ Distinct(list')
  /\ todo' \in Seq(FileOps) /\ Len(todo') = n /\ DOMAIN todo' = 1 .. n
  /\ \A k \in 1 .. n :
       /\ todo'[k].op = "write" /\ todo'[k].id = 0 /\ todo'[k].convs = {}
       /\ todo'[k].chats \in Seq(Chat) /\ Distinct(todo'[k].chats)
       /\ Range(list) \subseteq Range(todo'[k].chats)
       /\ Range(todo'[k].chats) \subseteq Range(list')
  /\ todo'[n].chats = list'
  /\ current' \in Range(list') /\ current' \notin Range(list) /\ inChat' = TRUE
  /\ Range(list) \subseteq Range(list')
  /\ \A c \in Range(list') \ Range(list) :
       /\ c \in Chat /\ created < c.conv /\ c.conv <= created' /\ c.id <= created'
       /\ \A d \in Range(list) : d.id < c.id
       /\ \A d \in Range(list') \ Range(list) : c.conv = d.conv => c = d

LEMMA CreateGrows ==
  ASSUME Basic, NEW n \in {1, 2}, Create(n)
  PROVE  Growth(n)
<1> USE DEF Basic
<1> DEFINE c1 == [id |-> NewId(list), conv |-> created + 1]
           l1 == Append(list, c1)
           c2 == [id |-> NewId(l1), conv |-> created + 2]
           l2 == Append(l1, c2)
<1>1. /\ list \in Seq(Chat) /\ Distinct(list) /\ created \in Nat /\ MaxChats \in Nat
      /\ \A c \in Range(list) : c.id <= created /\ c.conv <= created
  BY StoreAssumption DEF Types, AllDistinct, Fresh, Known
<1>2. created + n <= MaxChats /\ created' = created + n /\ inChat' = TRUE
  BY DEF Create
<1>3. created < MaxChats
  BY <1>1, <1>2
<1>4. \A d \in Range(list) : d \in Chat /\ d.id \in Nat /\ d.conv \in Nat
  BY <1>1, RangeOf, ChatIsNot DEF Ids
<1>5. /\ c1 \in Chat /\ c1.id <= created + 1 /\ c1.conv = created + 1
      /\ \A d \in Range(list) : d.id < c1.id
      /\ l1 \in Seq(Chat) /\ Distinct(l1) /\ Range(l1) = Range(list) \cup {c1} /\ Last(l1) = c1
  <2> HIDE DEF c1
  <2>1. c1 = [id |-> NewId(list), conv |-> created + 1]
    BY DEF c1
  <2> QED
    <3>1. /\ c1 \in Chat /\ c1.id <= created + 1 /\ c1.conv = created + 1
          /\ \A d \in Range(list) : d.id < c1.id
          /\ Append(list, c1) \in Seq(Chat) /\ Distinct(Append(list, c1))
          /\ Range(Append(list, c1)) = Range(list) \cup {c1}
          /\ Last(Append(list, c1)) = c1
      <4> HIDE DEF Basic
      <4> QED
        BY <1>1, <1>3, <2>1, Grow
    <3> QED
      BY <3>1
<1>6. c1 \notin Range(list) /\ c1.id \in Nat
  BY <1>1, <1>4, <1>5, ChatIsNot DEF Ids
<1>7. CASE n = 1
  <2>1. /\ list' = l1 /\ todo' = [i \in 1 .. 1 |-> SaveIndex(<<l1>>[i])]
        /\ current' = Last(l1)
    BY <1>7 DEF Create
  <2> HIDE DEF c1, l1
  <2>2. SaveIndex(l1) \in FileOps
    BY <1>1, <1>5 DEF SaveIndex, FileOps
  <2>3. todo' \in Seq(FileOps) /\ Len(todo') = 1 /\ todo'[1] = SaveIndex(l1) /\ DOMAIN todo' = 1 .. 1
    BY <2>1, <2>2
  <2>4. \A k \in 1 .. 1 : k = 1
    OBVIOUS
  <2> QED
    BY <1>1, <1>2, <1>4, <1>5, <1>6, <1>7, <2>1, <2>3, <2>4 DEF Growth, SaveIndex
<1>8. CASE n = 2
  <2>1. /\ list' = l2 /\ todo' = [i \in 1 .. 2 |-> SaveIndex(<<l1, l2>>[i])]
        /\ current' = Last(l2)
    BY <1>8 DEF Create
  <2>2. \A d \in Range(l1) : d.id <= created + 1 /\ d.conv <= created + 1
    BY <1>1, <1>4, <1>5
  <2>3. created + 1 < MaxChats /\ created + 1 \in Nat /\ (created + 1) + 1 = created + 2
    BY <1>1, <1>2, <1>8
  <2>4. /\ c2 \in Chat /\ c2.id <= created + 2 /\ c2.conv = created + 2
        /\ \A d \in Range(l1) : d.id < c2.id
        /\ l2 \in Seq(Chat) /\ Distinct(l2) /\ Range(l2) = Range(l1) \cup {c2} /\ Last(l2) = c2
    <3> HIDE DEF c1, l1, c2
    <3>1. c2 = [id |-> NewId(l1), conv |-> (created + 1) + 1]
      BY <2>3 DEF c2
    <3> QED
      BY <1>5, <2>2, <2>3, <3>1, Grow
  <2> HIDE DEF c1, l1, c2, l2
  <2>5. SaveIndex(l1) \in FileOps /\ SaveIndex(l2) \in FileOps
    BY <1>1, <1>5, <2>4 DEF SaveIndex, FileOps
  <2>6. /\ todo' \in Seq(FileOps) /\ Len(todo') = 2 /\ DOMAIN todo' = 1 .. 2
        /\ todo'[1] = SaveIndex(l1) /\ todo'[2] = SaveIndex(l2)
    BY <2>1, <2>5
  <2>7. \A k \in 1 .. 2 : k = 1 \/ k = 2
    OBVIOUS
  <2>8. c2 \notin Range(list) /\ c2 # c1 /\ c2.id \in Nat /\ c1.id < c2.id
    BY <1>1, <1>4, <1>5, <1>6, <2>4, ChatIsNot DEF Ids
  <2>9. Range(list') \ Range(list) = {c1, c2} /\ Range(list') = Range(list) \cup {c1, c2}
    BY <1>5, <1>6, <2>1, <2>4, <2>8
  <2>10. \A k \in 1 .. 2 :
           /\ todo'[k].op = "write" /\ todo'[k].id = 0 /\ todo'[k].convs = {}
           /\ todo'[k].chats \in Seq(Chat) /\ Distinct(todo'[k].chats)
           /\ Range(list) \subseteq Range(todo'[k].chats)
           /\ Range(todo'[k].chats) \subseteq Range(list')
    BY <1>5, <2>1, <2>4, <2>6, <2>7, <2>9 DEF SaveIndex
  <2>11. todo'[2].chats = list'
    BY <2>1, <2>6 DEF SaveIndex
  <2>12. \A d \in Range(list) : d.id < c2.id
    BY <1>5, <2>4
  <2>13. /\ created' \in 0 .. MaxChats
         /\ created < c1.conv /\ c1.conv <= created' /\ c1.id <= created'
         /\ created < c2.conv /\ c2.conv <= created' /\ c2.id <= created'
         /\ c1.conv # c2.conv
    BY <1>1, <1>2, <1>5, <1>6, <1>8, <2>4, <2>8
  <2>14. \A c \in Range(list') \ Range(list) :
       /\ c \in Chat /\ created < c.conv /\ c.conv <= created' /\ c.id <= created'
       /\ \A d \in Range(list) : d.id < c.id
       /\ \A d \in Range(list') \ Range(list) : c.conv = d.conv => c = d
    BY <1>5, <2>4, <2>9, <2>12, <2>13
  <2> QED
    BY <1>2, <1>8, <2>1, <2>4, <2>6, <2>8, <2>9, <2>10, <2>11, <2>13, <2>14 DEF Growth
<1> QED
  BY <1>7, <1>8

\* With the new chats among those known, what was said of the old ones stays.
LEMMA CreateStep ==
  ASSUME StoreInv, todo = <<>>, dialog = NoChat, NEW n \in {1, 2}, Growth(n),
         UNCHANGED <<index, files, dialog, reloaded, faults, saved, deleted, torn>>,
         upset' = [upset EXCEPT !.mixed = @ \/ live # {}],
         \/ live' = live /\ shown' = {}
         \/ live' = live \cup {current'.id} /\ shown' = {current'.conv}
  PROVE  StoreInv'
<1> USE DEF StoreInv, Basic
<1> DEFINE New == Range(list') \ Range(list)
<1>1. /\ upset' \in [mixed : BOOLEAN, stale : BOOLEAN, half : BOOLEAN]
      /\ upset'.stale = upset.stale /\ upset'.half = upset.half
      /\ ~upset'.mixed => ~upset.mixed /\ live = {}
  BY DEF Types
<1>2. /\ current' \in New /\ inChat' = TRUE
      /\ created' = created + n /\ created \in Nat /\ created' \in 0 .. MaxChats
      /\ Upto \subseteq Upto' /\ Ids \subseteq Nat
  BY DEF Growth, Types, Upto, Ids
<1>3. /\ current' \in Chat /\ current'.id \in Ids /\ current'.conv \in Ids
      /\ current'.conv \in Upto'
  BY <1>2, ChatIsNot DEF Growth, Upto, Ids
<1>4. Types'
  BY <1>1, <1>2, <1>3 DEF Types, Growth
<1>5. Known = Range(list) \cup Range(index.chats)
  BY AtRest
<1>6. Known' = Known \cup New
  <2>1. \A k \in DOMAIN todo' : Range(todo'[k].chats) \subseteq Range(list')
    BY DEF Growth
  <2>2. Known' = Range(list') \cup Range(index'.chats)
    BY <2>1 DEF Known
  <2> QED
    BY <1>5, <2>2 DEF Growth
<1>7. \A c \in Known : c \in Chat /\ c.id \in Nat /\ c.conv \in Nat /\ c.id <= created /\ c.conv <= created
  BY KnownChats, ChatIsNot, <1>2 DEF Fresh
<1>8. \A c \in New : /\ c \in Chat /\ c.id \in Nat /\ c.conv \in Nat
                     /\ c.conv \notin Upto /\ c.conv <= created' /\ c.id <= created'
                     /\ \A d \in Known : d.conv # c.conv
  BY <1>2, <1>7, ChatIsNot DEF Growth, Upto, Ids
<1>9. Shape'
  <2>1. Len(todo') <= 2 /\ DOMAIN todo' = 1 .. n
    BY DEF Growth
  <2> QED
    BY <2>1 DEF Shape, IsFile, IsIndex, Growth
<1>10. AllDistinct'
  BY DEF AllDistinct, Growth
<1>11. Fresh'
  <2>1. \A c \in Known' : c.id <= created' /\ c.conv <= created'
    BY <1>2, <1>6, <1>7, <1>8
  <2>2. shown' \subseteq Upto'
    BY <1>2, <1>3 DEF Fresh
  <2>3. \A k \in DOMAIN todo' : todo'[k].convs \subseteq Upto'
    BY DEF Growth
  <2> QED
    BY <1>2, <2>1, <2>2, <2>3 DEF Fresh
<1>12. OneChat'
  <2>1. \A c, d \in Known' : c.conv = d.conv => c = d
    <3>1. \A c, d \in New : c.conv = d.conv => c = d
      BY DEF Growth
    <3> QED
      BY <1>6, <1>8, <3>1 DEF OneChat
  <2>2. current' \in Known' /\ current'.conv <= created'
    BY <1>2, <1>6, <1>8
  <2>3. dialog'.conv <= created'
    BY <1>2 DEF NoChat
  <2> QED
    BY <1>2, <1>3, <2>1, <2>2, <2>3 DEF OneChat
<1>13. HeadingInv'
  <2>1. n \in DOMAIN todo' /\ LastIndex(n)' /\ todo'[n].chats = list'
    BY DEF Growth, LastIndex, IsIndex
  <2> QED
    BY <2>1 DEF HeadingInv, Heading
<1>14. GoneInv'
  <2> SUFFICES ASSUME ~upset.half, ~upset.stale, faults = 0
               PROVE  Clean(list)' /\ Clean(index.chats)' /\ \A k \in DOMAIN todo' : Clean(todo[k].chats)'
    BY <1>1 DEF GoneInv
  <2>1. Clean(list) /\ Clean(index.chats)
    BY AtRest DEF GoneInv
  <2>2. \A c \in Range(list') : c.conv \notin deleted'
    BY <1>8, <2>1 DEF Clean, Fresh
  <2> QED
    BY <2>1, <2>2 DEF Clean, Growth
<1>15. ASSUME ~upset'.mixed, 0 \notin torn'
       PROVE  OneId' /\ ListCovers' /\ OneAnswer' /\ FilesRight' /\ Kept'
  <2>1. live = {} /\ OneId /\ ListCovers /\ FilesRight /\ Kept /\ NoIndex
    BY <1>1, <1>15, AtRest DEF KeepInv
  <2>2. Known = Range(list)
    BY <1>5, <2>1 DEF ListCovers
  <2>3. Known' = Range(list') /\ Distinct(list)' /\ list' \in Seq(Chat)
    BY <1>2, <1>6, <2>2 DEF Growth
  <2>4. \A c, d \in Known' : c.id = d.id => c = d
    BY <2>3 DEF Distinct, Range
  <2>5. OneId'
    BY <1>2, <1>6, <2>4 DEF OneId
  <2>6. ListCovers'
    BY DEF ListCovers, Growth, NoIndex, IsIndex
  <2>7. \A i \in live' : i = current'.id /\ shown' = {current'.conv}
    BY <2>1
  <2>8. current' \in Known' /\ \A c \in Known' : c.conv = current'.conv => c = current'
    BY <1>2, <1>6, <1>12 DEF OneChat
  <2>9. \A c \in Known' : c.conv \in shown' => c = current'
    BY <2>8
  <2>10. OneAnswer'
    BY <1>2, <2>4, <2>7, <2>8, <2>9 DEF OneAnswer, Includes, OnlyOf
  <2>11. \A k \in DOMAIN todo' : ~IsFile(todo[k])' /\ todo'[k].op # "delete"
    BY DEF Growth, IsFile
  <2>12. \A i \in Ids : files[i].state = "ok" => OnlyOf(i, files[i].convs)'
    <3> SUFFICES ASSUME NEW i \in Ids, files[i].state = "ok",
                        NEW c \in Known', c.conv \in files[i].convs \ deleted
                 PROVE  c.id = i
      BY DEF OnlyOf
    <3>1. c \in Known
      BY <1>6, <1>8 DEF Fresh
    <3> QED
      BY <2>1, <3>1 DEF FilesRight, OnlyOf
  <2>13. FilesRight'
    BY <2>11, <2>12 DEF FilesRight
  <2>14. Kept'
    <3> SUFFICES ASSUME NEW c \in Known', c.conv \in saved \ deleted, c.id \notin torn
                 PROVE  files[c.id].state = "ok" /\ c.conv \in files[c.id].convs
      BY DEF Kept
    <3>1. c \in Known
      BY <1>6, <1>8 DEF Fresh
    <3> QED
      BY <2>1, <3>1, AtRest DEF Kept
  <2> QED
    BY <2>5, <2>6, <2>10, <2>13, <2>14
<1>16. KeepInv'
  BY <1>15 DEF KeepInv
<1>17. ASSUME ~upset'.mixed, ~upset'.half, ~upset'.stale, 0 \notin torn'
       PROVE  ShownOwned' /\ FilesOwned'
  <2>1. live = {} /\ FilesOwned
    BY <1>1, <1>17 DEF OpenInv
  <2>2. Owned(list) /\ Owned(index.chats) /\ \A i : ~Leaving(i)
    BY <2>1, AtRest DEF FilesOwned
  <2>3. current' \in Range(list') /\ shown' \subseteq {current'.conv}
    BY <1>2
  <2>4. \A i \in live' : i = current'.id
    BY <2>1
  <2>5. ShownOwned'
    BY <2>3, <2>4 DEF ShownOwned, Owner, Growth, IsFile
  <2>6. ASSUME NEW s, Range(list) \subseteq Range(s)
        PROVE  \A i \in Ids : files[i].state = "ok" /\ files[i].convs # {} => Owner(s, i, files[i].convs)
    BY <2>2, <2>6 DEF Owned, Owner
  <2>7. \A k \in DOMAIN todo' : Owned(todo[k].chats)'
    BY <2>6 DEF Growth, Owned
  <2>8. Owned(list)' /\ Owned(index.chats)'
    BY <2>2, <2>6 DEF Growth, Owned
  <2> QED
    BY <2>5, <2>7, <2>8 DEF FilesOwned
<1>18. OpenInv'
  BY <1>17 DEF OpenInv
<1> QED
  BY <1>4, <1>9, <1>10, <1>11, <1>12, <1>13, <1>14, <1>16, <1>18

LEMMA NewChatStep ==
  ASSUME StoreInv, NewChat
  PROVE  StoreInv'
<1>1. /\ todo = <<>> /\ dialog = NoChat /\ Create(2) /\ shown' = {} /\ live' = live
      /\ UNCHANGED <<index, files, dialog, reloaded, faults, saved, deleted, torn>>
      /\ upset' = [upset EXCEPT !.mixed = @ \/ live # {}]
  BY DEF NewChat, UserFree, Idle, Mix, disk
<1>2. Growth(2)
  BY <1>1, CreateGrows DEF StoreInv
<1> QED
  BY <1>1, <1>2, CreateStep

\* A message outside a chat.
LEMMA SendOutsideStep ==
  ASSUME StoreInv, Send, ~inChat
  PROVE  StoreInv'
<1>1. /\ todo = <<>> /\ dialog = NoChat /\ Create(1)
      /\ shown' = {current'.conv} /\ live' = live \cup {current'.id}
      /\ UNCHANGED <<index, files, dialog, reloaded, faults, saved, deleted, torn>>
      /\ upset' = [upset EXCEPT !.mixed = @ \/ live # {}]
  BY DEF Send, UserFree, Idle, Mix, disk
<1>2. Growth(1)
  BY <1>1, CreateGrows DEF StoreInv
<1> QED
  BY <1>1, <1>2, CreateStep

-----------------------------------------------------------------------------
(* The other handlers *)

\* What is saved is the chat the answer was for.
LEMMA FinalizeStep ==
  ASSUME StoreInv, NEW i, Finalize(i)
  PROVE  StoreInv'
<1> USE DEF StoreInv, Basic
<1>1. /\ todo = <<>> /\ i \in live /\ live' \subseteq live
      /\ todo' = <<SaveFile(i, shown)>>
      /\ list' = list /\ shown' = shown /\ current' = current /\ inChat' = inChat
      /\ dialog' = dialog /\ reloaded' = reloaded
      /\ index' = index /\ files' = files /\ created' = created /\ faults' = faults
      /\ saved' = saved /\ deleted' = deleted /\ torn' = torn /\ upset' = upset
  BY DEF Finalize, Idle, disk, counters, history
<1>2. i \in Ids /\ i # 0 /\ Ids \subseteq 0 .. MaxChats
  BY <1>1, StoreAssumption DEF Types, Ids
<1>3. /\ SaveFile(i, shown) \in FileOps
      /\ todo' \in Seq(FileOps) /\ Len(todo') = 1 /\ DOMAIN todo' = {1}
      /\ todo'[1].op = "write" /\ todo'[1].id = i /\ todo'[1].chats = <<>>
      /\ todo'[1].convs = shown
  BY <1>1, <1>2 DEF Types, SaveFile, FileOps
<1>4. Known' = Known /\ Upto' = Upto /\ Range(todo'[1].chats) = {}
  <2>1. Known' = Range(list) \cup Range(index.chats)
    BY <1>1, <1>3, RangeEmpty DEF Known
  <2> QED
    BY <1>1, <1>3, <2>1, AtRest, RangeEmpty DEF Upto
<1>5. Types'
  BY <1>1, <1>3 DEF Types
<1>6. Shape' /\ AllDistinct' /\ Fresh' /\ OneChat'
  <2>1. Shape'
    BY <1>2, <1>3 DEF Shape, IsFile, IsIndex
  <2>2. AllDistinct'
    BY <1>1, <1>3, RangeEmpty DEF AllDistinct
  <2>3. Fresh' /\ OneChat'
    BY <1>1, <1>3, <1>4 DEF Fresh, OneChat
  <2> QED
    BY <2>1, <2>2, <2>3
<1>7. NoIndex' /\ ~IsIndex(todo[1])' /\ IsFile(todo[1])'
  BY <1>2, <1>3 DEF NoIndex, IsIndex, IsFile
<1>8. HeadingInv'
  <2>1. Heading => Heading'
    BY <1>1, <1>7, AtRest DEF Heading
  <2> QED
    BY <1>1, <2>1 DEF HeadingInv
<1>9. GoneInv'
  BY <1>1, <1>3, <1>4, AtRest DEF GoneInv, Clean
<1>10. ASSUME ~upset.mixed, 0 \notin torn
       PROVE  OneId' /\ ListCovers' /\ OneAnswer' /\ FilesRight' /\ Kept'
  <2>1. OneId /\ ListCovers /\ OneAnswer /\ FilesRight /\ Kept
    BY <1>10 DEF KeepInv
  <2>2. OneId'
    BY <1>1, <1>4, <2>1 DEF OneId
  <2>3. ListCovers'
    BY <1>1, <1>3, <1>7, <2>1, AtRest DEF ListCovers, LastIndex
  <2>4. OneAnswer'
    BY <1>1, <1>4, <2>1 DEF OneAnswer, Includes, OnlyOf
  <2>5. FilesRight'
    BY <1>1, <1>3, <1>4, <2>1 DEF FilesRight, OneAnswer, Includes, OnlyOf
  <2>6. Kept'
    BY <1>1, <1>4, <2>1, AtRest DEF Kept
  <2> QED
    BY <2>2, <2>3, <2>4, <2>5, <2>6
<1>11. KeepInv'
  BY <1>1, <1>10 DEF KeepInv
<1>12. ASSUME ~upset.mixed, ~upset.half, ~upset.stale, 0 \notin torn
       PROVE  ShownOwned' /\ FilesOwned'
  <2>1. ShownOwned /\ FilesOwned
    BY <1>12 DEF OpenInv
  <2>2. ShownOwned'
    BY <1>1, <1>3, <2>1 DEF ShownOwned, Owner
  <2>3. FilesOwned'
    BY <1>1, <1>3, <1>7, <2>1, AtRest DEF FilesOwned, Owned, Owner
  <2> QED
    BY <2>2, <2>3
<1>13. OpenInv'
  BY <1>1, <1>12 DEF OpenInv
<1> QED
  BY <1>5, <1>6, <1>8, <1>9, <1>11, <1>13

\* The list is read again, and is the index.
LEMMA ResumeStep ==
  ASSUME StoreInv, Resume
  PROVE  StoreInv'
<1> USE DEF StoreInv, Basic
<1>1. /\ todo = <<>> /\ todo' = todo /\ list' = index.chats
      /\ shown' = shown /\ live' = live
      /\ index' = index /\ files' = files /\ created' = created /\ faults' = faults
      /\ saved' = saved /\ deleted' = deleted /\ torn' = torn /\ upset' = upset
  BY Loaded DEF Resume, Idle, disk, counters, history
<1>2. /\ inChat' \in BOOLEAN /\ reloaded' \in BOOLEAN
      /\ inChat' => inChat /\ current' = current
      /\ current' \in {current, NoChat} /\ dialog' \in {dialog, NoChat}
      /\ dialog' # NoChat => reloaded'
  BY DEF Resume, Types
<1>3. /\ Known = Range(list) \cup Range(index.chats) /\ Known' = Range(index.chats)
      /\ Known' \subseteq Known /\ Upto' = Upto
      /\ DOMAIN todo = {} /\ NoIndex' /\ \A j : ~Filling(j)' /\ ~Filling(j)
  <2>1. Known' = Range(list') \cup Range(index'.chats)
    BY <1>1, AtRest DEF Known
  <2> QED
    BY <1>1, <2>1, AtRest DEF Upto, NoIndex, Filling
<1>4. Types'
  <2>1. index.chats \in Seq(Chat)
    BY DEF Types
  <2> QED
    BY <1>1, <1>2, <2>1 DEF Types
<1>5. Shape' /\ AllDistinct'
  BY <1>1, <1>3 DEF Shape, AllDistinct
<1>6. Fresh' /\ OneChat'
  <2>1. Fresh'
    BY <1>1, <1>3 DEF Fresh
  <2>2. dialog'.conv <= created'
    BY <1>1, <1>2 DEF OneChat, NoChat, Types
  <2> QED
    BY <1>1, <1>2, <1>3, <2>1, <2>2 DEF OneChat
<1>7. HeadingInv'
  BY <1>1, <1>3 DEF HeadingInv, Heading
<1>8. GoneInv'
  BY <1>1, AtRest DEF GoneInv, Clean
<1>9. ASSUME ~upset.mixed, 0 \notin torn
      PROVE  OneId' /\ ListCovers' /\ OneAnswer' /\ FilesRight' /\ Kept'
  <2>1. OneId /\ ListCovers /\ OneAnswer /\ FilesRight /\ Kept
    BY <1>9 DEF KeepInv
  <2>2. OneId'
    BY <1>2, <1>3, <2>1 DEF OneId
  <2>3. ListCovers'
    BY <1>1, <1>3 DEF ListCovers
  <2>4. OneAnswer'
    BY <1>1, <1>2, <1>3, <2>1 DEF OneAnswer, Includes, OnlyOf
  <2>5. FilesRight'
    BY <1>1, <1>3, <2>1 DEF FilesRight, OnlyOf
  <2>6. Kept'
    BY <1>1, <1>3, <2>1 DEF Kept
  <2> QED
    BY <2>2, <2>3, <2>4, <2>5, <2>6
<1>10. KeepInv'
  BY <1>1, <1>9 DEF KeepInv
<1>11. ASSUME ~upset.mixed, ~upset.half, ~upset.stale, 0 \notin torn
       PROVE  ShownOwned' /\ FilesOwned'
  <2>1. ShownOwned /\ FilesOwned /\ list' = list
    BY <1>1, <1>3, <1>11 DEF OpenInv, HeadingInv, Heading
  <2>2. ShownOwned'
    BY <1>1, <1>2, <1>3, <2>1 DEF ShownOwned, Owner
  <2>3. FilesOwned'
    BY <1>1, <1>3, <2>1 DEF FilesOwned, Owned, Owner, Leaving
  <2> QED
    BY <2>2, <2>3
<1>12. OpenInv'
  BY <1>1, <1>11 DEF OpenInv
<1> QED
  BY <1>4, <1>5, <1>6, <1>7, <1>8, <1>10, <1>12

\* The chat asked about leaves the index, and the list if it is the list's.
LEMMA ConfirmDeleteOf ==
  ASSUME StoreInv, ConfirmDelete, NEW i, i = dialog.id,
         NEW W, W = Without(index.chats, i)
  PROVE  StoreInv'
<1> USE DEF StoreInv, Basic
<1> DEFINE found == i \in IdsIn(index.chats)
<1>1. /\ todo = <<>> /\ dialog # NoChat /\ dialog' = NoChat
      /\ todo' = IF found THEN <<SaveIndex(W), DeleteFile(i)>> ELSE <<>>
      /\ list' = IF reloaded THEN list ELSE Without(list, i)
      /\ inChat' = (inChat /\ current.id # i /\ list' # <<>>)
      /\ deleted' = deleted \cup {dialog.conv}
      /\ upset' = [upset EXCEPT !.mixed = @ \/ i \in live, !.stale = @ \/ reloaded]
      /\ shown' = shown /\ current' = current /\ reloaded' = reloaded /\ live' = live
      /\ index' = index /\ files' = files /\ created' = created /\ faults' = faults
      /\ saved' = saved /\ torn' = torn
  BY Loaded DEF ConfirmDelete, RemoveChat, Idle, disk, counters
<1>2. /\ dialog \in Chat /\ i \in Ids /\ i # 0 /\ dialog.conv \in Ids /\ dialog.conv \in Upto
      /\ Ids \subseteq 0 .. MaxChats
  <2>1. Ids \subseteq 0 .. MaxChats /\ 0 \notin Ids
    BY StoreAssumption DEF Ids
  <2>2. dialog \in Chat /\ created \in Nat
    BY <1>1 DEF Types
  <2>3. dialog.id \in Ids /\ dialog.conv \in Ids
    BY <2>2 DEF Chat
  <2>4. dialog.conv \in Upto
    BY <2>2, <2>3 DEF OneChat, Upto, Ids
  <2> QED
    BY <2>1, <2>2, <2>3, <2>4
<1>3. /\ upset' \in [mixed : BOOLEAN, stale : BOOLEAN, half : BOOLEAN]
      /\ upset'.half = upset.half
      /\ ~upset'.stale => ~upset.stale /\ ~reloaded
      /\ ~upset'.mixed => ~upset.mixed /\ i \notin live
  BY <1>1 DEF Types
<1>4. /\ index.chats \in Seq(Chat) /\ list \in Seq(Chat)
      /\ Distinct(index.chats) /\ Distinct(list)
  <2>1. index \in [state : States, chats : Seq(Chat)]
    BY DEF Types
  <2> QED
    BY <2>1 DEF Types, AllDistinct
<1>5. /\ W \in Seq(Chat) /\ Distinct(W) /\ Range(W) = {c \in Range(index.chats) : c.id # i}
  BY <1>4, WithoutOne
<1>6. /\ list' \in Seq(Chat) /\ Distinct(list')
      /\ Range(list') = IF reloaded THEN Range(list) ELSE {c \in Range(list) : c.id # i}
  <2>1. /\ Without(list, i) \in Seq(Chat) /\ Distinct(Without(list, i))
        /\ Range(Without(list, i)) = {c \in Range(list) : c.id # i}
    BY <1>4, WithoutOne
  <2> QED
    BY <1>1, <1>4, <2>1
<1>7. ~found => \A c \in Range(index.chats) : c.id # i
  BY IdsOfRange
<1> HIDE DEF found
<1>8. /\ todo' \in Seq(FileOps)
      /\ found => /\ Len(todo') = 2 /\ DOMAIN todo' = {1, 2}
                  /\ todo'[1].op = "write" /\ todo'[1].id = 0 /\ todo'[1].chats = W
                  /\ todo'[1].convs = {}
                  /\ todo'[2].op = "delete" /\ todo'[2].id = i /\ todo'[2].chats = <<>>
                  /\ todo'[2].convs = {}
      /\ ~found => todo' = <<>> /\ DOMAIN todo' = {}
  <2>1. CASE found
    <3>1. SaveIndex(W) \in FileOps /\ DeleteFile(i) \in FileOps
      BY <1>2, <1>5, StoreAssumption DEF SaveIndex, DeleteFile, FileOps
    <3>2. /\ todo' \in Seq(FileOps) /\ Len(todo') = 2 /\ DOMAIN todo' = 1 .. 2
          /\ todo'[1] = SaveIndex(W) /\ todo'[2] = DeleteFile(i)
      BY <1>1, <2>1, <3>1
    <3> QED
      BY <2>1, <3>2 DEF SaveIndex, DeleteFile
  <2>2. CASE ~found
    BY <1>1, <2>2
  <2> QED
    BY <2>1, <2>2
<1>9. /\ Known = Range(list) \cup Range(index.chats)
      /\ Known' = Range(list') \cup Range(index.chats)
      /\ Known' \subseteq Known /\ Upto' = Upto
  <2>1. UNION {Range(todo'[k].chats) : k \in DOMAIN todo'} \subseteq Range(index.chats)
    BY <1>5, <1>8, RangeEmpty
  <2>2. Known' = Range(list') \cup Range(index.chats)
    BY <1>1, <2>1 DEF Known
  <2> QED
    BY <1>1, <1>6, <2>2, AtRest DEF Upto
<1>10. Types'
  <2>1. deleted' \subseteq Ids /\ inChat' \in BOOLEAN
    BY <1>1, <1>2 DEF Types
  <2> QED
    BY <1>1, <1>3, <1>6, <1>8, <2>1 DEF Types
<1>11. Shape'
  <2>1. CASE found
    <3>3. Len(todo') = 2
      BY <1>8, <2>1
    <3>1. Len(todo') <= 2
      BY <3>3
    <3> QED
      BY <1>2, <1>8, <2>1, <3>1 DEF Shape, IsFile, IsIndex
  <2>2. CASE ~found
    <3>1. Len(todo') <= 2
      BY <1>8, <2>2
    <3> QED
      BY <1>8, <2>2, <3>1 DEF Shape
  <2> QED
    BY <2>1, <2>2
<1>12. AllDistinct'
  BY <1>1, <1>4, <1>5, <1>6, <1>8, RangeEmpty DEF AllDistinct
<1>13. Fresh'
  <2>1. deleted' \subseteq Upto
    BY <1>1, <1>2 DEF Fresh
  <2>2. \A k \in DOMAIN todo' : todo'[k].convs \subseteq Upto
    BY <1>8
  <2> QED
    BY <1>1, <1>9, <2>1, <2>2 DEF Fresh
<1>14. OneChat'
  BY <1>1, <1>9, <1>2 DEF OneChat, NoChat, Types
<1>15. found => LastIndex(1)' /\ ~LastIndex(2)' /\ IsIndex(todo[1])' /\ ~IsIndex(todo[2])' /\ ~NoIndex'
  BY <1>2, <1>8 DEF LastIndex, IsIndex, NoIndex
<1>16. ~found => NoIndex'
  BY <1>8 DEF NoIndex
<1>17. HeadingInv'
  <2> SUFFICES ASSUME ~upset'.stale, faults' = 0 \/ 0 \notin torn' PROVE Heading'
    BY DEF HeadingInv
  <2>1. ~reloaded /\ list = index.chats
    BY <1>1, <1>3, AtRest DEF HeadingInv, Heading
  <2>2. list' = W
    BY <1>1, <2>1
  <2>3. CASE found
    BY <1>8, <1>15, <2>2, <2>3 DEF Heading
  <2>4. CASE ~found
    <3>1. W = index.chats
      BY <2>4 DEF found, Without
    <3> QED
      BY <1>1, <1>16, <2>2, <2>4, <3>1 DEF Heading
  <2> QED
    BY <2>3, <2>4
<1>18. GoneInv'
  <2> SUFFICES ASSUME ~upset'.half, ~upset'.stale, faults' = 0
               PROVE  /\ Clean(list)' /\ \A k \in DOMAIN todo' : Clean(todo[k].chats)'
                      /\ Clean(index.chats)' \/ Removing'
    BY DEF GoneInv
  <2>1. ~reloaded /\ Clean(list) /\ Clean(index.chats)
    BY <1>1, <1>3, AtRest DEF GoneInv
  <2>2. dialog \in Known
    BY <1>1, <1>9, <2>1 DEF OneChat
  <2>3. \A c \in Known : c.id # i => c.conv # dialog.conv
    BY <2>2 DEF OneChat
  <2>4. \A c \in Known : c.id # i => c.conv \notin deleted'
    BY <1>1, <1>9, <2>1, <2>3 DEF Clean
  <2>5. Clean(list)' /\ Clean(W)'
    BY <1>5, <1>6, <1>9, <2>1, <2>4 DEF Clean
  <2>6. CASE found
    <3>1. Removing'
      BY <1>8, <1>15, <2>6 DEF Removing
    <3>2. \A k \in DOMAIN todo' : Clean(todo[k].chats)'
      BY <1>5, <1>8, <1>9, <2>4, <2>6, RangeEmpty DEF Clean
    <3> QED
      BY <2>5, <3>1, <3>2
  <2>7. CASE ~found
    BY <1>1, <1>7, <1>8, <1>9, <2>4, <2>5, <2>7 DEF Clean, found
  <2> QED
    BY <2>6, <2>7
<1>19. ASSUME ~upset'.mixed, 0 \notin torn'
       PROVE  OneId' /\ ListCovers' /\ OneAnswer' /\ FilesRight' /\ Kept'
  <2>1. /\ OneId /\ ListCovers /\ OneAnswer /\ FilesRight /\ Kept
        /\ Range(index.chats) \subseteq Range(list)
    BY <1>1, <1>3, <1>19, AtRest DEF KeepInv, ListCovers
  <2>2. OneId'
    BY <1>1, <1>9, <2>1 DEF OneId
  <2>3. ListCovers'
    <3>1. CASE found
      BY <1>5, <1>6, <1>8, <1>15, <2>1, <3>1 DEF ListCovers
    <3>2. CASE ~found
      BY <1>1, <1>6, <1>7, <1>8, <2>1, <3>2 DEF ListCovers, found
    <3> QED
      BY <3>1, <3>2
  <2>4. OneAnswer'
    BY <1>1, <1>9, <2>1 DEF OneAnswer, Includes, OnlyOf
  <2>5. \A c \in Known' : c.id = i => c.conv \in deleted'
    BY <1>1, <1>9, <2>1 DEF OneId
  <2>6. \A k \in DOMAIN todo' : ~IsFile(todo[k])' /\ (todo'[k].op = "delete" => todo'[k].id = i)
    BY <1>8 DEF IsFile
  <2>7. FilesRight'
    BY <1>1, <1>9, <2>1, <2>5, <2>6 DEF FilesRight, OnlyOf
  <2>8. Kept'
    BY <1>1, <1>9, <2>1, AtRest DEF Kept
  <2> QED
    BY <2>2, <2>3, <2>4, <2>7, <2>8
<1>20. KeepInv'
  BY <1>19 DEF KeepInv
<1>21. ASSUME ~upset'.mixed, ~upset'.half, ~upset'.stale, 0 \notin torn'
       PROVE  ShownOwned' /\ FilesOwned'
  <2>1. /\ ShownOwned /\ Owned(list) /\ Owned(index.chats) /\ list = index.chats
        /\ ~reloaded /\ i \notin live
    BY <1>1, <1>3, <1>21, AtRest DEF OpenInv, FilesOwned, HeadingInv, Heading
  <2>2. Range(list') = {c \in Range(list) : c.id # i} /\ Range(W) = Range(list')
    BY <1>5, <1>6, <2>1
  <2>3. ShownOwned'
    <3>1. inChat' => current' \in Range(list') /\ shown' \subseteq {current'.conv}
      BY <1>1, <2>1, <2>2 DEF ShownOwned
    <3>2. \A j \in live' : Owner(list', j, shown')
      BY <1>1, <2>1, <2>2 DEF ShownOwned, Owner
    <3>3. \A k \in DOMAIN todo' : ~IsFile(todo[k])'
      BY <1>8 DEF IsFile
    <3> QED
      BY <3>1, <3>2, <3>3 DEF ShownOwned
  <2>4. found => Leaving(i)'
    BY <1>8 DEF Leaving
  <2>5. ~found => Range(list') = Range(list)
    BY <1>7, <2>1, <2>2 DEF found
  <2>6. ASSUME NEW s, Range(s) = Range(list') \/ Range(s) = Range(list)
        PROVE  Owned(s)'
    <3> SUFFICES ASSUME NEW j \in Ids, files[j].state = "ok", files[j].convs # {}, ~Leaving(j)'
                 PROVE  Owner(s, j, files[j].convs)
      BY <1>1 DEF Owned, Owner
    <3>1. PICK c \in Range(list) : c.id = j /\ files[j].convs \subseteq {c.conv}
      BY <1>1, <2>1, AtRest DEF Owned, Owner
    <3>2. c \in Range(list')
      BY <2>2, <2>4, <2>5, <3>1
    <3> QED
      BY <2>6, <3>1, <3>2 DEF Owner
  <2>7. Owned(list)' /\ Owned(index.chats)'
    BY <1>1, <2>1, <2>6
  <2>8. \A k \in DOMAIN todo' : IsIndex(todo[k])' => Owned(todo[k].chats)'
    <3>1. Owned(W)'
      BY <2>2, <2>6
    <3>2. found => Owned(todo[1].chats)'
      BY <1>8, <3>1 DEF Owned
    <3> QED
      BY <1>8, <1>15, <3>2
  <2> QED
    BY <2>3, <2>7, <2>8 DEF FilesOwned
<1>22. OpenInv'
  BY <1>21 DEF OpenInv
<1> QED
  BY <1>10, <1>11, <1>12, <1>13, <1>14, <1>17, <1>18, <1>20, <1>22

LEMMA ConfirmDeleteStep ==
  ASSUME StoreInv, ConfirmDelete
  PROVE  StoreInv'
  BY ConfirmDeleteOf

-----------------------------------------------------------------------------
(* The file operations *)

LEMMA TailOf ==
  ASSUME NEW s \in Seq(FileOps), s # <<>>
  PROVE  /\ DOMAIN s = 1 .. Len(s) /\ Len(s) \in Nat /\ Len(s) >= 1 /\ 1 \in DOMAIN s
         /\ Head(s) = s[1] /\ \A k \in DOMAIN s : s[k] \in FileOps
         /\ Tail(s) \in Seq(FileOps) /\ Len(Tail(s)) = Len(s) - 1
         /\ DOMAIN Tail(s) = 1 .. Len(s) - 1
         /\ \A k \in DOMAIN Tail(s) : k + 1 \in DOMAIN s /\ Tail(s)[k] = s[k + 1]
         /\ \A k \in DOMAIN s : k # 1 => k - 1 \in DOMAIN Tail(s) /\ Tail(s)[k - 1] = s[k]
         /\ Len(s) = 1 => Tail(s) = <<>>
<1>1. DOMAIN s = 1 .. Len(s) /\ Len(s) \in Nat /\ Len(s) >= 1
  OBVIOUS
<1>2. Head(s) = s[1] /\ \A k \in DOMAIN s : s[k] \in FileOps
  BY <1>1
<1>3. /\ Tail(s) \in Seq(FileOps) /\ Len(Tail(s)) = Len(s) - 1
      /\ \A k \in 1 .. Len(Tail(s)) : Tail(s)[k] = s[k + 1]
  BY HeadTailProperties
<1>4. DOMAIN Tail(s) = 1 .. Len(s) - 1
  BY <1>3
<1>5. \A k \in DOMAIN Tail(s) : k + 1 \in DOMAIN s /\ Tail(s)[k] = s[k + 1]
  BY <1>1, <1>3, <1>4
<1>6. \A k \in DOMAIN s : k # 1 => k - 1 \in DOMAIN Tail(s) /\ Tail(s)[k - 1] = s[k]
  <2> TAKE k \in DOMAIN s
  <2> HAVE k # 1
  <2>1. k - 1 \in DOMAIN Tail(s) /\ (k - 1) + 1 = k
    BY <1>1, <1>4
  <2> QED
    BY <1>5, <2>1
<1>7. Len(s) = 1 => Tail(s) = <<>>
  <2> DEFINE u == Tail(s)
  <2>1. Len(s) = 1 => u \in Seq(FileOps) /\ Len(u) = 0
    BY <1>3
  <2> HIDE DEF u
  <2>2. Len(s) = 1 => u = <<>>
    BY <2>1, EmptySeq
  <2> QED
    BY <2>2 DEF u
<1> QED
  BY <1>1, <1>2, <1>3, <1>4, <1>5, <1>6, <1>7

\* The operation s begins with is half done.
LEMMA Retouched ==
  ASSUME NEW s \in Seq(FileOps), s # <<>>
  PROVE  LET t == <<[Head(s) EXCEPT !.op = "fill"]>> \o Tail(s) IN
         /\ t \in Seq(FileOps) /\ Len(t) = Len(s) /\ DOMAIN t = DOMAIN s
         /\ t[1] = [s[1] EXCEPT !.op = "fill"]
         /\ \A k \in DOMAIN s : k # 1 => t[k] = s[k]
<1> DEFINE t == <<[Head(s) EXCEPT !.op = "fill"]>> \o Tail(s)
<1> DEFINE h == <<[s[1] EXCEPT !.op = "fill"]>>
<1>5. Len(s) \in Nat /\ Len(s) >= 1 /\ DOMAIN s = 1 .. Len(s) /\ s[1] \in FileOps
  BY TailOf
<1>1. [s[1] EXCEPT !.op = "fill"] \in FileOps
  BY <1>5 DEF FileOps
<1>2. h \in Seq(FileOps) /\ Len(h) = 1 /\ h[1] = [s[1] EXCEPT !.op = "fill"]
  BY <1>1
<1>3. t = h \o Tail(s) /\ Tail(s) \in Seq(FileOps) /\ Len(Tail(s)) = Len(s) - 1
  BY TailOf
<1> HIDE DEF h, t
<1>4. /\ t \in Seq(FileOps) /\ Len(t) = 1 + (Len(s) - 1)
      /\ \A k \in 1 .. 1 + (Len(s) - 1) : t[k] = IF k <= 1 THEN h[k] ELSE Tail(s)[k - 1]
  <2> DEFINE u == Tail(s)
  <2>1. u \in Seq(FileOps) /\ t = h \o u /\ Len(h) = 1 /\ Len(u) = Len(s) - 1
    BY <1>2, <1>3
  <2> HIDE DEF u
  <2>2. /\ h \o u \in Seq(FileOps) /\ Len(h \o u) = Len(h) + Len(u)
        /\ \A k \in 1 .. Len(h) + Len(u) : (h \o u)[k] = IF k <= Len(h) THEN h[k] ELSE u[k - Len(h)]
    <3>1. h \in Seq(FileOps) /\ u \in Seq(FileOps)
      BY <1>2, <2>1
    <3> QED
      BY <3>1, ConcatProperties
  <2> QED
    BY <2>1, <2>2 DEF u
<1>6. Len(t) = Len(s) /\ DOMAIN t = DOMAIN s
  BY <1>4, <1>5
<1>7. \A k \in DOMAIN s : k # 1 => t[k] = s[k]
  BY <1>4, <1>5, TailOf
<1> QED
  BY <1>2, <1>4, <1>5, <1>6, <1>7 DEF t

\* The last operation of a handler, on the file of chat i: written, given up
\* half-way, or deleted.
LEMMA FileDone ==
  ASSUME StoreInv, Len(todo) = 1, NEW i, i = todo[1].id, i # 0, todo' = <<>>,
         UNCHANGED <<memory, index, created, deleted, upset>>,
         NEW f \in [state : States, convs : SUBSET Ids], files' = [files EXCEPT ![i] = f],
         \/ /\ todo[1].op = "fill" /\ f = [state |-> "ok", convs |-> todo[1].convs]
            /\ saved' = saved \cup todo[1].convs /\ torn' = torn /\ faults' = faults
         \/ /\ todo[1].op = "fill" /\ f.state # "ok" /\ f.convs = {}
            /\ saved' = saved /\ torn' = torn \cup {i} /\ faults' = faults + 1
         \/ /\ todo[1].op = "delete" /\ f.state # "ok" /\ f.convs = {}
            /\ saved' = saved /\ torn' = torn /\ faults' = faults
  PROVE  StoreInv'
<1> USE DEF StoreInv, Basic, memory
<1> DEFINE convs == todo[1].convs
<1>1. /\ todo \in Seq(FileOps) /\ DOMAIN todo = {1} /\ todo[1] \in FileOps
      /\ todo # <<>>
  <2>1. todo \in Seq(FileOps)
    BY DEF Types
  <2>2. todo # <<>> /\ DOMAIN todo = 1 .. 1
    BY <2>1, SingleOf
  <2>3. todo[1] \in FileOps
    BY <2>1, <2>2, TailOf
  <2> QED
    BY <2>1, <2>2, <2>3
<1>2. i \in Ids /\ i \in 0 .. MaxChats /\ convs \in SUBSET Ids
  BY <1>1, StoreAssumption DEF FileOps, Ids
<1>3. /\ todo[1].chats = <<>> /\ Range(todo[1].chats) = {} /\ ~IsIndex(todo[1]) /\ NoIndex
      /\ ~Filling(0) /\ ~Removing
      /\ IsFile(todo[1]) <=> todo[1].op # "delete"
  BY <1>1, RangeEmpty DEF Shape, IsIndex, IsFile, NoIndex, Filling, Removing
<1>4. /\ Known = Range(list) \cup Range(index.chats) /\ Known' = Known /\ Upto' = Upto
      /\ DOMAIN todo' = {} /\ NoIndex' /\ ~Removing'
      /\ \A j : ~Filling(j)' /\ ~Leaving(j)'
  <2>1. Known = Range(list) \cup Range(index.chats)
    BY <1>1, <1>3 DEF Known
  <2>2. Known' = Range(list) \cup Range(index.chats) /\ DOMAIN todo' = {}
    BY DEF Known
  <2> QED
    BY <2>1, <2>2 DEF Upto, NoIndex, Filling, Leaving, Removing
<1>5. /\ files'[i] = f /\ \A j \in Ids : j # i => files'[j] = files[j]
      /\ files' \in [Ids -> [state : States, convs : SUBSET Ids]]
  BY <1>2 DEF Types
<1>15. faults \in Nat /\ (faults' = faults \/ faults' = faults + 1) /\ faults' \in Nat
  BY DEF Types
<1>16. faults' = 0 \/ 0 \notin torn' => faults = 0 \/ 0 \notin torn
  BY <1>15
<1>6. Types'
  <2>1. saved' \subseteq Ids /\ torn' \subseteq 0 .. MaxChats
    BY <1>2 DEF Types
  <2> QED
    BY <1>5, <1>15, <2>1 DEF Types
<1>7. Shape' /\ AllDistinct'
  BY <1>4 DEF Shape, AllDistinct
<1>8. Fresh' /\ OneChat'
  <2>1. convs \subseteq Upto
    BY <1>1 DEF Fresh
  <2>2. \A j \in Ids : files'[j].convs \subseteq Upto
    BY <1>5, <2>1 DEF Fresh
  <2>3. Fresh'
    BY <1>4, <2>1, <2>2 DEF Fresh
  <2> QED
    BY <1>4, <2>3 DEF OneChat
<1>9. HeadingInv'
  <2> SUFFICES ASSUME ~upset.stale, faults' = 0 \/ 0 \notin torn' PROVE Heading'
    BY DEF HeadingInv
  <2>1. faults = 0 \/ 0 \notin torn
    BY <1>16
  <2>2. list = index.chats
    BY <1>3, <2>1 DEF HeadingInv, Heading, NoIndex, LastIndex
  <2> QED
    BY <1>4, <2>2 DEF Heading
<1>10. GoneInv'
  <2>1. faults' = 0 => faults = 0
    BY DEF Types
  <2> QED
    BY <1>3, <1>4, <2>1 DEF GoneInv, Clean
<1>11. ASSUME ~upset.mixed, 0 \notin torn'
       PROVE  OneId' /\ ListCovers' /\ OneAnswer' /\ FilesRight' /\ Kept'
  <2>1. OneId /\ ListCovers /\ OneAnswer /\ FilesRight /\ Kept
    BY <1>11 DEF KeepInv
  <2>2. OneId' /\ ListCovers' /\ OneAnswer'
    BY <1>3, <1>4, <2>1 DEF OneId, ListCovers, OneAnswer, Includes, OnlyOf
  <2>3. FilesRight'
    BY <1>1, <1>3, <1>4, <1>5, <2>1 DEF FilesRight, OnlyOf
  <2>4. Kept'
    <3> SUFFICES ASSUME NEW c \in Known, c.conv \in saved' \ deleted, c.id \notin torn'
                 PROVE  files'[c.id].state = "ok" /\ c.conv \in files'[c.id].convs
      BY <1>4 DEF Kept
    <3>1. c.id \in Ids
      BY KnownChats, ChatIsNot
    <3>2. CASE c.id # i
      <4>1. c.conv \in saved
        BY <1>1, <1>3, <2>1, <3>2 DEF FilesRight, OnlyOf
      <4>2. ~Filling(c.id)
        BY <3>2 DEF Filling
      <4> QED
        BY <1>5, <2>1, <3>1, <3>2, <4>1, <4>2 DEF Kept
    <3>3. CASE c.id = i
      <4>1. todo[1].op # "delete"
        BY <1>1, <2>1, <3>3 DEF FilesRight
      <4>2. c.conv \in convs
        BY <1>1, <1>3, <2>1, <3>3, <4>1 DEF FilesRight, Includes
      <4> QED
        BY <1>5, <3>3, <4>1, <4>2
    <3> QED
      BY <3>2, <3>3
  <2> QED
    BY <2>2, <2>3, <2>4
<1>12. KeepInv'
  BY <1>11 DEF KeepInv
<1>13. ASSUME ~upset.mixed, ~upset.half, ~upset.stale, 0 \notin torn'
       PROVE  ShownOwned' /\ FilesOwned'
  <2>4. 0 \notin torn
    BY <1>13
  <2>1. ShownOwned /\ FilesOwned /\ list = index.chats
    BY <1>3, <1>13, <2>4 DEF OpenInv, HeadingInv, Heading, NoIndex, LastIndex
  <2>2. ShownOwned'
    BY <1>4, <2>1 DEF ShownOwned, Owner
  <2>3. Owned(list)'
    <3> SUFFICES ASSUME NEW j \in Ids, files'[j].state = "ok", files'[j].convs # {}
                 PROVE  Owner(list, j, files'[j].convs)
      BY DEF Owned, Owner
    <3>1. CASE j = i
      <4>1. todo[1].op = "fill" /\ files'[j].convs = convs
        BY <1>5, <3>1
      <4> QED
        BY <1>1, <1>3, <2>1, <3>1, <4>1 DEF ShownOwned
    <3>2. CASE j # i
      <4>1. ~Leaving(j)
        BY <1>1, <3>2 DEF Leaving
      <4> QED
        BY <1>5, <2>1, <3>2, <4>1 DEF FilesOwned, Owned
    <3> QED
      BY <3>1, <3>2
  <2>5. Owned(index.chats)'
    BY <2>1, <2>3 DEF Owned
  <2> QED
    BY <1>4, <2>2, <2>3, <2>5 DEF FilesOwned
<1>14. OpenInv'
  BY <1>13 DEF OpenInv
<1> QED
  BY <1>6, <1>7, <1>8, <1>9, <1>10, <1>12, <1>14

\* What the first operation is.
LEMMA FirstOf ==
  ASSUME Types, todo # <<>>
  PROVE  /\ todo \in Seq(FileOps) /\ 1 \in DOMAIN todo /\ DOMAIN todo = 1 .. Len(todo)
         /\ Len(todo) \in Nat /\ Head(todo) = todo[1] /\ todo[1] \in FileOps
         /\ \A k \in DOMAIN todo : todo[k] \in FileOps
<1>1. todo \in Seq(FileOps)
  BY DEF Types
<1> QED
  BY <1>1, TailOf

LEMMA TruncateStep ==
  ASSUME StoreInv, Truncate, NEW i, i = todo[1].id
  PROVE  StoreInv'
<1> USE DEF StoreInv, Basic
<1>1. todo # <<>> /\ todo' = <<[Head(todo) EXCEPT !.op = "fill"]>> \o Tail(todo)
  BY DEF Truncate
<1>2. /\ todo \in Seq(FileOps) /\ 1 \in DOMAIN todo /\ DOMAIN todo = 1 .. Len(todo)
      /\ Head(todo) = todo[1] /\ todo[1] \in FileOps
  BY <1>1, FirstOf
<1>3. /\ todo[1].op = "write" /\ Put(i, "empty", <<>>, {})
      /\ UNCHANGED <<memory, counters, history>>
  BY <1>2 DEF Truncate
<1>4. /\ todo' \in Seq(FileOps) /\ Len(todo') = Len(todo) /\ DOMAIN todo' = DOMAIN todo
      /\ todo'[1] = [todo[1] EXCEPT !.op = "fill"]
      /\ \A k \in DOMAIN todo : k # 1 => todo'[k] = todo[k]
  <2>1. todo \in Seq(FileOps)
    BY <1>2
  <2> QED
    BY <1>1, <2>1, Retouched
<1>5. /\ todo'[1].op = "fill" /\ todo'[1].id = i
      /\ \A k \in DOMAIN todo : /\ todo'[k].id = todo[k].id /\ todo'[k].chats = todo[k].chats
                                /\ todo'[k].convs = todo[k].convs
                                /\ todo'[k].op = "delete" <=> todo[k].op = "delete"
                                /\ IsIndex(todo[k])' <=> IsIndex(todo[k])
                                /\ IsFile(todo[k])' <=> IsFile(todo[k])
  <2>1. /\ todo'[1].op = "fill" /\ todo'[1].id = todo[1].id /\ todo'[1].chats = todo[1].chats
        /\ todo'[1].convs = todo[1].convs
    BY <1>2, <1>4 DEF FileOps
  <2> QED
    BY <1>3, <1>4, <2>1 DEF IsIndex, IsFile
<1>6. i \in 0 .. MaxChats /\ (i # 0 => i \in Ids) /\ MaxChats \in Nat
  BY <1>2, StoreAssumption DEF FileOps, Ids
<1>7. IF i = 0 THEN index' = [state |-> "empty", chats |-> <<>>] /\ files' = files
      ELSE files' = [files EXCEPT ![i] = [state |-> "empty", convs |-> {}]] /\ index' = index
  BY <1>3 DEF Put
<1>8. /\ files' \in [Ids -> [state : States, convs : SUBSET Ids]]
      /\ \A j \in Ids : j # i => files'[j] = files[j]
      /\ i \in Ids => files'[i].state = "empty" /\ files'[i].convs = {}
      /\ \A j \in Ids : files'[j].state = "ok" => files'[j] = files[j]
  <2>1. files \in [Ids -> [state : States, convs : SUBSET Ids]] /\ 0 \notin Ids
    BY DEF Types, Ids
  <2>2. CASE i = 0
    BY <1>7, <2>1, <2>2
  <2>3. CASE i # 0
    <3>1. [state |-> "empty", convs |-> {}] \in [state : States, convs : SUBSET Ids]
      BY DEF States
    <3> QED
      BY <1>6, <1>7, <2>1, <2>3, <3>1
  <2> QED
    BY <2>2, <2>3
<1>9. /\ index' \in [state : States, chats : Seq(Chat)]
      /\ index'.state # "ok" => index'.chats = <<>>
      /\ index'.chats = index.chats \/ index'.chats = <<>>
      /\ i # 0 => index'.chats = index.chats
  <2>1. CASE i = 0
    <3>1. index' = [state |-> "empty", chats |-> <<>>]
      BY <1>7, <2>1
    <3>2. <<>> \in Seq(Chat) /\ "empty" \in States /\ "empty" # "ok"
      BY DEF States
    <3> QED
      BY <2>1, <3>1, <3>2
  <2>2. CASE i # 0
    BY <1>7, <2>2 DEF Types
  <2> QED
    BY <2>1, <2>2
<1>10. Types'
  BY <1>3, <1>4, <1>8, <1>9 DEF Types, memory, counters, history
<1>11. /\ Known' \subseteq Known /\ Upto' = Upto
       /\ \A k \in DOMAIN todo : LastIndex(k)' <=> LastIndex(k)
       /\ NoIndex' <=> NoIndex
       /\ \A j : Leaving(j)' <=> Leaving(j)
       /\ Filling(i)' /\ \A j : ~Filling(j)
       /\ Removing' <=> Removing
       /\ Range(index'.chats) \subseteq Range(index.chats)
  <2>1. Range(index'.chats) \subseteq Range(index.chats)
    BY <1>9, RangeEmpty
  <2>2. Known' \subseteq Known /\ Upto' = Upto
    BY <1>3, <1>4, <1>5, <2>1 DEF Known, memory, counters, Upto
  <2>3. NoIndex' <=> NoIndex
    BY <1>4, <1>5 DEF NoIndex
  <2>4. \A j : Leaving(j)' <=> Leaving(j)
    BY <1>4, <1>5 DEF Leaving
  <2>5. Filling(i)' /\ \A j : ~Filling(j)
    <3>1. todo' # <<>>
      BY <1>2, <1>4
    <3> QED
      BY <1>3, <1>5, <3>1 DEF Filling
  <2>6. Removing' <=> Removing
    BY <1>2, <1>4, <1>5 DEF Removing
  <2> QED
    BY <1>4, <1>5, <2>1, <2>2, <2>3, <2>4, <2>5, <2>6 DEF LastIndex
<1>12. Shape'
  BY <1>4, <1>5 DEF Shape
<1>13. AllDistinct'
  BY <1>3, <1>4, <1>5, <1>9, RangeEmpty DEF AllDistinct, memory
<1>14. Fresh' /\ OneChat'
  <2>1. \A j \in Ids : files'[j].convs \subseteq Upto
    BY <1>8 DEF Fresh
  <2>2. Fresh'
    BY <1>3, <1>4, <1>5, <1>11, <2>1 DEF Fresh, memory, counters, history
  <2> QED
    BY <1>3, <1>11, <2>2 DEF OneChat, memory, counters
<1>15. i = 0 => ~NoIndex
  BY <1>2 DEF NoIndex, IsIndex
<1>16. HeadingInv'
  <2>1. Heading => Heading'
    BY <1>3, <1>4, <1>5, <1>9, <1>11, <1>15 DEF Heading, memory
  <2> QED
    BY <1>3, <2>1 DEF HeadingInv, counters, history
<1>17. GoneInv'
  BY <1>3, <1>4, <1>5, <1>11 DEF GoneInv, Clean, memory, counters, history
<1>18. ASSUME ~upset.mixed, 0 \notin torn
       PROVE  OneId' /\ ListCovers' /\ OneAnswer' /\ FilesRight' /\ Kept'
  <2>1. OneId /\ ListCovers /\ OneAnswer /\ FilesRight /\ Kept
    BY <1>18 DEF KeepInv
  <2>2. OneId'
    BY <1>3, <1>11, <2>1 DEF OneId, memory
  <2>3. ListCovers'
    BY <1>3, <1>4, <1>5, <1>11, <2>1 DEF ListCovers, memory
  <2>4. OneAnswer'
    BY <1>3, <1>11, <2>1 DEF OneAnswer, Includes, OnlyOf, memory, history
  <2>5. \A j \in Ids : files'[j].state = "ok" => OnlyOf(j, files[j].convs)'
    BY <1>3, <1>8, <1>11, <2>1 DEF FilesRight, OnlyOf, history
  <2>6. FilesRight'
    BY <1>3, <1>4, <1>5, <1>11, <2>1, <2>5 DEF FilesRight, Includes, OnlyOf, history
  <2>7. \A c \in Known : c.id \in Ids
    BY KnownChats, ChatIsNot
  <2>8. Kept'
    BY <1>3, <1>8, <1>11, <2>1, <2>7 DEF Kept, history
  <2> QED
    BY <2>2, <2>3, <2>4, <2>6, <2>8
<1>19. KeepInv'
  BY <1>3, <1>18 DEF KeepInv, history
<1>20. ASSUME ~upset.mixed, ~upset.half, ~upset.stale, 0 \notin torn
       PROVE  ShownOwned' /\ FilesOwned'
  <2>1. ShownOwned /\ FilesOwned
    BY <1>20 DEF OpenInv
  <2>2. ShownOwned'
    BY <1>3, <1>4, <1>5, <2>1 DEF ShownOwned, Owner, memory
  <2>3. ASSUME NEW s, Owned(s)
        PROVE  \A j \in Ids : files'[j].state = "ok" /\ files'[j].convs # {}
                                => Owner(s, j, files'[j].convs) \/ Leaving(j)'
    BY <1>8, <1>11, <2>3 DEF Owned
  <2>4. Owned(list)' /\ \A k \in DOMAIN todo' : IsIndex(todo[k])' => Owned(todo[k].chats)'
    <3>1. Owned(list) /\ \A k \in DOMAIN todo : IsIndex(todo[k]) => Owned(todo[k].chats)
      BY <2>1 DEF FilesOwned
    <3>2. \A j \in Ids : files'[j].state = "ok" /\ files'[j].convs # {}
                         => Owner(list, j, files'[j].convs) \/ Leaving(j)'
      BY <2>3, <3>1
    <3>3. Owned(list)'
      BY <1>3, <3>2 DEF Owned, Owner, memory
    <3>4. \A k \in DOMAIN todo' : IsIndex(todo[k])' => Owned(todo[k].chats)'
      BY <1>3, <1>4, <1>5, <3>1, <2>3 DEF Owned, Owner
    <3> QED
      BY <3>3, <3>4
  <2>5. Owned(index.chats)' \/ Filling(0)'
    <3>1. Owned(index.chats)
      BY <1>11, <2>1 DEF FilesOwned
    <3> QED
      BY <1>9, <1>11, <2>3, <3>1 DEF Owned, Owner
  <2> QED
    BY <2>2, <2>4, <2>5 DEF FilesOwned
<1>21. OpenInv'
  BY <1>3, <1>20 DEF OpenInv, history
<1> QED
  BY <1>10, <1>12, <1>13, <1>14, <1>16, <1>17, <1>19, <1>21

\* The index is the list that was on its way.
LEMMA FillIndexStep ==
  ASSUME StoreInv, Fill, todo[1].id = 0
  PROVE  StoreInv'
<1> USE DEF StoreInv, Basic
<1>1. todo # <<>> /\ todo' = Tail(todo)
  BY DEF Fill
<1>2. /\ todo \in Seq(FileOps) /\ 1 \in DOMAIN todo /\ DOMAIN todo = 1 .. Len(todo)
      /\ Len(todo) \in Nat /\ Head(todo) = todo[1] /\ todo[1] \in FileOps
  BY <1>1, FirstOf
<1>3. /\ IsIndex(todo[1]) /\ todo[1].op = "fill" /\ todo[1].convs = {}
      /\ UNCHANGED <<memory, counters, deleted, torn, upset, files>>
      /\ index' = [state |-> "ok", chats |-> todo[1].chats]
  BY <1>2 DEF Fill, Put, IsIndex, Shape
<1>4. saved' = saved
  BY <1>2, <1>3 DEF Fill
<1>5. /\ todo' \in Seq(FileOps) /\ Len(todo') = Len(todo) - 1 /\ DOMAIN todo' = 1 .. Len(todo) - 1
      /\ \A k \in DOMAIN todo' : k + 1 \in DOMAIN todo /\ todo'[k] = todo[k + 1]
      /\ \A k \in DOMAIN todo : k # 1 => k - 1 \in DOMAIN todo' /\ todo'[k - 1] = todo[k]
  BY <1>1, <1>2, TailOf
<1>6. /\ index'.chats = todo[1].chats /\ index'.chats \in Seq(Chat)
      /\ index' \in [state : States, chats : Seq(Chat)] /\ index'.state = "ok"
  <2>1. todo[1].chats \in Seq(Chat) /\ "ok" \in States
    BY <1>2 DEF FileOps, States
  <2> QED
    BY <1>3, <2>1
<1>7. Types'
  BY <1>3, <1>4, <1>5, <1>6 DEF Types, memory, counters
<1>8. Known' \subseteq Known /\ Upto' = Upto
  <2>1. \A k \in DOMAIN todo' : Range(todo'[k].chats) \subseteq Known
    BY <1>5, KnownChats
  <2>2. Range(list') \subseteq Known /\ Range(index'.chats) \subseteq Known
    BY <1>2, <1>3, <1>6, KnownChats DEF memory
  <2> QED
    BY <1>3, <2>1, <2>2 DEF Known, Upto, counters
<1>9. /\ \A k \in DOMAIN todo' : (k + 1) # 1 /\ (LastIndex(k)' <=> LastIndex(k + 1))
      /\ NoIndex' => LastIndex(1)
      /\ \A j : ~Filling(j)'
      /\ \A j : Leaving(j) => Leaving(j)'
      /\ \A j \in Ids : ~Filling(j)
  <2>1. ASSUME NEW k \in DOMAIN todo' PROVE (k + 1) # 1 /\ (LastIndex(k)' <=> LastIndex(k + 1))
    <3>1. k \in Nat /\ k >= 1 /\ Len(todo) - 1 \in Nat
      BY <1>2, <1>5
    <3>2. ASSUME LastIndex(k)' PROVE LastIndex(k + 1)
      <4> SUFFICES ASSUME NEW j \in DOMAIN todo, j > k + 1 PROVE ~IsIndex(todo[j])
        BY <1>5, <3>2 DEF LastIndex, IsIndex
      <4>1. j # 1 /\ j - 1 \in DOMAIN todo' /\ j - 1 > k /\ todo'[j - 1] = todo[j]
        BY <1>2, <1>5, <3>1
      <4> QED
        BY <3>2, <4>1 DEF LastIndex, IsIndex
    <3>3. ASSUME LastIndex(k + 1) PROVE LastIndex(k)'
      <4> SUFFICES ASSUME NEW j \in DOMAIN todo', j > k PROVE ~IsIndex(todo[j])'
        BY <1>5, <3>3 DEF LastIndex, IsIndex
      <4>1. j + 1 \in DOMAIN todo /\ j + 1 > k + 1 /\ todo'[j] = todo[j + 1]
        BY <1>2, <1>5, <3>1
      <4> QED
        BY <3>3, <4>1 DEF LastIndex, IsIndex
    <3> QED
      BY <3>1, <3>2, <3>3
  <2>2. NoIndex' => LastIndex(1)
    <3> SUFFICES ASSUME NoIndex', NEW j \in DOMAIN todo, j > 1 PROVE ~IsIndex(todo[j])
      BY <1>3 DEF LastIndex
    <3>1. j # 1 /\ j - 1 \in DOMAIN todo' /\ todo'[j - 1] = todo[j]
      BY <1>2, <1>5
    <3> QED
      BY <3>1 DEF NoIndex, IsIndex
  <2>3. \A k \in DOMAIN todo' : todo'[k].op # "fill"
    <3> TAKE k \in DOMAIN todo'
    <3>1. k + 1 \in DOMAIN todo /\ k + 1 # 1 /\ todo'[k] = todo[k + 1]
      BY <1>5, <2>1
    <3>2. todo[k + 1].op = "fill" => k + 1 = 1
      BY <3>1 DEF Shape
    <3> QED
      BY <3>1, <3>2
  <2>4. \A j : ~Filling(j)'
    <3>1. todo' # <<>> => 1 \in DOMAIN todo'
      BY <1>5
    <3> QED
      BY <2>3, <3>1 DEF Filling
  <2>5. ASSUME NEW j, Leaving(j) PROVE Leaving(j)'
    <3>1. PICK k \in DOMAIN todo : todo[k].op = "delete" /\ todo[k].id = j
      BY <2>5 DEF Leaving
    <3>2. k - 1 \in DOMAIN todo' /\ todo'[k - 1] = todo[k]
      BY <1>3, <1>5, <3>1
    <3> QED
      BY <3>1, <3>2 DEF Leaving
  <2>6. \A j \in Ids : ~Filling(j)
    BY <1>3 DEF Filling, IsIndex, Ids
  <2> QED
    BY <2>1, <2>2, <2>4, <2>5, <2>6
<1>10. Shape'
  <2>1. Len(todo') <= 2
    BY <1>2, <1>5 DEF Shape
  <2>2. ASSUME NEW k \in DOMAIN todo'
        PROVE  /\ todo'[k].op # "fill" /\ ~IsFile(todo'[k])
               /\ todo'[k].op = "delete" => k = Len(todo') /\ todo'[k].id # 0
               /\ IF IsIndex(todo'[k]) THEN todo'[k].convs = {} ELSE todo'[k].chats = <<>>
    <3>1. k \in Nat /\ k >= 1 /\ k + 1 \in DOMAIN todo /\ k + 1 # 1 /\ Len(todo) >= 2
      BY <1>2, <1>5, <1>9
    <3>2. k + 1 = Len(todo) => k = Len(todo')
      BY <1>2, <1>5, <3>1
    <3>3. Len(todo) # 1
      BY <3>1, <1>2
    <3> DEFINE w == todo[k + 1]
    <3>4. /\ w.op = "fill" => k + 1 = 1
          /\ w.op = "delete" => k + 1 = Len(todo) /\ w.id # 0
          /\ IsFile(w) => Len(todo) = 1
          /\ IF IsIndex(w) THEN w.convs = {} ELSE w.chats = <<>>
      BY <3>1 DEF Shape
    <3>5. todo'[k] = w
      BY <1>5
    <3> HIDE DEF w
    <3> QED
      BY <3>1, <3>2, <3>3, <3>4, <3>5
  <2> QED
    BY <2>1, <2>2 DEF Shape, IsFile, IsIndex
<1>11. AllDistinct'
  BY <1>2, <1>3, <1>5, <1>6 DEF AllDistinct, memory
<1>12. Fresh' /\ OneChat'
  <2>1. Fresh'
    BY <1>3, <1>4, <1>5, <1>8 DEF Fresh, memory, counters
  <2> QED
    BY <1>3, <1>8, <2>1 DEF OneChat, memory, counters
<1>13. HeadingInv'
  <2> SUFFICES ASSUME Heading PROVE Heading'
    BY <1>3 DEF HeadingInv, counters
  <2>1. PICK k \in DOMAIN todo : LastIndex(k) /\ todo[k].chats = list
    BY <1>2, <1>3 DEF Heading, NoIndex
  <2>2. CASE k = 1
    <3>1. \A j \in DOMAIN todo' : ~IsIndex(todo[j])'
      <4> TAKE j \in DOMAIN todo'
      <4>1. j + 1 \in DOMAIN todo /\ j + 1 > 1 /\ todo'[j] = todo[j + 1]
        BY <1>2, <1>5
      <4> QED
        BY <2>1, <2>2, <4>1 DEF LastIndex, IsIndex
    <3> QED
      BY <1>3, <1>6, <2>1, <2>2, <3>1 DEF Heading, NoIndex, memory
  <2>3. CASE k # 1
    <3>1. k - 1 \in DOMAIN todo' /\ todo'[k - 1] = todo[k] /\ (k - 1) + 1 = k
      BY <1>2, <1>5, <2>3
    <3>2. LastIndex(k - 1)'
      BY <1>9, <2>1, <3>1
    <3> QED
      BY <1>3, <2>1, <3>1, <3>2 DEF Heading, memory
  <2> QED
    BY <2>2, <2>3
<1>14. GoneInv'
  BY <1>2, <1>3, <1>5, <1>6 DEF GoneInv, Clean, memory, counters
<1>15. ASSUME ~upset.mixed, 0 \notin torn
       PROVE  OneId' /\ ListCovers' /\ OneAnswer' /\ FilesRight' /\ Kept'
  <2>1. OneId /\ ListCovers /\ OneAnswer /\ FilesRight /\ Kept
    BY <1>15 DEF KeepInv
  <2>2. OneId'
    BY <1>3, <1>8, <2>1 DEF OneId, memory
  <2>3. ListCovers'
    BY <1>2, <1>3, <1>5, <1>6, <1>9, <2>1 DEF ListCovers, memory
  <2>4. OneAnswer'
    BY <1>3, <1>8, <2>1 DEF OneAnswer, Includes, OnlyOf, memory
  <2>5. FilesRight'
    BY <1>3, <1>5, <1>8, <2>1 DEF FilesRight, Includes, OnlyOf, IsFile
  <2>6. \A c \in Known : c.id \in Ids
    BY KnownChats, ChatIsNot
  <2>7. Kept'
    BY <1>3, <1>4, <1>8, <1>9, <2>1, <2>6 DEF Kept
  <2> QED
    BY <2>2, <2>3, <2>4, <2>5, <2>7
<1>16. KeepInv'
  BY <1>3, <1>15 DEF KeepInv
<1>17. ASSUME ~upset.mixed, ~upset.half, ~upset.stale, 0 \notin torn
       PROVE  ShownOwned' /\ FilesOwned'
  <2>1. ShownOwned /\ FilesOwned
    BY <1>17 DEF OpenInv
  <2>2. ShownOwned'
    BY <1>3, <1>5, <2>1 DEF ShownOwned, Owner, memory, IsFile
  <2>3. ASSUME NEW s, Owned(s)
        PROVE  \A j \in Ids : files'[j].state = "ok" /\ files'[j].convs # {}
                                => Owner(s, j, files'[j].convs) \/ Leaving(j)'
    BY <1>3, <1>9, <2>3 DEF Owned
  <2>4. Owned(list)' /\ \A k \in DOMAIN todo' : IsIndex(todo[k])' => Owned(todo[k].chats)'
    <3>1. Owned(list)'
      BY <1>3, <2>1, <2>3 DEF FilesOwned, Owned, Owner, memory
    <3>2. ASSUME NEW k \in DOMAIN todo', IsIndex(todo'[k])
          PROVE  Owned(todo[k].chats)'
      <4>1. Owned(todo[k + 1].chats) /\ todo'[k] = todo[k + 1]
        BY <1>5, <2>1, <3>2 DEF FilesOwned
      <4> QED
        BY <2>3, <4>1 DEF Owned, Owner
    <3> QED
      BY <3>1, <3>2 DEF IsIndex
  <2>5. Owned(index.chats)'
    BY <1>2, <1>3, <1>6, <2>1, <2>3 DEF FilesOwned, Owned, Owner
  <2> QED
    BY <2>2, <2>4, <2>5 DEF FilesOwned
<1>18. OpenInv'
  BY <1>3, <1>17 DEF OpenInv
<1> QED
  BY <1>7, <1>10, <1>11, <1>12, <1>13, <1>14, <1>16, <1>18

\* An operation on a chat's file other than opening it is the last one.
LEMMA LastOp ==
  ASSUME StoreInv, todo # <<>>, todo[1].id # 0, todo[1].op # "write", todo' = Tail(todo)
  PROVE  Len(todo) = 1 /\ todo' = <<>>
<1>1. todo \in Seq(FileOps) /\ 1 \in DOMAIN todo /\ todo[1] \in FileOps
  BY FirstOf DEF StoreInv, Basic
<1>2. Len(todo) = 1
  BY <1>1 DEF StoreInv, Basic, Shape, IsFile, FileOps
<1> QED
  BY <1>1, <1>2, TailOf

LEMMA FillStep ==
  ASSUME StoreInv, Fill
  PROVE  StoreInv'
<1>1. todo # <<>> /\ todo' = Tail(todo) /\ Types
  BY DEF Fill, StoreInv, Basic
<1>2. todo \in Seq(FileOps) /\ Head(todo) = todo[1] /\ todo[1] \in FileOps
  BY <1>1, FirstOf
<1>3. /\ todo[1].op = "fill" /\ saved' = saved \cup todo[1].convs
      /\ Put(todo[1].id, "ok", todo[1].chats, todo[1].convs)
      /\ UNCHANGED <<memory, counters, deleted, torn, upset>>
  BY <1>2 DEF Fill
<1>4. CASE todo[1].id = 0
  BY <1>4, FillIndexStep
<1>5. CASE todo[1].id # 0
  <2> DEFINE f == [state |-> "ok", convs |-> todo[1].convs]
  <2>1. Len(todo) = 1 /\ todo' = <<>>
    BY <1>1, <1>3, <1>5, LastOp
  <2>2. f \in [state : States, convs : SUBSET Ids]
    BY <1>2 DEF FileOps, States
  <2>3. files' = [files EXCEPT ![todo[1].id] = f] /\ index' = index
    BY <1>3, <1>5 DEF Put
  <2>4. created' = created /\ faults' = faults
    BY <1>3 DEF counters
  <2> QED
    BY <1>3, <1>5, <2>1, <2>2, <2>3, <2>4, FileDone
<1> QED
  BY <1>4, <1>5

\* A write of the index given up half-way leaves what is said of the state
\* alone: the rest is of an index that is whole.
LEMMA IndexTorn ==
  ASSUME StoreInv, todo # <<>>, todo[1].id = 0, todo[1].op = "fill", todo' = Tail(todo),
         NEW s \in {"empty", "garbled"}, index' = [state |-> s, chats |-> <<>>],
         faults' = faults + 1, torn' = torn \cup {0},
         UNCHANGED <<memory, files, created, saved, deleted, upset>>
  PROVE  StoreInv'
<1> USE DEF StoreInv, Basic, memory
<1>1. /\ todo \in Seq(FileOps) /\ 1 \in DOMAIN todo /\ DOMAIN todo = 1 .. Len(todo)
      /\ Len(todo) \in Nat
  BY FirstOf
<1>2. /\ todo' \in Seq(FileOps) /\ Len(todo') = Len(todo) - 1 /\ DOMAIN todo' = 1 .. Len(todo) - 1
      /\ \A k \in DOMAIN todo' : k + 1 \in DOMAIN todo /\ todo'[k] = todo[k + 1]
  BY <1>1, TailOf
<1>3. index'.chats = <<>> /\ index' \in [state : States, chats : Seq(Chat)] /\ index'.state # "ok"
  <2>1. <<>> \in Seq(Chat) /\ s \in States /\ s # "ok"
    BY DEF States
  <2> QED
    BY <2>1
<1>4. Types'
  <2>1. faults' \in Nat /\ torn' \subseteq 0 .. MaxChats
    BY StoreAssumption DEF Types
  <2> QED
    BY <1>2, <1>3, <2>1 DEF Types
<1>5. Known' \subseteq Known /\ Upto' = Upto
  <2>1. \A k \in DOMAIN todo' : Range(todo'[k].chats) \subseteq Known
    BY <1>2, KnownChats
  <2>2. Range(list') \subseteq Known /\ Range(index'.chats) = {}
    BY <1>3, KnownChats, RangeEmpty
  <2> QED
    BY <2>1, <2>2 DEF Known, Upto
<1>6. Shape'
  <2>1. Len(todo') <= 2
    BY <1>1, <1>2 DEF Shape
  <2>2. ASSUME NEW k \in DOMAIN todo'
        PROVE  /\ todo'[k].op # "fill" /\ ~IsFile(todo'[k])
               /\ todo'[k].op = "delete" => k = Len(todo') /\ todo'[k].id # 0
               /\ IF IsIndex(todo'[k]) THEN todo'[k].convs = {} ELSE todo'[k].chats = <<>>
    <3>1. k \in Nat /\ k >= 1 /\ k + 1 \in DOMAIN todo /\ k + 1 # 1 /\ Len(todo) >= 2
      BY <1>1, <1>2
    <3>2. k + 1 = Len(todo) => k = Len(todo')
      BY <1>1, <1>2, <3>1
    <3>3. Len(todo) # 1
      BY <3>1, <1>1
    <3> DEFINE w == todo[k + 1]
    <3>4. /\ w.op = "fill" => k + 1 = 1
          /\ w.op = "delete" => k + 1 = Len(todo) /\ w.id # 0
          /\ IsFile(w) => Len(todo) = 1
          /\ IF IsIndex(w) THEN w.convs = {} ELSE w.chats = <<>>
      BY <3>1 DEF Shape
    <3>5. todo'[k] = w
      BY <1>2
    <3> HIDE DEF w
    <3> QED
      BY <3>1, <3>2, <3>3, <3>4, <3>5
  <2> QED
    BY <2>1, <2>2 DEF Shape, IsFile, IsIndex
<1>7. AllDistinct'
  BY <1>2, <1>3, RangeEmpty DEF AllDistinct
<1>8. Fresh' /\ OneChat'
  <2>1. Fresh'
    BY <1>2, <1>5 DEF Fresh
  <2> QED
    BY <1>5, <2>1 DEF OneChat
<1>9. HeadingInv' /\ GoneInv' /\ KeepInv' /\ OpenInv'
  <2>1. 0 \in torn' /\ faults' # 0
    BY DEF Types
  <2> QED
    BY <2>1 DEF HeadingInv, GoneInv, KeepInv, OpenInv
<1> QED
  BY <1>4, <1>6, <1>7, <1>8, <1>9

LEMMA WriteFailsStep ==
  ASSUME StoreInv, WriteFails
  PROVE  StoreInv'
<1>1. todo # <<>> /\ todo' = Tail(todo) /\ Types
  BY DEF WriteFails, StoreInv, Basic
<1>2. Head(todo) = todo[1] /\ todo[1] \in FileOps
  BY <1>1, FirstOf
<1>3. /\ todo[1].op = "fill" /\ faults' = faults + 1 /\ torn' = torn \cup {todo[1].id}
      /\ HalfWritten(todo[1].id)
      /\ UNCHANGED <<memory, created, saved, deleted, upset>>
  BY <1>2 DEF WriteFails
<1>4. PICK s \in {"empty", "garbled"} : Put(todo[1].id, s, <<>>, {})
  BY <1>3 DEF HalfWritten
<1>5. CASE todo[1].id = 0
  <2>1. index' = [state |-> s, chats |-> <<>>] /\ files' = files
    BY <1>4, <1>5 DEF Put
  <2>2. torn' = torn \cup {0}
    BY <1>3, <1>5
  <2> QED
    BY <1>1, <1>3, <1>5, <2>1, <2>2, IndexTorn
<1>6. CASE todo[1].id # 0
  <2> DEFINE f == [state |-> s, convs |-> {}]
  <2>1. Len(todo) = 1 /\ todo' = <<>>
    BY <1>1, <1>3, <1>6, LastOp
  <2>2. f \in [state : States, convs : SUBSET Ids] /\ f.state # "ok" /\ f.convs = {}
    BY DEF States
  <2>3. files' = [files EXCEPT ![todo[1].id] = f] /\ index' = index
    BY <1>4, <1>6 DEF Put
  <2> HIDE DEF f
  <2> QED
    BY <1>3, <1>6, <2>1, <2>2, <2>3, FileDone
<1> QED
  BY <1>5, <1>6

LEMMA DeleteStep ==
  ASSUME StoreInv, Delete
  PROVE  StoreInv'
<1>1. todo # <<>> /\ todo' = Tail(todo) /\ Types
  BY DEF Delete, StoreInv, Basic
<1>2. Head(todo) = todo[1] /\ 1 \in DOMAIN todo
  BY <1>1, FirstOf
<1>3. /\ todo[1].op = "delete" /\ Put(todo[1].id, Missing, <<>>, {})
      /\ UNCHANGED <<memory, counters, history>>
  BY <1>2 DEF Delete
<1>4. todo[1].id # 0
  BY <1>2, <1>3 DEF StoreInv, Basic, Shape
<1> DEFINE f == [state |-> Missing, convs |-> {}]
<1>5. Len(todo) = 1 /\ todo' = <<>>
  BY <1>1, <1>3, <1>4, LastOp
<1>6. f \in [state : States, convs : SUBSET Ids] /\ f.state # "ok" /\ f.convs = {}
  BY DEF States, Missing
<1>7. files' = [files EXCEPT ![todo[1].id] = f] /\ index' = index
  BY <1>3, <1>4 DEF Put
<1>8. /\ created' = created /\ faults' = faults
      /\ saved' = saved /\ deleted' = deleted /\ torn' = torn /\ upset' = upset
  BY <1>3 DEF counters, history
<1> HIDE DEF f
<1> QED
  BY <1>3, <1>4, <1>5, <1>6, <1>7, <1>8, FileDone

\* What the death of the process leaves: no memory, and the files as they are
\* but for the one being written.
LEMMA DieLeaves ==
  ASSUME StoreInv, Die
  PROVE  /\ list' = index'.chats /\ todo' = <<>>
         /\ shown' = {} /\ current' = NoChat /\ inChat' = FALSE /\ dialog' = NoChat
         /\ reloaded' = FALSE /\ live' = {}
         /\ created' = created /\ faults' = faults /\ saved' = saved /\ deleted' = deleted
         /\ upset' = [upset EXCEPT !.half = @ \/ \E k \in DOMAIN todo : todo[k].op = "delete"]
         /\ index' \in [state : States, chats : Seq(Chat)]
         /\ index'.state # "ok" => index'.chats = <<>>
         /\ index'.chats = index.chats \/ (0 \in torn' /\ index'.chats = <<>>)
         /\ files' \in [Ids -> [state : States, convs : SUBSET Ids]]
         /\ \A i \in Ids : files'[i] = files[i] \/ (i \in torn' /\ files'[i].state # "ok" /\ files'[i].convs = {})
         /\ torn \subseteq torn' /\ torn' \subseteq 0 .. MaxChats
         /\ \A i : Filling(i) => i \in torn'
<1> USE DEF StoreInv, Basic
<1>1. /\ index \in [state : States, chats : Seq(Chat)]
      /\ index.state # "ok" => index.chats = <<>>
      /\ files \in [Ids -> [state : States, convs : SUBSET Ids]]
      /\ torn \subseteq 0 .. MaxChats
  BY DEF Types
<1> DEFINE writing == todo # <<>> /\ Head(todo).op = "fill"
           i == todo[1].id
<1>2. /\ IF writing THEN HalfWritten(Head(todo).id) /\ torn' = torn \cup {Head(todo).id}
         ELSE index' = index /\ files' = files /\ torn' = torn
      /\ list' = IF index'.state = "ok" THEN index'.chats ELSE <<>>
  BY DEF Die, disk
<1>3. todo # <<>> => Head(todo) = todo[1] /\ todo[1] \in FileOps
  BY FirstOf
<1>4. \A j : Filling(j) => writing /\ j = i
  BY <1>3 DEF Filling
<1>5. CASE ~writing
  BY <1>1, <1>2, <1>4, <1>5 DEF Die
<1>6. CASE writing
  <2>1. HalfWritten(i) /\ torn' = torn \cup {i} /\ i \in 0 .. MaxChats
    BY <1>2, <1>3, <1>6 DEF FileOps
  <2>2. PICK s \in {"empty", "garbled"} : Put(i, s, <<>>, {})
    BY <2>1 DEF HalfWritten
  <2>3. /\ <<>> \in Seq(Chat) /\ s \in States /\ s # "ok"
        /\ [state |-> s, convs |-> {}] \in [state : States, convs : SUBSET Ids]
    BY DEF States
  <2> HIDE DEF i, writing
  <2>4. /\ index' \in [state : States, chats : Seq(Chat)]
        /\ index'.state # "ok" => index'.chats = <<>>
        /\ index'.chats = index.chats \/ (0 \in torn' /\ index'.chats = <<>>)
        /\ files' \in [Ids -> [state : States, convs : SUBSET Ids]]
        /\ \A j \in Ids : files'[j] = files[j] \/ (j \in torn' /\ files'[j].state # "ok" /\ files'[j].convs = {})
    <3>1. CASE i = 0
      <4>1. index' = [state |-> s, chats |-> <<>>] /\ files' = files
        BY <2>2, <3>1 DEF Put
      <4> QED
        BY <1>1, <2>1, <2>3, <3>1, <4>1
    <3>2. CASE i # 0
      <4>1. index' = index /\ files' = [files EXCEPT ![i] = [state |-> s, convs |-> {}]]
        BY <2>2, <3>2 DEF Put
      <4> QED
        BY <1>1, <2>1, <2>3, <3>2, <4>1
    <3> QED
      BY <3>1, <3>2
  <2>5. torn \subseteq torn' /\ torn' \subseteq 0 .. MaxChats /\ \A j : Filling(j) => j \in torn'
    BY <1>1, <1>4, <2>1
  <2> QED
    BY <1>2, <2>4, <2>5 DEF Die
<1> QED
  BY <1>5, <1>6

LEMMA DieStep ==
  ASSUME StoreInv, Die
  PROVE  StoreInv'
<1> USE DEF StoreInv, Basic
<1>1. /\ upset' \in [mixed : BOOLEAN, stale : BOOLEAN, half : BOOLEAN]
      /\ upset'.stale = upset.stale /\ upset'.mixed = upset.mixed
      /\ ~upset'.half => ~upset.half /\ \A k \in DOMAIN todo : todo[k].op # "delete"
  BY DieLeaves DEF Types
<1>13. /\ list' = index'.chats /\ todo' = <<>>
       /\ shown' = {} /\ current' = NoChat /\ inChat' = FALSE /\ dialog' = NoChat
       /\ reloaded' = FALSE /\ live' = {}
       /\ created' = created /\ faults' = faults /\ saved' = saved /\ deleted' = deleted
  BY DieLeaves
<1>2. Types'
  <2>1. index'.chats \in Seq(Chat) /\ todo' \in Seq(FileOps)
    BY <1>13, DieLeaves, EmptySeq
  <2>2. /\ index' \in [state : States, chats : Seq(Chat)]
        /\ index'.state # "ok" => index'.chats = <<>>
        /\ files' \in [Ids -> [state : States, convs : SUBSET Ids]]
        /\ torn' \subseteq 0 .. MaxChats
    BY DieLeaves
  <2> QED
    BY <1>1, <1>13, <2>1, <2>2 DEF Types
<1>3. /\ Range(index'.chats) \subseteq Range(index.chats)
      /\ Known' = Range(index'.chats) /\ Known' \subseteq Known /\ Upto' = Upto
      /\ DOMAIN todo' = {} /\ NoIndex'
  <2>1. Range(index'.chats) \subseteq Range(index.chats)
    BY DieLeaves, RangeEmpty
  <2>2. Known' = Range(index'.chats) /\ DOMAIN todo' = {}
    BY DieLeaves DEF Known
  <2> QED
    BY <2>1, <2>2, DieLeaves, KnownChats DEF Upto, NoIndex
<1>4. Shape' /\ AllDistinct'
  <2>1. Len(todo') <= 2
    BY <1>13
  <2>2. Distinct(index'.chats)
    BY DieLeaves, RangeEmpty DEF AllDistinct
  <2> QED
    BY <1>3, <1>13, <2>1, <2>2 DEF Shape, AllDistinct
<1>5. Fresh'
  <2>1. \A i \in Ids : files'[i].convs \subseteq Upto
    BY DieLeaves DEF Fresh
  <2> QED
    BY <1>3, <1>13, <2>1 DEF Fresh
<1>6. OneChat'
  <2>1. dialog'.conv <= created'
    BY <1>13 DEF NoChat, Types
  <2> QED
    BY <1>3, <1>13, <2>1 DEF OneChat
<1>7. HeadingInv'
  BY <1>3, DieLeaves DEF HeadingInv, Heading
<1>8. GoneInv'
  <2> SUFFICES ASSUME ~upset'.half, ~upset.stale, faults = 0
               PROVE  Clean(index.chats)'
    BY <1>1, <1>3, DieLeaves DEF GoneInv, Clean
  <2>1. ~Removing
    BY <1>1 DEF Removing
  <2>2. Clean(index.chats)
    BY <1>1, <2>1 DEF GoneInv
  <2> QED
    BY <1>3, <2>2, DieLeaves DEF Clean
<1>9. ASSUME ~upset.mixed, 0 \notin torn'
      PROVE  OneId' /\ ListCovers' /\ OneAnswer' /\ FilesRight' /\ Kept'
  <2>1. OneId /\ FilesRight /\ Kept
    BY <1>9, DieLeaves DEF KeepInv
  <2>2. OneId' /\ ListCovers' /\ OneAnswer'
    BY <1>3, <2>1, DieLeaves DEF OneId, ListCovers, OneAnswer
  <2>3. \A i \in Ids : files'[i].state = "ok" => files'[i] = files[i]
    BY DieLeaves
  <2>4. FilesRight'
    BY <1>3, <2>1, <2>3, DieLeaves DEF FilesRight, OnlyOf
  <2>5. \A c \in Known : c.id \in Ids
    BY KnownChats, ChatIsNot
  <2>6. Kept'
    <3> SUFFICES ASSUME NEW c \in Known, c.conv \in saved \ deleted, c.id \notin torn'
                 PROVE  files'[c.id].state = "ok" /\ c.conv \in files'[c.id].convs
      BY <1>3, DieLeaves DEF Kept
    <3>1. files'[c.id] = files[c.id] /\ ~Filling(c.id) /\ c.id \notin torn
      BY <2>5, DieLeaves
    <3> QED
      BY <2>1, <3>1 DEF Kept
  <2> QED
    BY <2>2, <2>4, <2>6
<1>10. KeepInv'
  BY <1>1, <1>9 DEF KeepInv
<1>11. ASSUME ~upset.mixed, ~upset'.half, ~upset.stale, 0 \notin torn'
       PROVE  ShownOwned' /\ FilesOwned'
  <2>1. FilesOwned /\ ~Filling(0) /\ index'.chats = index.chats
    BY <1>1, <1>11, DieLeaves DEF OpenInv
  <2>2. \A i : ~Leaving(i)
    BY <1>1, <1>11 DEF Leaving
  <2>3. ShownOwned'
    BY <1>3, DieLeaves DEF ShownOwned
  <2>4. Owned(index.chats)'
    <3>1. \A i \in Ids : files'[i].state = "ok" => files'[i] = files[i]
      BY DieLeaves
    <3> QED
      BY <2>1, <2>2, <3>1 DEF FilesOwned, Owned, Owner
  <2>5. Owned(list)'
    BY <2>4, DieLeaves DEF Owned, Owner
  <2> QED
    BY <1>3, <2>3, <2>4, <2>5 DEF FilesOwned
<1>12. OpenInv'
  BY <1>1, <1>11 DEF OpenInv
<1> QED
  BY <1>2, <1>4, <1>5, <1>6, <1>7, <1>8, <1>10, <1>12

-----------------------------------------------------------------------------
LEMMA StutterStep ==
  ASSUME StoreInv, UNCHANGED vars
  PROVE  StoreInv'
<1>1. Still /\ UNCHANGED <<shown, current, inChat, dialog, reloaded, live, upset>>
  BY DEF vars, memory, disk, counters, history, Still
<1>2. HeadingInv' /\ GoneInv'
  BY <1>1, StillFacts DEF StoreInv, HeadingInv, Still
<1>3. Types'
  BY <1>1 DEF StoreInv, Basic, Types, Still
<1>4. Fresh' /\ OneChat'
  BY <1>1, StillFacts DEF StoreInv, Basic, Fresh, OneChat, Still
<1>5. KeepInv'
  BY <1>1, StillFacts DEF StoreInv, KeepInv, OneId, OneAnswer, Includes, OnlyOf, Still
<1>6. OpenInv'
  BY <1>1, StillFacts DEF StoreInv, OpenInv, ShownOwned, Owner, IsFile, Still
<1> QED
  BY <1>1, <1>2, <1>3, <1>4, <1>5, <1>6, StillFacts DEF StoreInv, Basic

LEMMA StoreStep == StoreInv /\ [Next]_vars => StoreInv'
<1> SUFFICES ASSUME StoreInv, [Next]_vars PROVE StoreInv'
  OBVIOUS
<1>1. CASE NewChat
  BY <1>1, NewChatStep
<1>2. CASE Send
  BY <1>2, SendInChatStep, SendOutsideStep
<1>3. CASE CancelDelete \/ ConfirmDelete \/ Resume
  BY <1>3, CancelDeleteStep, ConfirmDeleteStep, ResumeStep
<1>4. ASSUME NEW c, Select(c) \/ AskDelete(c) PROVE StoreInv'
  BY <1>4, SelectStep, AskDeleteStep
<1>5. ASSUME NEW i, Finalize(i) PROVE StoreInv'
  BY <1>5, FinalizeStep
<1>6. CASE Truncate
  BY <1>6, TruncateStep
<1>7. CASE Fill \/ WriteFails \/ Delete \/ Die
  BY <1>7, FillStep, WriteFailsStep, DeleteStep, DieStep
<1>8. CASE UNCHANGED vars
  BY <1>8, StutterStep
<1> QED
  BY <1>1, <1>2, <1>3, <1>4, <1>5, <1>6, <1>7, <1>8 DEF Next, User

LEMMA StoreInvariant == Spec => []StoreInv
  BY InitStore, StoreStep, PTL DEF Spec

\* createNewChat takes one more than the largest id of the list in memory:
\* however chats are created, deleted, lost to a death or a failed write, no two
\* chats of the list, or of chats.json, share an id.
THEOREM StoreIdsDistinct == Spec => []IdsDistinct
<1>1. StoreInv => IdsDistinct
  <2> SUFFICES ASSUME StoreInv PROVE IdsDistinct
    OBVIOUS
  <2>1. /\ LoadChats = index.chats /\ list \in Seq(Chat)
        /\ index \in [state : States, chats : Seq(Chat)]
        /\ Distinct(list) /\ Distinct(index.chats)
    BY Loaded DEF StoreInv, Basic, Types, AllDistinct
  <2>2. index.chats \in Seq(Chat)
    BY <2>1
  <2> QED
    BY <2>1, <2>2, CountIds DEF IdsDistinct
<1> QED
  BY <1>1, StoreInvariant, PTL

\* The view model and JsonHelper keep the same list: at rest they agree, with
\* no failed write and no deletion from a dialog older than the list.
THEOREM StoreListIsIndex == Spec => []ListIsIndex
<1>1. StoreInv => ListIsIndex
  <2> SUFFICES ASSUME StoreInv, todo = <<>>, faults = 0, ~upset.stale PROVE list = LoadChats
    BY DEF ListIsIndex, Idle
  <2> QED
    BY AtRest, Loaded DEF StoreInv, Basic, HeadingInv, Heading
<1> QED
  BY <1>1, StoreInvariant, PTL

\* An id given again does not bring another conversation's messages back.
THEOREM StoreOpensOwn == Spec => []OpensOwn
<1>1. StoreInv => OpensOwn
  BY DEF StoreInv, OpenInv, ShownOwned, OpensOwn
<1> QED
  BY <1>1, StoreInvariant, PTL

\* What was saved of a chat stays in its file, whatever is done with the others.
THEOREM StoreSavedSurvives == Spec => []SavedSurvives
<1>1. StoreInv => SavedSurvives
  <2> SUFFICES ASSUME StoreInv, todo = <<>>, ~upset.mixed, 0 \notin torn,
                      NEW c \in Range(index.chats),
                      c.conv \in saved \ deleted, c.id \notin torn
               PROVE  files[c.id].state = "ok" /\ c.conv \in files[c.id].convs
    BY Loaded DEF SavedSurvives, Idle, StoreInv, Basic
  <2>1. Kept /\ c \in Known
    BY KnownChats DEF StoreInv, KeepInv, Basic
  <2> QED
    BY <2>1, AtRest DEF Kept
<1> QED
  BY <1>1, StoreInvariant, PTL

\* A chat the user deleted is gone from the list and from chats.json.
THEOREM StoreDeletedGone == Spec => []DeletedGone
<1>1. StoreInv => DeletedGone
  <2> SUFFICES ASSUME StoreInv, todo = <<>>, ~upset.half, ~upset.stale, faults = 0
               PROVE  \A c \in Range(list) \cup Range(index.chats) : c.conv \notin deleted
    BY Loaded DEF DeletedGone, Idle, StoreInv, Basic
  <2> QED
    BY AtRest DEF StoreInv, GoneInv, Clean
<1> QED
  BY <1>1, StoreInvariant, PTL
=============================================================================
