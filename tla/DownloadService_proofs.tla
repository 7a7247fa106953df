------------------------ MODULE DownloadService_proofs ------------------------
(***************************************************************************)
(* For any files, calls and taps, in whatever order the main thread, the     *)
(* callbacks and the system act: what the two maps, the wake lock, the       *)
(* service and the files hold as long as no download is begun while the      *)
(* service is on its way down, or is cancelled, or is begun again too soon.  *)
(***************************************************************************)
EXTENDS DownloadService, FiniteSetTheorems, SequenceTheorems, TLAPS

-----------------------------------------------------------------------------
(* The invariant *)

Steps == {"enqueue", "await", "read", "check", "write", "complete",
          "unlist", "drop", "empty?", "held?", "release", "stop"}

Owed(s, x) == \E i \in 1..Len(s) : s[i] = x

\* What a thread may have left to do: a download, the clean-up and what is left of
\* it, and both before the finally.
Paths == {
  <<>>, <<"enqueue">>, <<"await">>, <<"read">>, <<"check">>, <<"write">>,
  <<"complete", "drop", "empty?">>,
  <<"unlist", "drop", "unlist", "empty?">>, <<"drop", "unlist", "empty?">>,
  <<"unlist", "empty?">>, <<"empty?">>, <<"held?">>, <<"release", "stop">>, <<"stop">>,
  <<"unlist", "drop", "unlist", "empty?", "drop", "empty?">>,
  <<"drop", "unlist", "empty?", "drop", "empty?">>,
  <<"unlist", "empty?", "drop", "empty?">>, <<"empty?", "drop", "empty?">>,
  <<"held?", "drop", "empty?">>, <<"release", "stop", "drop", "empty?">>,
  <<"stop", "drop", "empty?">>, <<"drop", "empty?">>}

Messages == [what : {"create", "start", "cancel", "destroy"}, file : Files \cup {None}, inst : Nat]

Histories == [cancelled : SUBSET Files, deleted : SUBSET Files, overlap : SUBSET Files,
              parallel : BOOLEAN, raced : BOOLEAN]

Types ==
  /\ ongoing \subseteq Files
  /\ active \in [Files -> Calls \cup {None}]
  /\ dest \in [Files -> {"absent", "partial", "whole"}]
  /\ todo \in [Procs -> Paths]
  /\ fileOf \in [Procs -> Files \cup {None}]
  /\ instOf \in [Procs -> Nat]
  /\ canceled \in [Calls -> BOOLEAN] /\ cut \in [Calls -> BOOLEAN]
  /\ inbox \in Seq(Messages)
  /\ up \in Nat /\ made \in Nat
  /\ wake \in [Instances -> Nat]
  /\ starts \in 0..MaxCalls /\ taps \in 0..MaxTaps /\ made <= starts + taps
  /\ alive \in BOOLEAN
  /\ hist \in Histories

\* The calls are numbered as they begin; who has something to do knows the file
\* and the instance it is for.
Threads ==
  /\ \E k \in 0..MaxCalls : Begun = 1..k
  /\ \A c \in Calls : ~At(c, "enqueue")
  /\ \A p \in Procs : todo[p] # <<>> \/ p \in Begun => fileOf[p] \in Files /\ instOf[p] >= 1
  /\ \A p \in Procs : instOf[p] <= made
  /\ up <= made

\* A message is for the instance that is up, or comes before its destruction;
\* after that there is none.
Posts ==
  /\ \A i \in DOMAIN inbox : /\ inbox[i].inst \in 1..made
                             /\ inbox[i].what \in {"start", "cancel"} => inbox[i].file \in Files
  /\ \A i \in DOMAIN inbox : inbox[i].what = "destroy" =>
       inbox[i].inst # up /\ \A j \in DOMAIN inbox : i < j => inbox[j].inst # inbox[i].inst
  /\ \A i \in DOMAIN inbox : inbox[i].what # "destroy" /\ inbox[i].inst # up =>
       \E j \in DOMAIN inbox : i < j /\ inbox[j].what = "destroy" /\ inbox[j].inst = inbox[i].inst

Working(c) == At(c, "await") \/ At(c, "read") \/ At(c, "check") \/ At(c, "write")

\* The map names a call of the file that has yet to drop it.
Named == \A f \in Files, c \in Calls : active[f] = c =>
           fileOf[c] = f /\ (Working(c) \/ Owed(todo[c], "drop"))

\* A cancelled call is of a cancelled file; main cleans up after a cancel.
Cancels == /\ \A c \in Calls : canceled[c] => c \in Begun /\ fileOf[c] \in hist.cancelled
           /\ todo[0] # <<>> => At(0, "enqueue") \/ fileOf[0] \in hist.cancelled

Shared == hist.cancelled \cup hist.overlap

\* A file nobody cancelled, begun each time when the last download of it was
\* over, has one thread at work for it, and is listed as long as it works.
OneWorker ==
  /\ \A c, d \in Calls : c # d /\ todo[c] # <<>> /\ todo[d] # <<>> /\ fileOf[c] = fileOf[d]
                           => fileOf[c] \in Shared
  /\ \A c \in Calls : At(0, "enqueue") /\ todo[c] # <<>> /\ fileOf[c] = fileOf[0]
                           => fileOf[c] \in Shared
  /\ \A c \in Calls : Working(c) => fileOf[c] \in ongoing \cup Shared
  /\ At(0, "enqueue") => fileOf[0] \in ongoing \cup Shared

\* Nobody takes its bytes away.
Untouched == \A c \in Calls : cut[c] => c \in Begun /\ fileOf[c] \in Shared \cup hist.deleted

\* Awake, and nobody on the way to stop.
Attended == At(0, "enqueue") \/ \E f \in Files : active[f] # None

Awake == ~hist.raced /\ Attended =>
           /\ ~Stopping
           /\ up # 0 /\ wake[up] > 0
           /\ At(0, "enqueue") => instOf[0] = up
           /\ \A f \in Files, c \in Calls : active[f] = c => instOf[c] = up

\* Undisturbed, an entry is of an active call or one about to be.
Listed == Undisturbed =>
  /\ \A f \in ongoing : (At(0, "enqueue") /\ fileOf[0] = f) \/ active[f] # None
  /\ \A c \in Calls : Working(c) => active[fileOf[c]] = c
  /\ \A c \in Calls : todo[c] # <<>> /\ ~Working(c) /\ fileOf[c] \in ongoing
                        => At(c, "unlist") \/ At(c, "complete")

\* An entry of a file nobody cancelled has a thread that will remove it.
Removed == \A f \in ongoing \ hist.cancelled :
  \/ At(0, "enqueue") /\ fileOf[0] = f
  \/ \E c \in Calls : /\ fileOf[c] = f
                      /\ Working(c) \/ Owed(todo[c], "unlist") \/ Owed(todo[c], "complete")

\* A thread will ask whether the service may stop, or is past that.
Asks(p) == \E x \in {"empty?", "held?", "release", "stop"} : Owed(todo[p], x)

StopComes == alive /\ Undisturbed /\ up # 0 =>
  \/ \E i \in DOMAIN inbox : inbox[i].what \in {"start", "cancel"}
  \/ Attended
  \/ \E p \in Procs : instOf[p] = up /\ Asks(p)

\* The downloads an instance has begun, the one about to be enqueued too.
Acquired(i) == Cardinality(BegunIn(i)) + (IF At(0, "enqueue") /\ instOf[0] = i THEN 1 ELSE 0)

Going(i) == \E p \in Procs : At(p, "stop") /\ instOf[p] = i
Down(i) == i <= made /\ i # up
Gone(i) == Down(i) /\ \A k \in DOMAIN inbox : inbox[k].what = "destroy" => inbox[k].inst # i

\* The lock is acquired once for each download; one release comes before stopSelf,
\* one with the destruction.
LockOf(i) == /\ wake[i] <= Acquired(i)
             /\ Going(i) \/ Down(i) => wake[i] = 0 \/ wake[i] <= Acquired(i) - 1
             /\ Gone(i) => wake[i] = 0 \/ wake[i] <= Acquired(i) - 2

\* As long as the service is up and has begun a download, a thread is at work.
Busy == up # 0 /\ BegunIn(up) # {} => \E p \in Procs : instOf[p] = up /\ todo[p] # <<>>

Locks == ~hist.raced => (\A i \in Instances : LockOf(i)) /\ Busy

\* Downloads one at a time: what the one there is has done to the lock.
HoldsOne(p) == instOf[p] = up /\ wake[instOf[p]] = 1 /\ ~At(p, "stop")
HasReleased(p) == wake[instOf[p]] = 0 /\ ~At(p, "release") /\ (instOf[p] = up => At(p, "stop"))

Alone == Undisturbed /\ ~hist.parallel =>
  /\ alive
  /\ \A p, q \in Procs : todo[p] # <<>> /\ todo[q] # <<>> => p = q
  /\ \A i \in Instances : wake[i] > 0 => \E p \in Procs : todo[p] # <<>> /\ instOf[p] = i
  /\ \A p \in Procs : todo[p] # <<>> => HoldsOne(p) \/ HasReleased(p)
  /\ At(0, "enqueue") => HoldsOne(0)

WholeAtEnd == \A c \in Calls : At(c, "complete") /\ fileOf[c] \notin Shared \cup hist.deleted
                                 => dest[fileOf[c]] = "whole"

DownInv == /\ Types /\ Threads /\ Posts /\ Named /\ Cancels /\ OneWorker /\ Untouched
           /\ WholeAtEnd /\ Awake /\ Listed /\ Removed /\ StopComes /\ Locks /\ Alone

-----------------------------------------------------------------------------
(* What a thread has left to do *)

LEMMA Ends ==
  ASSUME NEW a, NEW b, NEW c, NEW d, NEW e, NEW f
  PROVE  /\ Head(<<a>>) = a /\ Tail(<<a>>) = <<>>
         /\ Head(<<a, b>>) = a /\ Tail(<<a, b>>) = <<b>>
         /\ Head(<<a, b, c>>) = a /\ Tail(<<a, b, c>>) = <<b, c>>
         /\ Head(<<a, b, c, d>>) = a /\ Tail(<<a, b, c, d>>) = <<b, c, d>>
         /\ Head(<<a, b, c, d, e, f>>) = a /\ Tail(<<a, b, c, d, e, f>>) = <<b, c, d, e, f>>
         /\ Head(<<a, b, c, d, e>>) = a /\ Tail(<<a, b, c, d, e>>) = <<b, c, d, e>>
  OBVIOUS

LEMMA OwedEnds ==
  ASSUME NEW S, NEW s \in Seq(S), NEW x
  PROVE  /\ ~Owed(<<>>, x)
         /\ s # <<>> => (Owed(s, x) <=> Head(s) = x \/ Owed(Tail(s), x))
<1>1. ~Owed(<<>>, x)
  BY DEF Owed
<1>2. ASSUME s # <<>> PROVE Owed(s, x) <=> Head(s) = x \/ Owed(Tail(s), x)
  <2>1. /\ Len(s) \in Nat /\ Len(s) >= 1 /\ Head(s) = s[1]
        /\ Len(Tail(s)) = Len(s) - 1
        /\ \A i \in 1..(Len(s) - 1) : Tail(s)[i] = s[i + 1]
    BY <1>2
  <2>2. ASSUME NEW i \in 1..Len(s), s[i] = x, i # 1 PROVE i - 1 \in 1..Len(Tail(s)) /\ Tail(s)[i - 1] = x
    <3>1. i - 1 \in 1..(Len(s) - 1) /\ (i - 1) + 1 = i
      BY <2>1, <2>2
    <3> QED
      BY <2>1, <2>2, <3>1
  <2>3. ASSUME NEW i \in 1..Len(Tail(s)), Tail(s)[i] = x PROVE i + 1 \in 1..Len(s) /\ s[i + 1] = x
    BY <2>1, <2>3
  <2>4. 1 \in 1..Len(s)
    BY <2>1
  <2> QED
    BY <2>1, <2>2, <2>3, <2>4 DEF Owed
<1> QED
  BY <1>1, <1>2

LEMMA PathsAreSteps == Paths \subseteq Seq(Steps)
<1>0. <<>> \in Seq(Steps)
  OBVIOUS
<1>1. \A a \in Steps : <<a>> \in Seq(Steps)
  OBVIOUS
<1>2. \A a, b \in Steps : <<a, b>> \in Seq(Steps)
  OBVIOUS
<1>3. \A a, b, c \in Steps : <<a, b, c>> \in Seq(Steps)
  OBVIOUS
<1>4. \A a, b, c, d \in Steps : <<a, b, c, d>> \in Seq(Steps)
  OBVIOUS
<1>5. \A a, b, c, d, e \in Steps : <<a, b, c, d, e>> \in Seq(Steps)
  OBVIOUS
<1>6. \A a, b, c, d, e, f \in Steps : <<a, b, c, d, e, f>> \in Seq(Steps)
  OBVIOUS
<1>7. "unlist" \in Steps /\ "drop" \in Steps /\ "empty?" \in Steps
  BY DEF Steps
<1>10. <<>> \in Seq(Steps)
  BY <1>0 DEF Steps
<1>11. <<"enqueue">> \in Seq(Steps)
  BY <1>1 DEF Steps
<1>12. <<"await">> \in Seq(Steps)
  BY <1>1 DEF Steps
<1>13. <<"read">> \in Seq(Steps)
  BY <1>1 DEF Steps
<1>14. <<"check">> \in Seq(Steps)
  BY <1>1 DEF Steps
<1>15. <<"write">> \in Seq(Steps)
  BY <1>1 DEF Steps
<1>16. <<"complete", "drop", "empty?">> \in Seq(Steps)
  BY <1>3 DEF Steps
<1>17. <<"unlist", "drop", "unlist", "empty?">> \in Seq(Steps)
  BY <1>4 DEF Steps
<1>18. <<"drop", "unlist", "empty?">> \in Seq(Steps)
  BY <1>3 DEF Steps
<1>19. <<"unlist", "empty?">> \in Seq(Steps)
  BY <1>2 DEF Steps
<1>20. <<"empty?">> \in Seq(Steps)
  BY <1>1 DEF Steps
<1>21. <<"held?">> \in Seq(Steps)
  BY <1>1 DEF Steps
<1>22. <<"release", "stop">> \in Seq(Steps)
  BY <1>2 DEF Steps
<1>23. <<"stop">> \in Seq(Steps)
  BY <1>1 DEF Steps
<1>24. <<"unlist", "drop", "unlist", "empty?", "drop", "empty?">> \in Seq(Steps)
  BY <1>6, <1>7
<1>25. <<"drop", "unlist", "empty?", "drop", "empty?">> \in Seq(Steps)
  BY <1>5, <1>7
<1>26. <<"unlist", "empty?", "drop", "empty?">> \in Seq(Steps)
  BY <1>4 DEF Steps
<1>27. <<"empty?", "drop", "empty?">> \in Seq(Steps)
  BY <1>3 DEF Steps
<1>28. <<"held?", "drop", "empty?">> \in Seq(Steps)
  BY <1>3 DEF Steps
<1>29. <<"release", "stop", "drop", "empty?">> \in Seq(Steps)
  BY <1>4 DEF Steps
<1>30. <<"stop", "drop", "empty?">> \in Seq(Steps)
  BY <1>3 DEF Steps
<1>31. <<"drop", "empty?">> \in Seq(Steps)
  BY <1>2 DEF Steps
<1> QED
  BY <1>10, <1>11, <1>12, <1>13, <1>14, <1>15, <1>16, <1>17, <1>18, <1>19, <1>20, <1>21, <1>22, <1>23, <1>24, <1>25, <1>26, <1>27, <1>28, <1>29, <1>30, <1>31 DEF Paths

\* The next step is taken off.
LEMMA PathTails ==
  ASSUME NEW s \in Paths, s # <<>>
  PROVE  /\ Tail(s) \in Paths
         /\ Head(s) \in {"enqueue", "await", "read", "check", "write"} => Tail(s) = <<>>
         /\ Head(s) \in {"complete", "unlist", "drop", "release"} => Tail(s) # <<>>
         /\ Head(s) = "release" => Head(Tail(s)) = "stop"
         /\ Head(s) \in {"complete", "unlist", "drop"} => Head(Tail(s)) \in {"unlist", "drop", "empty?"}
         /\ Head(s) \in {"empty?", "held?", "stop"} => Tail(s) \in {<<>>, <<"drop", "empty?">>}
<1>1. \/ \E a : s = <<a>>
      \/ s = <<"complete", "drop", "empty?">>
      \/ s \in {<<"unlist", "drop", "unlist", "empty?">>, <<"drop", "unlist", "empty?">>,
               <<"unlist", "empty?">>, <<"release", "stop">>}
      \/ s \in {<<"unlist", "drop", "unlist", "empty?", "drop", "empty?">>,
               <<"drop", "unlist", "empty?", "drop", "empty?">>,
               <<"unlist", "empty?", "drop", "empty?">>, <<"empty?", "drop", "empty?">>,
               <<"held?", "drop", "empty?">>, <<"release", "stop", "drop", "empty?">>,
               <<"stop", "drop", "empty?">>, <<"drop", "empty?">>}
  BY DEF Paths
<1>2. CASE \E a : s = <<a>>
  <2>1. Tail(s) = <<>> /\ ~(Head(s) \in {"complete", "unlist", "drop", "release"})
    <3>1. PICK a : s = <<a>>
      BY <1>2
    <3>2. Head(s) = a /\ Tail(s) = <<>>
      BY <3>1, Ends
    <3>3. a \notin {"complete", "unlist", "drop", "release"}
      BY <3>1 DEF Paths
    <3> QED
      BY <3>2, <3>3
  <2> QED
    BY <2>1 DEF Paths
<1>3. CASE s = <<"complete", "drop", "empty?">>
  <2>1. Head(s) = "complete" /\ Tail(s) = <<"drop", "empty?">>
    BY <1>3, Ends
  <2>2. Head(<<"drop", "empty?">>) = "drop"
    BY Ends
  <2>3. <<"drop", "empty?">> \in Paths /\ <<"drop", "empty?">> # <<>>
    BY DEF Paths
  <2> QED
    BY <2>1, <2>2, <2>3
<1>4. CASE s = <<"unlist", "drop", "unlist", "empty?">>
  <2>1. Head(s) = "unlist" /\ Tail(s) = <<"drop", "unlist", "empty?">>
    BY <1>4, Ends
  <2>2. Head(<<"drop", "unlist", "empty?">>) = "drop"
    BY Ends
  <2>3. <<"drop", "unlist", "empty?">> \in Paths /\ <<"drop", "unlist", "empty?">> # <<>>
    BY DEF Paths
  <2> QED
    BY <2>1, <2>2, <2>3
<1>5. CASE s = <<"drop", "unlist", "empty?">>
  <2>1. Head(s) = "drop" /\ Tail(s) = <<"unlist", "empty?">>
    BY <1>5, Ends
  <2>2. Head(<<"unlist", "empty?">>) = "unlist"
    BY Ends
  <2>3. <<"unlist", "empty?">> \in Paths /\ <<"unlist", "empty?">> # <<>>
    BY DEF Paths
  <2> QED
    BY <2>1, <2>2, <2>3
<1>6. CASE s = <<"unlist", "empty?">>
  <2>1. Head(s) = "unlist" /\ Tail(s) = <<"empty?">>
    BY <1>6, Ends
  <2>2. Head(<<"empty?">>) = "empty?"
    BY Ends
  <2>3. <<"empty?">> \in Paths /\ <<"empty?">> # <<>>
    BY DEF Paths
  <2> QED
    BY <2>1, <2>2, <2>3
<1>7. CASE s = <<"release", "stop">>
  <2>1. Head(s) = "release" /\ Tail(s) = <<"stop">>
    BY <1>7, Ends
  <2>2. Head(<<"stop">>) = "stop"
    BY Ends
  <2>3. <<"stop">> \in Paths /\ <<"stop">> # <<>>
    BY DEF Paths
  <2> QED
    BY <2>1, <2>2, <2>3
<1>8. CASE s = <<"unlist", "drop", "unlist", "empty?", "drop", "empty?">>
  <2>1. Head(s) = "unlist" /\ Tail(s) = <<"drop", "unlist", "empty?", "drop", "empty?">>
    BY <1>8, Ends
  <2>2. Head(<<"drop", "unlist", "empty?", "drop", "empty?">>) = "drop"
    BY Ends
  <2>3. <<"drop", "unlist", "empty?", "drop", "empty?">> \in Paths /\ <<"drop", "unlist", "empty?", "drop", "empty?">> # <<>>
    BY DEF Paths
  <2> QED
    BY <2>1, <2>2, <2>3
<1>9. CASE s = <<"drop", "unlist", "empty?", "drop", "empty?">>
  <2>1. Head(s) = "drop" /\ Tail(s) = <<"unlist", "empty?", "drop", "empty?">>
    BY <1>9, Ends
  <2>2. Head(<<"unlist", "empty?", "drop", "empty?">>) = "unlist"
    BY Ends
  <2>3. <<"unlist", "empty?", "drop", "empty?">> \in Paths /\ <<"unlist", "empty?", "drop", "empty?">> # <<>>
    BY DEF Paths
  <2> QED
    BY <2>1, <2>2, <2>3
<1>10. CASE s = <<"unlist", "empty?", "drop", "empty?">>
  <2>1. Head(s) = "unlist" /\ Tail(s) = <<"empty?", "drop", "empty?">>
    BY <1>10, Ends
  <2>2. Head(<<"empty?", "drop", "empty?">>) = "empty?"
    BY Ends
  <2>3. <<"empty?", "drop", "empty?">> \in Paths /\ <<"empty?", "drop", "empty?">> # <<>>
    BY DEF Paths
  <2> QED
    BY <2>1, <2>2, <2>3
<1>11. CASE s = <<"empty?", "drop", "empty?">>
  <2>1. Head(s) = "empty?" /\ Tail(s) = <<"drop", "empty?">>
    BY <1>11, Ends
  <2>2. Head(<<"drop", "empty?">>) = "drop"
    BY Ends
  <2>3. <<"drop", "empty?">> \in Paths /\ <<"drop", "empty?">> # <<>>
    BY DEF Paths
  <2> QED
    BY <2>1, <2>2, <2>3
<1>12. CASE s = <<"held?", "drop", "empty?">>
  <2>1. Head(s) = "held?" /\ Tail(s) = <<"drop", "empty?">>
    BY <1>12, Ends
  <2>2. Head(<<"drop", "empty?">>) = "drop"
    BY Ends
  <2>3. <<"drop", "empty?">> \in Paths /\ <<"drop", "empty?">> # <<>>
    BY DEF Paths
  <2> QED
    BY <2>1, <2>2, <2>3
<1>13. CASE s = <<"release", "stop", "drop", "empty?">>
  <2>1. Head(s) = "release" /\ Tail(s) = <<"stop", "drop", "empty?">>
    BY <1>13, Ends
  <2>2. Head(<<"stop", "drop", "empty?">>) = "stop"
    BY Ends
  <2>3. <<"stop", "drop", "empty?">> \in Paths /\ <<"stop", "drop", "empty?">> # <<>>
    BY DEF Paths
  <2> QED
    BY <2>1, <2>2, <2>3
<1>14. CASE s = <<"stop", "drop", "empty?">>
  <2>1. Head(s) = "stop" /\ Tail(s) = <<"drop", "empty?">>
    BY <1>14, Ends
  <2>2. Head(<<"drop", "empty?">>) = "drop"
    BY Ends
  <2>3. <<"drop", "empty?">> \in Paths /\ <<"drop", "empty?">> # <<>>
    BY DEF Paths
  <2> QED
    BY <2>1, <2>2, <2>3
<1>15. CASE s = <<"drop", "empty?">>
  <2>1. Head(s) = "drop" /\ Tail(s) = <<"empty?">>
    BY <1>15, Ends
  <2>2. Head(<<"empty?">>) = "empty?"
    BY Ends
  <2>3. <<"empty?">> \in Paths /\ <<"empty?">> # <<>>
    BY DEF Paths
  <2> QED
    BY <2>1, <2>2, <2>3
<1> QED
  BY <1>1, <1>2, <1>3, <1>4, <1>5, <1>6, <1>7, <1>8, <1>9, <1>10, <1>11, <1>12, <1>13, <1>14, <1>15

\* Two parts of a path joined are the path.
LEMMA Spliced ==
  ASSUME NEW u \in Seq(Steps), NEW v \in Seq(Steps), NEW r \in Seq(Steps),
         Len(r) = Len(u) + Len(v),
         \A i \in 1..Len(r) : r[i] = IF i <= Len(u) THEN u[i] ELSE v[i - Len(u)]
  PROVE  u \o v = r
<1> DEFINE l == u \o v
<1>1. l \in Seq(Steps) /\ Len(l) = Len(u) + Len(v)
      /\ \A i \in 1..(Len(u) + Len(v)) : l[i] = IF i <= Len(u) THEN u[i] ELSE v[i - Len(u)]
  BY ConcatProperties, Z3
<1> HIDE DEF l
<1>2. l = r
  BY <1>1, SeqEqual
<1> QED
  BY <1>2 DEF l

LEMMA Joins ==
  /\ <<"drop", "empty?">> = Finally
  /\ Cleanup \o Finally = <<"unlist", "drop", "unlist", "empty?", "drop", "empty?">>
  /\ <<"complete">> \o Finally = <<"complete", "drop", "empty?">>
  /\ <<"held?">> \o Finally = <<"held?", "drop", "empty?">>
  /\ <<"release", "stop">> \o Finally = <<"release", "stop", "drop", "empty?">>
  /\ <<"stop">> \o Finally = <<"stop", "drop", "empty?">>
<1>0. Finally = <<"drop", "empty?">> /\ Cleanup = <<"unlist", "drop", "unlist", "empty?">>
  BY DEF Finally, Cleanup
<1>1. /\ Finally \in Paths /\ Cleanup \in Paths
      /\ <<"held?">> \in Paths /\ <<"release", "stop">> \in Paths /\ <<"stop">> \in Paths
  BY <1>0 DEF Paths
<1>2. <<"complete">> \in Seq(Steps)
  <2>1. "complete" \in Steps
    BY DEF Steps
  <2>2. \A a \in Steps : <<a>> \in Seq(Steps)
    OBVIOUS
  <2> QED
    BY <2>1, <2>2
<1>3. Cleanup \o Finally = <<"unlist", "drop", "unlist", "empty?", "drop", "empty?">>
  <2> DEFINE u == <<"unlist", "drop", "unlist", "empty?">>
             v == <<"drop", "empty?">>
             r == <<"unlist", "drop", "unlist", "empty?", "drop", "empty?">>
  <2>1. r \in Paths /\ u = Cleanup /\ v = Finally
    BY <1>0 DEF Paths
  <2>2. Len(r) = Len(u) + Len(v) /\ \A i \in 1..Len(r) : r[i] = IF i <= Len(u) THEN u[i] ELSE v[i - Len(u)]
    OBVIOUS
  <2> HIDE DEF u, v, r
  <2>3. u \in Seq(Steps) /\ v \in Seq(Steps) /\ r \in Seq(Steps)
    BY <1>1, <1>2, <2>1, PathsAreSteps
  <2>4. u \o v = r
    BY <2>2, <2>3, Spliced
  <2> QED
    BY <2>1, <2>4 DEF r
<1>4. <<"complete">> \o Finally = <<"complete", "drop", "empty?">>
  <2> DEFINE u == <<"complete">>
             v == <<"drop", "empty?">>
             r == <<"complete", "drop", "empty?">>
  <2>1. r \in Paths /\ u = <<"complete">> /\ v = Finally
    BY <1>0 DEF Paths
  <2>2. Len(r) = Len(u) + Len(v) /\ \A i \in 1..Len(r) : r[i] = IF i <= Len(u) THEN u[i] ELSE v[i - Len(u)]
    OBVIOUS
  <2> HIDE DEF u, v, r
  <2>3. u \in Seq(Steps) /\ v \in Seq(Steps) /\ r \in Seq(Steps)
    BY <1>1, <1>2, <2>1, PathsAreSteps
  <2>4. u \o v = r
    BY <2>2, <2>3, Spliced
  <2> QED
    BY <2>1, <2>4 DEF r
<1>5. <<"held?">> \o Finally = <<"held?", "drop", "empty?">>
  <2> DEFINE u == <<"held?">>
             v == <<"drop", "empty?">>
             r == <<"held?", "drop", "empty?">>
  <2>1. r \in Paths /\ u = <<"held?">> /\ v = Finally
    BY <1>0 DEF Paths
  <2>2. Len(r) = Len(u) + Len(v) /\ \A i \in 1..Len(r) : r[i] = IF i <= Len(u) THEN u[i] ELSE v[i - Len(u)]
    OBVIOUS
  <2> HIDE DEF u, v, r
  <2>3. u \in Seq(Steps) /\ v \in Seq(Steps) /\ r \in Seq(Steps)
    BY <1>1, <1>2, <2>1, PathsAreSteps
  <2>4. u \o v = r
    BY <2>2, <2>3, Spliced
  <2> QED
    BY <2>1, <2>4 DEF r
<1>6. <<"release", "stop">> \o Finally = <<"release", "stop", "drop", "empty?">>
  <2> DEFINE u == <<"release", "stop">>
             v == <<"drop", "empty?">>
             r == <<"release", "stop", "drop", "empty?">>
  <2>1. r \in Paths /\ u = <<"release", "stop">> /\ v = Finally
    BY <1>0 DEF Paths
  <2>2. Len(r) = Len(u) + Len(v) /\ \A i \in 1..Len(r) : r[i] = IF i <= Len(u) THEN u[i] ELSE v[i - Len(u)]
    OBVIOUS
  <2> HIDE DEF u, v, r
  <2>3. u \in Seq(Steps) /\ v \in Seq(Steps) /\ r \in Seq(Steps)
    BY <1>1, <1>2, <2>1, PathsAreSteps
  <2>4. u \o v = r
    BY <2>2, <2>3, Spliced
  <2> QED
    BY <2>1, <2>4 DEF r
<1>7. <<"stop">> \o Finally = <<"stop", "drop", "empty?">>
  <2> DEFINE u == <<"stop">>
             v == <<"drop", "empty?">>
             r == <<"stop", "drop", "empty?">>
  <2>1. r \in Paths /\ u = <<"stop">> /\ v = Finally
    BY <1>0 DEF Paths
  <2>2. Len(r) = Len(u) + Len(v) /\ \A i \in 1..Len(r) : r[i] = IF i <= Len(u) THEN u[i] ELSE v[i - Len(u)]
    OBVIOUS
  <2> HIDE DEF u, v, r
  <2>3. u \in Seq(Steps) /\ v \in Seq(Steps) /\ r \in Seq(Steps)
    BY <1>1, <1>2, <2>1, PathsAreSteps
  <2>4. u \o v = r
    BY <2>2, <2>3, Spliced
  <2> QED
    BY <2>1, <2>4 DEF r
<1> QED
  BY <1>0, <1>3, <1>4, <1>5, <1>6, <1>7

LEMMA Unjoined ==
  ASSUME NEW s \in Seq(Steps)
  PROVE  <<>> \o s = s /\ s \o <<>> = s
  BY ConcatEmptySeq

\* What comes before a tail of a path.
LEMMA PathJoins ==
  /\ \A s \in Paths : <<>> \o s = s
  /\ \A l \in {Cleanup, <<"read">>, <<"check">>, <<"write">>} : l \o <<>> = l /\ l \in Paths
  /\ Cleanup \o Finally \in Paths /\ <<"complete">> \o Finally \in Paths /\ Finally \in Paths
  /\ Head(Cleanup) = "unlist" /\ Head(Cleanup \o Finally) = "unlist"
  /\ Head(<<"complete">> \o Finally) = "complete" /\ Head(Finally) = "drop"
  /\ Cleanup # <<>> /\ Cleanup \o Finally # <<>> /\ <<"complete">> \o Finally # <<>> /\ Finally # <<>>
  /\ \A rest \in {<<>>, Finally} :
       /\ rest \in Paths
       /\ <<"held?">> \o rest \in Paths /\ Head(<<"held?">> \o rest) = "held?" /\ <<"held?">> \o rest # <<>>
       /\ <<"release", "stop">> \o rest \in Paths /\ Head(<<"release", "stop">> \o rest) = "release"
       /\ <<"release", "stop">> \o rest # <<>>
       /\ <<"stop">> \o rest \in Paths /\ Head(<<"stop">> \o rest) = "stop" /\ <<"stop">> \o rest # <<>>
<1>0. Finally = <<"drop", "empty?">> /\ Cleanup = <<"unlist", "drop", "unlist", "empty?">>
  BY DEF Finally, Cleanup
<1>1. \A s \in Paths : <<>> \o s = s /\ s \o <<>> = s
  BY PathsAreSteps, Unjoined
<1>2. \A l \in {Cleanup, <<"read">>, <<"check">>, <<"write">>} : l \in Paths
  BY <1>0 DEF Paths
<1>3. Cleanup \o Finally \in Paths /\ <<"complete">> \o Finally \in Paths /\ Finally \in Paths
  BY <1>0, Joins DEF Paths
<1>4. /\ Head(Cleanup) = "unlist" /\ Head(Cleanup \o Finally) = "unlist"
      /\ Head(<<"complete">> \o Finally) = "complete" /\ Head(Finally) = "drop"
  BY <1>0, Joins, Ends
<1>5. Cleanup # <<>> /\ Cleanup \o Finally # <<>> /\ <<"complete">> \o Finally # <<>> /\ Finally # <<>>
  BY <1>0, Joins
<1>6. /\ <<"held?">> \in Paths /\ <<"release", "stop">> \in Paths /\ <<"stop">> \in Paths /\ <<>> \in Paths
      /\ <<"held?", "drop", "empty?">> \in Paths /\ <<"release", "stop", "drop", "empty?">> \in Paths
      /\ <<"stop", "drop", "empty?">> \in Paths
  BY DEF Paths
<1>7. /\ Head(<<"held?">>) = "held?" /\ Head(<<"release", "stop">>) = "release" /\ Head(<<"stop">>) = "stop"
      /\ Head(<<"held?", "drop", "empty?">>) = "held?" /\ Head(<<"release", "stop", "drop", "empty?">>) = "release"
      /\ Head(<<"stop", "drop", "empty?">>) = "stop"
  BY Ends
<1>8. \A rest \in {<<>>, Finally} :
       /\ rest \in Paths
       /\ <<"held?">> \o rest \in Paths /\ Head(<<"held?">> \o rest) = "held?" /\ <<"held?">> \o rest # <<>>
       /\ <<"release", "stop">> \o rest \in Paths /\ Head(<<"release", "stop">> \o rest) = "release"
       /\ <<"release", "stop">> \o rest # <<>>
       /\ <<"stop">> \o rest \in Paths /\ Head(<<"stop">> \o rest) = "stop" /\ <<"stop">> \o rest # <<>>
  <2> TAKE rest \in {<<>>, Finally}
  <2>1. CASE rest = <<>>
    <3>1. /\ <<"held?">> \o <<>> = <<"held?">> /\ <<"release", "stop">> \o <<>> = <<"release", "stop">>
          /\ <<"stop">> \o <<>> = <<"stop">>
      BY <1>1, <1>6
    <3>2. <<"held?">> # <<>> /\ <<"release", "stop">> # <<>> /\ <<"stop">> # <<>>
      OBVIOUS
    <3> QED
      BY <2>1, <3>1, <3>2, <1>6, <1>7
  <2>2. CASE rest = Finally
    <3>1. /\ <<"held?", "drop", "empty?">> # <<>> /\ <<"release", "stop", "drop", "empty?">> # <<>>
          /\ <<"stop", "drop", "empty?">> # <<>>
      OBVIOUS
    <3> QED
      BY <2>2, <3>1, <1>3, <1>6, <1>7, Joins
  <2> QED
    BY <2>1, <2>2
<1> QED
  BY <1>1, <1>2, <1>3, <1>4, <1>5, <1>8

LEMMA OwedJoined ==
  ASSUME NEW u \in Seq(Steps), NEW v \in Seq(Steps), NEW x
  PROVE  Owed(u \o v, x) <=> Owed(u, x) \/ Owed(v, x)
<1> DEFINE l == u \o v
           a == Len(u)
           b == Len(v)
<1>1. l \in Seq(Steps) /\ Len(l) = a + b
      /\ \A i \in 1..(a + b) : l[i] = IF i <= a THEN u[i] ELSE v[i - a]
  BY ConcatProperties, Z3
<1>2. a \in Nat /\ b \in Nat
  OBVIOUS
<1> HIDE DEF l, a, b
<1>3. ASSUME NEW i \in 1..Len(l), l[i] = x
      PROVE  (\E k \in 1..a : u[k] = x) \/ (\E k \in 1..b : v[k] = x)
  <2>1. CASE i <= a
    BY <1>1, <1>2, <1>3, <2>1
  <2>2. CASE i > a
    <3>1. i - a \in 1..b
      BY <1>1, <1>2, <2>2
    <3>2. v[i - a] = x
      BY <1>1, <1>2, <1>3, <2>2
    <3> QED
      BY <3>1, <3>2
  <2> QED
    BY <1>1, <1>2, <2>1, <2>2
<1>4. ASSUME NEW k \in 1..a, u[k] = x PROVE \E i \in 1..Len(l) : l[i] = x
  BY <1>1, <1>2, <1>4
<1>5. ASSUME NEW k \in 1..b, v[k] = x PROVE \E i \in 1..Len(l) : l[i] = x
  <2>1. a + k \in 1..(a + b) /\ ~(a + k <= a) /\ (a + k) - a = k
    BY <1>2
  <2> QED
    BY <1>1, <1>5, <2>1
<1> QED
  BY <1>3, <1>4, <1>5 DEF Owed, l, a, b

\* What they owe.
LEMMA OwedPaths ==
  ASSUME NEW x
  PROVE  /\ Owed(<<>>, x) <=> FALSE
         /\ Owed(Finally, x) <=> x \in {"drop", "empty?"}
         /\ Owed(Cleanup, x) <=> x \in {"unlist", "drop", "empty?"}
         /\ Owed(Cleanup \o Finally, x) <=> x \in {"unlist", "drop", "empty?"}
         /\ Owed(<<"complete">> \o Finally, x) <=> x \in {"complete", "drop", "empty?"}
         /\ \A rest \in {<<>>, Finally} :
              /\ Owed(<<"held?">> \o rest, x) <=> x = "held?" \/ Owed(rest, x)
              /\ Owed(<<"release", "stop">> \o rest, x) <=> x \in {"release", "stop"} \/ Owed(rest, x)
              /\ Owed(<<"stop">> \o rest, x) <=> x = "stop" \/ Owed(rest, x)
<1>1. /\ \A a : Owed(<<a>>, x) <=> x = a
      /\ \A a, b : Owed(<<a, b>>, x) <=> x \in {a, b}
      /\ \A a, b, c, d : Owed(<<a, b, c, d>>, x) <=> x \in {a, b, c, d}
      /\ ~Owed(<<>>, x)
  <2>1. \A a : Owed(<<a>>, x) <=> x = a
    BY DEF Owed
  <2>2. ASSUME NEW a, NEW b PROVE Owed(<<a, b>>, x) <=> x \in {a, b}
    <3>1. Len(<<a, b>>) = 2 /\ <<a, b>>[1] = a /\ <<a, b>>[2] = b
      OBVIOUS
    <3> QED
      BY <3>1 DEF Owed
  <2>3. ASSUME NEW a, NEW b, NEW c, NEW d PROVE Owed(<<a, b, c, d>>, x) <=> x \in {a, b, c, d}
    <3>1. /\ Len(<<a, b, c, d>>) = 4 /\ <<a, b, c, d>>[1] = a /\ <<a, b, c, d>>[2] = b
          /\ <<a, b, c, d>>[3] = c /\ <<a, b, c, d>>[4] = d
      OBVIOUS
    <3>2. 1..4 = {1, 2, 3, 4}
      OBVIOUS
    <3> QED
      BY <3>1, <3>2 DEF Owed
  <2>4. ~Owed(<<>>, x)
    BY DEF Owed
  <2> QED
    BY <2>1, <2>2, <2>3, <2>4
<1>2. /\ Finally \in Seq(Steps) /\ Cleanup \in Seq(Steps) /\ <<"held?">> \in Seq(Steps)
      /\ <<"release", "stop">> \in Seq(Steps) /\ <<"stop">> \in Seq(Steps) /\ <<>> \in Seq(Steps)
  <2>1. /\ Finally \in Paths /\ Cleanup \in Paths /\ <<"held?">> \in Paths
        /\ <<"release", "stop">> \in Paths /\ <<"stop">> \in Paths /\ <<>> \in Paths
    BY DEF Finally, Cleanup, Paths
  <2> QED
    BY <2>1, PathsAreSteps
<1>3. <<"complete">> \in Seq(Steps)
  <2>1. "complete" \in Steps
    BY DEF Steps
  <2>2. \A a \in Steps : <<a>> \in Seq(Steps)
    OBVIOUS
  <2> QED
    BY <2>1, <2>2
<1>4. Owed(Finally, x) <=> x \in {"drop", "empty?"}
  BY <1>1 DEF Finally
<1>5. Owed(Cleanup, x) <=> x \in {"unlist", "drop", "empty?"}
  BY <1>1 DEF Cleanup
<1>6. Owed(Cleanup \o Finally, x) <=> x \in {"unlist", "drop", "empty?"}
  BY <1>2, <1>4, <1>5, OwedJoined
<1>7. Owed(<<"complete">> \o Finally, x) <=> x \in {"complete", "drop", "empty?"}
  BY <1>1, <1>2, <1>3, <1>4, OwedJoined
<1>8. \A rest \in {<<>>, Finally} :
        /\ Owed(<<"held?">> \o rest, x) <=> x = "held?" \/ Owed(rest, x)
        /\ Owed(<<"release", "stop">> \o rest, x) <=> x \in {"release", "stop"} \/ Owed(rest, x)
        /\ Owed(<<"stop">> \o rest, x) <=> x = "stop" \/ Owed(rest, x)
  BY <1>1, <1>2, OwedJoined
<1> QED
  BY <1>1, <1>4, <1>5, <1>6, <1>7, <1>8

-----------------------------------------------------------------------------
(* What a step leaves to do *)

Turns(p) == todo' \in [Procs -> Paths] /\ \A q \in Procs : q # p => todo'[q] = todo[q]

\* p goes on at x and owes the steps of S.
Has(p, x, S) == /\ todo'[p] # <<>>
                /\ \A y : At(p, y)' <=> y = x
                /\ \A y : Owed(todo'[p], y) <=> y \in S

\* p has done x, which it may owe once more.
TakesOff(p, x) == /\ todo'[p] # <<>>
                  /\ \A y : At(p, y)' => y \in {"unlist", "drop", "empty?"}
                  /\ \A y : y # x => (Owed(todo'[p], y) <=> Owed(todo[p], y))
                  /\ \A y : Owed(todo'[p], y) => Owed(todo[p], y)

\* p is over, or goes on to its finally.
Continues(p) == /\ \A y : At(p, y)' <=> todo'[p] # <<>> /\ y = "drop"
                /\ \A y : Owed(todo'[p], y) <=> todo'[p] # <<>> /\ y \in {"drop", "empty?"}
                /\ todo'[p] # <<>> <=> Owed(todo[p], "drop")

\* p goes on at x on its way to stop.
Heads(p, x) == /\ todo'[p] # <<>>
               /\ \A y : At(p, y)' <=> y = x
               /\ Owed(todo'[p], x)
               /\ Owed(todo'[p], "drop") <=> Owed(todo[p], "drop")
               /\ ~Owed(todo'[p], "unlist") /\ ~Owed(todo'[p], "complete")

LEMMA ThenTurns ==
  ASSUME Types, NEW p \in Procs, todo[p] # <<>>, NEW t, Then(p, t), t \o Tail(todo[p]) \in Paths
  PROVE  Turns(p) /\ todo'[p] = t \o Tail(todo[p])
  BY DEF Types, Then, Turns

LEMMA SetTurns ==
  ASSUME Types, NEW p \in Procs, NEW t \in Paths, todo' = [todo EXCEPT ![p] = t]
  PROVE  Turns(p) /\ todo'[p] = t
  BY DEF Types, Turns

LEMMA AtEither ==
  ASSUME NEW p \in Procs
  PROVE  /\ \A y : At(p, y) <=> todo[p] # <<>> /\ Head(todo[p]) = y
         /\ \A y : At(p, y)' <=> todo'[p] # <<>> /\ Head(todo'[p]) = y
  BY DEF At

LEMMA PathOwes ==
  ASSUME NEW s \in Paths
  PROVE  /\ ~Owed(<<>>, "drop")
         /\ s # <<>> => \A y : Owed(s, y) <=> Head(s) = y \/ Owed(Tail(s), y)
         /\ s # <<>> /\ Head(s) \in {"empty?", "held?", "stop", "release"}
              => ~Owed(s, "unlist") /\ ~Owed(s, "complete")
         /\ s # <<>> /\ Head(s) \in {"empty?", "held?", "stop"}
              => Tail(s) \in {<<>>, Finally} /\ (Tail(s) # <<>> <=> Owed(s, "drop"))
         /\ s # <<>> /\ Head(s) \in {"complete", "unlist", "drop"} => Owed(s, "empty?")
<1>1. \A t \in Paths : \A y : ~Owed(<<>>, y) /\ (t # <<>> => (Owed(t, y) <=> Head(t) = y \/ Owed(Tail(t), y)))
  BY PathsAreSteps, OwedEnds
<1>2. \A t \in Paths : t # <<>> /\ Head(t) \in {"empty?", "held?", "stop"} => Tail(t) \in {<<>>, Finally}
  BY PathTails DEF Finally
<1>3. ASSUME NEW t \in Paths, t # <<>>, Head(t) \in {"empty?", "held?", "stop"}
      PROVE  /\ ~Owed(t, "unlist") /\ ~Owed(t, "complete")
             /\ Tail(t) # <<>> <=> Owed(t, "drop")
  <2>1. Tail(t) = <<>> \/ Tail(t) = Finally
    BY <1>2, <1>3
  <2>2. \A y : Owed(t, y) <=> Head(t) = y \/ Owed(Tail(t), y)
    BY <1>1, <1>3
  <2>3. CASE Tail(t) = <<>>
    BY <1>1, <1>3, <2>2, <2>3
  <2>4. CASE Tail(t) = Finally
    BY <1>3, <2>2, <2>4, OwedPaths, PathJoins
  <2> QED
    BY <2>1, <2>3, <2>4
<1>4. ASSUME s # <<>>, Head(s) = "release"
      PROVE  ~Owed(s, "unlist") /\ ~Owed(s, "complete")
  <2>1. Tail(s) \in Paths /\ Tail(s) # <<>> /\ Head(Tail(s)) = "stop"
    BY <1>4, PathTails
  <2>2. ~Owed(Tail(s), "unlist") /\ ~Owed(Tail(s), "complete")
    BY <1>3, <2>1
  <2> QED
    BY <1>1, <1>4, <2>2
<1>5. ASSUME s # <<>>, Head(s) \in {"complete", "unlist", "drop"} PROVE Owed(s, "empty?")
  <2>0. s \in {<<"complete", "drop", "empty?">>,
               <<"unlist", "drop", "unlist", "empty?">>,
               <<"drop", "unlist", "empty?">>,
               <<"unlist", "empty?">>,
               <<"unlist", "drop", "unlist", "empty?", "drop", "empty?">>,
               <<"drop", "unlist", "empty?", "drop", "empty?">>,
               <<"unlist", "empty?", "drop", "empty?">>,
               <<"drop", "empty?">>}
    <3>1. \A a : Head(<<a>>) = a
      OBVIOUS
    <3>2. /\ \A b, c : Head(<<"empty?", b, c>>) = "empty?" /\ Head(<<"held?", b, c>>) = "held?"
                      /\ Head(<<"stop", b, c>>) = "stop"
          /\ \A b, c, d : Head(<<"release", b>>) = "release" /\ Head(<<"release", b, c, d>>) = "release"
      OBVIOUS
    <3> QED
      BY <1>5, <3>1, <3>2 DEF Paths
  <2>1. Owed(<<"complete", "drop", "empty?">>, "empty?")
    <3>1. 3 \in 1..Len(<<"complete", "drop", "empty?">>) /\ <<"complete", "drop", "empty?">>[3] = "empty?"
      OBVIOUS
    <3> QED
      BY <3>1 DEF Owed
  <2>2. Owed(<<"unlist", "drop", "unlist", "empty?">>, "empty?")
    <3>1. 4 \in 1..Len(<<"unlist", "drop", "unlist", "empty?">>) /\ <<"unlist", "drop", "unlist", "empty?">>[4] = "empty?"
      OBVIOUS
    <3> QED
      BY <3>1 DEF Owed
  <2>3. Owed(<<"drop", "unlist", "empty?">>, "empty?")
    <3>1. 3 \in 1..Len(<<"drop", "unlist", "empty?">>) /\ <<"drop", "unlist", "empty?">>[3] = "empty?"
      OBVIOUS
    <3> QED
      BY <3>1 DEF Owed
  <2>4. Owed(<<"unlist", "empty?">>, "empty?")
    <3>1. 2 \in 1..Len(<<"unlist", "empty?">>) /\ <<"unlist", "empty?">>[2] = "empty?"
      OBVIOUS
    <3> QED
      BY <3>1 DEF Owed
  <2>5. Owed(<<"unlist", "drop", "unlist", "empty?", "drop", "empty?">>, "empty?")
    <3>1. 6 \in 1..Len(<<"unlist", "drop", "unlist", "empty?", "drop", "empty?">>) /\ <<"unlist", "drop", "unlist", "empty?", "drop", "empty?">>[6] = "empty?"
      OBVIOUS
    <3> QED
      BY <3>1 DEF Owed
  <2>6. Owed(<<"drop", "unlist", "empty?", "drop", "empty?">>, "empty?")
    <3>1. 5 \in 1..Len(<<"drop", "unlist", "empty?", "drop", "empty?">>) /\ <<"drop", "unlist", "empty?", "drop", "empty?">>[5] = "empty?"
      OBVIOUS
    <3> QED
      BY <3>1 DEF Owed
  <2>7. Owed(<<"unlist", "empty?", "drop", "empty?">>, "empty?")
    <3>1. 4 \in 1..Len(<<"unlist", "empty?", "drop", "empty?">>) /\ <<"unlist", "empty?", "drop", "empty?">>[4] = "empty?"
      OBVIOUS
    <3> QED
      BY <3>1 DEF Owed
  <2>8. Owed(<<"drop", "empty?">>, "empty?")
    <3>1. 2 \in 1..Len(<<"drop", "empty?">>) /\ <<"drop", "empty?">>[2] = "empty?"
      OBVIOUS
    <3> QED
      BY <3>1 DEF Owed
  <2> QED
    BY <2>0, <2>1, <2>2, <2>3, <2>4, <2>5, <2>6, <2>7, <2>8
<1> QED
  BY <1>1, <1>2, <1>3, <1>4, <1>5

LEMMA TakenOff ==
  ASSUME Types, NEW p \in Procs, NEW x \in {"unlist", "drop", "complete"}, At(p, x), Then(p, <<>>)
  PROVE  Turns(p) /\ TakesOff(p, x)
<1>1. todo[p] \in Paths /\ todo[p] # <<>> /\ Head(todo[p]) = x
  BY DEF Types, At
<1>2. /\ Tail(todo[p]) \in Paths /\ Tail(todo[p]) # <<>>
      /\ Head(Tail(todo[p])) \in {"unlist", "drop", "empty?"}
  BY <1>1, PathTails
<1>3. Turns(p) /\ todo'[p] = Tail(todo[p])
  <2>1. <<>> \o Tail(todo[p]) = Tail(todo[p])
    BY <1>2, PathJoins
  <2> QED
    BY <1>1, <1>2, <2>1, ThenTurns
<1>4. \A y : Owed(todo[p], y) <=> x = y \/ Owed(todo'[p], y)
  BY <1>1, <1>3, PathOwes
<1>5. \A y : At(p, y)' => y \in {"unlist", "drop", "empty?"}
  BY <1>2, <1>3, AtEither
<1> QED
  BY <1>2, <1>3, <1>4, <1>5 DEF TakesOff

LEMMA Onward ==
  ASSUME Types, NEW p \in Procs, NEW x \in {"empty?", "stop"}, At(p, x), Then(p, <<>>)
  PROVE  Turns(p) /\ Continues(p)
<1>1. todo[p] \in Paths /\ todo[p] # <<>> /\ Head(todo[p]) = x
  BY DEF Types, At
<1>2. Tail(todo[p]) \in {<<>>, Finally} /\ (Tail(todo[p]) # <<>> <=> Owed(todo[p], "drop"))
  BY <1>1, PathOwes
<1>3. Turns(p) /\ todo'[p] = Tail(todo[p])
  <2>1. Tail(todo[p]) \in Paths /\ <<>> \o Tail(todo[p]) = Tail(todo[p])
    BY <1>2, PathJoins
  <2> QED
    BY <1>1, <2>1, ThenTurns
<1>4. \A y : At(p, y)' <=> todo'[p] # <<>> /\ y = "drop"
  <2>1. Head(Finally) = "drop"
    BY PathJoins
  <2> QED
    BY <1>2, <1>3, <2>1, AtEither
<1>5. \A y : Owed(todo'[p], y) <=> todo'[p] # <<>> /\ y \in {"drop", "empty?"}
  <2>1. Finally # <<>>
    BY PathJoins
  <2> QED
    BY <1>2, <1>3, <2>1, OwedPaths
<1> QED
  BY <1>2, <1>3, <1>4, <1>5 DEF Continues

LEMMA Headed ==
  ASSUME Types, NEW p \in Procs
  PROVE  /\ At(p, "empty?") /\ Then(p, <<"held?">>) => Turns(p) /\ Heads(p, "held?")
         /\ At(p, "held?") /\ Then(p, <<"release", "stop">>) => Turns(p) /\ Heads(p, "release")
         /\ At(p, "held?") /\ Then(p, <<"stop">>) => Turns(p) /\ Heads(p, "stop")
         /\ At(p, "release") /\ Then(p, <<>>) => Turns(p) /\ Heads(p, "stop")
<1>1. todo[p] \in Paths
  BY DEF Types
<1> DEFINE rest == Tail(todo[p])
<1>2. ASSUME At(p, "empty?") \/ At(p, "held?")
      PROVE  /\ todo[p] # <<>> /\ rest \in {<<>>, Finally}
             /\ Owed(todo[p], "drop") <=> Owed(rest, "drop")
             /\ ~Owed(rest, "unlist") /\ ~Owed(rest, "complete")
  <2>1. todo[p] # <<>> /\ Head(todo[p]) \in {"empty?", "held?"}
    BY <1>2, AtEither
  <2>2. rest \in {<<>>, Finally} /\ ~Owed(todo[p], "unlist") /\ ~Owed(todo[p], "complete")
    BY <1>1, <2>1, PathOwes
  <2>3. \A y : Owed(todo[p], y) <=> Head(todo[p]) = y \/ Owed(rest, y)
    BY <1>1, <2>1, PathOwes
  <2> QED
    BY <2>1, <2>2, <2>3
<1>3. ASSUME At(p, "empty?") /\ Then(p, <<"held?">>)
      PROVE  Turns(p) /\ Heads(p, "held?")
  <2> HIDE DEF rest
  <2>1. <<"held?">> \o rest \in Paths /\ Head(<<"held?">> \o rest) = "held?" /\ <<"held?">> \o rest # <<>>
    BY <1>2, <1>3, PathJoins
  <2>2. Turns(p) /\ todo'[p] = <<"held?">> \o rest
    BY <1>2, <1>3, <2>1, ThenTurns DEF rest
  <2>3. \A y : Owed(todo'[p], y) <=> y = "held?" \/ Owed(rest, y)
    BY <1>2, <1>3, <2>2, OwedPaths
  <2>4. \A y : At(p, y)' <=> y = "held?"
    BY <2>1, <2>2, AtEither
  <2>5. Heads(p, "held?")
    BY <1>2, <1>3, <2>1, <2>2, <2>3, <2>4 DEF Heads
  <2> QED
    BY <2>2, <2>5
<1>4. ASSUME At(p, "held?") /\ Then(p, <<"release", "stop">>)
      PROVE  Turns(p) /\ Heads(p, "release")
  <2> HIDE DEF rest
  <2>1. /\ <<"release", "stop">> \o rest \in Paths /\ Head(<<"release", "stop">> \o rest) = "release"
        /\ <<"release", "stop">> \o rest # <<>>
    BY <1>2, <1>4, PathJoins
  <2>2. Turns(p) /\ todo'[p] = <<"release", "stop">> \o rest
    BY <1>2, <1>4, <2>1, ThenTurns DEF rest
  <2>3. \A y : Owed(todo'[p], y) <=> y \in {"release", "stop"} \/ Owed(rest, y)
    BY <1>2, <1>4, <2>2, OwedPaths
  <2>4. \A y : At(p, y)' <=> y = "release"
    BY <2>1, <2>2, AtEither
  <2>5. Heads(p, "release")
    BY <1>2, <1>4, <2>1, <2>2, <2>3, <2>4 DEF Heads
  <2> QED
    BY <2>2, <2>5
<1>5. ASSUME At(p, "held?") /\ Then(p, <<"stop">>)
      PROVE  Turns(p) /\ Heads(p, "stop")
  <2> HIDE DEF rest
  <2>1. <<"stop">> \o rest \in Paths /\ Head(<<"stop">> \o rest) = "stop" /\ <<"stop">> \o rest # <<>>
    BY <1>2, <1>5, PathJoins
  <2>2. Turns(p) /\ todo'[p] = <<"stop">> \o rest
    BY <1>2, <1>5, <2>1, ThenTurns DEF rest
  <2>3. \A y : Owed(todo'[p], y) <=> y = "stop" \/ Owed(rest, y)
    BY <1>2, <1>5, <2>2, OwedPaths
  <2>4. \A y : At(p, y)' <=> y = "stop"
    BY <2>1, <2>2, AtEither
  <2>5. Heads(p, "stop")
    BY <1>2, <1>5, <2>1, <2>2, <2>3, <2>4 DEF Heads
  <2> QED
    BY <2>2, <2>5
<1>6. ASSUME At(p, "release") /\ Then(p, <<>>)
      PROVE  Turns(p) /\ Heads(p, "stop")
  <2>1. todo[p] # <<>> /\ Head(todo[p]) = "release"
    BY <1>6, AtEither
  <2>2. rest \in Paths /\ rest # <<>> /\ Head(rest) = "stop"
    BY <1>1, <2>1, PathTails
  <2>3. Turns(p) /\ todo'[p] = rest
    <3>1. <<>> \o rest = rest
      BY <2>2, PathJoins
    <3> QED
      BY <1>6, <2>1, <2>2, <3>1, ThenTurns
  <2>4. /\ ~Owed(rest, "unlist") /\ ~Owed(rest, "complete") /\ Owed(rest, "stop")
        /\ Owed(todo[p], "drop") <=> Owed(rest, "drop")
    <3> HIDE DEF rest
    <3>1. ~Owed(rest, "unlist") /\ ~Owed(rest, "complete") /\ Owed(rest, "stop")
      BY <2>2, PathOwes
    <3>2. \A y : Owed(todo[p], y) <=> Head(todo[p]) = y \/ Owed(rest, y)
      BY <1>1, <2>1, PathOwes DEF rest
    <3> QED
      BY <2>1, <3>1, <3>2
  <2>5. \A y : At(p, y)' <=> y = "stop"
    BY <2>2, <2>3, AtEither
  <2>6. Heads(p, "stop")
    BY <2>2, <2>3, <2>4, <2>5 DEF Heads
  <2> QED
    BY <2>3, <2>6
<1> QED
  BY <1>3, <1>4, <1>5, <1>6

LEMMA HasPath ==
  ASSUME Types, NEW p \in Procs, NEW x, NEW S, NEW t \in Paths, todo' = [todo EXCEPT ![p] = t],
         t # <<>>, Head(t) = x, \A y : Owed(t, y) <=> y \in S
  PROVE  Turns(p) /\ Has(p, x, S)
<1>1. Turns(p) /\ todo'[p] = t
  BY SetTurns
<1> QED
  BY <1>1, AtEither DEF Has

LEMMA OwedOne ==
  ASSUME NEW a
  PROVE  \A y : Owed(<<a>>, y) <=> y \in {a}
  BY DEF Owed

TidyUp == {"unlist", "drop", "empty?"}

\* A download that works goes on to a step of one.
LEMMA GoesOn ==
  ASSUME Types, NEW p \in Procs, NEW x \in {"await", "read", "check", "write"}, At(p, x)
  PROVE  /\ \A z \in {"read", "check", "write"} : Then(p, <<z>>) => Turns(p) /\ Has(p, z, {z})
         /\ Then(p, Cleanup) => Turns(p) /\ Has(p, "unlist", TidyUp)
         /\ todo' = [todo EXCEPT ![p] = Cleanup \o Finally] => Turns(p) /\ Has(p, "unlist", TidyUp)
         /\ todo' = [todo EXCEPT ![p] = <<"complete">> \o Finally]
              => Turns(p) /\ Has(p, "complete", {"complete", "drop", "empty?"})
         /\ todo' = [todo EXCEPT ![p] = Finally] => Turns(p) /\ Has(p, "drop", {"drop", "empty?"})
<1>1. todo[p] \in Paths /\ todo[p] # <<>> /\ Head(todo[p]) = x
  BY DEF Types, At
<1>2. Tail(todo[p]) = <<>>
  BY <1>1, PathTails
<1>3. ASSUME NEW z \in {"read", "check", "write"}, Then(p, <<z>>)
      PROVE  Turns(p) /\ Has(p, z, {z})
  <2>1. <<z>> \o <<>> = <<z>> /\ <<z>> \in Paths
    BY PathJoins
  <2>2. todo' = [todo EXCEPT ![p] = <<z>>]
    BY <1>2, <1>3, <2>1 DEF Then, Types
  <2>3. <<z>> # <<>> /\ Head(<<z>>) = z
    OBVIOUS
  <2> QED
    BY <2>1, <2>2, <2>3, HasPath, OwedOne
<1>4. ASSUME Then(p, Cleanup) PROVE Turns(p) /\ Has(p, "unlist", TidyUp)
  <2>1. Cleanup \o <<>> = Cleanup /\ Cleanup \in Paths /\ Cleanup # <<>> /\ Head(Cleanup) = "unlist"
    BY PathJoins
  <2>2. todo' = [todo EXCEPT ![p] = Cleanup]
    BY <1>2, <1>4, <2>1 DEF Then, Types
  <2>3. \A y : Owed(Cleanup, y) <=> y \in TidyUp
    BY OwedPaths DEF TidyUp
  <2> QED
    BY <2>1, <2>2, <2>3, HasPath
<1>5. ASSUME todo' = [todo EXCEPT ![p] = Cleanup \o Finally]
      PROVE  Turns(p) /\ Has(p, "unlist", TidyUp)
  <2>1. \A y : Owed(Cleanup \o Finally, y) <=> y \in TidyUp
    BY OwedPaths DEF TidyUp
  <2> QED
    BY <1>5, <2>1, PathJoins, HasPath
<1>6. ASSUME todo' = [todo EXCEPT ![p] = <<"complete">> \o Finally]
      PROVE  Turns(p) /\ Has(p, "complete", {"complete", "drop", "empty?"})
  <2>1. \A y : Owed(<<"complete">> \o Finally, y) <=> y \in {"complete", "drop", "empty?"}
    BY OwedPaths
  <2> QED
    BY <1>6, <2>1, PathJoins, HasPath
<1>7. ASSUME todo' = [todo EXCEPT ![p] = Finally]
      PROVE  Turns(p) /\ Has(p, "drop", {"drop", "empty?"})
  <2>1. \A y : Owed(Finally, y) <=> y \in {"drop", "empty?"}
    BY OwedPaths
  <2> QED
    BY <1>7, <2>1, PathJoins, HasPath
<1> QED
  BY <1>3, <1>4, <1>5, <1>6, <1>7

-----------------------------------------------------------------------------
(* What each step does *)

LEMMA AnsweredDoes ==
  ASSUME Types, NEW c \in Calls, Answered(c)
  PROVE  /\ Turns(c) /\ At(c, "await")
         /\ \/ Has(c, "unlist", TidyUp) /\ UNCHANGED <<dest, cut>>
            \/ /\ Has(c, "read", {"read"})
               /\ dest' = [dest EXCEPT ![fileOf[c]] = "partial"]
               /\ cut' = [d \in Calls |-> cut[d] \/ d \in Others(c)]
<1>1. c \in Procs
  BY DownloadAssumption DEF Calls, Procs
<1> QED
  BY <1>1, GoesOn DEF Answered, AfterFailure, Throw

LEMMA ReadDoes ==
  ASSUME Types, NEW c \in Calls, Read(c)
  PROVE  /\ Turns(c) /\ At(c, "read")
         /\ \/ Has(c, "check", {"check"}) /\ UNCHANGED dest
            \/ /\ Has(c, "complete", {"complete", "drop", "empty?"})
               /\ dest' = IF cut[c] THEN dest ELSE [dest EXCEPT ![fileOf[c]] = "whole"]
            \/ Has(c, "unlist", TidyUp) /\ UNCHANGED dest
<1>1. c \in Procs
  BY DownloadAssumption DEF Calls, Procs
<1> QED
  BY <1>1, GoesOn DEF Read, Throw, EndsWhole

LEMMA CheckDoes ==
  ASSUME Types, NEW c \in Calls, Check(c)
  PROVE  /\ Turns(c) /\ At(c, "check")
         /\ \/ /\ canceled[c] /\ Unlink(fileOf[c])
               /\ Has(c, "drop", {"drop", "empty?"})
            \/ Has(c, "write", {"write"}) /\ UNCHANGED <<dest, cut>>
<1>1. c \in Procs
  BY DownloadAssumption DEF Calls, Procs
<1> QED
  BY <1>1, GoesOn DEF Check

LEMMA WriteDoes ==
  ASSUME Types, NEW c \in Calls, Write(c)
  PROVE  Turns(c) /\ At(c, "write") /\ Has(c, "read", {"read"})
<1>1. c \in Procs
  BY DownloadAssumption DEF Calls, Procs
<1> QED
  BY <1>1, GoesOn DEF Write

LEMMA CompleteDoes ==
  ASSUME Types, NEW c \in Calls, Complete(c)
  PROVE  Turns(c) /\ At(c, "complete") /\ TakesOff(c, "complete")
<1>1. c \in Procs
  BY DownloadAssumption DEF Calls, Procs
<1> QED
  BY <1>1, TakenOff DEF Complete

LEMMA UnlistDoes ==
  ASSUME Types, NEW p \in Procs, Unlist(p)
  PROVE  Turns(p) /\ At(p, "unlist") /\ TakesOff(p, "unlist")
  BY TakenOff DEF Unlist

LEMMA DropDoes ==
  ASSUME Types, NEW p \in Procs, Drop(p)
  PROVE  Turns(p) /\ At(p, "drop") /\ TakesOff(p, "drop")
  BY TakenOff DEF Drop

LEMMA TestEmptyDoes ==
  ASSUME Types, NEW p \in Procs, TestEmpty(p)
  PROVE  /\ Turns(p) /\ At(p, "empty?")
         /\ IF NoneActive THEN Heads(p, "held?") ELSE Continues(p)
<1>1. CASE NoneActive
  BY <1>1, Headed DEF TestEmpty
<1>2. CASE ~NoneActive
  BY <1>2, Onward DEF TestEmpty
<1> QED
  BY <1>1, <1>2

LEMMA TestHeldDoes ==
  ASSUME Types, NEW p \in Procs, TestHeld(p)
  PROVE  /\ Turns(p) /\ At(p, "held?")
         /\ Heads(p, IF wake[instOf[p]] > 0 THEN "release" ELSE "stop")
<1>1. CASE wake[instOf[p]] > 0
  BY <1>1, Headed DEF TestHeld, AfterHeld
<1>2. CASE ~(wake[instOf[p]] > 0)
  BY <1>2, Headed DEF TestHeld, AfterHeld
<1> QED
  BY <1>1, <1>2

LEMMA ReleaseDoes ==
  ASSUME Types, NEW p \in Procs, Release(p)
  PROVE  /\ At(p, "release")
         /\ \/ /\ wake[instOf[p]] > 0 /\ Turns(p) /\ Heads(p, "stop") /\ UNCHANGED alive
               /\ wake' = [wake EXCEPT ![instOf[p]] = @ - 1]
            \/ /\ wake[instOf[p]] <= 0 \/ instOf[p] \notin Instances
               /\ alive' = FALSE /\ UNCHANGED <<wake, todo>>
<1>1. CASE wake[instOf[p]] > 0
  BY <1>1, Headed DEF Release
<1>2. CASE ~(wake[instOf[p]] > 0)
  BY <1>2 DEF Release, Types
<1> QED
  BY <1>1, <1>2

LEMMA StopSelfDoes ==
  ASSUME Types, NEW p \in Procs, StopSelf(p)
  PROVE  Turns(p) /\ At(p, "stop") /\ Continues(p)
  BY Onward DEF StopSelf

LEMMA EnqueueDoes ==
  ASSUME Types, Threads, Enqueue
  PROVE  \E c \in Calls :
           /\ c \notin Begun /\ Begun' = Begun \cup {c}
           /\ todo[c] = <<>> /\ todo[0] # <<>> /\ c # 0
           /\ todo' \in [Procs -> Paths] /\ todo'[0] = <<>> /\ Has(c, "await", {"await"})
           /\ \A q \in Procs : q # c /\ q # 0 => todo'[q] = todo[q]
           /\ active' = [active EXCEPT ![fileOf[0]] = c]
           /\ fileOf' = [fileOf EXCEPT ![c] = fileOf[0]]
           /\ instOf' = [instOf EXCEPT ![c] = instOf[0]]
<1>1. PICK c \in Calls : /\ c = Cardinality(Begun) + 1
                         /\ active' = [active EXCEPT ![fileOf[0]] = c]
                         /\ fileOf' = [fileOf EXCEPT ![c] = fileOf[0]]
                         /\ instOf' = [instOf EXCEPT ![c] = instOf[0]]
                         /\ todo' = [todo EXCEPT ![0] = Tail(@), ![c] = <<"await">>]
  BY DEF Enqueue
<1>2. PICK k \in 0..MaxCalls : Begun = 1..k
  BY DEF Threads
<1>3. MaxCalls \in Nat /\ 0 \in Procs /\ Calls \subseteq Procs /\ 0 \notin Calls
  BY DownloadAssumption DEF Calls, Procs
<1>4. c = k + 1
  <2>1. Cardinality(1..k) = k
    BY FS_Interval
  <2> QED
    BY <1>1, <1>2, <2>1
<1>5. c \notin Begun
  BY <1>2, <1>3, <1>4
<1>6. todo[0] \in Paths /\ todo[0] # <<>> /\ Head(todo[0]) = "enqueue"
  BY <1>3 DEF Enqueue, At, Types
<1>7. fileOf[0] \in Files
  BY <1>3, <1>6 DEF Threads
<1>8. Begun' = Begun \cup {c}
  <2>1. \A d \in Calls : fileOf'[d] = IF d = c THEN fileOf[0] ELSE fileOf[d]
    BY <1>1, <1>3 DEF Types
  <2>2. fileOf[0] # None
    BY <1>7, DownloadAssumption
  <2> QED
    BY <2>1, <2>2 DEF Begun
<1>9. todo[c] = <<>>
  BY <1>3, <1>5, DownloadAssumption DEF Threads, Begun
<1>10. Tail(todo[0]) = <<>> /\ <<>> \in Paths /\ <<"await">> \in Paths
  BY <1>6, PathTails DEF Paths
<1>11. /\ todo' \in [Procs -> Paths] /\ todo'[0] = <<>> /\ todo'[c] = <<"await">>
       /\ \A q \in Procs : q # c /\ q # 0 => todo'[q] = todo[q]
  BY <1>1, <1>3, <1>10 DEF Types
<1>12. Has(c, "await", {"await"})
  <2>1. <<"await">> # <<>> /\ Head(<<"await">>) = "await"
    OBVIOUS
  <2>2. c \in Procs
    BY <1>3
  <2> QED
    BY <1>11, <2>1, <2>2, AtEither, OwedOne DEF Has
<1> QED
  BY <1>1, <1>3, <1>5, <1>6, <1>8, <1>9, <1>11, <1>12

LEMMA ConcatAt ==
  ASSUME NEW S, NEW u \in Seq(S), NEW v \in Seq(S)
  PROVE  /\ u \o v \in Seq(S) /\ Len(u \o v) = Len(u) + Len(v)
         /\ \A i \in 1..(Len(u) + Len(v)) : (u \o v)[i] = IF i <= Len(u) THEN u[i] ELSE v[i - Len(u)]
  BY ConcatProperties, Z3

LEMMA DeliverDoes ==
  ASSUME Types, Threads, NEW w \in {"start", "cancel"}, NEW f \in Files, Deliver(w, f)
  PROVE  /\ up' # 0 /\ up' \in 1..made' /\ made' \in made..(made + 1) /\ inbox' \in Seq(Messages)
         /\ up # 0 => up' = up /\ made' = made
         /\ up = 0 => up' = made + 1 /\ made' = made + 1
         /\ DOMAIN inbox = 1..Len(inbox) /\ DOMAIN inbox' = 1..Len(inbox')
         /\ Len(inbox) \in Nat /\ Len(inbox') \in Nat /\ Len(inbox') > Len(inbox)
         /\ \A i \in DOMAIN inbox : i \in DOMAIN inbox' /\ inbox'[i] = inbox[i]
         /\ \A i \in DOMAIN inbox' : i \notin DOMAIN inbox =>
              /\ i > Len(inbox) /\ inbox'[i].inst = up' /\ inbox'[i].what # "destroy"
              /\ inbox'[i].what \in {"start", "cancel"} => inbox'[i].file \in Files
         /\ inbox'[Len(inbox')].what = w
<1>0. up \in Nat /\ made \in Nat /\ inbox \in Seq(Messages) /\ up <= made /\ Len(inbox) \in Nat
      /\ DOMAIN inbox = 1..Len(inbox)
  BY DEF Types, Threads
<1> DEFINE n == Len(inbox)
<1>1. CASE up # 0
  <2> DEFINE m == Msg(w, f, up)
  <2>1. m \in Messages /\ m.what = w /\ m.inst = up /\ m.file = f
    BY <1>0 DEF Msg, Messages
  <2> HIDE DEF m
  <2>2. inbox' = Append(inbox, m) /\ up' = up /\ made' = made
    BY <1>1 DEF Deliver, m
  <2>3. /\ inbox' \in Seq(Messages) /\ Len(inbox') = n + 1
        /\ \A i \in 1..n : inbox'[i] = inbox[i]
        /\ inbox'[n + 1] = m
    BY <1>0, <2>1, <2>2
  <2>4. \A i \in DOMAIN inbox' : i \notin DOMAIN inbox => i = n + 1
    BY <1>0, <2>3
  <2> QED
    BY <1>0, <1>1, <2>1, <2>2, <2>3, <2>4
<1>2. CASE up = 0
  <2> DEFINE k == Msg("create", None, made + 1)
             m == Msg(w, f, made + 1)
             two == <<k, m>>
  <2>1. /\ m \in Messages /\ m.what = w /\ m.inst = made + 1 /\ m.file = f
        /\ k \in Messages /\ k.what = "create" /\ k.inst = made + 1
    BY <1>0 DEF Msg, Messages
  <2>2. inbox' = inbox \o two /\ up' = made + 1 /\ made' = made + 1
    BY <1>2 DEF Deliver
  <2> HIDE DEF m, k
  <2>3. two \in Seq(Messages) /\ Len(two) = 2 /\ two[1] = k /\ two[2] = m
    BY <2>1
  <2> HIDE DEF two
  <2>4. /\ inbox' \in Seq(Messages) /\ Len(inbox') = n + 2
        /\ \A i \in 1..(n + 2) : inbox'[i] = IF i <= n THEN inbox[i] ELSE two[i - n]
    <3>1. \A u, v \in Seq(Messages) :
            /\ u \o v \in Seq(Messages) /\ Len(u \o v) = Len(u) + Len(v)
            /\ \A i \in 1..(Len(u) + Len(v)) : (u \o v)[i] = IF i <= Len(u) THEN u[i] ELSE v[i - Len(u)]
      BY ConcatAt
    <3> QED
      BY <1>0, <2>2, <2>3, <3>1
  <2>5. \A i \in 1..n : inbox'[i] = inbox[i]
    BY <1>0, <2>4
  <2>6. inbox'[n + 1] = k /\ inbox'[n + 2] = m
    <3>1. n + 1 \in 1..(n + 2) /\ n + 2 \in 1..(n + 2) /\ (n + 1) - n = 1 /\ (n + 2) - n = 2
      BY <1>0
    <3> QED
      BY <1>0, <2>3, <2>4, <3>1
  <2>7. \A i \in DOMAIN inbox' : i \notin DOMAIN inbox => i \in {n + 1, n + 2}
    BY <1>0, <2>4
  <2> QED
    BY <1>0, <1>2, <2>1, <2>2, <2>4, <2>5, <2>6, <2>7
<1> QED
  BY <1>1, <1>2

SameHist == /\ hist'.cancelled = hist.cancelled /\ hist'.deleted = hist.deleted
            /\ hist'.overlap = hist.overlap /\ hist'.parallel = hist.parallel
            /\ hist'.raced = hist.raced

\* The main thread begins to download what m names.
Begins(m) ==
  /\ m.what = "start" /\ m.file \in Files /\ m.file \notin ongoing
  /\ Has(0, "enqueue", {"enqueue"})
  /\ ongoing' = ongoing \cup {m.file}
  /\ wake' = [wake EXCEPT ![m.inst] = @ + 1]
  /\ canceled' = canceled
  /\ hist'.cancelled = hist.cancelled /\ hist'.deleted = hist.deleted
  /\ hist'.raced = (hist.raced \/ Stopping)
  /\ hist'.parallel = (hist.parallel \/ \E c \in Calls : Live(c))
  /\ hist'.overlap = IF \E c \in Calls : Leaving(c) /\ fileOf[c] = m.file
                     THEN hist.overlap \cup {m.file} ELSE hist.overlap

\* It begins to cancel it.
CancelsNow(m) ==
  /\ m.what = "cancel" /\ m.file \in Files
  /\ Has(0, "unlist", TidyUp)
  /\ UNCHANGED <<ongoing, wake>>
  /\ canceled' = [c \in Calls |-> canceled[c] \/ active[m.file] = c]
  /\ hist'.cancelled = hist.cancelled \cup {m.file}
  /\ hist'.deleted = hist.deleted /\ hist'.overlap = hist.overlap
  /\ hist'.parallel = hist.parallel /\ hist'.raced = hist.raced

\* It does no more than to release the lock on a destruction.
JustTakes(m) ==
  /\ todo'[0] = <<>>
  /\ UNCHANGED <<ongoing, canceled>>
  /\ wake' = IF m.what = "destroy" /\ wake[m.inst] > 0 THEN [wake EXCEPT ![m.inst] = @ - 1] ELSE wake
  /\ SameHist
  /\ m.what \in {"start", "create", "destroy"} /\ (m.what = "start" => m.file \in ongoing)

LEMMA ReceiveDoes ==
  ASSUME Types, Threads, Posts, Receive
  PROVE  \E m \in Messages :
           /\ m = inbox[1] /\ 1 \in DOMAIN inbox /\ m.inst \in 1..made
           /\ todo[0] = <<>> /\ Turns(0)
           /\ fileOf' = [fileOf EXCEPT ![0] = m.file] /\ instOf' = [instOf EXCEPT ![0] = m.inst]
           /\ Begins(m) \/ CancelsNow(m) \/ JustTakes(m)
           /\ hist' \in Histories
           /\ inbox' \in Seq(Messages) /\ DOMAIN inbox = 1..Len(inbox) /\ DOMAIN inbox' = 1..Len(inbox')
           /\ Len(inbox) \in Nat /\ Len(inbox') = Len(inbox) - 1
           /\ \A i \in DOMAIN inbox' : i + 1 \in DOMAIN inbox /\ inbox'[i] = inbox[i + 1]
           /\ \A i \in DOMAIN inbox : i # 1 => i - 1 \in DOMAIN inbox' /\ inbox'[i - 1] = inbox[i]
<1> DEFINE h == Head(inbox)
           begins == h.what = "start" /\ MayBegin(h.file)
<1>0. /\ inbox \in Seq(Messages) /\ inbox # <<>> /\ 0 \in Procs /\ todo[0] = <<>> /\ hist \in Histories
      /\ inbox' = Tail(inbox)
  BY DownloadAssumption DEF Types, Receive, Procs
<1>1. /\ Len(inbox) \in Nat /\ Len(inbox) >= 1 /\ DOMAIN inbox = 1..Len(inbox) /\ h = inbox[1] /\ h \in Messages
      /\ inbox' \in Seq(Messages) /\ DOMAIN inbox' = 1..Len(inbox') /\ Len(inbox') = Len(inbox) - 1
      /\ \A i \in 1..(Len(inbox) - 1) : inbox'[i] = inbox[i + 1]
  BY <1>0
<1>2. /\ \A i \in DOMAIN inbox' : i + 1 \in DOMAIN inbox /\ inbox'[i] = inbox[i + 1]
      /\ \A i \in DOMAIN inbox : i # 1 => i - 1 \in DOMAIN inbox' /\ inbox'[i - 1] = inbox[i]
  BY <1>1
<1>3. h.inst \in 1..made /\ (h.what \in {"start", "cancel"} => h.file \in Files)
  BY <1>1 DEF Posts
<1> HIDE DEF h
<1>40. fileOf' = [fileOf EXCEPT ![0] = h.file] /\ instOf' = [instOf EXCEPT ![0] = h.inst]
  BY DEF Receive, h
<1>4. /\ todo' = [todo EXCEPT ![0] = CASE begins -> <<"enqueue">>
                                       [] h.what = "cancel" -> Cleanup
                                       [] OTHER -> <<>>]
      /\ ongoing' = IF begins THEN ongoing \cup {h.file} ELSE ongoing
      /\ wake' = CASE begins -> [wake EXCEPT ![h.inst] = @ + 1]
                   [] h.what = "destroy" /\ wake[h.inst] > 0 -> [wake EXCEPT ![h.inst] = @ - 1]
                   [] OTHER -> wake
      /\ canceled' = [c \in Calls |-> canceled[c] \/ (h.what = "cancel" /\ active[h.file] = c)]
      /\ hist' = [hist EXCEPT
             !.cancelled = IF h.what = "cancel" THEN @ \cup {h.file} ELSE @,
             !.raced = @ \/ (begins /\ Stopping),
             !.parallel = @ \/ (begins /\ \E c \in Calls : Live(c)),
             !.overlap = IF begins /\ \E c \in Calls : Leaving(c) /\ fileOf[c] = h.file
                         THEN @ \cup {h.file} ELSE @]
  BY DEF Receive, h
<1>5. /\ hist'.cancelled = IF h.what = "cancel" THEN hist.cancelled \cup {h.file} ELSE hist.cancelled
      /\ hist'.deleted = hist.deleted
      /\ hist'.raced = (hist.raced \/ (begins /\ Stopping))
      /\ hist'.parallel = (hist.parallel \/ (begins /\ \E c \in Calls : Live(c)))
      /\ hist'.overlap = IF begins /\ \E c \in Calls : Leaving(c) /\ fileOf[c] = h.file
                         THEN hist.overlap \cup {h.file} ELSE hist.overlap
  BY <1>0, <1>4 DEF Histories
<1>6. hist' \in Histories
  <2> DEFINE r == (hist.raced \/ (begins /\ Stopping))
             l == (hist.parallel \/ (begins /\ \E c \in Calls : Live(c)))
             o == IF begins /\ \E c \in Calls : Leaving(c) /\ fileOf[c] = h.file
                  THEN hist.overlap \cup {h.file} ELSE hist.overlap
             d == IF h.what = "cancel" THEN hist.cancelled \cup {h.file} ELSE hist.cancelled
  <2>1. r \in BOOLEAN /\ l \in BOOLEAN
    BY <1>0 DEF Histories
  <2>2. o \in SUBSET Files /\ d \in SUBSET Files
    BY <1>0, <1>3 DEF Histories
  <2>3. hist' = [hist EXCEPT !.cancelled = d, !.raced = r, !.parallel = l, !.overlap = o]
    BY <1>0, <1>4 DEF Histories
  <2> HIDE DEF r, l, o, d
  <2> QED
    BY <1>0, <2>1, <2>2, <2>3 DEF Histories
<1>7. ASSUME begins PROVE Turns(0) /\ Begins(h)
  <2>1. h.file \in Files /\ h.file \notin ongoing /\ h.what = "start"
    BY <1>3, <1>7 DEF MayBegin
  <2>2. todo' = [todo EXCEPT ![0] = <<"enqueue">>]
    BY <1>4, <1>7
  <2>3. <<"enqueue">> \in Paths /\ <<"enqueue">> # <<>> /\ Head(<<"enqueue">>) = "enqueue"
    BY DEF Paths
  <2>4. Turns(0) /\ Has(0, "enqueue", {"enqueue"})
    BY <1>0, <2>2, <2>3, HasPath, OwedOne
  <2>5. canceled' = canceled
    BY <1>4, <2>1 DEF Types
  <2>6. Begins(h)
    BY <1>4, <1>5, <1>7, <2>1, <2>4, <2>5 DEF Begins
  <2> QED
    BY <2>4, <2>6
<1>8. ASSUME ~begins, h.what = "cancel" PROVE Turns(0) /\ CancelsNow(h)
  <2>1. todo' = [todo EXCEPT ![0] = Cleanup]
    BY <1>4, <1>8
  <2>2. \A y : Owed(Cleanup, y) <=> y \in TidyUp
    BY OwedPaths DEF TidyUp
  <2>3. Turns(0) /\ Has(0, "unlist", TidyUp)
    BY <1>0, <2>1, <2>2, PathJoins, HasPath
  <2>5. /\ UNCHANGED <<ongoing, wake>>
        /\ canceled' = [c \in Calls |-> canceled[c] \/ active[h.file] = c]
    BY <1>4, <1>8
  <2>6. /\ hist'.cancelled = hist.cancelled \cup {h.file}
        /\ hist'.deleted = hist.deleted /\ hist'.overlap = hist.overlap
        /\ hist'.parallel = hist.parallel /\ hist'.raced = hist.raced
    BY <1>0, <1>5, <1>8 DEF Histories
  <2>4. CancelsNow(h)
    BY <1>3, <1>8, <2>3, <2>5, <2>6 DEF CancelsNow
  <2> QED
    BY <2>3, <2>4
<1>9. ASSUME ~begins, h.what # "cancel" PROVE Turns(0) /\ JustTakes(h)
  <2>1. todo' = [todo EXCEPT ![0] = <<>>]
    BY <1>4, <1>9
  <2>2. Turns(0) /\ todo'[0] = <<>>
    <3>1. <<>> \in Paths
      BY DEF Paths
    <3> QED
      BY <1>0, <2>1, <3>1, SetTurns
  <2>3. canceled' = canceled
    BY <1>4, <1>9 DEF Types
  <2>4. h.what \in {"start", "create", "destroy"} /\ (h.what = "start" => h.file \in ongoing)
    BY <1>1, <1>9 DEF Messages, MayBegin
  <2>6. /\ ongoing' = ongoing
        /\ wake' = IF h.what = "destroy" /\ wake[h.inst] > 0 THEN [wake EXCEPT ![h.inst] = @ - 1] ELSE wake
    BY <1>4, <1>9
  <2>7. SameHist
    BY <1>0, <1>5, <1>9 DEF SameHist, Histories
  <2>5. JustTakes(h)
    BY <2>2, <2>3, <2>4, <2>6, <2>7 DEF JustTakes
  <2> QED
    BY <2>2, <2>5
<1>10. Turns(0) /\ (Begins(h) \/ CancelsNow(h) \/ JustTakes(h))
  BY <1>7, <1>8, <1>9
<1>11. h \in Messages /\ h = inbox[1] /\ 1 \in DOMAIN inbox /\ h.inst \in 1..made /\ todo[0] = <<>>
  BY <1>0, <1>1, <1>3
<1> HIDE DEF begins
<1> QED
  BY <1>1, <1>2, <1>40, <1>6, <1>10, <1>11

-----------------------------------------------------------------------------
(* Types and threads *)

LEMMA Basics == /\ 0 \in Procs /\ 0 \notin Calls /\ Procs = Calls \cup {0}
                /\ None \notin Calls /\ None \notin Files
                /\ MaxCalls \in Nat /\ MaxTaps \in Nat
                /\ Calls \subseteq Nat /\ Instances \subseteq Nat /\ 0 \notin Instances
  BY DownloadAssumption DEF Procs, Calls, Instances

LEMMA AtOne ==
  ASSUME NEW p
  PROVE  /\ \A x, y : At(p, x) /\ At(p, y) => x = y
         /\ \A x, y : At(p, x)' /\ At(p, y)' => x = y
         /\ \A x : At(p, x) => todo[p] # <<>>
         /\ \A x : At(p, x)' => todo'[p] # <<>>
  BY DEF At

LEMMA Same ==
  ASSUME NEW q, todo'[q] = todo[q]
  PROVE  /\ \A x : At(q, x)' <=> At(q, x)
         /\ \A x : Owed(todo'[q], x) <=> Owed(todo[q], x)
         /\ Working(q)' <=> Working(q)
         /\ Asks(q)' <=> Asks(q)
  BY DEF At, Working, Asks

\* The clean-up, the finally and the last step of a download, and how a download
\* goes on: what the steps of one thread do, the others left as they are.
Tidies(p) ==
  \/ \E x \in {"unlist", "drop", "complete"} : At(p, x) /\ TakesOff(p, x)
  \/ \E x \in {"empty?", "stop"} : At(p, x) /\ Continues(p)
  \/ \E x \in {"empty?", "held?", "release"}, y \in {"held?", "release", "stop"} : At(p, x) /\ Heads(p, y)

Works(p) ==
  /\ Working(p)
  /\ \/ \E z \in {"read", "check", "write"} : Has(p, z, {z})
     \/ Has(p, "unlist", TidyUp)
     \/ Has(p, "complete", {"complete", "drop", "empty?"})
     \/ At(p, "check") /\ canceled[p] /\ Has(p, "drop", {"drop", "empty?"})

Dies(p) == Release(p) /\ UNCHANGED <<wake, todo>> /\ alive' = FALSE

LEMMA TidyTurns ==
  ASSUME Types, NEW p \in Procs, Tidy(p)
  PROVE  /\ UNCHANGED <<fileOf, instOf>>
         /\ Dies(p) \/ (Turns(p) /\ Tidies(p) /\ alive' = alive)
<1>1. ASSUME Unlist(p) \/ Drop(p) PROVE Turns(p) /\ Tidies(p) /\ UNCHANGED <<fileOf, instOf, alive>>
  BY <1>1, UnlistDoes, DropDoes DEF Tidies, Unlist, Drop, thread
<1>2. ASSUME TestEmpty(p) PROVE Turns(p) /\ Tidies(p) /\ UNCHANGED <<fileOf, instOf, alive>>
  BY <1>2, TestEmptyDoes DEF Tidies, TestEmpty, thread
<1>3. ASSUME TestHeld(p) PROVE Turns(p) /\ Tidies(p) /\ UNCHANGED <<fileOf, instOf, alive>>
  BY <1>3, TestHeldDoes DEF Tidies, TestHeld, thread
<1>4. ASSUME Release(p)
      PROVE  UNCHANGED <<fileOf, instOf>> /\ (Dies(p) \/ (Turns(p) /\ Tidies(p) /\ alive' = alive))
  <2>1. UNCHANGED <<fileOf, instOf>>
    BY <1>4 DEF Release, thread
  <2>2. Dies(p) \/ (Turns(p) /\ Tidies(p) /\ alive' = alive)
    BY <1>4, ReleaseDoes DEF Tidies, Dies
  <2> QED
    BY <2>1, <2>2
<1>5. ASSUME StopSelf(p) PROVE Turns(p) /\ Tidies(p) /\ UNCHANGED <<fileOf, instOf, alive>>
  BY <1>5, StopSelfDoes DEF Tidies, StopSelf, thread
<1> QED
  BY <1>1, <1>2, <1>3, <1>4, <1>5 DEF Tidy

LEMMA CallTurns ==
  ASSUME Types, NEW c \in Calls, Answered(c) \/ Read(c) \/ Check(c) \/ Write(c)
  PROVE  Turns(c) /\ Works(c) /\ UNCHANGED <<fileOf, instOf, alive, hist, inbox, up, made, active, wake, canceled>>
<1>1. CASE Answered(c)
  BY <1>1, AnsweredDoes DEF Works, Working, Answered, thread, shared, system
<1>2. CASE Read(c)
  BY <1>2, ReadDoes DEF Works, Working, Read, thread, shared, system
<1>3. CASE Check(c)
  BY <1>3, CheckDoes DEF Works, Working, Check, thread, shared, system
<1>4. CASE Write(c)
  BY <1>4, WriteDoes DEF Works, Working, Write, thread, streams, system
<1> QED
  BY <1>1, <1>2, <1>3, <1>4

LEMMA CompleteTurns ==
  ASSUME Types, NEW c \in Calls, Complete(c)
  PROVE  Turns(c) /\ Tidies(c) /\ UNCHANGED <<fileOf, instOf, alive, hist, inbox, up, made, active, wake, canceled, dest, cut>>
  BY CompleteDoes DEF Tidies, Complete, thread, streams, system

\* The step of a thread: who takes it and what it leaves alone.
Threaded(p) == /\ UNCHANGED <<fileOf, instOf>>
               /\ \/ Turns(p) /\ (Tidies(p) \/ (p \in Calls /\ Works(p)))
                  \/ Dies(p)

LEMMA NextKinds ==
  ASSUME Types, Next
  PROVE  /\ alive
         /\ \/ User \/ Receive \/ Enqueue
            \/ \E p \in Procs : Threaded(p) /\ Tidy(p)
            \/ \E c \in Calls : Threaded(c) /\ (Answered(c) \/ Read(c) \/ Check(c) \/ Write(c) \/ Complete(c))
<1>1. \A p \in Procs : Tidy(p) => Threaded(p)
  BY TidyTurns DEF Threaded
<1>2. \A c \in Calls : Answered(c) \/ Read(c) \/ Check(c) \/ Write(c) \/ Complete(c) => Threaded(c)
  BY CallTurns, CompleteTurns DEF Threaded
<1> QED
  BY <1>1, <1>2, Basics DEF Next, MainThread, Callback

LEMMA UserDoes ==
  ASSUME Types, Threads, User
  PROVE  \E f \in Files, w \in {"start", "cancel"} :
           /\ UNCHANGED <<ongoing, active, wake, canceled, chunks, fileOf, instOf, todo, alive>>
           /\ todo[0] = <<>>
           /\ \/ /\ Deliver(w, f) /\ UNCHANGED <<dest, cut, hist>>
                 /\ starts' \in 0..MaxCalls /\ taps' \in 0..MaxTaps
                 /\ (starts' = starts + 1 /\ taps' = taps) \/ (starts' = starts /\ taps' = taps + 1)
              \/ /\ UNCHANGED <<inbox, up, made, starts>> /\ Unlink(f)
                 /\ hist' = [hist EXCEPT !.deleted = @ \cup {f}]
                 /\ taps' \in 0..MaxTaps /\ taps' = taps + 1
<1>1. PICK f \in Files : TapDownload(f) \/ TapCancel(f) \/ TapDelete(f)
  BY DEF User
<1>2. starts \in 0..MaxCalls /\ taps \in 0..MaxTaps /\ MaxCalls \in Nat /\ MaxTaps \in Nat
  BY Basics DEF Types
<1>3. CASE TapDownload(f)
  <2>1. /\ Deliver("start", f) /\ starts' = starts + 1 /\ starts < MaxCalls /\ taps' = taps
        /\ UNCHANGED <<dest, cut, hist>> /\ todo[0] = <<>>
        /\ UNCHANGED <<ongoing, active, wake, canceled, chunks, fileOf, instOf, todo, alive>>
    BY <1>3 DEF TapDownload, shared, streams, thread
  <2>2. starts' \in 0..MaxCalls /\ taps' \in 0..MaxTaps
    BY <1>2, <2>1
  <2> QED
    BY <2>1, <2>2
<1>4. CASE TapCancel(f)
  <2>1. /\ Deliver("cancel", f) /\ starts' = starts /\ taps' = taps + 1 /\ taps < MaxTaps
        /\ UNCHANGED <<dest, cut, hist>> /\ todo[0] = <<>>
        /\ UNCHANGED <<ongoing, active, wake, canceled, chunks, fileOf, instOf, todo, alive>>
    BY <1>4 DEF TapCancel, Tap, shared, streams, thread
  <2>2. starts' \in 0..MaxCalls /\ taps' \in 0..MaxTaps
    BY <1>2, <2>1
  <2> QED
    BY <2>1, <2>2
<1>5. CASE TapDelete(f)
  <2>1. /\ UNCHANGED <<inbox, up, made, starts>> /\ Unlink(f)
        /\ hist' = [hist EXCEPT !.deleted = @ \cup {f}]
        /\ taps' = taps + 1 /\ taps < MaxTaps /\ todo[0] = <<>>
        /\ UNCHANGED <<ongoing, active, wake, canceled, chunks, fileOf, instOf, todo, alive>>
    BY <1>5 DEF TapDelete, Tap, shared, system, thread
  <2>2. taps' \in 0..MaxTaps
    BY <1>2, <2>1
  <2> QED
    BY <2>1, <2>2
<1> QED
  BY <1>1, <1>3, <1>4, <1>5

LEMMA UnlinkTypes ==
  ASSUME Types, NEW f \in Files, Unlink(f)
  PROVE  /\ dest' \in [Files -> {"absent", "partial", "whole"}] /\ cut' \in [Calls -> BOOLEAN]
         /\ \A c \in Calls : cut'[c] <=> cut[c] \/ (Streaming(c) /\ fileOf[c] = f)
         /\ \A g \in Files : g # f => dest'[g] = dest[g]
<1>1. dest' \in [Files -> {"absent", "partial", "whole"}] /\ \A g \in Files : g # f => dest'[g] = dest[g]
  BY DEF Unlink, Types
<1>2. \A c \in Calls : (cut[c] \/ (Streaming(c) /\ fileOf[c] = f)) \in BOOLEAN
  BY DEF Types
<1>3. cut' = [c \in Calls |-> cut[c] \/ (Streaming(c) /\ fileOf[c] = f)]
  BY DEF Unlink
<1> QED
  BY <1>1, <1>2, <1>3

LEMMA DeletedHist ==
  ASSUME Types, NEW f \in Files, hist' = [hist EXCEPT !.deleted = @ \cup {f}]
  PROVE  /\ hist' \in Histories
         /\ hist'.cancelled = hist.cancelled /\ hist'.deleted = hist.deleted \cup {f}
         /\ hist'.overlap = hist.overlap /\ hist'.parallel = hist.parallel /\ hist'.raced = hist.raced
<1>1. hist \in Histories
  BY DEF Types
<1> QED
  BY <1>1 DEF Histories

LEMMA TestedHist ==
  ASSUME Types, NEW p \in Procs, TestEmpty(p)
  PROVE  /\ hist' \in Histories
         /\ hist'.cancelled = hist.cancelled /\ hist'.deleted = hist.deleted
         /\ hist'.overlap = hist.overlap /\ hist'.parallel = hist.parallel
         /\ hist'.raced = (hist.raced \/ (NoneActive /\ At(0, "enqueue")))
<1> DEFINE r == hist.raced \/ (NoneActive /\ At(0, "enqueue"))
<1>1. hist \in Histories /\ r \in BOOLEAN
  BY DEF Types, Histories
<1>2. hist' = [hist EXCEPT !.raced = r]
  BY <1>1 DEF TestEmpty, Histories
<1> HIDE DEF r
<1>3. /\ hist' \in Histories /\ hist'.raced = r
      /\ hist'.cancelled = hist.cancelled /\ hist'.deleted = hist.deleted
      /\ hist'.overlap = hist.overlap /\ hist'.parallel = hist.parallel
  BY <1>1, <1>2 DEF Histories
<1> QED
  BY <1>3 DEF r

LEMMA TypesStep ==
  ASSUME Types, Threads, Posts, Next
  PROVE  Types'
<1>1. CASE User
  <2>1. PICK f \in Files, w \in {"start", "cancel"} :
           /\ UNCHANGED <<ongoing, active, wake, canceled, chunks, fileOf, instOf, todo, alive>>
           /\ \/ /\ Deliver(w, f) /\ UNCHANGED <<dest, cut, hist>>
                 /\ starts' \in 0..MaxCalls /\ taps' \in 0..MaxTaps
                 /\ (starts' = starts + 1 /\ taps' = taps) \/ (starts' = starts /\ taps' = taps + 1)
              \/ /\ UNCHANGED <<inbox, up, made, starts>> /\ Unlink(f)
                 /\ hist' = [hist EXCEPT !.deleted = @ \cup {f}]
                 /\ taps' \in 0..MaxTaps /\ taps' = taps + 1
    BY <1>1, UserDoes
  <2>2. CASE /\ Deliver(w, f) /\ UNCHANGED <<dest, cut, hist>>
             /\ starts' \in 0..MaxCalls /\ taps' \in 0..MaxTaps
             /\ (starts' = starts + 1 /\ taps' = taps) \/ (starts' = starts /\ taps' = taps + 1)
    <3>1. up' \in 1..made' /\ made' \in made..(made + 1) /\ inbox' \in Seq(Messages)
      BY <2>2, DeliverDoes
    <3>2. made \in Nat /\ starts \in Nat /\ taps \in Nat /\ made <= starts + taps
          /\ starts' \in Nat /\ taps' \in Nat
      BY <2>2, Basics DEF Types
    <3>4. made' \in Nat /\ made' <= made + 1 /\ up' \in Nat
      BY <3>1, <3>2
    <3>5. \/ starts' = starts + 1 /\ taps' = taps
          \/ starts' = starts /\ taps' = taps + 1
      BY <2>2
    <3>6. made' <= (starts + 1) + taps /\ made' <= starts + (taps + 1)
      BY <3>2, <3>4
    <3>7. made' <= starts' + taps'
      BY <3>5, <3>6
    <3>3. up' \in Nat /\ made' \in Nat /\ made' <= starts' + taps'
      BY <3>4, <3>7
    <3> QED
      BY <2>1, <2>2, <3>1, <3>3 DEF Types
  <2>3. CASE /\ UNCHANGED <<inbox, up, made, starts>> /\ Unlink(f)
             /\ hist' = [hist EXCEPT !.deleted = @ \cup {f}]
             /\ taps' \in 0..MaxTaps /\ taps' = taps + 1
    <3>1. made' <= starts' + taps'
      BY <2>3, Basics DEF Types
    <3> QED
      BY <2>1, <2>3, <3>1, UnlinkTypes, DeletedHist DEF Types
  <2> QED
    BY <2>1, <2>2, <2>3
<1>2. CASE Receive
  <2>1. PICK m \in Messages :
           /\ m.inst \in 1..made /\ todo[0] = <<>> /\ Turns(0)
           /\ fileOf' = [fileOf EXCEPT ![0] = m.file] /\ instOf' = [instOf EXCEPT ![0] = m.inst]
           /\ Begins(m) \/ CancelsNow(m) \/ JustTakes(m)
           /\ hist' \in Histories /\ inbox' \in Seq(Messages)
    BY <1>2, ReceiveDoes
  <2>2. UNCHANGED <<active, dest, cut, up, made, starts, taps, alive>>
    BY <1>2 DEF Receive, ui
  <2>3. m.file \in Files \cup {None} /\ m.inst \in Nat
    BY DEF Messages
  <2>4. fileOf' \in [Procs -> Files \cup {None}] /\ instOf' \in [Procs -> Nat]
    BY <2>1, <2>3 DEF Types
  <2>5. wake' \in [Instances -> Nat]
    <3>1. \A v \in Nat : v + 1 \in Nat /\ (v > 0 => v - 1 \in Nat)
      OBVIOUS
    <3>2. wake \in [Instances -> Nat]
      BY DEF Types
    <3>3. [wake EXCEPT ![m.inst] = @ + 1] \in [Instances -> Nat]
      BY <3>1, <3>2
    <3>4. wake[m.inst] > 0 => [wake EXCEPT ![m.inst] = @ - 1] \in [Instances -> Nat]
      BY <3>1, <3>2
    <3> QED
      BY <2>1, <3>2, <3>3, <3>4 DEF Begins, CancelsNow, JustTakes
  <2>6. canceled' \in [Calls -> BOOLEAN]
    <3>1. CASE CancelsNow(m)
      <4>1. canceled' = [c \in Calls |-> canceled[c] \/ active[m.file] = c]
        BY <3>1 DEF CancelsNow
      <4>2. \A c \in Calls : (canceled[c] \/ active[m.file] = c) \in BOOLEAN
        BY DEF Types
      <4> QED
        BY <4>1, <4>2
    <3>2. CASE Begins(m) \/ JustTakes(m)
      BY <3>2 DEF Begins, JustTakes, Types
    <3> QED
      BY <2>1, <3>1, <3>2
  <2>7. ongoing' \subseteq Files
    BY <2>1 DEF Begins, CancelsNow, JustTakes, Types
  <2> QED
    BY <2>1, <2>2, <2>4, <2>5, <2>6, <2>7 DEF Types, Turns
<1>3. CASE Enqueue
  <2>1. UNCHANGED <<ongoing, wake, dest, canceled, cut, inbox, up, made, starts, taps, alive, hist>>
    BY <1>3 DEF Enqueue, streams, system, ui
  <2>2. PICK c \in Calls :
           /\ todo' \in [Procs -> Paths]
           /\ active' = [active EXCEPT ![fileOf[0]] = c]
           /\ fileOf' = [fileOf EXCEPT ![c] = fileOf[0]]
           /\ instOf' = [instOf EXCEPT ![c] = instOf[0]]
    BY <1>3, EnqueueDoes
  <2>3. active' \in [Files -> Calls \cup {None}]
    BY <2>2 DEF Types
  <2>4. fileOf[0] \in Files \cup {None} /\ instOf[0] \in Nat
    BY Basics DEF Types
  <2>5. fileOf' \in [Procs -> Files \cup {None}] /\ instOf' \in [Procs -> Nat]
    BY <2>2, <2>4 DEF Types
  <2> QED
    BY <2>1, <2>2, <2>3, <2>5 DEF Types
<1>4. ASSUME NEW p \in Procs, Threaded(p), Tidy(p) PROVE Types'
  <2>1. UNCHANGED <<fileOf, instOf>> /\ todo' \in [Procs -> Paths] /\ alive' \in BOOLEAN
    <3>1. Dies(p) \/ (Turns(p) /\ alive' = alive)
      BY <1>4, TidyTurns
    <3> QED
      BY <1>4, <3>1 DEF Threaded, Turns, Dies, Types
  <2>2. CASE Unlist(p) \/ Drop(p)
    <3>1. UNCHANGED <<wake, dest, canceled, cut, inbox, up, made, starts, taps, hist>>
      BY <2>2 DEF Unlist, Drop, streams, system, ui
    <3>2. ongoing' \subseteq ongoing /\ active' \in [Files -> Calls \cup {None}]
      BY <2>2 DEF Unlist, Drop, Types
    <3> QED
      BY <2>1, <3>1, <3>2 DEF Types
  <2>3. CASE TestEmpty(p)
    <3>1. UNCHANGED <<ongoing, active, wake, dest, canceled, cut, inbox, up, made, starts, taps>>
      BY <2>3 DEF TestEmpty, shared, streams, system, ui
    <3> QED
      BY <2>1, <2>3, <3>1, TestedHist DEF Types
  <2>4. CASE TestHeld(p)
    <3>1. UNCHANGED <<ongoing, active, wake, dest, canceled, cut, inbox, up, made, starts, taps, hist>>
      BY <2>4 DEF TestHeld, shared, streams, system, ui
    <3> QED
      BY <2>1, <3>1 DEF Types
  <2>5. CASE Release(p)
    <3>1. UNCHANGED <<ongoing, active, dest, canceled, cut, inbox, up, made, starts, taps, hist>>
      BY <2>5 DEF Release, streams, system, ui
    <3>2. wake' = wake \/ (wake[instOf[p]] > 0 /\ wake' = [wake EXCEPT ![instOf[p]] = @ - 1])
      BY <2>5 DEF Release
    <3>3. wake' \in [Instances -> Nat]
      <4>1. \A v \in Nat : v > 0 => v - 1 \in Nat
        OBVIOUS
      <4>2. wake \in [Instances -> Nat]
        BY DEF Types
      <4>3. ASSUME wake[instOf[p]] > 0 PROVE [wake EXCEPT ![instOf[p]] = @ - 1] \in [Instances -> Nat]
        BY <4>1, <4>2, <4>3
      <4> QED
        BY <3>2, <4>2, <4>3
    <3> QED
      BY <2>1, <3>1, <3>3 DEF Types
  <2>6. CASE StopSelf(p)
    <3>1. UNCHANGED <<ongoing, active, wake, dest, canceled, cut, made, starts, taps, hist>>
      BY <2>6 DEF StopSelf, shared, streams, ui
    <3>2. Msg("destroy", None, up) \in Messages
      BY DEF Msg, Messages, Types
    <3>3. \A i \in Messages : Append(inbox, i) \in Seq(Messages)
      BY DEF Types
    <3>5. up \in Nat /\ inbox \in Seq(Messages) /\ 0 \in Nat
      BY DEF Types
    <3>6. \/ up' = 0 /\ inbox' = Append(inbox, Msg("destroy", None, up))
          \/ up' = up /\ inbox' = inbox
      BY <2>6 DEF StopSelf
    <3>4. up' \in Nat /\ inbox' \in Seq(Messages)
      BY <3>2, <3>3, <3>5, <3>6
    <3> QED
      BY <2>1, <3>1, <3>4 DEF Types
  <2> QED
    BY <1>4, <2>2, <2>3, <2>4, <2>5, <2>6 DEF Tidy
<1>5. ASSUME NEW c \in Calls, Threaded(c), Answered(c) \/ Read(c) \/ Check(c) \/ Write(c) \/ Complete(c)
      PROVE  Types'
  <2>1. /\ UNCHANGED <<fileOf, instOf, alive, hist, inbox, up, made, active, wake, canceled>>
        /\ todo' \in [Procs -> Paths]
    BY <1>5, CallTurns, CompleteTurns DEF Turns
  <2>2. UNCHANGED <<starts, taps>>
    BY <1>5 DEF Answered, Read, Check, Write, Complete, ui
  <2>3. c \in Procs /\ (Working(c) => fileOf[c] \in Files)
    BY Basics, AtOne DEF Threads, Working
  <2>4. ongoing' \subseteq Files
    <3>1. CASE Write(c)
      BY <2>3, <3>1 DEF Write, Types, Working
    <3>2. CASE Complete(c)
      BY <3>2 DEF Complete, Types
    <3>3. CASE Answered(c) \/ Read(c) \/ Check(c)
      BY <3>3 DEF Answered, Read, Check, shared, Types
    <3> QED
      BY <1>5, <3>1, <3>2, <3>3
  <2>5. dest' \in [Files -> {"absent", "partial", "whole"}] /\ cut' \in [Calls -> BOOLEAN]
    <3>1. CASE Write(c) \/ Complete(c)
      BY <3>1 DEF Write, Complete, streams, Types
    <3>2. CASE Answered(c)
      <4>1. dest' \in [Files -> {"absent", "partial", "whole"}]
        BY <3>2, AnsweredDoes DEF Types
      <4>2. \A d \in Calls : (cut[d] \/ d \in Others(c)) \in BOOLEAN
        BY DEF Types
      <4>3. cut' = cut \/ cut' = [d \in Calls |-> cut[d] \/ d \in Others(c)]
        BY <3>2, AnsweredDoes
      <4>4. cut' \in [Calls -> BOOLEAN]
        BY <4>2, <4>3 DEF Types
      <4> QED
        BY <4>1, <4>4
    <3>3. CASE Read(c)
      BY <3>3 DEF Read, Types
    <3>4. CASE Check(c)
      <4>1. fileOf[c] \in Files
        BY <2>3, <3>4 DEF Check, Working
      <4> QED
        BY <3>4, <4>1, UnlinkTypes DEF Check, Types
    <3> QED
      BY <1>5, <3>1, <3>2, <3>3, <3>4
  <2> QED
    BY <2>1, <2>2, <2>4, <2>5 DEF Types
<1> QED
  BY <1>1, <1>2, <1>3, <1>4, <1>5, NextKinds

\* What the steps of a thread leave as it was.
LEMMA ThreadedFrame ==
  ASSUME Types, NEW p \in Procs,
         Tidy(p) \/ (p \in Calls /\ (Answered(p) \/ Read(p) \/ Check(p) \/ Write(p) \/ Complete(p)))
  PROVE  /\ UNCHANGED made
         /\ StopSelf(p) \/ UNCHANGED <<inbox, up>>
         /\ Drop(p) \/ UNCHANGED active
         /\ Release(p) \/ UNCHANGED wake
         /\ TestEmpty(p) \/ UNCHANGED hist
         /\ UNCHANGED canceled
         /\ Unlist(p) \/ (p \in Calls /\ (Write(p) \/ Complete(p))) \/ UNCHANGED ongoing
         /\ (p \in Calls /\ (Answered(p) \/ Read(p) \/ Check(p))) \/ UNCHANGED <<dest, cut>>
<1>1. CASE Unlist(p)
  BY <1>1 DEF Unlist, streams, system
<1>2. CASE Drop(p)
  BY <1>2 DEF Drop, streams, system
<1>3. CASE TestEmpty(p)
  BY <1>3 DEF TestEmpty, shared, streams, system
<1>4. CASE TestHeld(p)
  BY <1>4 DEF TestHeld, shared, streams, system
<1>5. CASE Release(p)
  BY <1>5 DEF Release, streams, system
<1>6. CASE StopSelf(p)
  BY <1>6 DEF StopSelf, shared, streams
<1>7. CASE p \in Calls /\ Answered(p)
  BY <1>7 DEF Answered, shared, system
<1>8. CASE p \in Calls /\ Read(p)
  BY <1>8 DEF Read, shared, system
<1>9. CASE p \in Calls /\ Check(p)
  BY <1>9 DEF Check, shared, system
<1>10. CASE p \in Calls /\ Write(p)
  BY <1>10 DEF Write, streams, system
<1>11. CASE p \in Calls /\ Complete(p)
  BY <1>11 DEF Complete, streams, system
<1> QED
  BY <1>1, <1>2, <1>3, <1>4, <1>5, <1>6, <1>7, <1>8, <1>9, <1>10, <1>11 DEF Tidy

\* A step of thread p.
Moves(p) == /\ Threaded(p)
            /\ Tidy(p) \/ (p \in Calls /\ (Answered(p) \/ Read(p) \/ Check(p) \/ Write(p) \/ Complete(p)))

LEMMA Kinds ==
  ASSUME Types, Next
  PROVE  alive /\ (User \/ Receive \/ Enqueue \/ \E p \in Procs : Moves(p))
<1>1. Calls \subseteq Procs
  BY Basics
<1> QED
  BY <1>1, NextKinds DEF Moves

LEMMA MovesTurns ==
  ASSUME Types, Threads, NEW p \in Procs, Moves(p)
  PROVE  /\ UNCHANGED <<fileOf, instOf>> /\ Begun' = Begun /\ todo[p] # <<>>
         /\ \A q \in Procs : q # p => todo'[q] = todo[q]
         /\ \A q \in Procs : todo'[q] # <<>> => todo[q] # <<>>
         /\ \A q \in Procs : At(q, "enqueue")' <=> At(q, "enqueue")
         /\ \A q \in Procs : At(q, "await")' => At(q, "await")
         /\ \A q \in Procs : Working(q)' => Working(q)
<1>1. UNCHANGED <<fileOf, instOf>> /\ Begun' = Begun
  BY DEF Moves, Threaded, Begun
<1>2. CASE Dies(p)
  BY <1>1, <1>2, AtOne, Same, ReleaseDoes DEF Dies
<1>3. CASE Turns(p) /\ Tidies(p)
  <2>1. \A q \in Procs : q # p => todo'[q] = todo[q]
    BY <1>3 DEF Turns
  <2>2. /\ todo[p] # <<>> /\ ~At(p, "enqueue") /\ ~At(p, "enqueue")' /\ ~At(p, "await")'
        /\ ~Working(p)'
    <3>1. CASE \E x \in {"unlist", "drop", "complete"} : At(p, x) /\ TakesOff(p, x)
      BY <3>1, AtOne DEF TakesOff, Working
    <3>2. CASE \E x \in {"empty?", "stop"} : At(p, x) /\ Continues(p)
      BY <3>2, AtOne DEF Continues, Working
    <3>3. CASE \E x \in {"empty?", "held?", "release"}, y \in {"held?", "release", "stop"} : At(p, x) /\ Heads(p, y)
      BY <3>3, AtOne DEF Heads, Working
    <3> QED
      BY <1>3, <3>1, <3>2, <3>3 DEF Tidies
  <2> QED
    BY <1>1, <2>1, <2>2, Same
<1>4. CASE Turns(p) /\ Works(p)
  <2>1. \A q \in Procs : q # p => todo'[q] = todo[q]
    BY <1>4 DEF Turns
  <2>2. /\ todo[p] # <<>> /\ ~At(p, "enqueue") /\ ~At(p, "enqueue")' /\ ~At(p, "await")'
        /\ Working(p)
    <3>1. Working(p) /\ todo[p] # <<>> /\ ~At(p, "enqueue")
      BY <1>4, AtOne DEF Works, Working
    <3>2. \E z \in {"read", "check", "write", "unlist", "complete", "drop"} : \E S : Has(p, z, S)
      BY <1>4 DEF Works
    <3> QED
      BY <3>1, <3>2 DEF Has
  <2> QED
    BY <1>1, <2>1, <2>2, Same
<1> QED
  BY <1>2, <1>3, <1>4 DEF Moves, Threaded

LEMMA ThreadsStep ==
  ASSUME Types, Threads, Posts, Next
  PROVE  Threads'
<1>0. made \in Nat /\ up \in Nat /\ up <= made /\ \A q \in Procs : instOf[q] \in Nat /\ instOf[q] <= made
  BY DEF Types, Threads
<1>1. CASE User
  <2>1. /\ UNCHANGED <<fileOf, instOf, todo>>
        /\ made' \in Nat /\ made' >= made /\ up' <= made'
    <3>1. PICK f \in Files, w \in {"start", "cancel"} :
             /\ UNCHANGED <<fileOf, instOf, todo>>
             /\ Deliver(w, f) \/ UNCHANGED <<up, made>>
      BY <1>1, UserDoes
    <3>2. ASSUME Deliver(w, f) PROVE made' \in Nat /\ made' >= made /\ up' <= made'
      <4>1. up' \in 1..made' /\ made' \in made..(made + 1)
        BY <3>2, DeliverDoes
      <4> QED
        BY <4>1, <1>0
    <3> QED
      BY <1>0, <3>1, <3>2
  <2>2. \A q \in Procs : instOf[q] <= made'
    BY <1>0, <2>1
  <2> QED
    BY <2>1, <2>2 DEF Threads, Begun, At
<1>2. CASE Receive
  <2>1. PICK m \in Messages :
           /\ m.inst \in 1..made /\ Turns(0)
           /\ fileOf' = [fileOf EXCEPT ![0] = m.file] /\ instOf' = [instOf EXCEPT ![0] = m.inst]
           /\ Begins(m) \/ CancelsNow(m) \/ JustTakes(m)
    BY <1>2, ReceiveDoes
  <2>2. UNCHANGED <<up, made>>
    BY <1>2 DEF Receive
  <2>3. /\ \A q \in Calls : fileOf'[q] = fileOf[q] /\ instOf'[q] = instOf[q] /\ todo'[q] = todo[q]
        /\ fileOf'[0] = m.file /\ instOf'[0] = m.inst
    BY <2>1, Basics DEF Types, Turns
  <2>4. Begun' = Begun
    BY <2>3 DEF Begun
  <2>5. todo'[0] # <<>> => m.file \in Files
    BY <2>1 DEF Begins, CancelsNow, JustTakes
  <2>6. m.inst >= 1 /\ m.inst <= made
    BY <1>0, <2>1
  <2>7. \A c \in Calls : ~At(c, "enqueue")'
    BY <2>3, Same DEF Threads
  <2>8. \A q \in Procs : (todo'[q] # <<>> \/ q \in Begun) => fileOf'[q] \in Files /\ instOf'[q] >= 1
    BY <2>3, <2>5, <2>6, Basics DEF Threads, Begun
  <2>9. \A q \in Procs : instOf'[q] <= made
    BY <1>0, <2>3, <2>6, Basics
  <2> QED
    BY <2>2, <2>4, <2>7, <2>8, <2>9 DEF Threads
<1>3. CASE Enqueue
  <2>1. UNCHANGED <<up, made>>
    BY <1>3 DEF Enqueue, system
  <2>2. PICK c \in Calls :
           /\ c \notin Begun /\ Begun' = Begun \cup {c} /\ todo[0] # <<>> /\ c = Cardinality(Begun) + 1
           /\ todo'[0] = <<>> /\ Has(c, "await", {"await"})
           /\ \A q \in Procs : q # c /\ q # 0 => todo'[q] = todo[q]
           /\ fileOf' = [fileOf EXCEPT ![c] = fileOf[0]]
           /\ instOf' = [instOf EXCEPT ![c] = instOf[0]]
    <3>1. PICK c \in Calls :
           /\ c \notin Begun /\ Begun' = Begun \cup {c} /\ todo[0] # <<>>
           /\ todo'[0] = <<>> /\ Has(c, "await", {"await"})
           /\ \A q \in Procs : q # c /\ q # 0 => todo'[q] = todo[q]
           /\ active' = [active EXCEPT ![fileOf[0]] = c]
           /\ fileOf' = [fileOf EXCEPT ![c] = fileOf[0]]
           /\ instOf' = [instOf EXCEPT ![c] = instOf[0]]
      BY <1>3, EnqueueDoes
    <3>2. PICK d \in Calls : d = Cardinality(Begun) + 1 /\ active' = [active EXCEPT ![fileOf[0]] = d]
      BY <1>3 DEF Enqueue
    <3>3. fileOf[0] \in Files
      BY <3>1, Basics DEF Threads
    <3>4. c = d
      BY <3>1, <3>2, <3>3 DEF Types
    <3> QED
      BY <3>1, <3>2, <3>4
  <2>3. /\ fileOf'[c] = fileOf[0] /\ instOf'[c] = instOf[0]
        /\ \A q \in Procs : q # c => fileOf'[q] = fileOf[q] /\ instOf'[q] = instOf[q]
    BY <2>2, Basics DEF Types
  <2>4. fileOf[0] \in Files /\ instOf[0] >= 1
    BY <2>2, Basics DEF Threads
  <2>5. \E k \in 0..MaxCalls : Begun' = 1..k
    <3>1. PICK k \in 0..MaxCalls : Begun = 1..k
      BY DEF Threads
    <3>2. c = k + 1
      <4>1. Cardinality(1..k) = k
        BY FS_Interval, Basics
      <4> QED
        BY <2>2, <3>1, <4>1
    <3>3. k + 1 \in 0..MaxCalls /\ 1..k \cup {k + 1} = 1..(k + 1)
      BY <2>2, <3>2, Basics DEF Calls
    <3> QED
      BY <2>2, <3>1, <3>2, <3>3
  <2>6. \A d \in Calls : ~At(d, "enqueue")'
    <3>1. ~At(c, "enqueue")'
      BY <2>2 DEF Has
    <3> QED
      BY <2>2, <3>1, Same, Basics DEF Threads
  <2>7. \A q \in Procs : (todo'[q] # <<>> \/ q \in Begun') => fileOf'[q] \in Files /\ instOf'[q] >= 1
    BY <2>2, <2>3, <2>4, Basics DEF Threads
  <2>8. \A q \in Procs : instOf'[q] <= made
    BY <1>0, <2>3, Basics
  <2> QED
    BY <2>1, <2>5, <2>6, <2>7, <2>8, <1>0 DEF Threads
<1>4. ASSUME NEW p \in Procs, Moves(p) PROVE Threads'
  <2>1. /\ UNCHANGED <<fileOf, instOf, made>> /\ Begun' = Begun
        /\ \A q \in Procs : todo'[q] # <<>> => todo[q] # <<>>
        /\ \A q \in Procs : At(q, "enqueue")' <=> At(q, "enqueue")
    BY <1>4, MovesTurns, ThreadedFrame DEF Moves
  <2>2. up' <= made
    <3>1. up' = up \/ up' = 0
      BY <1>4, ThreadedFrame DEF Moves, StopSelf
    <3> QED
      BY <1>0, <3>1
  <2>3. \A c \in Calls : ~At(c, "enqueue")'
    BY <2>1, Basics DEF Threads
  <2>4. \A q \in Procs : (todo'[q] # <<>> \/ q \in Begun') => fileOf'[q] \in Files /\ instOf'[q] >= 1
    BY <2>1 DEF Threads
  <2> QED
    BY <2>1, <2>2, <2>3, <2>4 DEF Threads
<1> QED
  BY <1>1, <1>2, <1>3, <1>4, Kinds

LEMMA Receives ==
  ASSUME Types, Threads, Posts, Receive
  PROVE  \E m \in Messages :
           /\ m = inbox[1] /\ 1 \in DOMAIN inbox /\ m.inst \in 1..made /\ todo[0] = <<>>
           /\ \A q \in Calls : fileOf'[q] = fileOf[q] /\ instOf'[q] = instOf[q] /\ todo'[q] = todo[q]
           /\ fileOf'[0] = m.file /\ instOf'[0] = m.inst /\ Begun' = Begun
           /\ UNCHANGED <<active, dest, cut, up, made, alive>>
           /\ Begins(m) \/ CancelsNow(m) \/ JustTakes(m)
<1>1. PICK m \in Messages :
         /\ m = inbox[1] /\ 1 \in DOMAIN inbox /\ m.inst \in 1..made
         /\ todo[0] = <<>> /\ Turns(0)
         /\ fileOf' = [fileOf EXCEPT ![0] = m.file] /\ instOf' = [instOf EXCEPT ![0] = m.inst]
         /\ Begins(m) \/ CancelsNow(m) \/ JustTakes(m)
  BY ReceiveDoes
<1>2. UNCHANGED <<active, dest, cut, up, made, alive>>
  BY DEF Receive
<1>3. /\ \A q \in Calls : fileOf'[q] = fileOf[q] /\ instOf'[q] = instOf[q] /\ todo'[q] = todo[q]
      /\ fileOf'[0] = m.file /\ instOf'[0] = m.inst
  BY <1>1, Basics DEF Types, Turns
<1>4. Begun' = Begun
  BY <1>3 DEF Begun
<1> QED
  BY <1>1, <1>2, <1>3, <1>4

LEMMA Enqueues ==
  ASSUME Types, Threads, Enqueue
  PROVE  \E c \in Calls :
           /\ c \notin Begun /\ Begun' = Begun \cup {c} /\ todo[c] = <<>> /\ c # 0
           /\ At(0, "enqueue") /\ todo'[0] = <<>> /\ Has(c, "await", {"await"})
           /\ \A q \in Procs : q # c /\ q # 0 => todo'[q] = todo[q]
           /\ fileOf[0] \in Files /\ instOf[0] >= 1 /\ fileOf'[c] = fileOf[0] /\ instOf'[c] = instOf[0]
           /\ \A q \in Procs : q # c => fileOf'[q] = fileOf[q] /\ instOf'[q] = instOf[q]
           /\ active'[fileOf[0]] = c /\ \A f \in Files : f # fileOf[0] => active'[f] = active[f]
           /\ UNCHANGED <<ongoing, wake, dest, canceled, cut, inbox, up, made, alive, hist>>
<1>1. PICK c \in Calls :
         /\ c \notin Begun /\ Begun' = Begun \cup {c} /\ todo[c] = <<>> /\ c # 0
         /\ todo'[0] = <<>> /\ Has(c, "await", {"await"})
         /\ \A q \in Procs : q # c /\ q # 0 => todo'[q] = todo[q]
         /\ active' = [active EXCEPT ![fileOf[0]] = c]
         /\ fileOf' = [fileOf EXCEPT ![c] = fileOf[0]]
         /\ instOf' = [instOf EXCEPT ![c] = instOf[0]]
  BY EnqueueDoes
<1>2. At(0, "enqueue") /\ UNCHANGED <<ongoing, wake, dest, canceled, cut, inbox, up, made, alive, hist>>
  BY DEF Enqueue, streams, system
<1>3. fileOf[0] \in Files /\ instOf[0] >= 1
  BY <1>2, AtOne, Basics DEF Threads
<1>4. /\ fileOf'[c] = fileOf[0] /\ instOf'[c] = instOf[0]
      /\ \A q \in Procs : q # c => fileOf'[q] = fileOf[q] /\ instOf'[q] = instOf[q]
      /\ active'[fileOf[0]] = c /\ \A f \in Files : f # fileOf[0] => active'[f] = active[f]
  BY <1>1, <1>3, Basics DEF Types
<1> QED
  BY <1>1, <1>2, <1>3, <1>4

LEMMA PostsStep ==
  ASSUME Types, Threads, Posts, Next
  PROVE  Posts'
<1>0. made \in Nat /\ up \in Nat /\ up <= made /\ inbox \in Seq(Messages)
  BY DEF Types, Threads
<1>1. CASE User
  <2>1. PICK f \in Files, w \in {"start", "cancel"} : Deliver(w, f) \/ UNCHANGED <<inbox, up, made>>
    BY <1>1, UserDoes
  <2>2. CASE Deliver(w, f)
    <3>1. /\ up' \in 1..made' /\ made' \in made..(made + 1)
          /\ up # 0 => up' = up /\ made' = made
          /\ up = 0 => up' = made + 1 /\ made' = made + 1
          /\ DOMAIN inbox = 1..Len(inbox) /\ DOMAIN inbox' = 1..Len(inbox') /\ Len(inbox) \in Nat
          /\ \A i \in DOMAIN inbox : i \in DOMAIN inbox' /\ inbox'[i] = inbox[i]
          /\ \A i \in DOMAIN inbox' : i \notin DOMAIN inbox =>
               /\ i > Len(inbox) /\ inbox'[i].inst = up' /\ inbox'[i].what # "destroy"
               /\ inbox'[i].what \in {"start", "cancel"} => inbox'[i].file \in Files
      BY <2>2, DeliverDoes
    <3>2. \A i \in DOMAIN inbox : inbox[i].inst \in 1..made /\ inbox[i].inst \in 1..made'
      BY <1>0, <3>1 DEF Posts
    <3>3. \A i \in DOMAIN inbox' : /\ inbox'[i].inst \in 1..made'
                                   /\ inbox'[i].what \in {"start", "cancel"} => inbox'[i].file \in Files
      BY <3>1, <3>2 DEF Posts
    <3>4. \A i \in DOMAIN inbox : inbox[i].what = "destroy" => inbox[i].inst # up'
      BY <1>0, <3>1, <3>2 DEF Posts
    <3>5. ASSUME NEW i \in DOMAIN inbox', inbox'[i].what = "destroy"
          PROVE  inbox'[i].inst # up' /\ \A j \in DOMAIN inbox' : i < j => inbox'[j].inst # inbox'[i].inst
      <4>1. i \in DOMAIN inbox /\ inbox'[i] = inbox[i]
        BY <3>1, <3>5
      <4>2. inbox'[i].inst # up'
        BY <3>4, <3>5, <4>1
      <4>3. ASSUME NEW j \in DOMAIN inbox', i < j PROVE inbox'[j].inst # inbox'[i].inst
        <5>1. CASE j \in DOMAIN inbox
          BY <3>1, <3>5, <4>1, <4>3, <5>1 DEF Posts
        <5>2. CASE j \notin DOMAIN inbox
          BY <3>1, <4>2, <5>2
        <5> QED
          BY <5>1, <5>2
      <4> QED
        BY <4>2, <4>3
    <3>6. ASSUME NEW i \in DOMAIN inbox', inbox'[i].what # "destroy", inbox'[i].inst # up'
          PROVE  \E j \in DOMAIN inbox' : i < j /\ inbox'[j].what = "destroy" /\ inbox'[j].inst = inbox'[i].inst
      <4>1. i \in DOMAIN inbox /\ inbox'[i] = inbox[i]
        BY <3>1, <3>6
      <4>2. inbox[i].inst # up
        BY <1>0, <3>1, <3>2, <3>6, <4>1
      <4>3. PICK j \in DOMAIN inbox : i < j /\ inbox[j].what = "destroy" /\ inbox[j].inst = inbox[i].inst
        BY <3>6, <4>1, <4>2 DEF Posts
      <4> QED
        BY <3>1, <4>1, <4>3
    <3> QED
      BY <3>3, <3>5, <3>6 DEF Posts
  <2>3. CASE UNCHANGED <<inbox, up, made>>
    BY <2>3 DEF Posts
  <2> QED
    BY <2>1, <2>2, <2>3
<1>2. CASE Receive
  <2>1. /\ DOMAIN inbox = 1..Len(inbox) /\ DOMAIN inbox' = 1..Len(inbox') /\ Len(inbox) \in Nat
        /\ \A i \in DOMAIN inbox' : i + 1 \in DOMAIN inbox /\ inbox'[i] = inbox[i + 1]
        /\ \A i \in DOMAIN inbox : i # 1 => i - 1 \in DOMAIN inbox' /\ inbox'[i - 1] = inbox[i]
    <3>1. PICK m \in Messages :
           /\ DOMAIN inbox = 1..Len(inbox) /\ DOMAIN inbox' = 1..Len(inbox') /\ Len(inbox) \in Nat
           /\ \A i \in DOMAIN inbox' : i + 1 \in DOMAIN inbox /\ inbox'[i] = inbox[i + 1]
           /\ \A i \in DOMAIN inbox : i # 1 => i - 1 \in DOMAIN inbox' /\ inbox'[i - 1] = inbox[i]
      BY <1>2, ReceiveDoes
    <3> QED
      BY <3>1
  <2>2. UNCHANGED <<up, made>>
    BY <1>2 DEF Receive
  <2>3. \A i \in DOMAIN inbox' : /\ inbox'[i].inst \in 1..made
                                 /\ inbox'[i].what \in {"start", "cancel"} => inbox'[i].file \in Files
    BY <2>1 DEF Posts
  <2>4. ASSUME NEW i \in DOMAIN inbox', inbox'[i].what = "destroy"
        PROVE  inbox'[i].inst # up /\ \A j \in DOMAIN inbox' : i < j => inbox'[j].inst # inbox'[i].inst
    <3>1. i + 1 \in DOMAIN inbox /\ inbox'[i] = inbox[i + 1] /\ i \in Nat
      BY <2>1
    <3>2. inbox[i + 1].inst # up /\ \A j \in DOMAIN inbox : i + 1 < j => inbox[j].inst # inbox[i + 1].inst
      BY <2>4, <3>1 DEF Posts
    <3>3. ASSUME NEW j \in DOMAIN inbox', i < j PROVE inbox'[j].inst # inbox'[i].inst
      <4>1. j + 1 \in DOMAIN inbox /\ inbox'[j] = inbox[j + 1] /\ i + 1 < j + 1
        BY <2>1, <3>1, <3>3
      <4> QED
        BY <3>1, <3>2, <4>1
    <3> QED
      BY <3>1, <3>2, <3>3
  <2>5. ASSUME NEW i \in DOMAIN inbox', inbox'[i].what # "destroy", inbox'[i].inst # up
        PROVE  \E j \in DOMAIN inbox' : i < j /\ inbox'[j].what = "destroy" /\ inbox'[j].inst = inbox'[i].inst
    <3>1. i + 1 \in DOMAIN inbox /\ inbox'[i] = inbox[i + 1] /\ i \in Nat /\ i >= 1
      BY <2>1
    <3>2. PICK j \in DOMAIN inbox : i + 1 < j /\ inbox[j].what = "destroy" /\ inbox[j].inst = inbox[i + 1].inst
      BY <2>5, <3>1 DEF Posts
    <3>3. j # 1 /\ i < j - 1
      BY <2>1, <3>1, <3>2
    <3>4. j - 1 \in DOMAIN inbox' /\ inbox'[j - 1] = inbox[j]
      BY <2>1, <3>3
    <3> QED
      BY <3>1, <3>2, <3>3, <3>4
  <2> QED
    BY <2>2, <2>3, <2>4, <2>5 DEF Posts
<1>3. CASE Enqueue
  BY <1>3 DEF Enqueue, system, Posts
<1>4. ASSUME NEW p \in Procs, Moves(p) PROVE Posts'
  <2>0. made' = made /\ (StopSelf(p) \/ UNCHANGED <<inbox, up>>) /\ todo[p] # <<>>
    BY <1>4, ThreadedFrame, MovesTurns DEF Moves
  <2>1. CASE StopSelf(p) /\ instOf[p] = up
    <3> DEFINE n == Len(inbox)
               d == Msg("destroy", None, up)
    <3>1. d \in Messages /\ d.what = "destroy" /\ d.inst = up
      BY <1>0 DEF Msg, Messages
    <3> HIDE DEF d
    <3>2. up' = 0 /\ inbox' = Append(inbox, d)
      BY <2>1 DEF StopSelf, d
    <3>3. /\ n \in Nat /\ DOMAIN inbox = 1..n /\ DOMAIN inbox' = 1..(n + 1)
          /\ \A i \in 1..n : inbox'[i] = inbox[i]
          /\ inbox'[n + 1] = d
      BY <1>0, <3>1, <3>2
    <3>4. up \in 1..made
      BY <1>0, <2>0, <2>1 DEF Threads
    <3>5. \A i \in 1..n : inbox[i].inst \in 1..made /\ inbox[i].inst # 0
      BY <1>0, <3>3 DEF Posts
    <3>6. \A i \in DOMAIN inbox' : /\ inbox'[i].inst \in 1..made
                                   /\ inbox'[i].what \in {"start", "cancel"} => inbox'[i].file \in Files
      BY <3>1, <3>3, <3>4 DEF Posts
    <3>7. ASSUME NEW i \in DOMAIN inbox', inbox'[i].what = "destroy"
          PROVE  inbox'[i].inst # 0 /\ \A j \in DOMAIN inbox' : i < j => inbox'[j].inst # inbox'[i].inst
      <4>1. inbox'[i].inst # 0
        BY <1>0, <3>6
      <4>2. ASSUME NEW j \in DOMAIN inbox', i < j PROVE inbox'[j].inst # inbox'[i].inst
        <5>1. i \in 1..n /\ inbox'[i] = inbox[i]
          BY <3>3, <4>2
        <5>2. CASE j \in 1..n
          BY <3>3, <3>7, <4>2, <5>1, <5>2 DEF Posts
        <5>3. CASE j \notin 1..n
          <6>1. j = n + 1
            BY <3>3, <5>3
          <6> QED
            BY <3>1, <3>3, <3>7, <5>1, <6>1 DEF Posts
        <5> QED
          BY <5>2, <5>3
      <4> QED
        BY <4>1, <4>2
    <3>8. ASSUME NEW i \in DOMAIN inbox', inbox'[i].what # "destroy", inbox'[i].inst # 0
          PROVE  \E j \in DOMAIN inbox' : i < j /\ inbox'[j].what = "destroy" /\ inbox'[j].inst = inbox'[i].inst
      <4>1. i \in 1..n /\ inbox'[i] = inbox[i]
        BY <3>1, <3>3, <3>8
      <4>2. CASE inbox[i].inst = up
        <5>1. n + 1 \in DOMAIN inbox' /\ i < n + 1
          BY <3>3, <4>1
        <5> QED
          BY <3>1, <3>3, <4>1, <4>2, <5>1
      <4>3. CASE inbox[i].inst # up
        <5>1. PICK j \in DOMAIN inbox : i < j /\ inbox[j].what = "destroy" /\ inbox[j].inst = inbox[i].inst
          BY <3>3, <3>8, <4>1, <4>3 DEF Posts
        <5>2. j \in DOMAIN inbox' /\ inbox'[j] = inbox[j]
          BY <3>3, <5>1
        <5> QED
          BY <4>1, <5>1, <5>2
      <4> QED
        BY <4>2, <4>3
    <3> QED
      BY <2>0, <3>2, <3>6, <3>7, <3>8 DEF Posts
  <2>2. CASE UNCHANGED <<inbox, up>>
    BY <2>0, <2>2 DEF Posts
  <2>3. CASE StopSelf(p) /\ instOf[p] # up
    <3>1. UNCHANGED <<inbox, up>>
      BY <2>3 DEF StopSelf
    <3> QED
      BY <2>2, <3>1
  <2> QED
    BY <2>0, <2>1, <2>2, <2>3
<1> QED
  BY <1>1, <1>2, <1>3, <1>4, Kinds

\* The step a thread is at is the one it takes.
LEMMA WhichStep ==
  ASSUME NEW p \in Procs, Moves(p)
  PROVE  /\ At(p, "drop") => Drop(p)
         /\ At(p, "unlist") => Unlist(p)
         /\ At(p, "empty?") => TestEmpty(p)
         /\ At(p, "held?") => TestHeld(p)
         /\ At(p, "release") => Release(p)
         /\ At(p, "stop") => StopSelf(p)
         /\ At(p, "await") => p \in Calls /\ Answered(p)
         /\ At(p, "read") => p \in Calls /\ Read(p)
         /\ At(p, "check") => p \in Calls /\ Check(p)
         /\ At(p, "write") => p \in Calls /\ Write(p)
         /\ At(p, "complete") => p \in Calls /\ Complete(p)
<1>1. /\ Drop(p) => At(p, "drop")
      /\ Unlist(p) => At(p, "unlist")
      /\ TestEmpty(p) => At(p, "empty?")
      /\ TestHeld(p) => At(p, "held?")
      /\ Release(p) => At(p, "release")
      /\ StopSelf(p) => At(p, "stop")
      /\ Answered(p) => At(p, "await")
      /\ Read(p) => At(p, "read")
      /\ Check(p) => At(p, "check")
      /\ Write(p) => At(p, "write")
      /\ Complete(p) => At(p, "complete")
  BY DEF Drop, Unlist, TestEmpty, TestHeld, Release, StopSelf, Answered, Read, Check, Write, Complete
<1> QED
  BY <1>1, AtOne DEF Moves, Tidy

\* The steps of a thread: how it goes on.
Goes(p) ==
  \/ \E x \in {"unlist", "drop", "complete"} : At(p, x) /\ TakesOff(p, x)
  \/ \E x \in {"empty?", "stop"} : At(p, x) /\ Continues(p)
  \/ \E x \in {"empty?", "held?", "release"}, y \in {"held?", "release", "stop"} : At(p, x) /\ Heads(p, y)
  \/ p \in Calls /\ Works(p)
  \/ At(p, "release") /\ ~alive' /\ todo' = todo

LEMMA MovesGo ==
  ASSUME Types, NEW p \in Procs, Moves(p)
  PROVE  Goes(p)
<1>1. CASE Dies(p)
  <2>1. At(p, "release") /\ ~alive' /\ todo' = todo
    BY <1>1 DEF Dies, Release
  <2> QED
    BY <2>1 DEF Goes
<1>2. CASE Tidies(p) \/ (p \in Calls /\ Works(p))
  BY <1>2 DEF Goes, Tidies
<1> QED
  BY <1>1, <1>2 DEF Moves, Threaded

LEMMA DropKept ==
  ASSUME Types, Threads, NEW p \in Procs, Moves(p), NEW q \in Procs,
         Working(q) \/ Owed(todo[q], "drop")
  PROVE  Working(q)' \/ Owed(todo'[q], "drop") \/ (q = p /\ Drop(p))
<1>1. CASE q # p
  BY <1>1, MovesTurns, Same
<1>2. CASE q = p
  <2>1. ASSUME NEW x \in {"unlist", "drop", "complete"}, At(p, x), TakesOff(p, x)
        PROVE  Owed(todo'[q], "drop") \/ Drop(p)
    <3>1. CASE x = "drop"
      BY <2>1, <3>1, WhichStep
    <3>2. CASE x # "drop"
      BY <1>2, <2>1, <3>2, AtOne DEF TakesOff, Working
    <3> QED
      BY <3>1, <3>2
  <2>2. ASSUME NEW x \in {"empty?", "stop"}, At(p, x), Continues(p)
        PROVE  Owed(todo'[q], "drop")
    BY <1>2, <2>2, AtOne DEF Continues, Working
  <2>3. ASSUME NEW x \in {"empty?", "held?", "release"}, NEW y, At(p, x), Heads(p, y)
        PROVE  Owed(todo'[q], "drop")
    BY <1>2, <2>3, AtOne DEF Heads, Working
  <2>4. ASSUME Works(p) PROVE Working(q)' \/ Owed(todo'[q], "drop")
    BY <1>2, <2>4 DEF Works, Has, Working, TidyUp
  <2>5. ASSUME todo' = todo PROVE Working(q)' \/ Owed(todo'[q], "drop")
    BY <2>5, Same
  <2>6. Goes(p)
    BY MovesGo
  <2> QED
    BY <1>2, <2>1, <2>2, <2>3, <2>4, <2>5, <2>6 DEF Goes
<1> QED
  BY <1>1, <1>2

LEMMA Idle ==
  ASSUME NEW q, todo[q] = <<>>
  PROVE  ~Working(q) /\ (\A x : ~Owed(todo[q], x)) /\ (\A x : ~At(q, x)) /\ ~Asks(q)
  BY OwedPaths DEF At, Working, Asks

LEMMA NamedStep ==
  ASSUME Types, Threads, Posts, Named, Next
  PROVE  Named'
<1>1. CASE User
  <2>1. UNCHANGED <<active, fileOf, todo>>
    BY <1>1, UserDoes
  <2> QED
    BY <2>1 DEF Named, Working, At
<1>2. CASE Receive
  <2>1. /\ \A q \in Calls : fileOf'[q] = fileOf[q] /\ todo'[q] = todo[q]
        /\ active' = active
    BY <1>2, Receives
  <2>2. \A q \in Calls : Working(q)' <=> Working(q)
    BY <2>1, Same
  <2> QED
    BY <2>1, <2>2 DEF Named
<1>3. CASE Enqueue
  <2>1. PICK c \in Calls :
           /\ todo[c] = <<>> /\ c # 0 /\ Has(c, "await", {"await"})
           /\ \A q \in Procs : q # c /\ q # 0 => todo'[q] = todo[q]
           /\ fileOf[0] \in Files /\ fileOf'[c] = fileOf[0]
           /\ \A q \in Procs : q # c => fileOf'[q] = fileOf[q]
           /\ active'[fileOf[0]] = c /\ \A f \in Files : f # fileOf[0] => active'[f] = active[f]
    BY <1>3, Enqueues
  <2>2. Working(c)'
    BY <2>1 DEF Has, Working
  <2>3. ASSUME NEW f \in Files, NEW d \in Calls, active'[f] = d
        PROVE  fileOf'[d] = f /\ (Working(d)' \/ Owed(todo'[d], "drop"))
    <3>1. CASE f = fileOf[0]
      BY <2>1, <2>2, <2>3, <3>1
    <3>2. CASE f # fileOf[0]
      <4>2. fileOf[d] = f /\ (Working(d) \/ Owed(todo[d], "drop"))
        BY <2>1, <2>3, <3>2 DEF Named
      <4>3. d # c /\ d # 0 /\ d \in Procs
        BY <2>1, <4>2, Idle, Basics
      <4>4. Working(d)' \/ Owed(todo'[d], "drop")
        BY <2>1, <4>2, <4>3, Same
      <4> QED
        BY <2>1, <4>2, <4>3, <4>4
    <3> QED
      BY <3>1, <3>2
  <2> QED
    BY <2>3 DEF Named
<1>4. ASSUME NEW p \in Procs, Moves(p) PROVE Named'
  <2>1. fileOf' = fileOf /\ (Drop(p) \/ active' = active)
    BY <1>4, MovesTurns, ThreadedFrame DEF Moves
  <2>2. ASSUME NEW f \in Files, NEW d \in Calls, active'[f] = d
        PROVE  fileOf'[d] = f /\ (Working(d)' \/ Owed(todo'[d], "drop"))
    <3>1. active[f] = d /\ (Drop(p) => f # fileOf[p])
      <4>1. CASE Drop(p)
        <5>1. active' = [active EXCEPT ![fileOf[p]] = None]
          BY <4>1 DEF Drop
        <5> QED
          BY <2>2, <5>1, Basics DEF Types
      <4>2. CASE ~Drop(p)
        BY <2>1, <2>2, <4>2
      <4> QED
        BY <4>1, <4>2
    <3>2. fileOf[d] = f /\ (Working(d) \/ Owed(todo[d], "drop"))
      BY <2>2, <3>1 DEF Named
    <3>3. Working(d)' \/ Owed(todo'[d], "drop")
      BY <1>4, <3>1, <3>2, DropKept, Basics
    <3> QED
      BY <2>1, <3>2, <3>3
  <2> QED
    BY <2>2 DEF Named
<1> QED
  BY <1>1, <1>2, <1>3, <1>4, Kinds

-----------------------------------------------------------------------------
(* Cancelled calls, one worker for a file *)

LEMMA HistMoves ==
  ASSUME Types, NEW p \in Procs, Moves(p)
  PROVE  /\ hist'.cancelled = hist.cancelled /\ hist'.deleted = hist.deleted
         /\ hist'.overlap = hist.overlap /\ hist'.parallel = hist.parallel
         /\ hist.raced => hist'.raced
         /\ hist'.raced => hist.raced \/ (At(p, "empty?") /\ NoneActive /\ At(0, "enqueue"))
         /\ At(p, "empty?") /\ NoneActive /\ At(0, "enqueue") => hist'.raced
<1>1. CASE TestEmpty(p)
  BY <1>1, TestedHist DEF TestEmpty
<1>2. CASE ~TestEmpty(p)
  BY <1>2, ThreadedFrame, WhichStep DEF Moves
<1> QED
  BY <1>1, <1>2

LEMMA HistGrows ==
  ASSUME Types, Threads, Posts, Next
  PROVE  /\ hist.cancelled \subseteq hist'.cancelled /\ hist.deleted \subseteq hist'.deleted
         /\ hist.overlap \subseteq hist'.overlap /\ Shared \subseteq Shared'
         /\ (hist.parallel => hist'.parallel) /\ (hist.raced => hist'.raced)
         /\ Undisturbed' => Undisturbed
<1>1. /\ hist.cancelled \subseteq hist'.cancelled /\ hist.deleted \subseteq hist'.deleted
      /\ hist.overlap \subseteq hist'.overlap
      /\ (hist.parallel => hist'.parallel) /\ (hist.raced => hist'.raced)
  <2>1. CASE User
    <3>1. PICK f \in Files : hist' = hist \/ hist' = [hist EXCEPT !.deleted = @ \cup {f}]
      BY <2>1, UserDoes
    <3> QED
      BY <3>1, DeletedHist
  <2>2. CASE Receive
    <3>1. PICK m \in Messages : Begins(m) \/ CancelsNow(m) \/ JustTakes(m)
      BY <2>2, Receives
    <3> QED
      BY <3>1 DEF Begins, CancelsNow, JustTakes, SameHist
  <2>3. CASE Enqueue
    <3>1. hist' = hist
      BY <2>3 DEF Enqueue
    <3> QED
      BY <3>1
  <2>4. ASSUME NEW p \in Procs, Moves(p)
        PROVE  /\ hist.cancelled \subseteq hist'.cancelled /\ hist.deleted \subseteq hist'.deleted
               /\ hist.overlap \subseteq hist'.overlap
               /\ (hist.parallel => hist'.parallel) /\ (hist.raced => hist'.raced)
    BY <2>4, HistMoves
  <2> QED
    BY <2>1, <2>2, <2>3, <2>4, Kinds
<1> QED
  BY <1>1 DEF Shared, Undisturbed

LEMMA CancelsStep ==
  ASSUME Types, Threads, Posts, Named, Cancels, Next
  PROVE  Cancels'
<1>1. CASE User
  <2>1. PICK f \in Files : /\ UNCHANGED <<canceled, fileOf, todo>>
                           /\ hist' = hist \/ hist' = [hist EXCEPT !.deleted = @ \cup {f}]
    BY <1>1, UserDoes
  <2>2. hist'.cancelled = hist.cancelled
    BY <2>1, DeletedHist
  <2> QED
    BY <2>1, <2>2 DEF Cancels, Begun, At
<1>2. CASE Receive
  <2>1. PICK m \in Messages :
           /\ \A q \in Calls : fileOf'[q] = fileOf[q]
           /\ fileOf'[0] = m.file /\ Begun' = Begun
           /\ Begins(m) \/ CancelsNow(m) \/ JustTakes(m)
    BY <1>2, Receives
  <2>2. CASE Begins(m)
    <3>1. At(0, "enqueue")' /\ canceled' = canceled /\ hist'.cancelled = hist.cancelled
      BY <2>2 DEF Begins, Has
    <3> QED
      BY <2>1, <3>1 DEF Cancels
  <2>3. CASE CancelsNow(m)
    <3>1. /\ canceled' = [c \in Calls |-> canceled[c] \/ active[m.file] = c]
          /\ hist'.cancelled = hist.cancelled \cup {m.file} /\ m.file \in Files
      BY <2>3 DEF CancelsNow
    <3>2. ASSUME NEW c \in Calls, canceled'[c] PROVE c \in Begun /\ fileOf[c] \in hist'.cancelled
      <4>1. canceled[c] \/ active[m.file] = c
        BY <3>1, <3>2
      <4>2. CASE canceled[c]
        BY <3>1, <4>2 DEF Cancels
      <4>3. CASE active[m.file] = c
        <5>1. fileOf[c] = m.file
          BY <3>1, <4>3 DEF Named
        <5> QED
          BY <3>1, <5>1, Basics DEF Begun
      <4> QED
        BY <4>1, <4>2, <4>3
    <3>3. fileOf'[0] \in hist'.cancelled
      BY <2>1, <3>1
    <3> QED
      BY <2>1, <3>2, <3>3 DEF Cancels
  <2>4. CASE JustTakes(m)
    <3>1. todo'[0] = <<>> /\ canceled' = canceled /\ hist'.cancelled = hist.cancelled
      BY <2>4 DEF JustTakes, SameHist
    <3> QED
      BY <2>1, <3>1 DEF Cancels
  <2> QED
    BY <2>1, <2>2, <2>3, <2>4
<1>3. CASE Enqueue
  <2>1. PICK c \in Calls :
           /\ c \notin Begun /\ Begun' = Begun \cup {c} /\ todo'[0] = <<>>
           /\ \A q \in Procs : q # c => fileOf'[q] = fileOf[q]
           /\ canceled' = canceled /\ hist' = hist
    BY <1>3, Enqueues
  <2> QED
    BY <2>1, Basics DEF Cancels
<1>4. ASSUME NEW p \in Procs, Moves(p) PROVE Cancels'
  <2>1. /\ fileOf' = fileOf /\ canceled' = canceled /\ hist'.cancelled = hist.cancelled /\ Begun' = Begun
        /\ \A q \in Procs : todo'[q] # <<>> => todo[q] # <<>>
        /\ \A q \in Procs : At(q, "enqueue")' <=> At(q, "enqueue")
    BY <1>4, MovesTurns, ThreadedFrame, HistMoves DEF Moves
  <2> QED
    BY <2>1, Basics DEF Cancels
<1> QED
  BY <1>1, <1>2, <1>3, <1>4, Kinds

LEMMA OngoingMoves ==
  ASSUME Types, NEW p \in Procs, Moves(p)
  PROVE  /\ \A f \in ongoing : f \in ongoing' \/ (f = fileOf[p] /\ (At(p, "unlist") \/ At(p, "complete")))
         /\ \A f \in ongoing' : f \in ongoing \/ (f = fileOf[p] /\ p \in Calls /\ Write(p))
         /\ At(p, "unlist") \/ At(p, "complete") => ongoing' = ongoing \ {fileOf[p]}
<1>1. CASE Unlist(p)
  BY <1>1 DEF Unlist
<1>2. CASE p \in Calls /\ Write(p)
  BY <1>2, AtOne DEF Write
<1>3. CASE p \in Calls /\ Complete(p)
  BY <1>3 DEF Complete
<1>4. CASE ongoing' = ongoing /\ ~Unlist(p) /\ ~(p \in Calls /\ Complete(p))
  BY <1>4, WhichStep
<1> QED
  BY <1>1, <1>2, <1>3, <1>4, ThreadedFrame DEF Moves

LEMMA WorkingIs ==
  ASSUME NEW c \in Calls
  PROVE  /\ Working(c) <=> At(c, "await") \/ (todo[c] # <<>> /\ Head(todo[c]) \in {"read", "check", "write"})
         /\ Working(c) => todo[c] # <<>> /\ ~At(c, "unlist") /\ ~At(c, "complete") /\ ~At(c, "drop")
                                         /\ ~At(c, "empty?") /\ ~At(c, "stop") /\ ~At(c, "release")
         /\ Streaming(c) => Working(c)
         /\ c \in Begun /\ todo[c] # <<>> => Working(c) \/ Leaving(c)
  BY AtOne DEF Working, At, Streaming, Leaving, Live

LEMMA OneWorkerStep ==
  ASSUME Types, Threads, Posts, Named, Cancels, OneWorker, Next
  PROVE  OneWorker'
<1>0. Shared \subseteq Shared'
  BY HistGrows
<1>1. CASE User
  <2>1. UNCHANGED <<ongoing, fileOf, todo>>
    BY <1>1, UserDoes
  <2> QED
    BY <1>0, <2>1 DEF OneWorker, At, Working
<1>2. CASE Receive
  <2>1. PICK m \in Messages :
           /\ \A q \in Calls : fileOf'[q] = fileOf[q] /\ todo'[q] = todo[q]
           /\ fileOf'[0] = m.file
           /\ Begins(m) \/ CancelsNow(m) \/ JustTakes(m)
    BY <1>2, Receives
  <2>2. \A q \in Calls : Working(q)' <=> Working(q)
    BY <2>1, Same
  <2>3. ongoing \subseteq ongoing'
    BY <2>1 DEF Begins, CancelsNow, JustTakes
  <2>4. At(0, "enqueue")' => Begins(m)
    BY <2>1, AtOne DEF CancelsNow, JustTakes, Has
  <2>5. ASSUME NEW c \in Calls, At(0, "enqueue")', todo[c] # <<>>, fileOf[c] = m.file
        PROVE  fileOf[c] \in Shared'
    <3>1. /\ m.file \notin ongoing /\ m.file \in Files
          /\ hist'.overlap = IF \E d \in Calls : Leaving(d) /\ fileOf[d] = m.file
                             THEN hist.overlap \cup {m.file} ELSE hist.overlap
      BY <2>4, <2>5 DEF Begins
    <3>2. Working(c) \/ Leaving(c)
      BY <2>5, <3>1, WorkingIs, Basics DEF Begun
    <3>3. CASE Working(c)
      BY <1>0, <2>5, <3>1, <3>3 DEF OneWorker
    <3>4. CASE Leaving(c)
      <4>1. m.file \in hist'.overlap
        BY <2>5, <3>1, <3>4
      <4> QED
        BY <2>5, <4>1 DEF Shared
    <3> QED
      BY <3>2, <3>3, <3>4
  <2>6. At(0, "enqueue")' => m.file \in ongoing'
    BY <2>4 DEF Begins
  <2>7. \A c, d \in Calls : c # d /\ todo[c] # <<>> /\ todo[d] # <<>> /\ fileOf[c] = fileOf[d]
                              => fileOf[c] \in Shared'
    BY <1>0 DEF OneWorker
  <2>8. \A c \in Calls : Working(c) => fileOf[c] \in ongoing' \cup Shared'
    BY <1>0, <2>3 DEF OneWorker
  <2> QED
    BY <2>1, <2>2, <2>5, <2>6, <2>7, <2>8 DEF OneWorker
<1>3. CASE Enqueue
  <2>1. PICK c \in Calls :
           /\ todo[c] = <<>> /\ At(0, "enqueue") /\ todo'[0] = <<>> /\ Has(c, "await", {"await"})
           /\ \A q \in Procs : q # c /\ q # 0 => todo'[q] = todo[q]
           /\ fileOf'[c] = fileOf[0]
           /\ \A q \in Procs : q # c => fileOf'[q] = fileOf[q]
           /\ ongoing' = ongoing /\ hist' = hist
    BY <1>3, Enqueues
  <2>2. \A q \in Calls : q # c => q \in Procs /\ q # 0 /\ todo'[q] = todo[q] /\ fileOf'[q] = fileOf[q]
                                  /\ (Working(q)' <=> Working(q))
    BY <2>1, Basics, Same
  <2>3. ~At(0, "enqueue")'
    BY <2>1, AtOne
  <2>4. ASSUME NEW d \in Calls, NEW e \in Calls, d # e, todo'[d] # <<>>, todo'[e] # <<>>, fileOf'[d] = fileOf'[e]
        PROVE  fileOf'[d] \in Shared'
    <3>1. CASE d = c
      BY <1>0, <2>1, <2>2, <2>4, <3>1 DEF OneWorker
    <3>2. CASE e = c
      BY <1>0, <2>1, <2>2, <2>4, <3>2 DEF OneWorker
    <3>3. CASE d # c /\ e # c
      BY <1>0, <2>2, <2>4, <3>3 DEF OneWorker
    <3> QED
      BY <3>1, <3>2, <3>3
  <2>5. ASSUME NEW d \in Calls, Working(d)' PROVE fileOf'[d] \in ongoing' \cup Shared'
    BY <1>0, <2>1, <2>2, <2>5 DEF OneWorker
  <2> QED
    BY <2>3, <2>4, <2>5 DEF OneWorker
<1>4. ASSUME NEW p \in Procs, Moves(p) PROVE OneWorker'
  <2>1. /\ fileOf' = fileOf /\ todo[p] # <<>>
        /\ \A q \in Procs : todo'[q] # <<>> => todo[q] # <<>>
        /\ \A q \in Procs : At(q, "enqueue")' <=> At(q, "enqueue")
        /\ \A q \in Procs : Working(q)' => Working(q)
    BY <1>4, MovesTurns
  <2>2. ASSUME NEW f \in ongoing, f \notin ongoing', NEW q \in Procs, fileOf[q] = f,
               (Working(q) /\ q \in Calls) \/ (q = 0 /\ At(0, "enqueue"))
        PROVE  f \in Shared
    <3>1. fileOf[p] = f /\ (At(p, "unlist") \/ At(p, "complete"))
      BY <1>4, <2>2, OngoingMoves
    <3>2. p # q
      BY <2>2, <3>1, WorkingIs, AtOne
    <3>3. todo[q] # <<>>
      BY <2>2, WorkingIs, AtOne
    <3>4. CASE p = 0
      <4>1. fileOf[0] \in hist.cancelled
        BY <2>1, <3>1, <3>4, AtOne DEF Cancels
      <4> QED
        BY <3>1, <3>4, <4>1 DEF Shared
    <3>5. CASE p \in Calls
      BY <2>1, <2>2, <3>1, <3>2, <3>3, <3>5 DEF OneWorker
    <3> QED
      BY <3>4, <3>5, Basics
  <2>3. ASSUME NEW c \in Calls, Working(c)' PROVE fileOf'[c] \in ongoing' \cup Shared'
    <3>1. Working(c) /\ fileOf'[c] = fileOf[c] /\ c \in Procs
      BY <2>1, <2>3, Basics
    <3>2. fileOf[c] \in ongoing \cup Shared
      BY <3>1 DEF OneWorker
    <3> QED
      BY <1>0, <2>2, <3>1, <3>2
  <2>4. At(0, "enqueue")' => fileOf'[0] \in ongoing' \cup Shared'
    BY <1>0, <2>1, <2>2, Basics DEF OneWorker
  <2>5. \A c, d \in Calls : c # d /\ todo'[c] # <<>> /\ todo'[d] # <<>> /\ fileOf'[c] = fileOf'[d]
                              => fileOf'[c] \in Shared'
    BY <1>0, <2>1, Basics DEF OneWorker
  <2>6. \A c \in Calls : At(0, "enqueue")' /\ todo'[c] # <<>> /\ fileOf'[c] = fileOf'[0]
                           => fileOf'[c] \in Shared'
    BY <1>0, <2>1, Basics DEF OneWorker
  <2> QED
    BY <2>3, <2>4, <2>5, <2>6 DEF OneWorker
<1> QED
  BY <1>1, <1>2, <1>3, <1>4, Kinds

LEMMA UntouchedStep ==
  ASSUME Types, Threads, Posts, Cancels, OneWorker, Untouched, Next
  PROVE  Untouched'
<1>0. Shared \cup hist.deleted \subseteq Shared' \cup hist'.deleted
  BY HistGrows
<1>1. ASSUME NEW f \in Files, NEW c \in Calls, Streaming(c), fileOf[c] = f PROVE c \in Begun
  BY <1>1 DEF Streaming, Live
<1>2. CASE User
  <2>1. PICK f \in Files, w \in {"start", "cancel"} :
           /\ UNCHANGED fileOf
           /\ UNCHANGED cut \/ (Unlink(f) /\ hist' = [hist EXCEPT !.deleted = @ \cup {f}])
    BY <1>2, UserDoes
  <2>2. CASE UNCHANGED cut
    BY <1>0, <2>1, <2>2 DEF Untouched, Begun
  <2>3. CASE Unlink(f) /\ hist' = [hist EXCEPT !.deleted = @ \cup {f}]
    <3>1. f \in hist'.deleted
      BY <2>3, DeletedHist
    <3>2. \A c \in Calls : cut'[c] => cut[c] \/ (Streaming(c) /\ fileOf[c] = f)
      BY <2>3, UnlinkTypes
    <3>3. ASSUME NEW c \in Calls, cut'[c] PROVE c \in Begun /\ fileOf[c] \in Shared' \cup hist'.deleted
      BY <1>0, <1>1, <3>1, <3>2, <3>3 DEF Untouched
    <3> QED
      BY <2>1, <3>3 DEF Untouched, Begun
  <2> QED
    BY <2>1, <2>2, <2>3
<1>3. CASE Receive
  <2>1. cut' = cut /\ Begun' = Begun /\ \A q \in Calls : fileOf'[q] = fileOf[q]
    BY <1>3, Receives
  <2> QED
    BY <1>0, <2>1 DEF Untouched
<1>4. CASE Enqueue
  <2>1. PICK c \in Calls :
           /\ c \notin Begun /\ Begun' = Begun \cup {c}
           /\ \A q \in Procs : q # c => fileOf'[q] = fileOf[q]
           /\ cut' = cut
    BY <1>4, Enqueues
  <2> QED
    BY <1>0, <2>1, Basics DEF Untouched
<1>5. ASSUME NEW p \in Procs, Moves(p) PROVE Untouched'
  <2>1. fileOf' = fileOf /\ Begun' = Begun /\ todo[p] # <<>>
    BY <1>5, MovesTurns
  <2>2. CASE cut' = cut
    BY <1>0, <2>1, <2>2 DEF Untouched
  <2>3. CASE p \in Calls /\ Answered(p) /\ cut' = [d \in Calls |-> cut[d] \/ d \in Others(p)]
    <3>1. ASSUME NEW c \in Calls, cut'[c] PROVE c \in Begun /\ fileOf[c] \in Shared' \cup hist'.deleted
      <4>1. cut[c] \/ c \in Others(p)
        BY <2>3, <3>1
      <4>2. CASE cut[c]
        BY <1>0, <4>2 DEF Untouched
      <4>3. CASE c \in Others(p)
        <5>1. c # p /\ fileOf[c] = fileOf[p] /\ todo[c] # <<>> /\ c \in Begun
          BY <4>3 DEF Others, Streaming, Live
        <5>2. fileOf[c] \in Shared
          BY <2>1, <2>3, <5>1 DEF OneWorker
        <5> QED
          BY <1>0, <5>1, <5>2
      <4> QED
        BY <4>1, <4>2, <4>3
    <3> QED
      BY <2>1, <3>1 DEF Untouched
  <2>4. CASE p \in Calls /\ canceled[p] /\ Unlink(fileOf[p])
    <3>0. fileOf[p] \in Files /\ fileOf[p] \in Shared
      BY <2>1, <2>4, Basics DEF Cancels, Threads, Shared
    <3>1. \A c \in Calls : cut'[c] => cut[c] \/ (Streaming(c) /\ fileOf[c] = fileOf[p])
      BY <2>4, <3>0, UnlinkTypes
    <3>2. ASSUME NEW c \in Calls, cut'[c] PROVE c \in Begun /\ fileOf[c] \in Shared' \cup hist'.deleted
      BY <1>0, <1>1, <3>0, <3>1, <3>2 DEF Untouched
    <3> QED
      BY <2>1, <3>2 DEF Untouched
  <2>5. \/ cut' = cut
        \/ p \in Calls /\ Answered(p) /\ cut' = [d \in Calls |-> cut[d] \/ d \in Others(p)]
        \/ p \in Calls /\ canceled[p] /\ Unlink(fileOf[p])
    <3>1. CASE p \in Calls /\ Answered(p)
      BY <3>1, AnsweredDoes
    <3>2. CASE p \in Calls /\ Read(p)
      BY <3>2 DEF Read
    <3>3. CASE p \in Calls /\ Check(p)
      BY <3>3, CheckDoes
    <3> QED
      BY <1>5, <3>1, <3>2, <3>3, ThreadedFrame DEF Moves
  <2> QED
    BY <2>2, <2>3, <2>4, <2>5
<1> QED
  BY <1>2, <1>3, <1>4, <1>5, Kinds

LEMMA WholeAtEndStep ==
  ASSUME Types, Threads, Posts, Cancels, OneWorker, Untouched, WholeAtEnd, Next
  PROVE  WholeAtEnd'
<1>0. Shared \cup hist.deleted \subseteq Shared' \cup hist'.deleted
  BY HistGrows
<1>1. CASE User
  <2>1. PICK f \in Files, w \in {"start", "cancel"} :
           /\ UNCHANGED <<fileOf, todo>>
           /\ UNCHANGED dest \/ (Unlink(f) /\ hist' = [hist EXCEPT !.deleted = @ \cup {f}])
    BY <1>1, UserDoes
  <2>2. \A c \in Calls : At(c, "complete")' <=> At(c, "complete")
    BY <2>1, Same
  <2>3. CASE UNCHANGED dest
    BY <1>0, <2>1, <2>2, <2>3 DEF WholeAtEnd
  <2>4. CASE Unlink(f) /\ hist' = [hist EXCEPT !.deleted = @ \cup {f}]
    <3>1. f \in hist'.deleted /\ \A g \in Files : g # f => dest'[g] = dest[g]
      BY <2>4, DeletedHist, UnlinkTypes
    <3>2. \A c \in Calls : At(c, "complete") => fileOf[c] \in Files
      BY AtOne, Basics DEF Threads
    <3> QED
      BY <1>0, <2>1, <2>2, <3>1, <3>2 DEF WholeAtEnd
  <2> QED
    BY <2>1, <2>3, <2>4
<1>2. CASE Receive
  <2>1. dest' = dest /\ \A q \in Calls : fileOf'[q] = fileOf[q] /\ todo'[q] = todo[q]
    BY <1>2, Receives
  <2>2. \A c \in Calls : At(c, "complete")' <=> At(c, "complete")
    BY <2>1, Same
  <2> QED
    BY <1>0, <2>1, <2>2 DEF WholeAtEnd
<1>3. CASE Enqueue
  <2>1. PICK c \in Calls :
           /\ Has(c, "await", {"await"})
           /\ \A q \in Procs : q # c /\ q # 0 => todo'[q] = todo[q]
           /\ \A q \in Procs : q # c => fileOf'[q] = fileOf[q]
           /\ dest' = dest
    BY <1>3, Enqueues
  <2>2. ~At(c, "complete")'
    BY <2>1 DEF Has
  <2>3. \A q \in Calls : q # c => (At(q, "complete")' <=> At(q, "complete")) /\ fileOf'[q] = fileOf[q]
    BY <2>1, Same, Basics
  <2> QED
    BY <1>0, <2>1, <2>2, <2>3 DEF WholeAtEnd
<1>4. ASSUME NEW p \in Procs, Moves(p) PROVE WholeAtEnd'
  <2>1. fileOf' = fileOf /\ todo[p] # <<>> /\ \A q \in Procs : q # p => todo'[q] = todo[q]
    BY <1>4, MovesTurns
  <2>2. fileOf[p] \in Files
    BY <2>1 DEF Threads
  <2>3. /\ \A g \in Files : g # fileOf[p] => dest'[g] = dest[g]
        /\ p \in Calls \/ dest' = dest
    <3>1. CASE p \in Calls /\ Answered(p)
      BY <2>2, <3>1, AnsweredDoes DEF Types
    <3>2. CASE p \in Calls /\ Read(p)
      BY <2>2, <3>2, ReadDoes DEF Types
    <3>3. CASE p \in Calls /\ Check(p)
      BY <2>2, <3>3, CheckDoes, UnlinkTypes
    <3> QED
      BY <1>4, <3>1, <3>2, <3>3, ThreadedFrame DEF Moves
  <2>4. ASSUME NEW c \in Calls, At(c, "complete")', fileOf[c] \notin Shared \cup hist.deleted
        PROVE  dest'[fileOf[c]] = "whole"
    <3>1. CASE c # p
      <4>1. At(c, "complete") /\ todo[c] # <<>> /\ fileOf[c] \in Files
        BY <2>1, <2>4, <3>1, Same, AtOne, Basics DEF Threads
      <4>2. dest[fileOf[c]] = "whole"
        BY <2>4, <4>1 DEF WholeAtEnd
      <4>3. dest'[fileOf[c]] = dest[fileOf[c]]
        BY <2>1, <2>3, <2>4, <3>1, <4>1 DEF OneWorker
      <4> QED
        BY <4>2, <4>3
    <3>2. CASE c = p
      <4>1. Read(c) /\ Has(c, "complete", {"complete", "drop", "empty?"})
            /\ dest' = IF cut[c] THEN dest ELSE [dest EXCEPT ![fileOf[c]] = "whole"]
        <5>1. CASE Answered(c)
          BY <2>4, <5>1, AnsweredDoes DEF Has
        <5>2. CASE Read(c)
          BY <2>4, <5>2, ReadDoes DEF Has
        <5>3. CASE Check(c)
          BY <2>4, <5>3, CheckDoes DEF Has
        <5>4. CASE Write(c)
          BY <2>4, <5>4, WriteDoes DEF Has
        <5>5. CASE Complete(c)
          BY <2>4, <5>5, CompleteDoes DEF TakesOff
        <5>6. CASE Tidies(c)
          BY <2>4, <5>6 DEF Tidies, TakesOff, Continues, Heads
        <5>7. CASE Dies(c)
          <6>1. todo'[c] = todo[c] /\ At(c, "release")
            BY <5>7 DEF Dies, Release
          <6> QED
            BY <2>4, <6>1, Same, AtOne
        <5>8. Tidy(c) => Tidies(c) \/ Dies(c)
          BY TidyTurns, Basics
        <5> QED
          BY <1>4, <3>2, <5>1, <5>2, <5>3, <5>4, <5>5, <5>6, <5>7, <5>8 DEF Moves
      <4>2. ~cut[c]
        BY <2>4 DEF Untouched
      <4> QED
        BY <2>2, <3>2, <4>1, <4>2 DEF Types
    <3> QED
      BY <3>1, <3>2
  <2> QED
    BY <1>0, <2>1, <2>4 DEF WholeAtEnd
<1> QED
  BY <1>1, <1>2, <1>3, <1>4, Kinds

-----------------------------------------------------------------------------
(* Awake, and listed *)

LEMMA InstancesMade ==
  ASSUME Types
  PROVE  \A i \in 1..made : i \in Instances
<1>1. made \in Nat /\ starts \in Nat /\ taps \in Nat /\ starts <= MaxCalls /\ taps <= MaxTaps
      /\ made <= starts + taps /\ MaxCalls \in Nat /\ MaxTaps \in Nat
  BY Basics DEF Types
<1>2. made <= MaxCalls + MaxTaps
  BY <1>1
<1> QED
  BY <1>1, <1>2 DEF Instances

LEMMA StoppingIs ==
  /\ \A p \in Procs : At(p, "held?") \/ At(p, "release") \/ At(p, "stop") => Stopping
  /\ \A i \in DOMAIN inbox : inbox[i].what = "destroy" => Stopping
  /\ Stopping => \/ \E p \in Procs : At(p, "held?") \/ At(p, "release") \/ At(p, "stop")
                 \/ \E i \in DOMAIN inbox : inbox[i].what = "destroy"
  BY DEF Stopping

LEMMA StoppingNext ==
  /\ \A p \in Procs : At(p, "held?")' \/ At(p, "release")' \/ At(p, "stop")' => Stopping'
  /\ \A i \in DOMAIN inbox' : inbox'[i].what = "destroy" => Stopping'
  /\ Stopping' => \/ \E p \in Procs : At(p, "held?")' \/ At(p, "release")' \/ At(p, "stop")'
                  \/ \E i \in DOMAIN inbox' : inbox'[i].what = "destroy"
  BY DEF Stopping

LEMMA StaysUp ==
  ASSUME Types, NEW p \in Procs, Moves(p), ~Stopping
  PROVE  /\ UNCHANGED <<inbox, up, wake>>
         /\ Stopping' => At(p, "empty?") /\ NoneActive
<1>1. ~At(p, "held?") /\ ~At(p, "release") /\ ~At(p, "stop")
  BY StoppingIs
<1>2. UNCHANGED <<inbox, up, wake>>
  BY <1>1, ThreadedFrame DEF Moves, StopSelf, Release
<1>3. ASSUME Stopping' PROVE At(p, "empty?") /\ NoneActive
  <2>1. PICK q \in Procs : At(q, "held?")' \/ At(q, "release")' \/ At(q, "stop")'
    BY <1>2, <1>3, StoppingIs, StoppingNext
  <2>2. \A r \in Procs : r # p => (todo'[r] = todo[r] \/ todo' = todo)
    BY DEF Moves, Threaded, Turns, Dies
  <2>3. CASE q # p
    BY <2>1, <2>2, <2>3, Same, StoppingIs
  <2>4. CASE q = p
    <3>1. At(p, "empty?")
      <4>1. ~\E x \in {"unlist", "drop", "complete"} : At(p, x) /\ TakesOff(p, x)
        BY <2>1, <2>4 DEF TakesOff
      <4>2. ~\E x \in {"empty?", "stop"} : At(p, x) /\ Continues(p)
        BY <2>1, <2>4 DEF Continues
      <4>3. ~(p \in Calls /\ Works(p))
        BY <2>1, <2>4 DEF Works, Has
      <4> QED
        BY <1>1, <4>1, <4>2, <4>3, MovesGo DEF Goes
    <3>2. TestEmpty(p)
      BY <3>1, WhichStep
    <3>3. NoneActive
      BY <2>1, <2>4, <3>2, TestEmptyDoes DEF Continues
    <3> QED
      BY <3>1, <3>3
  <2> QED
    BY <2>3, <2>4
<1> QED
  BY <1>2, <1>3

LEMMA AwakeStep ==
  ASSUME Types, Threads, Posts, Awake, Next
  PROVE  Awake'
<1> SUFFICES ASSUME ~hist'.raced, Attended'
             PROVE  /\ ~Stopping'
                    /\ up' # 0 /\ wake'[up'] > 0
                    /\ At(0, "enqueue")' => instOf'[0] = up'
                    /\ \A f \in Files, c \in Calls : active'[f] = c => instOf'[c] = up'
  BY DEF Awake
<1>0. ~hist.raced
  BY HistGrows
<1>1. ASSUME Attended
      PROVE  /\ ~Stopping /\ up # 0 /\ wake[up] > 0
             /\ At(0, "enqueue") => instOf[0] = up
             /\ \A f \in Files, c \in Calls : active[f] = c => instOf[c] = up
  BY <1>0, <1>1 DEF Awake
<1>2. CASE User
  <2>1. PICK f \in Files, w \in {"start", "cancel"} :
           /\ UNCHANGED <<active, wake, instOf, todo>>
           /\ Deliver(w, f) \/ UNCHANGED <<inbox, up>>
    BY <1>2, UserDoes
  <2>2. Attended /\ \A q \in Procs : \A x : At(q, x)' <=> At(q, x)
    BY <2>1, Same, Basics DEF Attended
  <2>3. up' = up /\ \A i \in DOMAIN inbox' : inbox'[i].what = "destroy" => i \in DOMAIN inbox /\ inbox[i].what = "destroy"
    <3>1. CASE Deliver(w, f)
      BY <1>1, <2>2, <3>1, DeliverDoes
    <3>2. CASE UNCHANGED <<inbox, up>>
      BY <3>2
    <3> QED
      BY <2>1, <3>1, <3>2
  <2>4. ~Stopping'
    BY <1>1, <2>2, <2>3, StoppingIs, StoppingNext
  <2> QED
    BY <1>1, <2>1, <2>2, <2>3, <2>4, Basics
<1>3. CASE Receive
  <2>1. PICK m \in Messages :
           /\ m = inbox[1] /\ 1 \in DOMAIN inbox /\ m.inst \in 1..made
           /\ \A q \in Calls : instOf'[q] = instOf[q] /\ todo'[q] = todo[q]
           /\ instOf'[0] = m.inst
           /\ UNCHANGED <<active, up>>
           /\ Begins(m) \/ CancelsNow(m) \/ JustTakes(m)
    BY <1>3, Receives
  <2>2. \A i \in DOMAIN inbox' : i + 1 \in DOMAIN inbox /\ inbox'[i] = inbox[i + 1]
    BY <1>3, ReceiveDoes
  <2>3. \A q \in Calls : \A x : At(q, x)' <=> At(q, x)
    BY <2>1, Same
  <2>4. CASE Begins(m)
    <3>1. /\ ~Stopping /\ m.what = "start" /\ Has(0, "enqueue", {"enqueue"})
          /\ wake' = [wake EXCEPT ![m.inst] = @ + 1]
      BY <2>4 DEF Begins
    <3>2. m.inst = up
      BY <2>1, <3>1, StoppingIs DEF Posts
    <3>3. wake'[up] > 0 /\ up # 0
      <4>1. up \in Instances /\ up # 0
        BY <2>1, <3>2, InstancesMade, Basics
      <4>2. wake[up] \in Nat /\ wake'[up] = wake[up] + 1
        BY <3>1, <3>2, <4>1 DEF Types
      <4> QED
        BY <4>1, <4>2
    <3>4. ~Stopping'
      <4>1. ~At(0, "held?")' /\ ~At(0, "release")' /\ ~At(0, "stop")'
        BY <3>1 DEF Has
      <4> QED
        BY <2>2, <2>3, <3>1, <4>1, StoppingIs, StoppingNext, Basics
    <3>5. \A f \in Files, c \in Calls : active[f] = c => instOf[c] = up
      <4>1. \A f \in Files, c \in Calls : active[f] = c => Attended
        BY Basics DEF Attended
      <4> QED
        BY <1>1, <4>1
    <3> QED
      BY <2>1, <3>2, <3>3, <3>4, <3>5
  <2>5. CASE CancelsNow(m) \/ JustTakes(m)
    <3>1. ~At(0, "enqueue")' /\ ~At(0, "held?")' /\ ~At(0, "release")' /\ ~At(0, "stop")'
      BY <2>5, AtOne DEF CancelsNow, JustTakes, Has
    <3>2. Attended
      BY <2>1, <3>1 DEF Attended
    <3>3. wake' = wake
      <4>1. m.what # "destroy"
        BY <1>1, <2>1, <3>2, StoppingIs
      <4> QED
        BY <2>5, <4>1 DEF CancelsNow, JustTakes
    <3>4. ~Stopping'
      BY <1>1, <2>2, <2>3, <3>1, <3>2, StoppingIs, StoppingNext, Basics
    <3> QED
      BY <1>1, <2>1, <3>1, <3>2, <3>3, <3>4
  <2> QED
    BY <2>1, <2>4, <2>5
<1>4. CASE Enqueue
  <2>1. PICK c \in Calls :
           /\ At(0, "enqueue") /\ todo'[0] = <<>> /\ Has(c, "await", {"await"})
           /\ \A q \in Procs : q # c /\ q # 0 => todo'[q] = todo[q]
           /\ instOf'[c] = instOf[0] /\ \A q \in Procs : q # c => instOf'[q] = instOf[q]
           /\ fileOf[0] \in Files
           /\ active'[fileOf[0]] = c /\ \A f \in Files : f # fileOf[0] => active'[f] = active[f]
           /\ UNCHANGED <<wake, inbox, up>>
    BY <1>4, Enqueues
  <2>2. Attended
    BY <2>1 DEF Attended
  <2>3. ~Stopping'
    <3>1. /\ ~At(c, "held?")' /\ ~At(c, "release")' /\ ~At(c, "stop")'
          /\ ~At(0, "held?")' /\ ~At(0, "release")' /\ ~At(0, "stop")'
      BY <2>1, AtOne DEF Has
    <3>2. \A q \in Procs : \A x : q # c /\ q # 0 => (At(q, x)' <=> At(q, x))
      BY <2>1, Same
    <3> QED
      BY <1>1, <2>1, <2>2, <3>1, <3>2, StoppingIs, StoppingNext
  <2>4. ~At(0, "enqueue")'
    BY <2>1, AtOne
  <2>5. ASSUME NEW f \in Files, NEW d \in Calls, active'[f] = d PROVE instOf'[d] = up
    <3>1. CASE d = c
      BY <1>1, <2>1, <2>2, <3>1
    <3>2. CASE d # c
      <4>1. active[f] = d /\ instOf'[d] = instOf[d]
        BY <2>1, <2>5, <3>2, Basics
      <4> QED
        BY <1>1, <2>2, <4>1
    <3> QED
      BY <3>1, <3>2
  <2> QED
    BY <1>1, <2>1, <2>2, <2>3, <2>4, <2>5
<1>5. ASSUME NEW p \in Procs, Moves(p)
      PROVE  /\ ~Stopping'
             /\ up' # 0 /\ wake'[up'] > 0
             /\ At(0, "enqueue")' => instOf'[0] = up'
             /\ \A f \in Files, c \in Calls : active'[f] = c => instOf'[c] = up'
  <2>1. /\ instOf' = instOf /\ \A q \in Procs : At(q, "enqueue")' <=> At(q, "enqueue")
        /\ \A f \in Files : active'[f] = active[f] \/ active'[f] = None
    <3>1. \A f \in Files : active'[f] = active[f] \/ active'[f] = None
      <4>1. CASE Drop(p)
        BY <4>1 DEF Drop, Types
      <4> QED
        BY <1>5, <4>1, ThreadedFrame DEF Moves
    <3> QED
      BY <1>5, <3>1, MovesTurns
  <2>2. Attended
    BY <2>1, Basics DEF Attended
  <2>3. UNCHANGED <<inbox, up, wake>> /\ (Stopping' => At(p, "empty?") /\ NoneActive)
    BY <1>1, <1>5, <2>2, StaysUp
  <2>4. ~Stopping'
    <3> SUFFICES ASSUME Stopping' PROVE FALSE
      OBVIOUS
    <3>1. At(p, "empty?") /\ NoneActive
      BY <2>3
    <3>2. At(0, "enqueue")
      BY <2>2, <3>1 DEF Attended, NoneActive
    <3> QED
      BY <1>5, <3>1, <3>2, HistMoves
  <2>5. \A f \in Files, c \in Calls : active'[f] = c => instOf'[c] = up
    BY <1>1, <2>1, <2>2, Basics
  <2> QED
    BY <1>1, <2>1, <2>2, <2>3, <2>4, <2>5, Basics
<1> QED
  BY <1>2, <1>3, <1>4, <1>5, Kinds

LEMMA ActiveMoves ==
  ASSUME Types, NEW p \in Procs, Moves(p)
  PROVE  \A f \in Files : \/ active'[f] = active[f]
                          \/ active'[f] = None /\ f = fileOf[p] /\ At(p, "drop")
<1>1. CASE Drop(p)
  BY <1>1 DEF Drop, Types
<1> QED
  BY <1>1, ThreadedFrame DEF Moves

LEMMA ListedStep ==
  ASSUME Types, Threads, Posts, Named, Cancels, OneWorker, Listed, Next
  PROVE  Listed'
<1> SUFFICES ASSUME Undisturbed'
             PROVE  /\ \A f \in ongoing' : (At(0, "enqueue")' /\ fileOf'[0] = f) \/ active'[f] # None
                    /\ \A c \in Calls : Working(c)' => active'[fileOf'[c]] = c
                    /\ \A c \in Calls : todo'[c] # <<>> /\ ~Working(c)' /\ fileOf'[c] \in ongoing'
                                          => At(c, "unlist")' \/ At(c, "complete")'
  BY DEF Listed
<1>0. /\ \A f \in ongoing : (At(0, "enqueue") /\ fileOf[0] = f) \/ active[f] # None
      /\ \A c \in Calls : Working(c) => active[fileOf[c]] = c
      /\ \A c \in Calls : todo[c] # <<>> /\ ~Working(c) /\ fileOf[c] \in ongoing
                            => At(c, "unlist") \/ At(c, "complete")
      /\ Shared = {} /\ hist.cancelled = {} /\ hist'.cancelled = {} /\ hist'.overlap = {}
  <2>1. Undisturbed /\ hist'.cancelled = {} /\ hist'.overlap = {}
    BY HistGrows DEF Undisturbed
  <2> QED
    BY <2>1 DEF Listed, Undisturbed, Shared
<1>1. CASE User
  <2>1. UNCHANGED <<ongoing, active, fileOf, todo>>
    BY <1>1, UserDoes
  <2> QED
    BY <1>0, <2>1 DEF At, Working
<1>2. CASE Receive
  <2>1. PICK m \in Messages :
           /\ todo[0] = <<>>
           /\ \A q \in Calls : fileOf'[q] = fileOf[q] /\ todo'[q] = todo[q]
           /\ fileOf'[0] = m.file
           /\ UNCHANGED active
           /\ Begins(m) \/ CancelsNow(m) \/ JustTakes(m)
    BY <1>2, Receives
  <2>2. \A q \in Calls : (Working(q)' <=> Working(q)) /\ \A x : At(q, x)' <=> At(q, x)
    BY <2>1, Same
  <2>3. ~At(0, "enqueue")
    BY <2>1, AtOne
  <2>4. ~CancelsNow(m)
    BY <1>0 DEF CancelsNow
  <2>5. CASE Begins(m)
    <3>1. /\ At(0, "enqueue")' /\ ongoing' = ongoing \cup {m.file} /\ m.file \in Files
          /\ ~\E d \in Calls : Leaving(d) /\ fileOf[d] = m.file
      BY <1>0, <2>5 DEF Begins, Has
    <3>2. \A c \in Calls : todo[c] # <<>> /\ ~Working(c) => fileOf[c] # m.file
      BY <3>1, WorkingIs, Basics DEF Begun
    <3> QED
      BY <1>0, <2>1, <2>2, <2>3, <3>1, <3>2
  <2>6. CASE JustTakes(m)
    <3>1. ongoing' = ongoing
      BY <2>6 DEF JustTakes
    <3> QED
      BY <1>0, <2>1, <2>2, <2>3, <3>1
  <2> QED
    BY <2>1, <2>4, <2>5, <2>6
<1>3. CASE Enqueue
  <2>1. PICK c \in Calls :
           /\ todo[c] = <<>> /\ At(0, "enqueue") /\ Has(c, "await", {"await"})
           /\ \A q \in Procs : q # c /\ q # 0 => todo'[q] = todo[q]
           /\ fileOf[0] \in Files /\ fileOf'[c] = fileOf[0]
           /\ \A q \in Procs : q # c => fileOf'[q] = fileOf[q]
           /\ active'[fileOf[0]] = c /\ \A f \in Files : f # fileOf[0] => active'[f] = active[f]
           /\ ongoing' = ongoing
    BY <1>3, Enqueues
  <2>2. \A q \in Calls : q # c => /\ todo'[q] = todo[q] /\ fileOf'[q] = fileOf[q]
                                  /\ (Working(q)' <=> Working(q)) /\ \A x : At(q, x)' <=> At(q, x)
    BY <2>1, Basics, Same
  <2>3. Working(c)'
    BY <2>1 DEF Has, Working
  <2>4. \A f \in ongoing' : active'[f] # None
    BY <1>0, <2>1, Basics DEF Types
  <2>5. ASSUME NEW d \in Calls, Working(d)' PROVE active'[fileOf'[d]] = d
    <3>1. CASE d = c
      BY <2>1, <3>1
    <3>2. CASE d # c
      <4>1. Working(d) /\ fileOf'[d] = fileOf[d] /\ todo[d] # <<>> /\ active[fileOf[d]] = d
        BY <1>0, <2>2, <2>5, <3>2, WorkingIs
      <4>2. fileOf[d] \in Files
        BY <4>1, Basics DEF Threads
      <4>3. fileOf[d] # fileOf[0]
        BY <1>0, <2>1, <4>1 DEF OneWorker
      <4> QED
        BY <2>1, <4>1, <4>2, <4>3
    <3> QED
      BY <3>1, <3>2
  <2> QED
    BY <1>0, <2>1, <2>2, <2>3, <2>4, <2>5
<1>4. ASSUME NEW p \in Procs, Moves(p)
      PROVE  /\ \A f \in ongoing' : (At(0, "enqueue")' /\ fileOf'[0] = f) \/ active'[f] # None
             /\ \A c \in Calls : Working(c)' => active'[fileOf'[c]] = c
             /\ \A c \in Calls : todo'[c] # <<>> /\ ~Working(c)' /\ fileOf'[c] \in ongoing'
                                   => At(c, "unlist")' \/ At(c, "complete")'
  <2>1. /\ fileOf' = fileOf /\ todo[p] # <<>>
        /\ \A q \in Procs : todo'[q] # <<>> => todo[q] # <<>>
        /\ \A q \in Procs : At(q, "enqueue")' <=> At(q, "enqueue")
        /\ \A q \in Procs : Working(q)' => Working(q)
        /\ \A q \in Procs : q # p => todo'[q] = todo[q]
    BY <1>4, MovesTurns
  <2>2. p \in Calls /\ ~canceled[p] /\ fileOf[p] \in Files
    <3>1. p # 0
      <4> SUFFICES ASSUME p = 0 PROVE FALSE
        OBVIOUS
      <4>1. At(0, "enqueue")
        BY <1>0, <2>1 DEF Cancels
      <4> QED
        BY <4>1, <1>4, AtOne, Basics, MovesGo DEF Goes
    <3>2. p \in Calls
      BY <3>1, Basics
    <3> QED
      BY <1>0, <2>1, <3>2 DEF Cancels, Threads
  <2>3. \A c \in Calls : c # p /\ todo[c] # <<>> => fileOf[c] # fileOf[p]
    BY <1>0, <2>1, <2>2 DEF OneWorker
  <2>4. At(p, "drop") \/ At(p, "empty?") \/ At(p, "stop") \/ At(p, "held?") \/ At(p, "release")
          => ~Working(p) /\ fileOf[p] \notin ongoing /\ ongoing' \subseteq ongoing
    <3>1. ASSUME At(p, "drop") \/ At(p, "empty?") \/ At(p, "stop") \/ At(p, "held?") \/ At(p, "release")
          PROVE  ~Working(p) /\ ~At(p, "unlist") /\ ~At(p, "complete") /\ ~Write(p)
      BY <3>1, AtOne DEF Working, Write
    <3> QED
      BY <1>0, <1>4, <2>1, <2>2, <3>1, OngoingMoves
  <2>5. ASSUME NEW f \in ongoing' PROVE (At(0, "enqueue")' /\ fileOf'[0] = f) \/ active'[f] # None
    <3>1. f \in Files /\ (f \in ongoing \/ (f = fileOf[p] /\ Write(p)))
      BY <1>4, <2>2, <2>5, OngoingMoves DEF Types
    <3>2. CASE active'[f] = None /\ f = fileOf[p] /\ At(p, "drop")
      BY <2>4, <2>5, <3>2
    <3>3. CASE active'[f] = active[f]
      <4>1. CASE f \in ongoing
        BY <1>0, <2>1, <3>3, <4>1, Basics
      <4>2. CASE f = fileOf[p] /\ Write(p)
        <5>1. Working(p)
          BY <4>2 DEF Write, Working
        <5> QED
          BY <1>0, <2>2, <3>3, <4>2, <5>1, Basics
      <4> QED
        BY <3>1, <4>1, <4>2
    <3> QED
      BY <1>4, <3>1, <3>2, <3>3, ActiveMoves
  <2>6. ASSUME NEW c \in Calls, Working(c)' PROVE active'[fileOf'[c]] = c
    <3>1. Working(c) /\ todo[c] # <<>> /\ active[fileOf[c]] = c /\ fileOf[c] \in Files
      BY <1>0, <2>1, <2>6, WorkingIs, Basics DEF Threads
    <3>2. ~(fileOf[c] = fileOf[p] /\ At(p, "drop"))
      BY <2>3, <2>4, <3>1
    <3> QED
      BY <1>4, <2>1, <3>1, <3>2, ActiveMoves
  <2>7. ASSUME NEW c \in Calls, todo'[c] # <<>>, ~Working(c)', fileOf'[c] \in ongoing'
        PROVE  At(c, "unlist")' \/ At(c, "complete")'
    <3>1. CASE c # p
      <4>1. todo'[c] = todo[c] /\ todo[c] # <<>> /\ ~Working(c) /\ fileOf[c] # fileOf[p]
        BY <2>1, <2>3, <2>7, <3>1, Same, Basics
      <4>2. fileOf[c] \in ongoing
        BY <1>4, <2>1, <2>7, <4>1, OngoingMoves
      <4> QED
        BY <1>0, <4>1, <4>2, Same
    <3>2. CASE c = p
      <4>1. ~(At(p, "unlist") \/ At(p, "complete"))
        BY <1>4, <2>1, <2>7, <3>2, OngoingMoves
      <4>2. ~(At(p, "drop") \/ At(p, "empty?") \/ At(p, "stop") \/ At(p, "held?") \/ At(p, "release"))
        BY <2>1, <2>4, <2>7, <3>2
      <4>3. Works(p)
        BY <1>4, <4>1, <4>2, MovesGo DEF Goes
      <4>4. \/ \E z \in {"read", "check", "write"} : Has(p, z, {z})
            \/ Has(p, "unlist", TidyUp)
            \/ Has(p, "complete", {"complete", "drop", "empty?"})
        BY <2>2, <4>3 DEF Works
      <4> QED
        BY <2>7, <3>2, <4>4 DEF Has, Working
    <3> QED
      BY <3>1, <3>2
  <2> QED
    BY <2>5, <2>6, <2>7
<1> QED
  BY <1>1, <1>2, <1>3, <1>4, Kinds

LEMMA RemovedStep ==
  ASSUME Types, Threads, Posts, Cancels, Removed, Next
  PROVE  Removed'
<1> DEFINE Will(c) == Working(c) \/ Owed(todo[c], "unlist") \/ Owed(todo[c], "complete")
<1>0. /\ hist.cancelled \subseteq hist'.cancelled
      /\ \A q : todo'[q] = todo[q] => (Will(q)' <=> Will(q))
  BY HistGrows, Same
<1>1. CASE User
  <2>1. UNCHANGED <<ongoing, fileOf, todo>>
    BY <1>1, UserDoes
  <2> QED
    BY <1>0, <2>1 DEF Removed, At, Working
<1>2. CASE Receive
  <2>1. PICK m \in Messages :
           /\ todo[0] = <<>>
           /\ \A q \in Calls : fileOf'[q] = fileOf[q] /\ todo'[q] = todo[q]
           /\ fileOf'[0] = m.file
           /\ Begins(m) \/ CancelsNow(m) \/ JustTakes(m)
    BY <1>2, Receives
  <2>2. ~At(0, "enqueue")
    BY <2>1, AtOne
  <2>3. \/ ongoing' = ongoing
        \/ ongoing' = ongoing \cup {m.file} /\ At(0, "enqueue")'
    BY <2>1 DEF Begins, CancelsNow, JustTakes, Has
  <2>4. \A c \in Calls : Will(c)' <=> Will(c)
    BY <1>0, <2>1
  <2>5. \A f \in ongoing \ hist.cancelled : \E c \in Calls : fileOf[c] = f /\ Will(c)
    BY <2>2 DEF Removed
  <2>6. ASSUME NEW f \in ongoing' \ hist'.cancelled
        PROVE  (At(0, "enqueue")' /\ fileOf'[0] = f) \/ \E c \in Calls : fileOf'[c] = f /\ Will(c)'
    <3>1. CASE f \in ongoing
      <4>1. PICK c \in Calls : fileOf[c] = f /\ Will(c)
        BY <1>0, <2>5, <2>6, <3>1
      <4> QED
        BY <2>1, <2>4, <4>1
    <3>2. CASE f \notin ongoing
      BY <2>1, <2>3, <2>6, <3>2
    <3> QED
      BY <3>1, <3>2
  <2> QED
    BY <2>6 DEF Removed
<1>3. CASE Enqueue
  <2>1. PICK c \in Calls :
           /\ todo[c] = <<>> /\ At(0, "enqueue") /\ Has(c, "await", {"await"})
           /\ \A q \in Procs : q # c /\ q # 0 => todo'[q] = todo[q]
           /\ fileOf'[c] = fileOf[0]
           /\ \A q \in Procs : q # c => fileOf'[q] = fileOf[q]
           /\ ongoing' = ongoing
    BY <1>3, Enqueues
  <2>2. Will(c)'
    BY <2>1 DEF Has, Working
  <2>3. ~Will(c)
    BY <2>1, Idle
  <2>4. ASSUME NEW f \in ongoing' \ hist'.cancelled
        PROVE  \E d \in Calls : fileOf'[d] = f /\ Will(d)'
    <3>1. CASE fileOf[0] = f
      BY <2>1, <2>2, <3>1
    <3>2. CASE fileOf[0] # f
      <4>1. PICK d \in Calls : fileOf[d] = f /\ Will(d)
        BY <1>0, <2>1, <2>4, <3>2 DEF Removed
      <4>2. d # c /\ d # 0 /\ d \in Procs
        BY <2>3, <4>1, Basics
      <4>3. fileOf'[d] = f /\ Will(d)'
        BY <1>0, <2>1, <4>1, <4>2
      <4> QED
        BY <4>3
    <3> QED
      BY <3>1, <3>2
  <2> QED
    BY <2>4 DEF Removed
<1>4. ASSUME NEW p \in Procs, Moves(p) PROVE Removed'
  <2>1. /\ fileOf' = fileOf /\ todo[p] # <<>>
        /\ \A q \in Procs : At(q, "enqueue")' <=> At(q, "enqueue")
        /\ \A q \in Procs : q # p => todo'[q] = todo[q]
    BY <1>4, MovesTurns
  <2>2. hist'.cancelled = hist.cancelled
    BY <1>4, HistMoves
  <2>3. ASSUME Will(p), ~At(p, "unlist"), ~At(p, "complete"),
               p \in Calls => fileOf[p] \notin hist.cancelled
        PROVE  Will(p)'
    <3>1. ASSUME NEW x \in {"unlist", "drop", "complete"}, At(p, x), TakesOff(p, x) PROVE Will(p)'
      <4>1. x = "drop" /\ ~Working(p)
        BY <2>3, <3>1, AtOne DEF Working
      <4> QED
        BY <2>3, <3>1, <4>1 DEF TakesOff
    <3>2. ASSUME At(p, "empty?") \/ At(p, "stop") \/ At(p, "held?") \/ At(p, "release") PROVE FALSE
      <4>1. ~Working(p)
        BY <3>2, AtOne DEF Working
      <4>2. ~Owed(todo[p], "unlist") /\ ~Owed(todo[p], "complete")
        BY <2>1, <3>2, PathOwes DEF Types, At
      <4> QED
        BY <2>3, <4>1, <4>2
    <3>3. ASSUME p \in Calls, Works(p) PROVE Will(p)'
      <4>1. \/ \E z \in {"read", "check", "write"} : Has(p, z, {z})
            \/ Has(p, "unlist", TidyUp)
            \/ Has(p, "complete", {"complete", "drop", "empty?"})
        BY <2>3, <3>3 DEF Works, Cancels
      <4> QED
        BY <4>1 DEF Has, Working, TidyUp
    <3> QED
      BY <1>4, <3>1, <3>2, <3>3, MovesGo DEF Goes
  <2>4. ASSUME NEW f \in ongoing' \ hist'.cancelled
        PROVE  (At(0, "enqueue")' /\ fileOf'[0] = f) \/ \E c \in Calls : fileOf'[c] = f /\ Will(c)'
    <3>1. CASE f \notin ongoing
      <4>1. f = fileOf[p] /\ p \in Calls /\ Write(p)
        BY <1>4, <2>4, <3>1, OngoingMoves
      <4>2. Will(p)'
        BY <4>1, WriteDoes DEF Has, Working
      <4> QED
        BY <2>1, <4>1, <4>2
    <3>2. CASE f \in ongoing
      <4>1. CASE At(0, "enqueue") /\ fileOf[0] = f
        BY <2>1, <4>1, Basics
      <4>2. CASE \E c \in Calls : fileOf[c] = f /\ Will(c)
        <5>1. PICK c \in Calls : fileOf[c] = f /\ Will(c)
          BY <4>2
        <5>2. CASE c # p
          <6>1. todo'[c] = todo[c]
            BY <2>1, <5>2, Basics
          <6>2. Will(c)'
            BY <1>0, <5>1, <6>1
          <6> QED
            BY <2>1, <5>1, <6>2
        <5>3. CASE c = p
          <6>1. ~At(p, "unlist") /\ ~At(p, "complete")
            BY <1>4, <2>4, <3>2, <5>1, <5>3, OngoingMoves
          <6>2. Will(p)'
            BY <2>2, <2>3, <2>4, <5>1, <5>3, <6>1
          <6> QED
            BY <2>1, <5>1, <5>3, <6>2
        <5> QED
          BY <5>2, <5>3
      <4> QED
        BY <2>2, <2>4, <3>2, <4>1, <4>2 DEF Removed
    <3> QED
      BY <3>1, <3>2
  <2> QED
    BY <2>4 DEF Removed
<1> QED
  BY <1>1, <1>2, <1>3, <1>4, Kinds

-----------------------------------------------------------------------------
(* The service stops *)

LEMMA CallMoves ==
  ASSUME Types, Threads, Cancels, hist.cancelled = {}, NEW p \in Procs, Moves(p)
  PROVE  p \in Calls
<1>1. CASE p = 0
  <2>1. At(0, "enqueue")
    BY <1>1, MovesTurns, Basics DEF Cancels
  <2> QED
    BY <1>1, <2>1, AtOne, Basics, MovesGo DEF Goes
<1> QED
  BY <1>1, Basics

LEMMA OwesNone ==
  ASSUME Types, NEW p \in Procs, Working(p)
  PROVE  \A y : Owed(todo[p], y) => At(p, y)
<1>1. todo[p] \in Paths /\ todo[p] # <<>> /\ Head(todo[p]) \in {"await", "read", "check", "write"}
  BY DEF Working, At, Types
<1>2. Tail(todo[p]) = <<>>
  BY <1>1, PathTails
<1>3. \A y : ~Owed(<<>>, y)
  BY DEF Owed
<1>4. \A y : Owed(todo[p], y) <=> Head(todo[p]) = y \/ Owed(Tail(todo[p]), y)
  BY <1>1, PathOwes
<1>5. \A y : Owed(todo[p], y) => Head(todo[p]) = y
  BY <1>2, <1>3, <1>4
<1> QED
  BY <1>1, <1>5 DEF At

LEMMA AsksIs ==
  ASSUME NEW p
  PROVE  /\ Asks(p) <=> \/ Owed(todo[p], "empty?") \/ Owed(todo[p], "held?")
                        \/ Owed(todo[p], "release") \/ Owed(todo[p], "stop")
         /\ Asks(p)' <=> \/ Owed(todo'[p], "empty?") \/ Owed(todo'[p], "held?")
                         \/ Owed(todo'[p], "release") \/ Owed(todo'[p], "stop")
  BY DEF Asks

LEMMA StopComesStep ==
  ASSUME Types, Threads, Posts, Named, Cancels, OneWorker, Awake, Listed, StopComes, Next
  PROVE  StopComes'
<1> DEFINE Asked == \E i \in DOMAIN inbox : inbox[i].what \in {"start", "cancel"}
           Asker == \E p \in Procs : instOf[p] = up /\ Asks(p)
<1> SUFFICES ASSUME alive', Undisturbed', up' # 0
             PROVE  Asked' \/ Attended' \/ Asker'
  BY DEF StopComes
<1>0. alive /\ Undisturbed /\ Shared = {} /\ hist.cancelled = {} /\ hist'.cancelled = {} /\ ~hist.raced
  <2>1. alive /\ Undisturbed
    BY HistGrows DEF Next
  <2> QED
    BY <2>1 DEF Undisturbed, Shared
<1>1. ASSUME up # 0 PROVE Asked \/ Attended \/ Asker
  BY <1>0, <1>1 DEF StopComes
<1>2. CASE User
  <2>1. PICK f \in Files, w \in {"start", "cancel"} :
           /\ UNCHANGED <<active, instOf, todo>>
           /\ Deliver(w, f) \/ UNCHANGED <<inbox, up>>
    BY <1>2, UserDoes
  <2>2. CASE Deliver(w, f)
    <3>1. /\ DOMAIN inbox' = 1..Len(inbox') /\ Len(inbox') \in Nat /\ Len(inbox') > Len(inbox) /\ Len(inbox) \in Nat
          /\ inbox'[Len(inbox')].what = w
      BY <2>2, DeliverDoes
    <3>2. Len(inbox') \in DOMAIN inbox'
      BY <3>1
    <3> QED
      BY <3>1, <3>2
  <2>3. CASE UNCHANGED <<inbox, up>>
    <3>1. \A q : At(q, "enqueue")' <=> At(q, "enqueue")
      BY <2>1, Same
    <3>2. \A q : Asks(q)' <=> Asks(q)
      BY <2>1, Same
    <3>3. Attended => Attended'
      BY <2>1, <3>1 DEF Attended
    <3> QED
      BY <1>1, <2>1, <2>3, <3>2, <3>3
  <2> QED
    BY <2>1, <2>2, <2>3
<1>3. CASE Receive
  <2>1. PICK m \in Messages :
           /\ m = inbox[1] /\ todo[0] = <<>>
           /\ \A q \in Calls : instOf'[q] = instOf[q] /\ todo'[q] = todo[q]
           /\ UNCHANGED <<active, up>>
           /\ Begins(m) \/ CancelsNow(m) \/ JustTakes(m)
    BY <1>3, Receives
  <2>2. \A i \in DOMAIN inbox : i # 1 => i - 1 \in DOMAIN inbox' /\ inbox'[i - 1] = inbox[i]
    BY <1>3, ReceiveDoes
  <2>3. ~At(0, "enqueue") /\ ~Asks(0)
    BY <2>1, Idle
  <2>4. CASE Begins(m)
    <3>1. At(0, "enqueue")'
      BY <2>4 DEF Begins, Has
    <3> QED
      BY <3>1 DEF Attended
  <2>5. ~CancelsNow(m)
    BY <1>0 DEF CancelsNow
  <2>6. CASE JustTakes(m)
    <3>1. m.what # "cancel" /\ (m.what = "start" => m.file \in ongoing)
      BY <2>6 DEF JustTakes
    <3>2. Attended => Attended'
      BY <2>1, <2>3 DEF Attended
    <3>3. CASE Asked
      <4>1. PICK i \in DOMAIN inbox : inbox[i].what \in {"start", "cancel"}
        BY <3>3
      <4>2. CASE i = 1
        <5>1. m.file \in ongoing /\ m.file \in Files
          BY <2>1, <3>1, <4>1, <4>2 DEF Types
        <5>2. active[m.file] # None
          BY <1>0, <2>3, <5>1 DEF Listed
        <5>3. Attended
          BY <5>1, <5>2 DEF Attended
        <5> QED
          BY <3>2, <5>3
      <4>3. CASE i # 1
        BY <2>2, <4>1, <4>3
      <4> QED
        BY <4>2, <4>3
    <3>4. CASE Asker
      <4>1. PICK p \in Procs : instOf[p] = up /\ Asks(p)
        BY <3>4
      <4>2. p \in Calls
        BY <2>3, <4>1, Basics
      <4>3. instOf'[p] = up' /\ Asks(p)'
        BY <2>1, <4>1, <4>2, Same
      <4> QED
        BY <4>1, <4>3
    <3> QED
      BY <1>1, <2>1, <3>2, <3>3, <3>4
  <2> QED
    BY <2>1, <2>4, <2>5, <2>6
<1>4. CASE Enqueue
  <2>1. PICK c \in Calls : fileOf[0] \in Files /\ active'[fileOf[0]] = c
    BY <1>4, Enqueues
  <2>2. Attended'
    BY <2>1, Basics DEF Attended
  <2> QED
    BY <2>2
<1>5. ASSUME NEW p \in Procs, Moves(p) PROVE Asked' \/ Attended' \/ Asker'
  <2>1. /\ instOf' = instOf /\ todo[p] # <<>>
        /\ \A q \in Procs : q # p => todo'[q] = todo[q]
        /\ \A q \in Procs : At(q, "enqueue")' <=> At(q, "enqueue")
    BY <1>5, MovesTurns
  <2>2. /\ UNCHANGED <<inbox, up>>
        /\ StopSelf(p) => instOf[p] # up
    <3>1. CASE StopSelf(p)
      BY <3>1 DEF StopSelf
    <3> QED
      BY <1>5, <3>1, ThreadedFrame DEF Moves
  <2>3. p \in Calls
    BY <1>0, <1>5, CallMoves
  <2>4. up # 0
    BY <2>2
  <2>5. CASE Asked
    BY <2>2, <2>5
  <2>6. CASE At(0, "enqueue")
    BY <2>1, <2>6, Basics DEF Attended
  <2>7. ASSUME NEW f \in Files, NEW d \in Calls, active[f] = d PROVE Attended' \/ Asker'
    <3>1. CASE active'[f] = active[f]
      BY <2>7, <3>1, Basics DEF Attended
    <3>2. CASE f = fileOf[p] /\ At(p, "drop")
      <4>1. fileOf[d] = f /\ todo[d] # <<>>
        BY <2>7, Idle DEF Named
      <4>2. d = p
        BY <1>0, <2>1, <2>3, <3>2, <4>1 DEF OneWorker
      <4>3. instOf[p] = up
        <5>1. Attended
          BY <2>7, Basics DEF Attended
        <5> QED
          BY <1>0, <2>7, <4>2, <5>1 DEF Awake
      <4>4. Owed(todo[p], "empty?")
        BY <2>1, <3>2, PathOwes DEF Types, At
      <4>5. TakesOff(p, "drop")
        BY <1>5, <3>2, WhichStep, DropDoes
      <4>6. Asks(p)'
        BY <4>4, <4>5, AsksIs DEF TakesOff
      <4> QED
        BY <2>1, <2>2, <4>3, <4>6
    <3> QED
      BY <1>5, <3>1, <3>2, ActiveMoves
  <2>8. CASE \E f \in Files : active[f] # None
    <3>1. PICK f \in Files, d \in Calls : active[f] = d
      BY <2>8 DEF Types
    <3> QED
      BY <2>7, <3>1
  <2>9. CASE Asker
    <3>1. PICK q \in Procs : instOf[q] = up /\ Asks(q)
      BY <2>9
    <3>2. CASE q # p
      <4>1. Asks(q)'
        BY <2>1, <3>1, <3>2, Same
      <4> QED
        BY <2>1, <2>2, <3>1, <4>1
    <3>3. CASE q = p
      <4>0. ASSUME Asks(p)' PROVE Asker'
        BY <2>1, <2>2, <3>1, <3>3, <4>0
      <4>1. ASSUME NEW x \in {"unlist", "drop", "complete"}, At(p, x), TakesOff(p, x)
            PROVE  Asks(p)'
        BY <3>1, <3>3, <4>1, AsksIs DEF TakesOff
      <4>2. CASE At(p, "empty?")
        <5>1. CASE NoneActive
          <6>1. Heads(p, "held?")
            BY <1>5, <4>2, <5>1, WhichStep, TestEmptyDoes
          <6> QED
            BY <4>0, <6>1, AsksIs DEF Heads
        <5>2. CASE ~NoneActive
          BY <2>8, <5>2 DEF NoneActive
        <5> QED
          BY <5>1, <5>2
      <4>3. ~At(p, "stop")
        BY <1>5, <2>2, <3>1, <3>3, WhichStep
      <4>4. ASSUME NEW y \in {"held?", "release", "stop"}, Heads(p, y) PROVE Asks(p)'
        BY <4>4, AsksIs DEF Heads
      <4>5. ~Works(p)
        <5>1. ASSUME Working(p) PROVE FALSE
          BY <3>1, <3>3, <5>1, OwesNone, AsksIs, AtOne DEF Working
        <5> QED
          BY <5>1 DEF Works
      <4> QED
        BY <1>5, <4>0, <4>1, <4>2, <4>3, <4>4, <4>5, MovesGo DEF Goes
    <3> QED
      BY <3>2, <3>3
  <2> QED
    BY <1>1, <2>4, <2>5, <2>6, <2>8, <2>9 DEF Attended
<1> QED
  BY <1>2, <1>3, <1>4, <1>5, Kinds

-----------------------------------------------------------------------------
(* The wake lock *)

LEMMA FewCalls ==
  /\ \A S : S \subseteq Calls => IsFiniteSet(S) /\ Cardinality(S) \in Nat
  /\ \A i : BegunIn(i) \subseteq Calls /\ Acquired(i) \in Nat
<1>1. ASSUME NEW S, S \subseteq Calls PROVE IsFiniteSet(S) /\ Cardinality(S) \in Nat
  <2>1. IsFiniteSet(Calls)
    BY Basics, FS_Interval DEF Calls
  <2> QED
    BY <1>1, <2>1, FS_Subset, FS_CardinalityType
<1>2. ASSUME NEW i PROVE BegunIn(i) \subseteq Calls /\ Acquired(i) \in Nat
  <2>1. BegunIn(i) \subseteq Calls
    BY DEF BegunIn, Begun
  <2>2. Cardinality(BegunIn(i)) \in Nat
    BY <1>1, <2>1
  <2> QED
    BY <2>1, <2>2 DEF Acquired
<1> QED
  BY <1>1, <1>2

\* An instance has begun as many downloads as before, or one more.
LEMMA AcquiredNow ==
  ASSUME NEW i, Begun' = Begun, \A c \in Calls : instOf'[c] = instOf[c]
  PROVE  /\ BegunIn(i)' = BegunIn(i)
         /\ (At(0, "enqueue") /\ instOf[0] = i <=> At(0, "enqueue")' /\ instOf'[0] = i)
              => Acquired(i)' = Acquired(i)
         /\ ~At(0, "enqueue") /\ At(0, "enqueue")' /\ instOf'[0] = i => Acquired(i)' = Acquired(i) + 1
<1>1. BegunIn(i)' = BegunIn(i)
  BY DEF BegunIn, Begun
<1> DEFINE n == Cardinality(BegunIn(i))
<1>2. n \in Nat /\ n' = n
  BY <1>1, FewCalls
<1>3. /\ Acquired(i) = n + (IF At(0, "enqueue") /\ instOf[0] = i THEN 1 ELSE 0)
      /\ Acquired(i)' = n' + (IF At(0, "enqueue")' /\ instOf'[0] = i THEN 1 ELSE 0)
  BY DEF Acquired
<1> HIDE DEF n
<1> QED
  BY <1>1, <1>2, <1>3

LEMMA AcquiredEnqueue ==
  ASSUME Types, Threads, Enqueue, NEW i
  PROVE  Acquired(i)' = Acquired(i)
<1>1. PICK c \in Calls :
         /\ c \notin Begun /\ Begun' = Begun \cup {c}
         /\ At(0, "enqueue") /\ todo'[0] = <<>>
         /\ instOf'[c] = instOf[0]
         /\ \A q \in Procs : q # c => instOf'[q] = instOf[q]
  BY Enqueues
<1>2. ~At(0, "enqueue")'
  BY <1>1, AtOne
<1>3. Begun \subseteq Calls
  BY DEF Begun
<1>4. \A d \in Begun : instOf'[d] = instOf[d]
  BY <1>1, <1>3, Basics
<1> DEFINE B == BegunIn(i)
<1>5. B \subseteq Calls /\ IsFiniteSet(B) /\ Cardinality(B) \in Nat /\ c \notin B
  BY <1>1, FewCalls DEF BegunIn
<1>6. CASE instOf[0] = i
  <2>1. B' = B \cup {c}
    BY <1>1, <1>4, <1>6 DEF BegunIn
  <2>2. Cardinality(B') = Cardinality(B) + 1
    BY <1>5, <2>1, FS_AddElement
  <2>3. Acquired(i) = Cardinality(B) + 1
    BY <1>1, <1>6 DEF Acquired
  <2>4. Acquired(i)' = Cardinality(B') + 0
    BY <1>2 DEF Acquired
  <2> QED
    BY <1>5, <2>2, <2>3, <2>4
<1>7. CASE instOf[0] # i
  <2>1. B' = B
    BY <1>1, <1>4, <1>7 DEF BegunIn
  <2>2. Acquired(i) = Cardinality(B) + 0
    BY <1>7 DEF Acquired
  <2>3. Acquired(i)' = Cardinality(B') + 0
    BY <1>2 DEF Acquired
  <2> QED
    BY <2>1, <2>2, <2>3
<1> QED
  BY <1>6, <1>7

LEMMA LockFrame ==
  ASSUME NEW i, wake'[i] = wake[i], Acquired(i)' = Acquired(i), LockOf(i),
         Going(i)' => Going(i), Down(i)' => Down(i), Gone(i)' => Gone(i)
  PROVE  LockOf(i)'
<1> DEFINE w == wake[i]
           a == Acquired(i)
<1>1. w' = w /\ a' = a
  OBVIOUS
<1>2. /\ w <= a
      /\ Going(i) \/ Down(i) => w = 0 \/ w <= a - 1
      /\ Gone(i) => w = 0 \/ w <= a - 2
  BY DEF LockOf
<1>3. LockOf(i)' <=> /\ w' <= a'
                     /\ Going(i)' \/ Down(i)' => w' = 0 \/ w' <= a' - 1
                     /\ Gone(i)' => w' = 0 \/ w' <= a' - 2
  BY DEF LockOf
<1> HIDE DEF w, a
<1> QED
  BY <1>1, <1>2, <1>3

LEMMA LockUser ==
  ASSUME Types, Threads, User, NEW i \in Instances, LockOf(i)
  PROVE  LockOf(i)'
<1>1. PICK f \in Files, w \in {"start", "cancel"} :
         /\ UNCHANGED <<wake, fileOf, instOf, todo>>
         /\ Deliver(w, f) \/ UNCHANGED <<inbox, up, made>>
  BY UserDoes
<1>2. \A q, x : At(q, x)' <=> At(q, x)
  BY <1>1, Same
<1>3. Begun' = Begun
  BY <1>1 DEF Begun
<1>4. Acquired(i)' = Acquired(i)
  BY <1>1, <1>2, <1>3, AcquiredNow
<1>5. Going(i)' => Going(i)
  BY <1>1, <1>2 DEF Going
<1>6. (Down(i)' => Down(i)) /\ (Gone(i)' => Gone(i))
  <2>1. CASE Deliver(w, f)
    <3>1. /\ up # 0 => up' = up /\ made' = made
          /\ up = 0 => up' = made + 1 /\ made' = made + 1
          /\ \A k \in DOMAIN inbox : k \in DOMAIN inbox' /\ inbox'[k] = inbox[k]
      BY <2>1, DeliverDoes
    <3>2. Down(i)' => Down(i)
      <4>1. made \in Nat /\ i \in Nat /\ i # 0
        BY Basics DEF Types
      <4> QED
        BY <3>1, <4>1 DEF Down
    <3> QED
      BY <3>1, <3>2 DEF Gone
  <2>2. CASE UNCHANGED <<inbox, up, made>>
    BY <2>2 DEF Gone, Down
  <2> QED
    BY <1>1, <2>1, <2>2
<1> QED
  BY <1>1, <1>4, <1>5, <1>6, LockFrame

LEMMA LockReceive ==
  ASSUME Types, Threads, Posts, Receive, ~hist'.raced, NEW i \in Instances, LockOf(i)
  PROVE  LockOf(i)'
<1>1. PICK m \in Messages :
         /\ m = inbox[1] /\ 1 \in DOMAIN inbox /\ m.inst \in 1..made /\ todo[0] = <<>>
         /\ \A q \in Calls : instOf'[q] = instOf[q] /\ todo'[q] = todo[q]
         /\ instOf'[0] = m.inst /\ Begun' = Begun
         /\ UNCHANGED <<up, made>>
         /\ Begins(m) \/ CancelsNow(m) \/ JustTakes(m)
  BY Receives
<1>2. /\ \A k \in DOMAIN inbox' : k + 1 \in DOMAIN inbox /\ inbox'[k] = inbox[k + 1]
      /\ \A k \in DOMAIN inbox : k # 1 => k - 1 \in DOMAIN inbox' /\ inbox'[k - 1] = inbox[k]
  BY ReceiveDoes
<1>3. ~At(0, "enqueue") /\ ~At(0, "stop")'
  BY <1>1, AtOne DEF Begins, CancelsNow, JustTakes, Has
<1>4. Going(i)' => Going(i)
  <2>1. \A q \in Calls : At(q, "stop")' <=> At(q, "stop")
    BY <1>1, Same
  <2> QED
    BY <1>1, <1>3, <2>1, Basics DEF Going
<1>5. (Down(i)' <=> Down(i)) /\ (Gone(i)' => Down(i))
  BY <1>1 DEF Down, Gone
<1>6. ASSUME m.what # "destroy" \/ m.inst # i, Gone(i)' PROVE Gone(i)
  <2>1. \A k \in DOMAIN inbox' : inbox'[k].what = "destroy" => inbox'[k].inst # i
    BY <1>6 DEF Gone
  <2>2. ASSUME NEW k \in DOMAIN inbox, inbox[k].what = "destroy" PROVE inbox[k].inst # i
    <3>1. CASE k = 1
      BY <1>1, <1>6, <2>2, <3>1
    <3>2. CASE k # 1
      BY <1>2, <2>1, <2>2, <3>2
    <3> QED
      BY <3>1, <3>2
  <2> QED
    BY <1>5, <1>6, <2>2 DEF Gone
<1>7. wake[i] \in Nat /\ Acquired(i) \in Nat
  BY FewCalls DEF Types
<1>8. CASE Begins(m)
  <2>1. /\ ~Stopping /\ m.what = "start" /\ At(0, "enqueue")'
        /\ wake' = [wake EXCEPT ![m.inst] = @ + 1]
    BY <1>8 DEF Begins, Has
  <2>2. m.inst = up
    BY <1>1, <2>1, StoppingIs DEF Posts
  <2>3. CASE i = m.inst
    <3>1. Acquired(i)' = Acquired(i) + 1
      BY <1>1, <1>3, <2>1, <2>3, AcquiredNow
    <3>2. wake'[i] = wake[i] + 1
      BY <2>1, <2>3 DEF Types
    <3>3. ~Down(i)' /\ ~Gone(i)'
      BY <1>1, <2>2, <2>3 DEF Down, Gone
    <3>4. ~Going(i)'
      BY <1>4, <2>1, StoppingIs DEF Going
    <3>5. wake'[i] <= Acquired(i)'
      <4>1. wake[i] <= Acquired(i)
        BY DEF LockOf
      <4> QED
        BY <1>7, <3>1, <3>2, <4>1
    <3> QED
      BY <3>3, <3>4, <3>5 DEF LockOf
  <2>4. CASE i # m.inst
    <3>1. Acquired(i)' = Acquired(i)
      BY <1>1, <1>3, <2>4, AcquiredNow
    <3>2. wake'[i] = wake[i]
      BY <2>1, <2>4 DEF Types
    <3> QED
      BY <1>4, <1>5, <1>6, <2>4, <3>1, <3>2, LockFrame
  <2> QED
    BY <2>3, <2>4
<1>9. CASE CancelsNow(m) \/ JustTakes(m)
  <2>1. ~At(0, "enqueue")'
    BY <1>9, AtOne DEF CancelsNow, JustTakes, Has
  <2>2. Acquired(i)' = Acquired(i)
    BY <1>1, <1>3, <2>1, AcquiredNow
  <2>3. CASE m.what = "destroy" /\ m.inst = i
    <3>1. i # up /\ Down(i)
      BY <1>1, <2>3 DEF Posts, Down
    <3>2. wake' = IF wake[i] > 0 THEN [wake EXCEPT ![i] = @ - 1] ELSE wake
      BY <1>9, <2>3 DEF CancelsNow, JustTakes
    <3>3. /\ wake[i] = 0 => wake'[i] = 0
          /\ wake[i] # 0 => wake'[i] = wake[i] - 1
      <4>1. CASE wake[i] = 0
        BY <3>2, <4>1
      <4>2. CASE wake[i] # 0
        <5>1. wake' = [wake EXCEPT ![i] = @ - 1]
          BY <1>7, <3>2, <4>2
        <5> QED
          BY <4>2, <5>1 DEF Types
      <4> QED
        BY <4>1, <4>2
    <3>4. wake[i] = 0 \/ wake[i] <= Acquired(i) - 1
      BY <3>1 DEF LockOf
    <3>5. wake'[i] = 0 \/ wake'[i] <= Acquired(i)' - 2
      BY <1>7, <2>2, <3>3, <3>4
    <3>6. wake'[i] <= Acquired(i)' /\ (wake'[i] = 0 \/ wake'[i] <= Acquired(i)' - 1)
      BY <1>7, <2>2, <3>3, <3>5
    <3> QED
      BY <3>5, <3>6 DEF LockOf
  <2>4. CASE m.what # "destroy" \/ m.inst # i
    <3>1. wake'[i] = wake[i]
      <4>1. CASE CancelsNow(m)
        BY <4>1 DEF CancelsNow
      <4>2. CASE JustTakes(m)
        BY <2>4, <4>2 DEF JustTakes, Types
      <4> QED
        BY <1>9, <4>1, <4>2
    <3> QED
      BY <1>4, <1>5, <1>6, <2>2, <2>4, <3>1, LockFrame
  <2> QED
    BY <2>3, <2>4
<1> QED
  BY <1>1, <1>8, <1>9

LEMMA LockEnqueue ==
  ASSUME Types, Threads, Enqueue, NEW i \in Instances, LockOf(i)
  PROVE  LockOf(i)'
<1>1. PICK c \in Calls :
         /\ todo'[0] = <<>> /\ Has(c, "await", {"await"})
         /\ \A q \in Procs : q # c /\ q # 0 => todo'[q] = todo[q]
         /\ \A q \in Procs : q # c => instOf'[q] = instOf[q]
         /\ UNCHANGED <<wake, inbox, up, made>>
  BY Enqueues
<1>2. Going(i)' => Going(i)
  <2>1. ~At(0, "stop")' /\ ~At(c, "stop")'
    BY <1>1, AtOne DEF Has
  <2>2. \A q \in Procs : q # c /\ q # 0 => (At(q, "stop")' <=> At(q, "stop"))
    BY <1>1, Same
  <2> QED
    BY <1>1, <2>1, <2>2 DEF Going
<1>3. (Down(i)' => Down(i)) /\ (Gone(i)' => Gone(i))
  BY <1>1 DEF Down, Gone
<1> QED
  BY <1>1, <1>2, <1>3, AcquiredEnqueue, LockFrame

\* A thread comes to stopSelf when it has released the lock, or found it released.
LEMMA ComesToStop ==
  ASSUME Types, Threads, NEW p \in Procs, Moves(p), At(p, "stop")'
  PROVE  At(p, "release") \/ (At(p, "held?") /\ wake[instOf[p]] = 0)
<1>1. ~\E x \in {"unlist", "drop", "complete"} : At(p, x) /\ TakesOff(p, x)
  BY DEF TakesOff
<1>2. ~\E x \in {"empty?", "stop"} : At(p, x) /\ Continues(p)
  BY DEF Continues
<1>3. ~(p \in Calls /\ Works(p))
  BY DEF Works, Has
<1>4. At(p, "empty?") \/ At(p, "held?") \/ At(p, "release")
  BY <1>1, <1>2, <1>3, MovesGo DEF Goes
<1>5. ~At(p, "empty?")
  <2> SUFFICES ASSUME At(p, "empty?") PROVE FALSE
    OBVIOUS
  <2>1. TestEmpty(p)
    BY WhichStep
  <2> QED
    BY <2>1, TestEmptyDoes DEF Heads, Continues
<1>6. ASSUME At(p, "held?") PROVE wake[instOf[p]] = 0
  <2>1. TestHeld(p)
    BY <1>6, WhichStep
  <2>2. ~(wake[instOf[p]] > 0)
    BY <2>1, TestHeldDoes DEF Heads
  <2>3. instOf[p] \in 1..made
    <3>1. instOf[p] >= 1 /\ instOf[p] <= made /\ instOf[p] \in Nat /\ made \in Nat
      BY <1>6, AtOne DEF Threads, Types
    <3> QED
      BY <3>1
  <2>4. wake[instOf[p]] \in Nat
    BY <2>3, InstancesMade DEF Types
  <2> QED
    BY <2>2, <2>4
<1> QED
  BY <1>4, <1>5, <1>6

LEMMA LockMoves ==
  ASSUME Types, Threads, NEW p \in Procs, Moves(p), NEW i \in Instances, LockOf(i)
  PROVE  LockOf(i)'
<1>1. /\ instOf' = instOf /\ Begun' = Begun
      /\ \A q \in Procs : q # p => todo'[q] = todo[q]
      /\ \A q \in Procs : At(q, "enqueue")' <=> At(q, "enqueue")
      /\ UNCHANGED made
  BY MovesTurns, ThreadedFrame DEF Moves
<1>2. Acquired(i)' = Acquired(i)
  BY <1>1, Basics, AcquiredNow
<1>3. wake[i] \in Nat /\ Acquired(i) \in Nat
  BY FewCalls DEF Types
<1>4. \A q \in Procs : q # p => (At(q, "stop")' <=> At(q, "stop"))
  BY <1>1, Same
<1>5. ASSUME ~Going(i), Going(i)'
      PROVE  instOf[p] = i /\ At(p, "stop")' /\ (At(p, "release") \/ wake[i] = 0)
  <2>1. PICK q \in Procs : At(q, "stop")' /\ instOf[q] = i
    BY <1>1, <1>5 DEF Going
  <2>2. q = p
    BY <1>4, <1>5, <2>1 DEF Going
  <2> QED
    BY <2>1, <2>2, ComesToStop
<1>6. CASE At(p, "release")
  <2>1. UNCHANGED <<inbox, up>>
    BY <1>6, AtOne, ThreadedFrame DEF Moves, StopSelf
  <2>2. (Down(i)' <=> Down(i)) /\ (Gone(i)' <=> Gone(i))
    BY <1>1, <2>1 DEF Down, Gone
  <2>3. CASE UNCHANGED <<wake, todo>>
    <3>1. Going(i)' => Going(i)
      BY <1>1, <2>3, Same DEF Going
    <3> QED
      BY <1>2, <2>2, <2>3, <3>1, LockFrame
  <2>4. CASE wake[instOf[p]] > 0 /\ wake' = [wake EXCEPT ![instOf[p]] = @ - 1]
    <3>1. CASE i = instOf[p]
      <4>1. wake'[i] = wake[i] - 1 /\ wake[i] > 0
        BY <2>4, <3>1 DEF Types
      <4>2. wake[i] <= Acquired(i) /\ (Gone(i) => wake[i] = 0 \/ wake[i] <= Acquired(i) - 2)
        BY DEF LockOf
      <4>3. wake'[i] <= Acquired(i)' - 1 /\ (Gone(i)' => wake'[i] <= Acquired(i)' - 2)
        BY <1>2, <1>3, <2>2, <4>1, <4>2
      <4>4. wake'[i] <= Acquired(i)'
        BY <1>2, <1>3, <4>1, <4>2
      <4> QED
        BY <4>3, <4>4 DEF LockOf
    <3>2. CASE i # instOf[p]
      <4>1. wake'[i] = wake[i]
        BY <2>4, <3>2 DEF Types
      <4>2. Going(i)' => Going(i)
        BY <1>5, <3>2
      <4> QED
        BY <1>2, <2>2, <4>1, <4>2, LockFrame
    <3> QED
      BY <3>1, <3>2
  <2> QED
    BY <1>6, <2>3, <2>4, WhichStep, ReleaseDoes
<1>7. CASE ~At(p, "release")
  <2>1. wake' = wake
    BY <1>7, ThreadedFrame DEF Moves, Release
  <2>2. CASE Going(i)' => Going(i)
    <3>1. CASE UNCHANGED <<inbox, up>>
      <4>1. (Down(i)' <=> Down(i)) /\ (Gone(i)' <=> Gone(i))
        BY <1>1, <3>1 DEF Down, Gone
      <4> QED
        BY <1>2, <2>1, <2>2, <4>1, LockFrame
    <3>2. CASE StopSelf(p) /\ instOf[p] = up
      <4>1. /\ up' = 0 /\ inbox' = Append(inbox, Msg("destroy", None, up)) /\ At(p, "stop")
        BY <3>2 DEF StopSelf
      <4>2. LET k == Len(inbox) + 1
            IN /\ k \in DOMAIN inbox' /\ inbox'[k].what = "destroy" /\ inbox'[k].inst = up
               /\ \A j \in DOMAIN inbox : j \in DOMAIN inbox' /\ inbox'[j] = inbox[j]
        <5> DEFINE d == Msg("destroy", None, up)
        <5>1. d \in Messages /\ d.what = "destroy" /\ d.inst = up
          BY DEF Types, Messages, Msg
        <5> HIDE DEF d
        <5>2. inbox \in Seq(Messages) /\ inbox' = Append(inbox, d)
          BY <4>1 DEF Types, d
        <5> QED
          BY <5>1, <5>2
      <4>3. CASE i = up
        <5>1. Going(i)
          BY <3>2, <4>1, <4>3 DEF Going
        <5>2. wake[i] <= Acquired(i) /\ (wake[i] = 0 \/ wake[i] <= Acquired(i) - 1)
          BY <5>1 DEF LockOf
        <5>3. ~Gone(i)'
          BY <4>2, <4>3 DEF Gone
        <5> QED
          BY <1>2, <2>1, <5>2, <5>3 DEF LockOf
      <4>4. CASE i # up
        <5>1. Down(i)' => Down(i)
          BY <1>1, <4>4 DEF Down
        <5>2. Gone(i)' => Gone(i)
          BY <4>2, <5>1 DEF Gone
        <5> QED
          BY <1>2, <2>1, <2>2, <5>1, <5>2, LockFrame
      <4> QED
        BY <4>3, <4>4
    <3> QED
      BY <3>1, <3>2, ThreadedFrame DEF Moves, StopSelf
  <2>3. CASE ~(Going(i)' => Going(i))
    <3>1. wake'[i] = 0
      BY <1>5, <1>7, <2>1, <2>3
    <3> QED
      BY <1>2, <1>3, <3>1 DEF LockOf
  <2> QED
    BY <2>2, <2>3
<1> QED
  BY <1>6, <1>7

LEMMA BusyStep ==
  ASSUME Types, Threads, Posts, Named, Awake, Busy, ~hist.raced, Next
  PROVE  Busy'
<1> SUFFICES ASSUME up' # 0, (BegunIn(up) # {})'
             PROVE  \E q \in Procs : instOf'[q] = up' /\ todo'[q] # <<>>
  BY DEF Busy, BegunIn, Begun
<1>1. PICK d \in Calls : d \in Begun' /\ instOf'[d] = up'
  BY DEF BegunIn, Begun
<1>2. ASSUME d \in Begun, instOf[d] = up, up # 0
      PROVE  \E q \in Procs : instOf[q] = up /\ todo[q] # <<>>
  BY <1>2 DEF Busy, BegunIn
<1>3. CASE User
  <2>1. PICK f \in Files, w \in {"start", "cancel"} :
           /\ UNCHANGED <<fileOf, instOf, todo>>
           /\ Deliver(w, f) \/ UNCHANGED up
    BY <1>3, UserDoes
  <2>2. d \in Begun
    BY <1>1, <2>1 DEF Begun
  <2>3. up' = up
    <3>1. CASE Deliver(w, f)
      <4>1. instOf[d] <= made /\ made \in Nat /\ instOf[d] \in Nat
        BY Basics DEF Threads, Types
      <4> QED
        BY <1>1, <2>1, <3>1, <4>1, DeliverDoes
    <3> QED
      BY <2>1, <3>1
  <2> QED
    BY <1>1, <1>2, <2>1, <2>2, <2>3
<1>4. CASE Receive
  <2>1. /\ todo[0] = <<>> /\ Begun' = Begun /\ UNCHANGED up
        /\ \A q \in Calls : instOf'[q] = instOf[q] /\ todo'[q] = todo[q]
    BY <1>4, Receives
  <2>2. PICK q \in Procs : instOf[q] = up /\ todo[q] # <<>>
    BY <1>1, <1>2, <2>1
  <2> QED
    BY <2>1, <2>2, Basics
<1>5. CASE Enqueue
  <2>1. PICK c \in Calls :
           /\ Begun' = Begun \cup {c} /\ todo[c] = <<>> /\ Has(c, "await", {"await"})
           /\ \A q \in Procs : q # c /\ q # 0 => todo'[q] = todo[q]
           /\ instOf'[c] = instOf[0] /\ \A q \in Procs : q # c => instOf'[q] = instOf[q]
           /\ UNCHANGED up
    BY <1>5, Enqueues
  <2>2. c \in Procs /\ todo'[c] # <<>>
    BY <2>1, Basics DEF Has
  <2>3. CASE instOf'[c] = up
    BY <2>1, <2>2, <2>3
  <2>4. CASE instOf'[c] # up
    <3>1. d \in Begun /\ instOf[d] = up
      BY <1>1, <2>1, <2>4, Basics
    <3>2. PICK q \in Procs : instOf[q] = up /\ todo[q] # <<>>
      BY <1>2, <2>1, <3>1
    <3>3. q # c /\ q # 0
      BY <2>1, <2>4, <3>2
    <3> QED
      BY <2>1, <3>2, <3>3
  <2> QED
    BY <2>3, <2>4
<1>6. ASSUME NEW p \in Procs, Moves(p)
      PROVE  \E q \in Procs : instOf'[q] = up' /\ todo'[q] # <<>>
  <2>1. /\ instOf' = instOf /\ Begun' = Begun
        /\ \A q \in Procs : q # p => todo'[q] = todo[q]
    BY <1>6, MovesTurns
  <2>2. up' = up /\ (At(p, "stop") => instOf[p] # up)
    <3>1. CASE StopSelf(p)
      BY <3>1 DEF StopSelf
    <3>2. CASE ~StopSelf(p)
      BY <1>6, <3>2, ThreadedFrame, WhichStep DEF Moves
    <3> QED
      BY <3>1, <3>2
  <2>3. PICK q \in Procs : instOf[q] = up /\ todo[q] # <<>>
    BY <1>1, <1>2, <2>1, <2>2
  <2>4. CASE q # p \/ todo'[p] # <<>>
    BY <2>1, <2>2, <2>3, <2>4
  <2>5. CASE q = p /\ todo'[p] = <<>>
    <3>1. At(p, "empty?") /\ Continues(p)
      <4>1. ~\E x \in {"unlist", "drop", "complete"} : At(p, x) /\ TakesOff(p, x)
        BY <2>5 DEF TakesOff
      <4>2. ~\E x \in {"empty?", "held?", "release"}, y \in {"held?", "release", "stop"} : At(p, x) /\ Heads(p, y)
        BY <2>5 DEF Heads
      <4>3. ~(p \in Calls /\ Works(p))
        BY <2>5 DEF Works, Has
      <4>4. todo' # todo
        BY <2>3, <2>5
      <4> QED
        BY <1>6, <2>2, <2>3, <2>5, <4>1, <4>2, <4>3, <4>4, MovesGo DEF Goes
    <3>2. ~NoneActive
      <4>1. TestEmpty(p)
        BY <1>6, <3>1, WhichStep
      <4> QED
        BY <2>5, <4>1, TestEmptyDoes DEF Heads
    <3>3. PICK f \in Files, c \in Calls : active[f] = c
      BY <3>2 DEF NoneActive, Types
    <3>4. instOf[c] = up
      <4>1. Attended
        BY <3>3, Basics DEF Attended
      <4> QED
        BY <3>3, <4>1 DEF Awake
    <3>5. Working(c) \/ Owed(todo[c], "drop")
      BY <3>3 DEF Named
    <3>6. c # p
      BY <2>5, <3>1, <3>5, AtOne DEF Working, Continues
    <3>7. todo[c] # <<>>
      BY <3>5, Idle
    <3> QED
      BY <2>1, <2>2, <3>4, <3>6, <3>7, Basics
  <2> QED
    BY <2>4, <2>5
<1> QED
  BY <1>3, <1>4, <1>5, <1>6, Kinds

LEMMA LocksStep ==
  ASSUME Types, Threads, Posts, Named, Awake, Locks, Next
  PROVE  Locks'
<1> SUFFICES ASSUME ~hist'.raced PROVE (\A i \in Instances : LockOf(i)') /\ Busy'
  BY DEF Locks
<1>1. ~hist.raced
  BY HistGrows
<1>2. (\A i \in Instances : LockOf(i)) /\ Busy
  BY <1>1 DEF Locks
<1>3. ASSUME NEW i \in Instances PROVE LockOf(i)'
  BY <1>2, Kinds, LockUser, LockReceive, LockEnqueue, LockMoves
<1> QED
  BY <1>1, <1>2, <1>3, BusyStep

-----------------------------------------------------------------------------
(* Downloads one at a time *)

LEMMA AloneMoves ==
  ASSUME Types, Threads, Cancels, Named, Alone, Undisturbed, ~hist.parallel, ~hist'.raced,
         NEW p \in Procs, Moves(p)
  PROVE  /\ alive'
         /\ \A i \in Instances : wake'[i] > 0 => todo'[p] # <<>> /\ instOf[p] = i
         /\ todo'[p] # <<>> => HoldsOne(p)' \/ HasReleased(p)'
<1>1. /\ alive /\ todo[p] # <<>> /\ instOf' = instOf
      /\ HoldsOne(p) \/ HasReleased(p)
      /\ \A q \in Procs : todo[q] # <<>> => q = p
      /\ \A i \in Instances : wake[i] > 0 => instOf[p] = i
  <2>1. todo[p] # <<>> /\ instOf' = instOf
    BY MovesTurns
  <2> QED
    BY <2>1 DEF Alone
<1>2. instOf[p] \in Instances /\ instOf[p] # 0 /\ wake[instOf[p]] \in Nat
  <2>1. instOf[p] >= 1 /\ instOf[p] <= made /\ instOf[p] \in Nat /\ made \in Nat
    BY <1>1 DEF Threads, Types
  <2>2. instOf[p] \in 1..made
    BY <2>1
  <2> QED
    BY <2>1, <2>2, InstancesMade DEF Types
<1>3. ASSUME UNCHANGED <<alive, wake, up>>, todo'[p] # <<>>,
             ~At(p, "stop"), ~At(p, "stop")', At(p, "release")' => wake[instOf[p]] > 0
      PROVE  /\ alive'
             /\ \A i \in Instances : wake'[i] > 0 => todo'[p] # <<>> /\ instOf[p] = i
             /\ todo'[p] # <<>> => HoldsOne(p)' \/ HasReleased(p)'
  <2>1. CASE HoldsOne(p)
    BY <1>1, <1>3, <2>1 DEF HoldsOne
  <2>2. CASE HasReleased(p)
    BY <1>1, <1>2, <1>3, <2>2 DEF HasReleased
  <2> QED
    BY <1>1, <1>3, <2>1, <2>2
<1>4. ASSUME ~At(p, "release") PROVE UNCHANGED <<alive, wake>>
  <2>1. ~Dies(p) /\ ~Release(p)
    BY <1>4 DEF Dies, Release
  <2>2. alive' = alive
    BY <2>1, TidyTurns, CallTurns, CompleteTurns DEF Moves
  <2> QED
    BY <2>1, <2>2, ThreadedFrame DEF Moves
<1>5. ASSUME ~At(p, "stop") PROVE UNCHANGED up
  BY <1>5, ThreadedFrame DEF Moves, StopSelf
<1>6. ASSUME NEW x \in {"unlist", "drop", "complete"}, At(p, x), TakesOff(p, x)
      PROVE  todo'[p] # <<>> /\ ~At(p, "stop") /\ ~At(p, "stop")' /\ ~At(p, "release") /\ ~At(p, "release")'
  BY <1>6, AtOne DEF TakesOff
<1>7. ASSUME p \in Calls, Works(p)
      PROVE  todo'[p] # <<>> /\ ~At(p, "stop") /\ ~At(p, "stop")' /\ ~At(p, "release") /\ ~At(p, "release")'
  <2>1. ~At(p, "stop") /\ ~At(p, "release")
    BY <1>7, AtOne DEF Works, Working
  <2>2. todo'[p] # <<>> /\ ~At(p, "stop")' /\ ~At(p, "release")'
    BY <1>7 DEF Works, Has
  <2> QED
    BY <2>1, <2>2
<1>8. CASE At(p, "empty?")
  <2>1. TestEmpty(p)
    BY <1>8, WhichStep
  <2>2. ~At(p, "stop") /\ ~At(p, "release")
    BY <1>8, AtOne
  <2>3. CASE NoneActive
    <3>1. Heads(p, "held?")
      BY <2>1, <2>3, TestEmptyDoes
    <3> QED
      BY <1>3, <1>4, <1>5, <2>2, <3>1 DEF Heads
  <2>4. CASE ~NoneActive
    <3>1. Continues(p)
      BY <2>1, <2>4, TestEmptyDoes
    <3>2. PICK f \in Files, c \in Calls : active[f] = c
      BY <2>4 DEF NoneActive, Types
    <3>3. Working(c) \/ Owed(todo[c], "drop")
      BY <3>2 DEF Named
    <3>4. c = p
      BY <1>1, <3>3, Idle, Basics
    <3>5. Owed(todo[p], "drop")
      BY <1>8, <3>3, <3>4, AtOne DEF Working
    <3> QED
      BY <1>3, <1>4, <1>5, <2>2, <3>1, <3>5 DEF Continues
  <2> QED
    BY <2>3, <2>4
<1>9. CASE At(p, "held?")
  <2>1. TestHeld(p)
    BY <1>9, WhichStep
  <2>2. ~At(p, "stop") /\ ~At(p, "release")
    BY <1>9, AtOne
  <2>3. CASE wake[instOf[p]] > 0
    <3>1. Heads(p, "release")
      BY <2>1, <2>3, TestHeldDoes
    <3> QED
      BY <1>3, <1>4, <1>5, <2>2, <2>3, <3>1 DEF Heads
  <2>4. CASE ~(wake[instOf[p]] > 0)
    <3>1. Heads(p, "stop")
      BY <2>1, <2>4, TestHeldDoes
    <3>2. UNCHANGED <<alive, wake, up>>
      BY <1>4, <1>5, <2>2
    <3>3. wake[instOf[p]] = 0
      BY <1>2, <2>4
    <3>4. HasReleased(p)'
      BY <1>1, <3>1, <3>2, <3>3 DEF Heads, HasReleased
    <3> QED
      BY <1>1, <3>1, <3>2, <3>4 DEF Heads
  <2> QED
    BY <2>3, <2>4
<1>10. CASE At(p, "release")
  <2>1. HoldsOne(p)
    BY <1>1, <1>10 DEF HasReleased
  <2>2. wake[instOf[p]] = 1
    BY <2>1 DEF HoldsOne
  <2>3. /\ Heads(p, "stop") /\ UNCHANGED alive
        /\ wake' = [wake EXCEPT ![instOf[p]] = @ - 1]
    <3>1. Release(p)
      BY <1>10, WhichStep
    <3>2. wake[instOf[p]] > 0 /\ ~(wake[instOf[p]] <= 0 \/ instOf[p] \notin Instances)
      BY <1>2, <2>2
    <3> QED
      BY <3>1, <3>2, ReleaseDoes
  <2>4. wake'[instOf[p]] = 0 /\ \A i \in Instances : i # instOf[p] => wake'[i] = wake[i]
    BY <1>2, <2>2, <2>3 DEF Types
  <2>5. HasReleased(p)'
    BY <1>1, <2>3, <2>4 DEF Heads, HasReleased
  <2> QED
    BY <1>1, <2>3, <2>4, <2>5
<1>11. CASE At(p, "stop")
  <2>1. HasReleased(p)
    BY <1>1, <1>11 DEF HoldsOne
  <2>2. StopSelf(p) /\ Continues(p)
    BY <1>11, WhichStep, StopSelfDoes
  <2>3. UNCHANGED <<alive, wake>> /\ wake[instOf[p]] = 0
    BY <1>4, <1>11, <2>1, AtOne DEF HasReleased
  <2>4. instOf[p] # up'
    BY <1>2, <2>2 DEF StopSelf
  <2>5. HasReleased(p)'
    BY <1>1, <2>2, <2>3, <2>4 DEF Continues, HasReleased
  <2>6. \A i \in Instances : ~(wake'[i] > 0)
    BY <1>1, <2>3
  <2> QED
    BY <1>1, <2>3, <2>5, <2>6
<1> QED
  BY <1>3, <1>4, <1>5, <1>6, <1>7, <1>8, <1>9, <1>10, <1>11, MovesGo DEF Goes

LEMMA AloneStep ==
  ASSUME Types, Threads, Posts, Cancels, Named, Alone, Next
  PROVE  Alone'
<1> SUFFICES ASSUME Undisturbed', ~hist'.parallel
             PROVE  /\ alive'
                    /\ \A p, q \in Procs : todo'[p] # <<>> /\ todo'[q] # <<>> => p = q
                    /\ \A i \in Instances : wake'[i] > 0 => \E p \in Procs : todo'[p] # <<>> /\ instOf'[p] = i
                    /\ \A p \in Procs : todo'[p] # <<>> => HoldsOne(p)' \/ HasReleased(p)'
                    /\ At(0, "enqueue")' => HoldsOne(0)'
  BY DEF Alone
<1>0. Undisturbed /\ ~hist.parallel /\ ~hist'.raced /\ hist.cancelled = {} /\ hist'.cancelled = {}
  BY HistGrows DEF Undisturbed
<1>1. /\ alive
      /\ \A p, q \in Procs : todo[p] # <<>> /\ todo[q] # <<>> => p = q
      /\ \A i \in Instances : wake[i] > 0 => \E p \in Procs : todo[p] # <<>> /\ instOf[p] = i
      /\ \A p \in Procs : todo[p] # <<>> => HoldsOne(p) \/ HasReleased(p)
      /\ At(0, "enqueue") => HoldsOne(0)
  BY <1>0 DEF Alone
<1>2. CASE User
  <2>1. PICK f \in Files, w \in {"start", "cancel"} :
           /\ UNCHANGED <<wake, instOf, todo, alive>> /\ todo[0] = <<>>
           /\ Deliver(w, f) \/ UNCHANGED up
    BY <1>2, UserDoes
  <2>2. up' = up \/ (up = 0 /\ up' = made + 1)
    BY <2>1, DeliverDoes
  <2>3. \A p, x : At(p, x)' <=> At(p, x)
    BY <2>1, Same
  <2>4. ASSUME NEW p \in Procs, todo[p] # <<>> PROVE HoldsOne(p)' \/ HasReleased(p)'
    <3>1. instOf[p] # 0 /\ instOf[p] # made + 1
      <4>1. instOf[p] >= 1 /\ instOf[p] <= made /\ instOf[p] \in Nat /\ made \in Nat
        BY <2>4 DEF Threads, Types
      <4> QED
        BY <4>1
    <3>2. CASE HoldsOne(p)
      BY <2>1, <2>2, <2>3, <3>1, <3>2 DEF HoldsOne
    <3>3. CASE HasReleased(p)
      BY <2>1, <2>2, <2>3, <3>1, <3>3 DEF HasReleased
    <3> QED
      BY <1>1, <2>4, <3>2, <3>3
  <2>5. ~At(0, "enqueue")'
    BY <2>1, AtOne
  <2> QED
    BY <1>1, <2>1, <2>4, <2>5
<1>3. CASE Receive
  <2>1. PICK m \in Messages :
           /\ m = inbox[1] /\ 1 \in DOMAIN inbox /\ m.inst \in 1..made /\ todo[0] = <<>>
           /\ \A q \in Calls : instOf'[q] = instOf[q] /\ todo'[q] = todo[q]
           /\ instOf'[0] = m.inst
           /\ UNCHANGED <<up, alive>>
           /\ Begins(m) \/ CancelsNow(m) \/ JustTakes(m)
    BY <1>3, Receives
  <2>2. m.inst \in Instances
    BY <2>1, InstancesMade
  <2>3. CASE Begins(m)
    <3>1. /\ m.what = "start" /\ Has(0, "enqueue", {"enqueue"}) /\ ~Stopping
          /\ wake' = [wake EXCEPT ![m.inst] = @ + 1]
          /\ ~\E c \in Calls : Live(c)
      BY <1>0, <2>3 DEF Begins
    <3>2. m.inst = up
      BY <2>1, <3>1, StoppingIs DEF Posts
    <3>3. \A c \in Calls : todo[c] = <<>>
      BY <3>1, Basics DEF Live, Begun, Threads
    <3>4. \A p \in Procs : todo[p] = <<>>
      BY <2>1, <3>3, Basics
    <3>5. \A i \in Instances : wake[i] = 0
      <4>1. \A i \in Instances : ~(wake[i] > 0) /\ wake[i] \in Nat
        BY <1>1, <3>4 DEF Types
      <4> QED
        BY <4>1
    <3>6. /\ wake'[up] = 1 /\ \A i \in Instances : i # up => wake'[i] = 0
      BY <2>2, <3>1, <3>2, <3>5 DEF Types
    <3>7. /\ todo'[0] # <<>> /\ At(0, "enqueue")' /\ ~At(0, "stop")'
          /\ \A p \in Procs : todo'[p] # <<>> => p = 0
      BY <2>1, <3>1, <3>3, Basics DEF Has
    <3>8. HoldsOne(0)'
      BY <2>1, <3>2, <3>6, <3>7 DEF HoldsOne
    <3>9. \A i \in Instances : wake'[i] > 0 => i = up
      BY <3>6
    <3> QED
      BY <1>1, <2>1, <3>2, <3>7, <3>8, <3>9, Basics
  <2>4. ~CancelsNow(m)
    BY <1>0 DEF CancelsNow
  <2>5. CASE JustTakes(m)
    <3>1. todo'[0] = <<>> /\ ~At(0, "enqueue")'
      BY <2>5, AtOne DEF JustTakes
    <3>2. wake' = wake
      <4>1. CASE m.what = "destroy" /\ wake[m.inst] > 0
        <5>1. PICK p \in Procs : todo[p] # <<>> /\ instOf[p] = m.inst
          BY <1>1, <2>2, <4>1
        <5>2. m.inst # up
          BY <2>1, <4>1 DEF Posts
        <5>3. wake[m.inst] = 0
          BY <1>1, <5>1, <5>2 DEF HoldsOne, HasReleased
        <5> QED
          BY <4>1, <5>3
      <4>2. CASE ~(m.what = "destroy" /\ wake[m.inst] > 0)
        BY <2>5, <4>2 DEF JustTakes
      <4> QED
        BY <4>1, <4>2
    <3>3. ASSUME NEW p \in Procs, todo'[p] # <<>> PROVE HoldsOne(p)' \/ HasReleased(p)'
      <4>1. p \in Calls /\ todo'[p] = todo[p] /\ instOf'[p] = instOf[p]
        BY <2>1, <3>1, <3>3, Basics
      <4>2. \A x : At(p, x)' <=> At(p, x)
        BY <4>1, Same
      <4>3. HoldsOne(p) \/ HasReleased(p)
        BY <1>1, <3>3, <4>1
      <4> QED
        BY <2>1, <3>2, <4>1, <4>2, <4>3 DEF HoldsOne, HasReleased
    <3>4. \A p \in Procs : todo'[p] # <<>> => todo[p] # <<>> /\ p \in Calls
      BY <2>1, <3>1, Basics
    <3>5. \A p \in Procs : todo[p] # <<>> => todo'[p] # <<>> /\ instOf'[p] = instOf[p]
      BY <2>1, Basics
    <3> QED
      BY <1>1, <2>1, <3>1, <3>2, <3>3, <3>4, <3>5
  <2> QED
    BY <2>1, <2>3, <2>4, <2>5
<1>4. CASE Enqueue
  <2>1. PICK c \in Calls :
           /\ At(0, "enqueue") /\ todo'[0] = <<>> /\ Has(c, "await", {"await"})
           /\ \A q \in Procs : q # c /\ q # 0 => todo'[q] = todo[q]
           /\ instOf'[c] = instOf[0]
           /\ UNCHANGED <<wake, up, alive>>
    BY <1>4, Enqueues
  <2>2. /\ todo'[c] # <<>> /\ ~At(c, "stop")' /\ c \in Procs
        /\ \A q \in Procs : todo'[q] # <<>> => q = c
    <3>1. \A q \in Procs : q # 0 => todo[q] = <<>>
      BY <1>1, <2>1, AtOne, Basics
    <3> QED
      BY <2>1, <3>1, Basics DEF Has
  <2>3. HoldsOne(c)'
    BY <1>1, <2>1, <2>2 DEF HoldsOne
  <2>4. \A i \in Instances : wake'[i] > 0 => instOf'[c] = i
    <3>1. \A q \in Procs : todo[q] # <<>> => q = 0
      BY <1>1, <2>1, AtOne, Basics
    <3> QED
      BY <1>1, <2>1, <3>1
  <2>5. ~At(0, "enqueue")'
    BY <2>1, AtOne
  <2> QED
    BY <1>1, <2>1, <2>2, <2>3, <2>4, <2>5
<1>5. ASSUME NEW p \in Procs, Moves(p)
      PROVE  /\ alive'
             /\ \A q, r \in Procs : todo'[q] # <<>> /\ todo'[r] # <<>> => q = r
             /\ \A i \in Instances : wake'[i] > 0 => \E q \in Procs : todo'[q] # <<>> /\ instOf'[q] = i
             /\ \A q \in Procs : todo'[q] # <<>> => HoldsOne(q)' \/ HasReleased(q)'
             /\ At(0, "enqueue")' => HoldsOne(0)'
  <2>1. /\ todo[p] # <<>> /\ instOf' = instOf
        /\ \A q \in Procs : todo'[q] # <<>> => todo[q] # <<>>
        /\ At(0, "enqueue")' => At(0, "enqueue")
    BY <1>5, MovesTurns, Basics
  <2>2. \A q \in Procs : todo'[q] # <<>> => q = p
    BY <1>1, <2>1
  <2>3. /\ alive'
        /\ \A i \in Instances : wake'[i] > 0 => todo'[p] # <<>> /\ instOf[p] = i
        /\ todo'[p] # <<>> => HoldsOne(p)' \/ HasReleased(p)'
    BY <1>0, <1>5, AloneMoves
  <2>4. ~At(0, "enqueue")'
    <3>1. p # 0
      BY <1>0, <1>5, CallMoves, Basics
    <3> QED
      BY <1>1, <2>1, <3>1, AtOne, Basics
  <2> QED
    BY <2>1, <2>2, <2>3, <2>4
<1> QED
  BY <1>2, <1>3, <1>4, <1>5, Kinds

-----------------------------------------------------------------------------
(* The invariant holds *)

LEMMA NoneStopping ==
  ASSUME \A p \in Procs : todo[p] = <<>>, inbox = <<>>
  PROVE  ~Stopping
  BY StoppingIs, AtOne

LEMMA InitDown == Init => DownInv
<1> SUFFICES ASSUME Init PROVE DownInv
  OBVIOUS
<1>1. /\ ongoing = {} /\ active = [f \in Files |-> None]
      /\ dest \in [Files -> {"absent", "partial", "whole"}]
      /\ todo = [p \in Procs |-> <<>>] /\ fileOf = [p \in Procs |-> None]
      /\ instOf = [p \in Procs |-> 0]
      /\ canceled = [c \in Calls |-> FALSE] /\ cut = [c \in Calls |-> FALSE]
      /\ inbox = <<>> /\ up = 0 /\ made = 0 /\ wake = [i \in Instances |-> 0]
      /\ starts = 0 /\ taps = 0 /\ alive = TRUE
      /\ hist = [cancelled |-> {}, deleted |-> {}, overlap |-> {},
                 parallel |-> FALSE, raced |-> FALSE]
  BY DEF Init
<1>2. <<>> \in Paths
  BY DEF Paths
<1>3. Types
  BY <1>1, <1>2, Basics DEF Types, Histories
<1>4. \A p \in Procs : todo[p] = <<>> /\ fileOf[p] = None /\ instOf[p] = 0
  BY <1>1
<1>5. /\ \A p \in Procs : ~Working(p) /\ ~Asks(p)
      /\ \A p \in Procs : \A x : ~At(p, x) /\ ~Owed(todo[p], x)
  BY <1>4, Idle
<1>6. /\ Begun = {} /\ \A i : BegunIn(i) = {}
  BY <1>4, Basics DEF Begun, BegunIn
<1>7. /\ \A f \in Files, c \in Calls : active[f] # c
      /\ ~Attended
  BY <1>1, <1>5, Basics DEF Attended
<1>8. Threads
  <2>1. Begun = 1..0 /\ 0 \in 0..MaxCalls
    BY <1>6, Basics
  <2> QED
    BY <1>1, <1>4, <1>5, <1>6, <2>1, Basics DEF Threads
<1>9. Posts /\ Named /\ Cancels
  BY <1>1, <1>4, <1>5, <1>7, Basics DEF Posts, Named, Cancels
<1>10. OneWorker /\ Untouched /\ WholeAtEnd
  BY <1>1, <1>4, <1>5, Basics DEF OneWorker, Untouched, WholeAtEnd
<1>11. Awake /\ Listed /\ Removed /\ StopComes
  BY <1>1, <1>4, <1>5, <1>7, Basics DEF Awake, Listed, Removed, StopComes
<1>12. Locks
  <2>1. ASSUME NEW i \in Instances PROVE LockOf(i)
    <3>1. wake[i] = 0 /\ Acquired(i) \in Nat
      BY <1>1, FewCalls
    <3> QED
      BY <3>1 DEF LockOf
  <2> QED
    BY <1>1, <2>1 DEF Locks, Busy
<1>13. Alone
  <2>1. \A i \in Instances : ~(wake[i] > 0)
    BY <1>1
  <2> QED
    BY <1>1, <1>4, <1>5, <2>1, Basics DEF Alone
<1> QED
  BY <1>3, <1>8, <1>9, <1>10, <1>11, <1>12, <1>13 DEF DownInv

LEMMA DownStep ==
  ASSUME DownInv, Next
  PROVE  DownInv'
<1>1. Types' /\ Threads' /\ Posts' /\ Named' /\ Cancels' /\ OneWorker'
  BY TypesStep, ThreadsStep, PostsStep, NamedStep, CancelsStep, OneWorkerStep DEF DownInv
<1>2. Untouched' /\ WholeAtEnd' /\ Awake' /\ Listed' /\ Removed'
  BY UntouchedStep, WholeAtEndStep, AwakeStep, ListedStep, RemovedStep DEF DownInv
<1>3. StopComes' /\ Locks' /\ Alone'
  BY StopComesStep, LocksStep, AloneStep DEF DownInv
<1> QED
  BY <1>1, <1>2, <1>3 DEF DownInv

LEMMA DownStutters ==
  ASSUME DownInv, UNCHANGED vars
  PROVE  DownInv'
<1>1. UNCHANGED <<ongoing, active, wake, dest, canceled, cut, inbox, up, made, fileOf, instOf,
                  starts, taps, todo, alive, hist>>
  BY DEF vars, shared, streams, system, thread, ui
<1>2. Begun' = Begun /\ Shared' = Shared /\ (Undisturbed' <=> Undisturbed)
  BY <1>1 DEF Begun, Shared, Undisturbed
<1>3. /\ \A p, x : At(p, x)' <=> At(p, x)
      /\ \A p : Working(p)' <=> Working(p)
      /\ \A p : Asks(p)' <=> Asks(p)
  BY <1>1, Same
<1>4. (Stopping' <=> Stopping) /\ (Attended' <=> Attended)
  BY <1>1, <1>3 DEF Stopping, Attended
<1>5. \A i : LockOf(i) => LockOf(i)'
  <2>1. ASSUME NEW i, LockOf(i) PROVE LockOf(i)'
    <3>1. Acquired(i)' = Acquired(i)
      BY <1>1, <1>2, <1>3, AcquiredNow
    <3>2. (Going(i)' <=> Going(i)) /\ (Down(i)' <=> Down(i)) /\ (Gone(i)' <=> Gone(i))
      BY <1>1, <1>3 DEF Going, Down, Gone
    <3> QED
      BY <1>1, <2>1, <3>1, <3>2, LockFrame
  <2> QED
    BY <2>1
<1>6. Types' /\ Posts'
  BY <1>1 DEF DownInv, Types, Posts
<1>7. Threads' /\ Named' /\ Cancels'
  BY <1>1, <1>2, <1>3 DEF DownInv, Threads, Named, Cancels
<1>8. OneWorker' /\ Untouched' /\ WholeAtEnd'
  BY <1>1, <1>2, <1>3 DEF DownInv, OneWorker, Untouched, WholeAtEnd
<1>9. Awake' /\ Listed'
  BY <1>1, <1>2, <1>3, <1>4 DEF DownInv, Awake, Listed
<1>10. Removed' /\ StopComes'
  BY <1>1, <1>2, <1>3, <1>4 DEF DownInv, Removed, StopComes
<1>11. Locks'
  <2>1. Busy => Busy'
    BY <1>1, <1>2 DEF Busy, BegunIn
  <2> QED
    BY <1>1, <1>5, <2>1 DEF DownInv, Locks
<1>12. Alone'
  <2>1. \A p : (HoldsOne(p)' <=> HoldsOne(p)) /\ (HasReleased(p)' <=> HasReleased(p))
    BY <1>1, <1>3 DEF HoldsOne, HasReleased
  <2> QED
    BY <1>1, <1>2, <1>3, <2>1 DEF DownInv, Alone
<1> QED
  BY <1>6, <1>7, <1>8, <1>9, <1>10, <1>11, <1>12 DEF DownInv

\* The invariant above holds of every run of the service: who works for which
\* file and instance, what the maps name, what the lock is owed.
THEOREM DownInvariant == Spec => []DownInv
<1>1. DownInv /\ [Next]_vars => DownInv'
  BY DownStep, DownStutters
<1> QED
  BY InitDown, <1>1, PTL DEF Spec

-----------------------------------------------------------------------------
(* What the service promises *)

\* A download is reported complete only when its file is whole, whatever the
\* callbacks, the cancels and the deletes of other files do in between.
THEOREM CompletedWhole == Spec => []CompleteIsWhole
<1>1. DownInv => CompleteIsWhole
  BY DEF DownInv, CompleteIsWhole, WholeAtEnd, Shared
<1> QED
  BY <1>1, DownInvariant, PTL

\* The instance a call runs in is up and holds its wake lock as long as
\* activeCalls names the call, unless a download was begun during a stop.
THEOREM AwakeThroughout == Spec => []AwakeWhileActive
<1>1. DownInv => AwakeWhileActive
  <2> SUFFICES ASSUME DownInv, ~hist.raced, NEW f \in Files, active[f] # None
               PROVE  wake[instOf[active[f]]] > 0 /\ up = instOf[active[f]]
    BY DEF AwakeWhileActive
  <2>1. PICK c \in Calls : active[f] = c
    BY DEF DownInv, Types
  <2>2. Attended
    BY DEF Attended
  <2> QED
    BY <2>1, <2>2 DEF DownInv, Awake
<1> QED
  BY <1>1, DownInvariant, PTL

\* At rest nobody is left who would call stopSelf, and the service is down.
THEOREM IdleStops == Spec => []StopsWhenIdle
<1>1. DownInv => StopsWhenIdle
  <2> SUFFICES ASSUME DownInv, Quiet, Undisturbed, up # 0 PROVE FALSE
    BY DEF StopsWhenIdle
  <2>1. inbox = <<>> /\ \A p \in Procs : todo[p] = <<>>
    BY DEF Quiet
  <2>2. ~\E f \in Files : active[f] # None
    <3> SUFFICES ASSUME NEW f \in Files, active[f] # None PROVE FALSE
      OBVIOUS
    <3>1. PICK c \in Calls : active[f] = c
      BY DEF DownInv, Types
    <3>2. Working(c) \/ Owed(todo[c], "drop")
      BY <3>1 DEF DownInv, Named
    <3> QED
      BY <2>1, <3>2, Idle, Basics
  <2>3. ~Attended
    BY <2>1, <2>2, AtOne, Basics DEF Attended
  <2>4. \A p \in Procs : ~Asks(p)
    BY <2>1, Idle
  <2> QED
    BY <2>1, <2>3, <2>4 DEF DownInv, StopComes, Quiet
<1> QED
  BY <1>1, DownInvariant, PTL

\* At rest an instance that began at most two downloads holds no wake lock: one
\* release came before stopSelf, the other with onDestroy.
THEOREM LockGivenBack == Spec => []LockFreed
<1>1. DownInv => LockFreed
  <2> SUFFICES ASSUME DownInv, Quiet, ~hist.raced,
                      NEW i \in Instances, Cardinality(BegunIn(i)) <= 2
               PROVE  wake[i] = 0
    BY DEF LockFreed
  <2>1. inbox = <<>> /\ \A p \in Procs : todo[p] = <<>>
    BY DEF Quiet
  <2>2. LockOf(i) /\ Busy
    BY DEF DownInv, Locks
  <2>3. Acquired(i) = Cardinality(BegunIn(i)) + 0 /\ Cardinality(BegunIn(i)) \in Nat
    <3>1. ~At(0, "enqueue")
      BY <2>1, AtOne, Basics
    <3> QED
      BY <3>1, FewCalls DEF Acquired
  <2>4. wake[i] \in Nat /\ i \in Nat /\ up \in Nat /\ made \in Nat
    BY Basics DEF DownInv, Types
  <2>5. ASSUME BegunIn(i) = {} PROVE wake[i] = 0
    <3>1. Cardinality(BegunIn(i)) = 0
      BY <2>5, FS_EmptySet
    <3> QED
      BY <2>2, <2>3, <2>4, <3>1 DEF LockOf
  <2>6. CASE i = up
    <3>1. BegunIn(i) = {}
      BY <2>1, <2>2, <2>6, Basics DEF Busy
    <3> QED
      BY <2>5, <3>1
  <2>7. CASE i # up /\ i <= made
    <3>1. Gone(i)
      BY <2>1, <2>7 DEF Gone, Down
    <3> QED
      BY <2>2, <2>3, <2>4, <3>1 DEF LockOf
  <2>8. CASE i > made
    <3>1. \A c \in Calls : instOf[c] <= made /\ instOf[c] \in Nat
      BY Basics DEF DownInv, Threads, Types
    <3>2. BegunIn(i) = {}
      BY <2>4, <2>8, <3>1 DEF BegunIn, Begun
    <3> QED
      BY <2>5, <3>2
  <2> QED
    BY <2>4, <2>6, <2>7, <2>8
<1> QED
  BY <1>1, DownInvariant, PTL

\* Downloads one after the other never release a lock nobody holds, which would
\* take the process down with them.
THEOREM NeverUnder == Spec => []NeverUnderLocked
<1>1. DownInv => NeverUnderLocked
  BY DEF DownInv, Alone, NeverUnderLocked
<1> QED
  BY <1>1, DownInvariant, PTL

\* At rest every progress entry is of a file of which a download was cancelled:
\* each of the others had a thread that was bound to remove it.
THEOREM EntriesGone == Spec => []EntriesCleared
<1>1. DownInv => EntriesCleared
  <2> SUFFICES ASSUME DownInv, Quiet, NEW f \in ongoing, f \notin hist.cancelled PROVE FALSE
    BY DEF EntriesCleared
  <2>1. \A p \in Procs : todo[p] = <<>>
    BY DEF Quiet
  <2>2. \/ At(0, "enqueue")
        \/ \E c \in Calls : Working(c) \/ Owed(todo[c], "unlist") \/ Owed(todo[c], "complete")
    BY DEF DownInv, Removed
  <2> QED
    BY <2>1, <2>2, Idle, Basics
<1> QED
  BY <1>1, DownInvariant, PTL
=============================================================================
