---------------------------- MODULE TokenText_proofs ----------------------------
(***************************************************************************)
(* What is_valid_utf8 accepts, and what an answer has handed on, for strings *)
(* of any length and any answers.  The scan is a recursive function; that it *)
(* computes the definition of a well formed string is shown from the last    *)
(* place where the two would differ.                                         *)
(***************************************************************************)
EXTENDS TokenText, FiniteSetTheorems, SequenceTheorems, WellFoundedInduction, TLAPS

\* A set of naturals has a least one.
LEMMA Least ==
  ASSUME NEW S, S \subseteq Nat, S # {}
  PROVE  \E n \in S : \A m \in S : n <= m
<1> DEFINE R == OpToRel(<, Nat)
<1>1. IsWellFoundedOn(R, Nat)
  BY NatLessThanWellFounded
<1>2. \A m, n \in Nat : m < n => <<m, n>> \in R
  BY DEF OpToRel
<1> HIDE DEF R
<1>3. PICK n \in S : \A m \in S : ~(<<m, n>> \in R)
  BY <1>1, WFMin
<1>4. \A m \in S : ~(m < n)
  BY <1>2, <1>3
<1> QED
  BY <1>3, <1>4

\* One of numbers up to b has a greatest.
LEMMA Greatest ==
  ASSUME NEW b \in Nat, NEW S, S \subseteq 0..b, S # {}
  PROVE  \E n \in S : \A m \in S : m <= n
<1> DEFINE T == {b - m : m \in S}
<1>1. T \subseteq Nat /\ T # {}
  <2>1. \A m \in S : b - m \in Nat
    OBVIOUS
  <2> QED
    BY <2>1
<1>2. PICK t \in T : \A m \in T : t <= m
  BY <1>1, Least
<1>3. PICK n \in S : t = b - n
  BY <1>2
<1>4. \A m \in S : m <= n
  <2> TAKE m \in S
  <2>1. t <= b - m
    BY <1>2
  <2> QED
    BY <1>3, <2>1
<1> QED
  BY <1>4

-----------------------------------------------------------------------------
(* The bytes *)

LEMMA LeadsFacts ==
  /\ DOMAIN Leads = 1..4
  /\ \A n \in 1..4 : Leads[n] # "cont" /\ Leads[n] # "nul" /\ Leads[n] # "other"
  /\ \A m, n \in 1..4 : Leads[m] = Leads[n] => m = n
<1>1. Leads = <<"ascii", "lead2", "lead3", "lead4">>
  BY DEF Leads
<1>2. DOMAIN Leads = 1..4 /\ Leads[1] = "ascii" /\ Leads[2] = "lead2" /\ Leads[3] = "lead3" /\ Leads[4] = "lead4"
  BY <1>1
<1> QED
  BY <1>2

\* Two characters that share a byte are one.
LEMMA OneCharacter ==
  ASSUME NEW s, Len(s) \in Nat, NEW i \in 1..Len(s), NEW j \in 1..Len(s), NEW m \in 1..4, NEW n \in 1..4,
         CharacterAt(s, i, m), CharacterAt(s, j, n),
         NEW k \in 1..Len(s), i <= k, k < i + m, j <= k, k < j + n
  PROVE  i = j /\ m = n
<1>1. ~(i < j)
  <2> SUFFICES ASSUME i < j PROVE FALSE
    OBVIOUS
  <2>1. s[j] = "cont"
    BY DEF CharacterAt
  <2> QED
    BY <2>1, LeadsFacts DEF CharacterAt
<1>2. ~(j < i)
  <2> SUFFICES ASSUME j < i PROVE FALSE
    OBVIOUS
  <2>1. s[i] = "cont"
    BY DEF CharacterAt
  <2> QED
    BY <2>1, LeadsFacts DEF CharacterAt
<1>3. i = j
  BY <1>1, <1>2
<1> QED
  BY <1>3, LeadsFacts DEF CharacterAt

-----------------------------------------------------------------------------
(* The scan *)

\* What the scan asks at i: a NUL or the end, or a character and what follows it.
Ends(s, i) == i > Len(s) \/ s[i] = "nul"
Step(s, i, n) == s[i] = Leads[n] /\ Continued(s, i, n)

\* From i to e every byte is one of a character's that begins there.
Covered(s, i, e) == \A k \in i..(e - 1) : \E j \in i..k, n \in 1..4 :
                      k < j + n /\ j + n <= e /\ CharacterAt(s, j, n)

\* Whole characters from i to a NUL or to the end.
Whole(s, i) == \E e \in 1..(Len(s) + 1) : i <= e /\ (e = Len(s) + 1 \/ s[e] = "nul") /\ Covered(s, i, e)

LEMMA StepIsCharacter ==
  ASSUME NEW s \in Seq(Bytes), NEW i \in 1..Len(s), NEW n \in 1..4
  PROVE  Step(s, i, n) <=> CharacterAt(s, i, n)
<1>1. DOMAIN s = 1..Len(s) /\ Len(s) \in Nat
  OBVIOUS
<1>2. CASE n = 1
  BY <1>1, <1>2 DEF Step, Continued, CharacterAt
<1>3. CASE n > 1
  <2>1. ASSUME Step(s, i, n) PROVE CharacterAt(s, i, n)
    <3>1. i + n - 1 \in (i + 1)..(i + n - 1)
      BY <1>1, <1>3
    <3>2. i + n - 1 \in DOMAIN s
      BY <2>1, <3>1 DEF Step, Continued
    <3> QED
      BY <1>1, <2>1, <3>2 DEF Step, Continued, CharacterAt
  <2>2. ASSUME CharacterAt(s, i, n) PROVE Step(s, i, n)
    BY <1>1, <2>2 DEF Step, Continued, CharacterAt
  <2> QED
    BY <2>1, <2>2
<1> QED
  BY <1>2, <1>3

\* Whole obeys the equation of the scan.
LEMMA WholeStep ==
  ASSUME NEW s \in Seq(Bytes), NEW i \in 1..Len(s)
  PROVE  Whole(s, i) <=> \/ s[i] = "nul"
                         \/ \E n \in 1..4 : CharacterAt(s, i, n) /\ Whole(s, i + n)
<1>0. Len(s) \in Nat
  OBVIOUS
<1>1. ASSUME s[i] = "nul" PROVE Whole(s, i)
  <2>1. Covered(s, i, i)
    BY DEF Covered
  <2> QED
    BY <1>0, <1>1, <2>1 DEF Whole
<1>2. ASSUME NEW n \in 1..4, CharacterAt(s, i, n), Whole(s, i + n) PROVE Whole(s, i)
  <2>1. PICK e \in 1..(Len(s) + 1) : i + n <= e /\ (e = Len(s) + 1 \/ s[e] = "nul") /\ Covered(s, i + n, e)
    BY <1>2 DEF Whole
  <2>2. Covered(s, i, e)
    <3> SUFFICES ASSUME NEW k \in i..(e - 1)
                 PROVE  \E j \in i..k, m \in 1..4 : k < j + m /\ j + m <= e /\ CharacterAt(s, j, m)
      BY DEF Covered
    <3>1. CASE k < i + n
      BY <1>0, <1>2, <2>1, <3>1
    <3>2. CASE k >= i + n
      <4>1. k \in (i + n)..(e - 1)
        BY <1>0, <3>2
      <4>2. PICK j \in (i + n)..k, m \in 1..4 : k < j + m /\ j + m <= e /\ CharacterAt(s, j, m)
        BY <2>1, <4>1 DEF Covered
      <4>3. j \in i..k
        BY <1>0, <4>2
      <4> QED
        BY <4>2, <4>3
    <3> QED
      BY <1>0, <3>1, <3>2
  <2> QED
    BY <1>0, <2>1, <2>2 DEF Whole
<1>3. ASSUME Whole(s, i), s[i] # "nul"
      PROVE  \E n \in 1..4 : CharacterAt(s, i, n) /\ Whole(s, i + n)
  <2>1. PICK e \in 1..(Len(s) + 1) : i <= e /\ (e = Len(s) + 1 \/ s[e] = "nul") /\ Covered(s, i, e)
    BY <1>3 DEF Whole
  <2>2. i < e /\ i \in i..(e - 1)
    BY <1>0, <1>3, <2>1
  <2>3. PICK j \in i..i, n \in 1..4 : i < j + n /\ j + n <= e /\ CharacterAt(s, j, n)
    BY <2>1, <2>2 DEF Covered
  <2>4. CharacterAt(s, i, n) /\ i + n <= e
    BY <2>3
  <2>5. Covered(s, i + n, e)
    <3> SUFFICES ASSUME NEW k \in (i + n)..(e - 1)
                 PROVE  \E l \in (i + n)..k, m \in 1..4 : k < l + m /\ l + m <= e /\ CharacterAt(s, l, m)
      BY DEF Covered
    <3>1. k \in i..(e - 1) /\ k \in 1..Len(s)
      BY <1>0
    <3>2. PICK l \in i..k, m \in 1..4 : k < l + m /\ l + m <= e /\ CharacterAt(s, l, m)
      BY <2>1, <3>1 DEF Covered
    <3>3. l >= i + n
      <4> SUFFICES ASSUME l < i + n PROVE FALSE
        BY <1>0
      <4>1. l \in 1..Len(s)
        BY <1>0, <3>1
      <4>2. l = i /\ m = n
        BY <1>0, <2>4, <3>2, <4>1, OneCharacter
      <4> QED
        BY <1>0, <3>2, <4>2
    <3> QED
      BY <1>0, <3>2, <3>3
  <2>6. Whole(s, i + n)
    BY <1>0, <2>1, <2>4, <2>5 DEF Whole
  <2> QED
    BY <2>4, <2>6
<1> QED
  BY <1>1, <1>2, <1>3

\* The equation the scan's function obeys.
Scans(f, s) == f = [i \in 1..(Len(s) + 4) |->
                 \/ i > Len(s)
                 \/ s[i] = "nul"
                 \/ \E n \in DOMAIN Leads : s[i] = Leads[n] /\ Continued(s, i, n) /\ f[i + n]]

\* There is such a function.
LEMMA ScanExists ==
  ASSUME NEW s \in Seq(Bytes)
  PROVE  \E f : Scans(f, s)
<1> DEFINE g == [i \in 1..(Len(s) + 4) |-> i > Len(s) \/ Whole(s, i)]
<1>0. Len(s) \in Nat
  OBVIOUS
<1>1. ASSUME NEW i \in 1..(Len(s) + 4)
      PROVE  (i > Len(s) \/ Whole(s, i))
             <=> \/ i > Len(s)
                 \/ s[i] = "nul"
                 \/ \E n \in DOMAIN Leads : s[i] = Leads[n] /\ Continued(s, i, n) /\ g[i + n]
  <2>1. CASE i > Len(s)
    BY <2>1
  <2>2. CASE i <= Len(s)
    <3>1. i \in 1..Len(s)
      BY <1>0, <2>2
    <3>2. ASSUME NEW n \in 1..4
          PROVE  (s[i] = Leads[n] /\ Continued(s, i, n) /\ g[i + n]) <=> (CharacterAt(s, i, n) /\ Whole(s, i + n))
      <4>1. (s[i] = Leads[n] /\ Continued(s, i, n)) <=> CharacterAt(s, i, n)
        BY <3>1, StepIsCharacter DEF Step
      <4>2. ASSUME CharacterAt(s, i, n) PROVE g[i + n] <=> Whole(s, i + n)
        <5>1. i + n \in 1..(Len(s) + 4) /\ i + n <= Len(s) + 1
          BY <1>0, <3>1, <4>2 DEF CharacterAt
        <5>2. g[i + n] <=> (i + n > Len(s) \/ Whole(s, i + n))
          BY <5>1
        <5>3. CASE i + n > Len(s)
          <6>1. i + n = Len(s) + 1
            BY <1>0, <5>1, <5>3
          <6>2. Covered(s, i + n, Len(s) + 1)
            BY <1>0, <6>1 DEF Covered
          <6>3. Whole(s, i + n)
            BY <1>0, <6>1, <6>2 DEF Whole
          <6> QED
            BY <5>2, <6>3
        <5>4. CASE ~(i + n > Len(s))
          BY <5>2, <5>4
        <5> QED
          BY <5>3, <5>4
      <4> QED
        BY <4>1, <4>2
    <3>3. Whole(s, i) <=> \/ s[i] = "nul"
                          \/ \E n \in 1..4 : CharacterAt(s, i, n) /\ Whole(s, i + n)
      BY <3>1, WholeStep
    <3>4. DOMAIN Leads = 1..4
      BY LeadsFacts
    <3> HIDE DEF g
    <3> QED
      BY <2>2, <3>2, <3>3, <3>4
  <2> QED
    BY <1>0, <2>1, <2>2
<1>2. g = [i \in 1..(Len(s) + 4) |->
            \/ i > Len(s)
            \/ s[i] = "nul"
            \/ \E n \in DOMAIN Leads : s[i] = Leads[n] /\ Continued(s, i, n) /\ g[i + n]]
  <2> DEFINE body(i) == \/ i > Len(s)
                        \/ s[i] = "nul"
                        \/ \E n \in DOMAIN Leads : s[i] = Leads[n] /\ Continued(s, i, n) /\ g[i + n]
             first(i) == i > Len(s) \/ Whole(s, i)
  <2>1. \A i \in 1..(Len(s) + 4) : first(i) = body(i)
    BY <1>1
  <2> HIDE DEF body, first
  <2>2. [i \in 1..(Len(s) + 4) |-> first(i)] = [i \in 1..(Len(s) + 4) |-> body(i)]
    BY <2>1
  <2> QED
    BY <2>2 DEF body, first
<1> QED
  BY <1>2 DEF Scans

\* It is the only one: from the last place where it would not be.
LEMMA ScanIsWhole ==
  ASSUME NEW s \in Seq(Bytes), NEW f, Scans(f, s)
  PROVE  \A i \in 1..Len(s) : f[i] <=> Whole(s, i)
<1>0. Len(s) \in Nat
  OBVIOUS
<1> DEFINE Differ == {i \in 1..Len(s) : ~(f[i] <=> Whole(s, i))}
<1> SUFFICES ASSUME Differ # {} PROVE FALSE
  OBVIOUS
<1>1. Differ \subseteq 0..Len(s)
  OBVIOUS
<1> HIDE DEF Differ
<1>2. PICK i \in Differ : \A m \in Differ : m <= i
  BY <1>0, <1>1, Greatest
<1>3. i \in 1..Len(s) /\ ~(f[i] <=> Whole(s, i))
  BY <1>2 DEF Differ
<1>4. \A k \in 1..(Len(s) + 4) :
        f[k] <=> \/ k > Len(s)
                 \/ s[k] = "nul"
                 \/ \E n \in DOMAIN Leads : s[k] = Leads[n] /\ Continued(s, k, n) /\ f[k + n]
  BY DEF Scans
<1>5. ASSUME NEW n \in 1..4, CharacterAt(s, i, n)
      PROVE  f[i + n] <=> Whole(s, i + n)
  <2>1. i + n \in 1..(Len(s) + 1)
    BY <1>0, <1>3, <1>5 DEF CharacterAt
  <2>2. CASE i + n = Len(s) + 1
    <3>1. Covered(s, i + n, Len(s) + 1)
      BY <1>0, <2>2 DEF Covered
    <3>2. Whole(s, i + n)
      BY <1>0, <2>2, <3>1 DEF Whole
    <3>3. f[i + n]
      <4>1. i + n \in 1..(Len(s) + 4) /\ i + n > Len(s)
        BY <1>0, <2>2
      <4> QED
        BY <1>4, <4>1
    <3> QED
      BY <3>2, <3>3
  <2>3. CASE i + n # Len(s) + 1
    <3>1. i + n \in 1..Len(s) /\ i + n > i
      BY <1>0, <1>3, <2>1, <2>3
    <3>2. i + n \notin Differ
      BY <1>0, <1>2, <1>3, <3>1
    <3> QED
      BY <3>1, <3>2 DEF Differ
  <2> QED
    BY <2>2, <2>3
<1>6. f[i] <=> \/ s[i] = "nul"
               \/ \E n \in DOMAIN Leads : s[i] = Leads[n] /\ Continued(s, i, n) /\ f[i + n]
  <2>1. i \in 1..(Len(s) + 4) /\ ~(i > Len(s))
    BY <1>0, <1>3
  <2> QED
    BY <1>4, <2>1
<1>7. \A n \in 1..4 : (s[i] = Leads[n] /\ Continued(s, i, n)) <=> CharacterAt(s, i, n)
  BY <1>3, StepIsCharacter DEF Step
<1>8. Whole(s, i) <=> \/ s[i] = "nul"
                      \/ \E n \in 1..4 : CharacterAt(s, i, n) /\ Whole(s, i + n)
  BY <1>3, WholeStep
<1>9. DOMAIN Leads = 1..4
  BY LeadsFacts
<1> QED
  BY <1>3, <1>5, <1>6, <1>7, <1>8, <1>9

LEMMA ScanMeansWhole ==
  ASSUME NEW s \in Seq(Bytes)
  PROVE  IsValidUtf8(s) <=> (s = <<>> \/ Whole(s, 1))
<1> DEFINE f == CHOOSE f : Scans(f, s)
<1>1. Scans(f, s)
  BY ScanExists
<1>2. IsValidUtf8(s) <=> f[1]
  BY DEF IsValidUtf8, Scans
<1> HIDE DEF f
<1>3. CASE s = <<>>
  <2>1. Len(s) = 0
    BY <1>3
  <2>2. f[1]
    BY <1>1, <2>1 DEF Scans
  <2> QED
    BY <1>2, <1>3, <2>2
<1>4. CASE s # <<>>
  <2>1. 1 \in 1..Len(s)
    BY <1>4
  <2>2. f[1] <=> Whole(s, 1)
    BY <1>1, <2>1, ScanIsWhole
  <2> QED
    BY <1>2, <1>4, <2>2
<1> QED
  BY <1>3, <1>4

-----------------------------------------------------------------------------
(* Strings and their parts *)

LEMMA CStringFacts ==
  ASSUME NEW s \in Seq(Bytes)
  PROVE  /\ CString(s) \in Seq(Bytes)
         /\ Len(CString(s)) <= Len(s)
         /\ \A k \in 1..Len(CString(s)) : CString(s)[k] = s[k] /\ s[k] # "nul"
         /\ Len(CString(s)) = Len(s) \/ s[Len(CString(s)) + 1] = "nul"
         /\ (\A k \in 1..Len(s) : s[k] # "nul") => CString(s) = s
<1> DEFINE nuls == {i \in DOMAIN s : s[i] = "nul"}
           m == CHOOSE i \in nuls : \A j \in nuls : i <= j
<1>0. Len(s) \in Nat /\ DOMAIN s = 1..Len(s)
  OBVIOUS
<1>1. CASE nuls = {}
  <2>1. CString(s) = s
    BY <1>1 DEF CString
  <2>2. \A k \in 1..Len(s) : s[k] # "nul"
    BY <1>0, <1>1
  <2> QED
    BY <1>0, <2>1, <2>2
<1>2. CASE nuls # {}
  <2>1. nuls \subseteq Nat
    BY <1>0
  <2>2. \E i \in nuls : \A j \in nuls : i <= j
    BY <1>2, <2>1, Least
  <2>3. m \in nuls /\ \A j \in nuls : m <= j
    BY <2>2
  <2>4. CString(s) = SubSeq(s, 1, m - 1)
    BY <1>2 DEF CString
  <2>5. m \in 1..Len(s) /\ s[m] = "nul"
    BY <1>0, <2>3
  <2>6. \A k \in 1..(m - 1) : s[k] # "nul"
    <3> SUFFICES ASSUME NEW k \in 1..(m - 1), s[k] = "nul" PROVE FALSE
      OBVIOUS
    <3>1. k \in nuls
      BY <1>0, <2>5
    <3> QED
      BY <1>0, <2>3, <2>5, <3>1
  <2> HIDE DEF m
  <2>7. /\ SubSeq(s, 1, m - 1) \in Seq(Bytes) /\ Len(SubSeq(s, 1, m - 1)) = m - 1
        /\ \A k \in 1..(m - 1) : SubSeq(s, 1, m - 1)[k] = s[k]
    BY <2>5, SubSeqProperties
  <2> QED
    BY <1>0, <2>4, <2>5, <2>6, <2>7
<1> QED
  BY <1>1, <1>2

\* From its first byte, whole characters to the NUL are the C string's.
LEMMA WholeIsWellFormed ==
  ASSUME NEW s \in Seq(Bytes), s # <<>>
  PROVE  Whole(s, 1) <=> WellFormed(CString(s))
<1> DEFINE t == CString(s)
           z == Len(t)
<1>0. Len(s) \in Nat /\ Len(s) > 0 /\ DOMAIN Leads = 1..4
  BY LeadsFacts
<1>1. /\ t \in Seq(Bytes) /\ z \in Nat /\ z <= Len(s)
      /\ \A k \in 1..z : t[k] = s[k] /\ s[k] # "nul"
      /\ z = Len(s) \/ s[z + 1] = "nul"
  BY CStringFacts
<1> HIDE DEF t
<1>2. ASSUME NEW j \in 1..z, NEW n \in 1..4, j + n <= z + 1
      PROVE  CharacterAt(s, j, n) <=> CharacterAt(t, j, n)
  <2>1. t[j] = s[j] /\ j + n <= Len(s) + 1 /\ j + n <= Len(t) + 1
    BY <1>0, <1>1, <1>2
  <2>2. \A k \in (j + 1)..(j + n - 1) : t[k] = s[k]
    BY <1>1, <1>2
  <2> QED
    BY <2>1, <2>2 DEF CharacterAt
<1>3. ASSUME WellFormed(t) PROVE Whole(s, 1)
  <2>1. Covered(s, 1, z + 1)
    <3> SUFFICES ASSUME NEW k \in 1..z
                 PROVE  \E j \in 1..k, n \in 1..4 : k < j + n /\ j + n <= z + 1 /\ CharacterAt(s, j, n)
      BY <1>1 DEF Covered
    <3>1. PICK j \in 1..k, n \in 1..4 : k < j + n /\ CharacterAt(t, j, n)
      BY <1>0, <1>3 DEF WellFormed
    <3>2. j + n <= z + 1
      BY <3>1 DEF CharacterAt
    <3> QED
      BY <1>1, <1>2, <3>1, <3>2
  <2> QED
    BY <1>0, <1>1, <2>1 DEF Whole
<1>4. ASSUME Whole(s, 1) PROVE WellFormed(t)
  <2>1. PICK e \in 1..(Len(s) + 1) : (e = Len(s) + 1 \/ s[e] = "nul") /\ Covered(s, 1, e)
    BY <1>4 DEF Whole
  <2>2. e = z + 1
    <3>1. ~(e < z + 1)
      BY <1>0, <1>1, <2>1
    <3>2. ~(e > z + 1)
      <4> SUFFICES ASSUME e > z + 1 PROVE FALSE
        OBVIOUS
      <4>1. s[z + 1] = "nul" /\ z + 1 \in 1..(e - 1) /\ z + 1 \in 1..Len(s)
        BY <1>0, <1>1
      <4>2. PICK j \in 1..(z + 1), n \in 1..4 : z + 1 < j + n /\ j + n <= e /\ CharacterAt(s, j, n)
        BY <2>1, <4>1 DEF Covered
      <4>3. CASE j = z + 1
        BY <4>1, <4>2, <4>3, LeadsFacts DEF CharacterAt
      <4>4. CASE j # z + 1
        <5>1. z + 1 \in (j + 1)..(j + n - 1)
          BY <1>1, <4>2, <4>4
        <5>2. s[z + 1] = "cont"
          BY <4>2, <5>1 DEF CharacterAt
        <5> QED
          BY <4>1, <5>2
      <4> QED
        BY <4>3, <4>4
    <3> QED
      BY <1>1, <3>1, <3>2
  <2>3. ASSUME NEW k \in 1..z
        PROVE  \E j \in 1..k, n \in 1..4 : k < j + n /\ CharacterAt(t, j, n)
    <3>1. k \in 1..(e - 1)
      BY <1>1, <2>2
    <3>2. PICK j \in 1..k, n \in 1..4 : k < j + n /\ j + n <= e /\ CharacterAt(s, j, n)
      BY <2>1, <3>1 DEF Covered
    <3>3. j \in 1..z /\ j + n <= z + 1
      BY <1>1, <2>2, <3>2
    <3> QED
      BY <1>2, <3>2, <3>3
  <2> QED
    BY <1>0, <2>3 DEF WellFormed
<1> QED
  BY <1>3, <1>4 DEF t

\* is_valid_utf8 accepts the strings of whole characters, whatever their length.
LEMMA ValidMeansWellFormed ==
  ASSUME NEW s \in Seq(Bytes)
  PROVE  IsValidUtf8(s) <=> WellFormed(CString(s))
<1>1. CASE s = <<>>
  <2>1. Len(CString(s)) = 0
    <3>1. Len(s) = 0
      BY <1>1
    <3>2. CString(s) \in Seq(Bytes) /\ Len(CString(s)) <= Len(s)
      BY CStringFacts
    <3>3. Len(CString(s)) \in Nat
      BY <3>2
    <3> QED
      BY <3>1, <3>2, <3>3
  <2>2. WellFormed(CString(s))
    BY <2>1 DEF WellFormed
  <2> QED
    BY <1>1, <2>2, ScanMeansWhole
<1>2. CASE s # <<>>
  BY <1>2, ScanMeansWhole, WholeIsWellFormed
<1> QED
  BY <1>1, <1>2

\* After whole characters, a string is well formed if what follows them is.
LEMMA WellFormedAfter ==
  ASSUME NEW u \in Seq(Bytes), NEW v \in Seq(Bytes), WellFormed(u)
  PROVE  WellFormed(u \o v) <=> WellFormed(v)
<1> DEFINE w == u \o v
           a == Len(u)
           b == Len(v)
<1>0. DOMAIN Leads = 1..4
  BY LeadsFacts
<1>1. /\ w \in Seq(Bytes) /\ a \in Nat /\ b \in Nat /\ Len(w) = a + b
      /\ \A k \in 1..a : w[k] = u[k]
      /\ \A k \in 1..b : w[a + k] = v[k]
  <2>1. /\ w \in Seq(Bytes) /\ Len(w) = a + b
        /\ \A i \in 1..(a + b) : w[i] = IF i <= a THEN u[i] ELSE v[i - a]
    BY ConcatProperties, Z3
  <2>2. a \in Nat /\ b \in Nat
    OBVIOUS
  <2> HIDE DEF w, a, b
  <2> QED
    BY <2>1, <2>2
<1> HIDE DEF w
<1>2. ASSUME NEW j \in 1..b, NEW n \in 1..4
      PROVE  CharacterAt(v, j, n) <=> CharacterAt(w, a + j, n)
  <2>1. w[a + j] = v[j] /\ (j + n <= b + 1 <=> a + j + n <= Len(w) + 1)
    BY <1>1
  <2>2. ASSUME j + n <= b + 1
        PROVE  (\A k \in (j + 1)..(j + n - 1) : v[k] = "cont")
               <=> (\A k \in (a + j + 1)..(a + j + n - 1) : w[k] = "cont")
    <3>1. ASSUME NEW k \in (j + 1)..(j + n - 1) PROVE w[a + k] = v[k] /\ a + k \in (a + j + 1)..(a + j + n - 1)
      BY <1>1, <2>2
    <3>2. ASSUME NEW k \in (a + j + 1)..(a + j + n - 1)
          PROVE  k - a \in (j + 1)..(j + n - 1) /\ w[a + (k - a)] = w[k]
      BY <1>1
    <3> QED
      BY <3>1, <3>2
  <2> QED
    BY <2>1, <2>2 DEF CharacterAt
<1>3. ASSUME NEW j \in 1..a, NEW n \in 1..4, CharacterAt(u, j, n)
      PROVE  CharacterAt(w, j, n)
  BY <1>1, <1>3 DEF CharacterAt
<1>4. ASSUME WellFormed(v) PROVE WellFormed(w)
  <2> SUFFICES ASSUME NEW k \in 1..(a + b)
               PROVE  \E j \in 1..k, n \in 1..4 : k < j + n /\ CharacterAt(w, j, n)
    BY <1>0, <1>1 DEF WellFormed
  <2>1. CASE k <= a
    <3>1. k \in 1..a
      BY <1>1, <2>1
    <3>2. PICK j \in 1..k, n \in 1..4 : k < j + n /\ CharacterAt(u, j, n)
      BY <1>0, <3>1 DEF WellFormed
    <3> QED
      BY <1>1, <1>3, <2>1, <3>2
  <2>2. CASE k > a
    <3>1. k - a \in 1..b
      BY <1>1, <2>2
    <3>2. PICK j \in 1..(k - a), n \in 1..4 : k - a < j + n /\ CharacterAt(v, j, n)
      BY <1>0, <1>4, <3>1 DEF WellFormed
    <3>3. a + j \in 1..k /\ k < a + j + n /\ CharacterAt(w, a + j, n)
      BY <1>1, <1>2, <3>1, <3>2
    <3> QED
      BY <3>3
  <2>3. k <= a \/ k > a
    BY <1>1
  <2> QED
    BY <2>1, <2>2, <2>3
<1>5. ASSUME WellFormed(w) PROVE WellFormed(v)
  <2> SUFFICES ASSUME NEW k \in 1..b
               PROVE  \E j \in 1..k, n \in 1..4 : k < j + n /\ CharacterAt(v, j, n)
    BY <1>0 DEF WellFormed
  <2>1. a + k \in 1..(a + b)
    BY <1>1
  <2>2. PICK j \in 1..(a + k), n \in 1..4 : a + k < j + n /\ CharacterAt(w, j, n)
    BY <1>0, <1>1, <1>5, <2>1 DEF WellFormed
  <2>3. j > a
    <3> SUFFICES ASSUME j <= a PROVE FALSE
      BY <1>1
    <3>1. j \in 1..a /\ a \in 1..a
      BY <1>1
    <3>2. PICK i \in 1..a, m \in 1..4 : a < i + m /\ CharacterAt(u, i, m)
      BY <1>0, <3>1 DEF WellFormed
    <3>3. i + m <= a + 1
      BY <3>2 DEF CharacterAt
    <3>4. CharacterAt(w, i, m)
      BY <1>3, <3>2
    <3>5. i = j /\ m = n
      <4>1. i \in 1..Len(w) /\ j \in 1..Len(w) /\ a \in 1..Len(w) /\ Len(w) \in Nat
        BY <1>1, <3>1
      <4> HIDE DEF a
      <4> QED
        BY <2>2, <3>1, <3>2, <3>4, <4>1, OneCharacter
    <3> QED
      BY <1>1, <2>2, <3>3, <3>5
  <2>4. j - a \in 1..k /\ j - a \in 1..b
    BY <1>1, <2>2, <2>3
  <2>5. CharacterAt(v, j - a, n)
    <3>1. a + (j - a) = j
      BY <1>1
    <3> QED
      BY <1>2, <2>2, <2>4, <3>1
  <2>6. k < (j - a) + n
    BY <1>1, <2>2
  <2> QED
    BY <2>4, <2>5, <2>6
<1> QED
  BY <1>4, <1>5 DEF w

-----------------------------------------------------------------------------
(* The answers *)

Current == begun \ over

Types ==
  /\ cached \in Seq(Bytes)
  /\ over \subseteq begun
  /\ begun \subseteq Answers
  /\ sent \in [Answers -> Seq(Bytes)]
  /\ produced \in [Answers -> Seq(Bytes)]
  /\ cuts \in [Answers -> SUBSET Nat]

NoNul(s) == ~Contains(s, "nul")

\* An answer no other one met has the global to itself: what it produced is
\* what it handed on and what is cached.
GlobalIsMine ==
  /\ \A a \in Current : \A b \in Current : a # b => a \in mixed
  /\ \A a \in Current \ mixed : NoNul(produced[a]) => produced[a] = sent[a] \o cached
  /\ \A a \in Answers \ begun : produced[a] = <<>> /\ sent[a] = <<>> /\ cuts[a] = {0}

Cut == \A a \in Answers : \A n \in cuts[a] : n <= Len(produced[a])

\* LongestPrefixSent of one answer.
Longest(a) == /\ IsPrefix(sent[a], produced[a])
              /\ Len(sent[a]) \in cuts[a]
              /\ \A n \in cuts[a] : n > Len(sent[a]) => ~WellFormed(Prefix(produced[a], n))

TextInv == /\ Types /\ GlobalIsMine /\ Cut
           /\ WholeCharacters
           /\ \A a \in Answers \ mixed : NoNul(produced[a]) => Longest(a)

LEMMA EmptyIsLongest ==
  WellFormed(<<>>) /\ IsPrefix(<<>>, <<>>)
<1>1. Len(<<>>) = 0 /\ SubSeq(<<>>, 1, 0) = <<>>
  OBVIOUS
<1>2. WellFormed(<<>>)
  BY <1>1 DEF WellFormed
<1> QED
  BY <1>1, <1>2 DEF IsPrefix

LEMMA InitText == Init => TextInv
<1> SUFFICES ASSUME Init PROVE TextInv
  OBVIOUS
<1>1. Types
  BY DEF Init, Types
<1>2. GlobalIsMine
  BY DEF Init, GlobalIsMine, Current
<1>3. Cut
  <2>1. Len(<<>>) = 0
    OBVIOUS
  <2> QED
    BY <2>1 DEF Init, Cut
<1>4. WholeCharacters
  BY EmptyIsLongest DEF Init, WholeCharacters
<1>5. \A a \in Answers : Longest(a)
  <2> TAKE a \in Answers
  <2>1. sent[a] = <<>> /\ produced[a] = <<>> /\ cuts[a] = {0} /\ Len(<<>>) = 0
    BY DEF Init
  <2> QED
    BY <2>1, EmptyIsLongest DEF Longest
<1> QED
  BY <1>1, <1>2, <1>3, <1>4, <1>5 DEF TextInv

LEMMA PieceIsBytes ==
  ASSUME NEW piece \in Pieces
  PROVE  piece \in Seq(Bytes)
<1> HIDE DEF Bytes
<1>1. \E n \in Nat : piece \in [1..n -> Bytes]
  BY DEF Pieces
<1> QED
  BY <1>1

LEMMA ConcatFacts ==
  ASSUME NEW u \in Seq(Bytes), NEW v \in Seq(Bytes)
  PROVE  /\ u \o v \in Seq(Bytes) /\ Len(u \o v) = Len(u) + Len(v)
         /\ NoNul(u \o v) => NoNul(u) /\ NoNul(v)
         /\ \A n \in 0..Len(u) : Prefix(u \o v, n) = Prefix(u, n)
         /\ SubSeq(u \o v, 1, Len(u)) = u
<1> DEFINE w == u \o v
           a == Len(u)
           b == Len(v)
<1>1. /\ w \in Seq(Bytes) /\ Len(w) = a + b
      /\ \A i \in 1..(a + b) : w[i] = IF i <= a THEN u[i] ELSE v[i - a]
  BY ConcatProperties, Z3
<1>2. a \in Nat /\ b \in Nat
  OBVIOUS
<1> HIDE DEF w, a, b
<1>3. NoNul(w) => NoNul(u) /\ NoNul(v)
  <2> SUFFICES ASSUME NoNul(w) PROVE NoNul(u) /\ NoNul(v)
    OBVIOUS
  <2>1. \A i \in 1..(a + b) : w[i] # "nul"
    BY <1>1 DEF NoNul, Contains
  <2>2. \A i \in 1..a : u[i] # "nul"
    BY <1>1, <1>2, <2>1
  <2>3. \A i \in 1..b : v[i] # "nul"
    <3> TAKE i \in 1..b
    <3>1. a + i \in 1..(a + b) /\ ~(a + i <= a) /\ (a + i) - a = i
      BY <1>2
    <3>2. w[a + i] = v[i]
      BY <1>1, <3>1
    <3> QED
      BY <2>1, <3>1, <3>2
  <2> QED
    BY <2>2, <2>3 DEF NoNul, Contains, a, b
<1>4. ASSUME NEW n \in 0..a PROVE SubSeq(w, 1, n) = SubSeq(u, 1, n)
  <2>1. /\ SubSeq(w, 1, n) \in Seq(Bytes) /\ Len(SubSeq(w, 1, n)) = n
        /\ \A i \in 1..n : SubSeq(w, 1, n)[i] = w[i]
    <3>1. 1 \in 1..(Len(w) + 1) /\ n \in 0..Len(w)
      BY <1>1, <1>2
    <3> QED
      BY <1>1, <1>2, <3>1, SubSeqProperties
  <2>2. /\ SubSeq(u, 1, n) \in Seq(Bytes) /\ Len(SubSeq(u, 1, n)) = n
        /\ \A i \in 1..n : SubSeq(u, 1, n)[i] = u[i]
    <3>1. 1 \in 1..(Len(u) + 1) /\ n \in 0..Len(u)
      BY <1>2 DEF a
    <3> QED
      BY <3>1, SubSeqProperties
  <2>3. \A i \in 1..n : w[i] = u[i]
    BY <1>1, <1>2
  <2> DEFINE l == SubSeq(w, 1, n)
             r == SubSeq(u, 1, n)
  <2>4. l \in Seq(Bytes) /\ r \in Seq(Bytes) /\ Len(l) = Len(r) /\ \A i \in 1..Len(l) : l[i] = r[i]
    BY <2>1, <2>2, <2>3
  <2> HIDE DEF l, r
  <2>5. l = r
    BY <2>4, SeqEqual
  <2> QED
    BY <2>5 DEF l, r
<1>5. SubSeq(u, 1, a) = u
  BY DEF a
<1>6. SubSeq(w, 1, a) = u
  BY <1>2, <1>4, <1>5
<1> QED
  BY <1>1, <1>3, <1>4, <1>6 DEF w, a, b, Prefix

LEMMA Regrouped ==
  ASSUME NEW u \in Seq(Bytes), NEW v \in Seq(Bytes), NEW w \in Seq(Bytes)
  PROVE  (u \o v) \o w = u \o (v \o w)
  BY ConcatAssociative, Z3

LEMMA NoNulString ==
  ASSUME NEW s \in Seq(Bytes), NoNul(s)
  PROVE  CString(s) = s
<1>1. \A k \in 1..Len(s) : s[k] # "nul"
  BY DEF NoNul, Contains
<1> QED
  BY <1>1, CStringFacts

LEMMA InitStep ==
  ASSUME TextInv, NEW a \in Answers, CompletionInit(a)
  PROVE  TextInv'
<1>1. Types'
  BY DEF TextInv, Types, CompletionInit, CachedAtInit
<1>2. GlobalIsMine'
  <2>1. mixed \subseteq mixed' /\ (begun \subseteq over \/ (begun \cup {a}) \subseteq mixed')
    BY DEF CompletionInit
  <2>2. Current' \subseteq Current \cup {a} /\ a \notin begun /\ a \notin over
    BY DEF Current, CompletionInit, TextInv, Types
  <2>3. \A b \in Current' : \A c \in Current' : b # c => b \in mixed'
    BY <2>1, <2>2 DEF Current, TextInv, GlobalIsMine
  <2>4. \A b \in (Current \ mixed)' : NoNul(produced'[b]) => produced'[b] = sent'[b] \o cached'
    <3> TAKE b \in (Current \ mixed)'
    <3>1. b = a
      BY <2>1, <2>2 DEF Current
    <3>2. produced[a] = <<>> /\ sent[a] = <<>>
      BY <2>2 DEF TextInv, GlobalIsMine
    <3>3. <<>> \o <<>> = <<>>
      BY ConcatEmptySeq
    <3> QED
      BY <3>1, <3>2, <3>3 DEF CompletionInit, CachedAtInit
  <2> QED
    BY <2>3, <2>4 DEF GlobalIsMine, TextInv, CompletionInit
<1>3. Cut' /\ WholeCharacters'
  BY DEF TextInv, Cut, WholeCharacters, CompletionInit
<1>4. \A b \in Answers \ mixed' : NoNul(produced'[b]) => Longest(b)'
  BY DEF TextInv, Longest, CompletionInit
<1> QED
  BY <1>1, <1>2, <1>3, <1>4 DEF TextInv

LEMMA EndStep ==
  ASSUME TextInv, NEW a \in Answers, CompletionEnd(a)
  PROVE  TextInv'
<1>1. Types'
  BY DEF TextInv, Types, CompletionEnd
<1>2. GlobalIsMine'
  BY DEF TextInv, GlobalIsMine, Current, CompletionEnd
<1>3. Cut' /\ WholeCharacters' /\ \A b \in Answers \ mixed' : NoNul(produced'[b]) => Longest(b)'
  BY DEF TextInv, Cut, WholeCharacters, Longest, CompletionEnd
<1> QED
  BY <1>1, <1>2, <1>3 DEF TextInv

LEMMA LoopStep ==
  ASSUME TextInv, NEW a \in Answers, NEW piece \in Pieces, CompletionLoop(a, piece)
  PROVE  TextInv'
<1> DEFINE s == cached \o piece
<1>0. /\ cached \in Seq(Bytes) /\ piece \in Seq(Bytes) /\ s \in Seq(Bytes)
      /\ sent[a] \in Seq(Bytes) /\ produced[a] \in Seq(Bytes)
  BY PieceIsBytes, ConcatFacts DEF TextInv, Types
<1>1. /\ a \in Current
      /\ sent' = IF Accepts(s) THEN [sent EXCEPT ![a] = @ \o CString(s)] ELSE sent
      /\ cached' = IF Accepts(s) THEN <<>> ELSE s
      /\ produced' = [produced EXCEPT ![a] = @ \o piece]
      /\ cuts' = [cuts EXCEPT ![a] = @ \cup {Len(produced'[a])}]
      /\ UNCHANGED <<begun, over, mixed>>
  BY DEF CompletionLoop, Current, Remaining
<1>2. Accepts(s) <=> WellFormed(CString(s))
  BY <1>0, ValidMeansWellFormed DEF Accepts
<1>3. CString(s) \in Seq(Bytes)
  BY <1>0, CStringFacts
<1>4. /\ produced'[a] = produced[a] \o piece
      /\ sent'[a] = IF Accepts(s) THEN sent[a] \o CString(s) ELSE sent[a]
      /\ cuts'[a] = cuts[a] \cup {Len(produced'[a])}
      /\ \A b \in Answers : b # a => produced'[b] = produced[b] /\ sent'[b] = sent[b] /\ cuts'[b] = cuts[b]
  BY <1>1 DEF TextInv, Types
<1>5. /\ produced'[a] \in Seq(Bytes) /\ Len(produced'[a]) = Len(produced[a]) + Len(piece)
      /\ sent[a] \o CString(s) \in Seq(Bytes)
  BY <1>0, <1>3, <1>4, ConcatFacts
<1>6. Types'
  <2>1. Len(produced'[a]) \in Nat
    BY <1>5
  <2>2. cached' \in Seq(Bytes)
    BY <1>0, <1>1
  <2>3. sent' \in [Answers -> Seq(Bytes)]
    BY <1>1, <1>5 DEF TextInv, Types
  <2>4. produced' \in [Answers -> Seq(Bytes)]
    BY <1>1, <1>4, <1>5 DEF TextInv, Types
  <2>5. cuts' \in [Answers -> SUBSET Nat]
    BY <1>1, <2>1 DEF TextInv, Types
  <2> QED
    BY <1>1, <2>2, <2>3, <2>4, <2>5 DEF TextInv, Types
<1> HIDE DEF s
<1>7. Cut'
  <2> SUFFICES ASSUME NEW b \in Answers, NEW n \in cuts'[b] PROVE n <= Len(produced'[b])
    BY DEF Cut
  <2>1. CASE b # a
    BY <1>4, <2>1 DEF TextInv, Cut
  <2>2. CASE b = a
    <3>1. n \in cuts[a] \/ n = Len(produced'[a])
      BY <1>4, <2>2
    <3>2. n \in cuts[a] => n <= Len(produced[a]) /\ n \in Nat
      BY DEF TextInv, Cut, Types
    <3>3. Len(produced[a]) \in Nat /\ Len(piece) \in Nat
      BY <1>0
    <3> QED
      BY <1>5, <2>2, <3>1, <3>2, <3>3
  <2> QED
    BY <2>1, <2>2
<1>8. WholeCharacters'
  <2> SUFFICES ASSUME NEW b \in Answers PROVE WellFormed(sent'[b])
    BY DEF WholeCharacters
  <2>1. WellFormed(sent[b])
    BY DEF TextInv, WholeCharacters
  <2>2. CASE b = a /\ Accepts(s)
    <3>1. WellFormed(CString(s))
      BY <1>2, <2>2
    <3>2. WellFormed(sent[a] \o CString(s))
      BY <1>0, <1>3, <2>1, <2>2, <3>1, WellFormedAfter
    <3> QED
      BY <1>4, <2>2, <3>2
  <2>3. CASE ~(b = a /\ Accepts(s))
    BY <1>4, <2>1, <2>3
  <2> QED
    BY <2>2, <2>3
\* An answer that another one has not met: the string looked at is what it has
\* produced and not handed on.
<1>9. ASSUME a \notin mixed, NoNul(produced'[a])
      PROVE  /\ NoNul(produced[a]) /\ produced'[a] = sent[a] \o s
             /\ CString(s) = s
  <2>1. NoNul(produced[a])
    BY <1>0, <1>4, <1>9, ConcatFacts
  <2>2. produced[a] = sent[a] \o cached
    BY <1>1, <1>9, <2>1 DEF TextInv, GlobalIsMine
  <2>3. produced'[a] = sent[a] \o s
    <3>1. (sent[a] \o cached) \o piece = sent[a] \o (cached \o piece)
      BY <1>0, Regrouped
    <3> QED
      BY <1>4, <2>2, <3>1 DEF s
  <2>4. NoNul(s)
    BY <1>0, <1>9, <2>3, ConcatFacts
  <2> QED
    BY <1>0, <2>1, <2>3, <2>4, NoNulString
<1>10. GlobalIsMine'
  <2>1. \A b \in Current' : \A c \in Current' : b # c => b \in mixed'
    BY <1>1 DEF Current, TextInv, GlobalIsMine
  <2>2. \A b \in (Current \ mixed)' : NoNul(produced'[b]) => produced'[b] = sent'[b] \o cached'
    <3> SUFFICES ASSUME NEW b \in (Current \ mixed)', NoNul(produced'[b])
                 PROVE  produced'[b] = sent'[b] \o cached'
      OBVIOUS
    <3>1. b = a
      BY <1>1 DEF Current, TextInv, GlobalIsMine
    <3>2. produced'[a] = sent[a] \o s /\ CString(s) = s
      BY <1>1, <1>9, <3>1
    <3>3. CASE Accepts(s)
      <4>1. sent'[a] = produced'[a] /\ cached' = <<>>
        BY <1>1, <1>4, <3>2, <3>3
      <4>2. produced'[a] \o <<>> = produced'[a]
        BY <1>5, ConcatEmptySeq
      <4> QED
        BY <3>1, <4>1, <4>2
    <3>4. CASE ~Accepts(s)
      BY <1>1, <1>4, <3>1, <3>2, <3>4
    <3> QED
      BY <3>3, <3>4
  <2>3. \A b \in Answers \ begun' : produced'[b] = <<>> /\ sent'[b] = <<>> /\ cuts'[b] = {0}
    BY <1>1, <1>4 DEF TextInv, GlobalIsMine, Current
  <2> QED
    BY <2>1, <2>2, <2>3 DEF GlobalIsMine
<1>11. ASSUME NEW b \in Answers \ mixed', NoNul(produced'[b])
       PROVE  Longest(b)'
  <2>1. CASE b # a
    <3>1. Longest(b)
      BY <1>1, <1>4, <1>11, <2>1 DEF TextInv
    <3> QED
      BY <1>4, <2>1, <3>1 DEF Longest
  <2>2. CASE b = a
    <3>1. NoNul(produced[a]) /\ produced'[a] = sent[a] \o s /\ CString(s) = s
      BY <1>1, <1>9, <1>11, <2>2
    <3>2. Longest(a) /\ WellFormed(sent[a])
      BY <1>1, <1>11, <2>2, <3>1 DEF TextInv, WholeCharacters
    <3>3. CASE Accepts(s)
      <4>1. sent'[a] = produced'[a]
        BY <1>4, <3>1, <3>3
      <4>2. IsPrefix(sent'[a], produced'[a])
        BY <1>5, <4>1 DEF IsPrefix
      <4>3. Len(sent'[a]) \in cuts'[a]
        BY <1>4, <4>1
      <4>4. \A n \in cuts'[a] : ~(n > Len(sent'[a]))
        <5>1. \A n \in cuts'[a] : n \in Nat /\ n <= Len(produced'[a])
          BY <1>6, <1>7 DEF Types, Cut
        <5> QED
          BY <1>5, <4>1, <5>1
      <4> QED
        BY <2>2, <4>2, <4>3, <4>4 DEF Longest
    <3>4. CASE ~Accepts(s)
      <4>1. sent'[a] = sent[a]
        BY <1>4, <3>4
      <4>2. IsPrefix(sent[a], produced'[a])
        <5>1. SubSeq(produced'[a], 1, Len(sent[a])) = sent[a] /\ Len(produced'[a]) = Len(sent[a]) + Len(s)
          BY <1>0, <3>1, ConcatFacts
        <5>2. Len(sent[a]) \in Nat /\ Len(s) \in Nat /\ SubSeq(sent[a], 1, Len(sent[a])) = sent[a]
          BY <1>0
        <5> QED
          BY <5>1, <5>2 DEF IsPrefix
      <4>3. ASSUME NEW n \in cuts'[a], n > Len(sent[a])
            PROVE  ~WellFormed(Prefix(produced'[a], n))
        <5>1. CASE n \in cuts[a]
          <6>1. n \in 0..Len(produced[a])
            BY <1>0, <5>1 DEF TextInv, Types, Cut
          <6>2. Prefix(produced'[a], n) = Prefix(produced[a], n)
            BY <1>0, <1>4, <6>1, ConcatFacts
          <6> QED
            BY <3>2, <4>3, <5>1, <6>2 DEF Longest
        <5>2. CASE n = Len(produced'[a])
          <6>1. Prefix(produced'[a], n) = produced'[a]
            BY <1>5, <5>2 DEF Prefix
          <6>2. ~WellFormed(s)
            BY <1>2, <3>1, <3>4
          <6>3. ~WellFormed(produced'[a])
            BY <1>0, <3>1, <3>2, <6>2, WellFormedAfter
          <6> QED
            BY <6>1, <6>3
        <5> QED
          BY <1>4, <5>1, <5>2
      <4> QED
        BY <1>4, <2>2, <3>2, <4>1, <4>2, <4>3 DEF Longest
    <3> QED
      BY <3>3, <3>4
  <2> QED
    BY <2>1, <2>2
<1> QED
  BY <1>6, <1>7, <1>8, <1>10, <1>11 DEF TextInv

LEMMA TextInvariant == Spec => []TextInv
<1>1. ASSUME TextInv, [Next]_vars PROVE TextInv'
  <2>1. CASE Next
    BY <1>1, <2>1, InitStep, EndStep, LoopStep DEF Next
  <2>2. CASE UNCHANGED vars
    BY <1>1, <2>2 DEF vars, TextInv, Types, GlobalIsMine, Current, Cut, WholeCharacters, Longest
  <2> QED
    BY <1>1, <2>1, <2>2
<1> QED
  BY InitText, <1>1, PTL DEF Spec

\* is_valid_utf8 accepts exactly the strings that are whole characters one after
\* the other, of whatever length: no character is cut and none refused.
THEOREM ValidWellFormed == Spec => []ValidIsWellFormed
<1>1. TextInv => ValidIsWellFormed
  BY ValidMeansWellFormed DEF TextInv, Types, ValidIsWellFormed
<1> QED
  BY <1>1, TextInvariant, PTL

\* completion_loop hands on whole characters alone, whichever answers share the
\* global string.
THEOREM WholeCharactersSent == Spec => []WholeCharacters
<1>1. TextInv => WholeCharacters
  BY DEF TextInv
<1> QED
  BY <1>1, TextInvariant, PTL

\* An answer with the global to itself has handed on the longest part of its text
\* that ends with a token and with a character.
THEOREM LongestSent == Spec => []LongestPrefixSent
<1>1. TextInv => LongestPrefixSent
  BY DEF TextInv, LongestPrefixSent, Longest, NoNul
<1> QED
  BY <1>1, TextInvariant, PTL
=============================================================================
