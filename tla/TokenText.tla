------------------------------ MODULE TokenText ------------------------------
(***************************************************************************)
(* From the bytes of the tokens to the strings of an answer: a token may     *)
(* end in the middle of a character, so completion_loop keeps bytes in one   *)
(* global string, cached_token_chars, until is_valid_utf8 accepts it.  A     *)
(* send that is suspended in emit lets another begin, which empties it.      *)
(* A byte is one of the classes is_valid_utf8 tells apart.                   *)
(***************************************************************************)
EXTENDS Naturals, Sequences, SequencesExt

CONSTANTS
  Answers,   \* the sends
  MaxBytes   \* bound: bytes of all tokens

ASSUME TextAssumption == MaxBytes \in Nat

\* Bytes that begin a character of 1 to 4 bytes, continue one, do neither
\* (0xF8 and above), and the one that ends a C string.
Leads == <<"ascii", "lead2", "lead3", "lead4">>
Bytes == Range(Leads) \cup {"cont", "other", "nul"}
\* The pieces of text a token stands for.
Pieces == [1..1 -> Bytes] \cup [1..2 -> Bytes]

VARIABLES
  cached,     \* cached_token_chars
  begun,      \* the answers completion_init was called for
  over,       \* the answers completion_loop returned null to
  sent,       \* answer -> bytes handed to Kotlin so far
  produced,   \* history: answer -> bytes of its tokens
  cuts,       \* history: answer -> where its tokens end
  mixed       \* history: another answer began before this one was over

vars == <<cached, begun, over, sent, produced, cuts, mixed>>

Init == /\ cached = <<>>
        /\ begun = {}
        /\ over = {}
        /\ sent = [a \in Answers |-> <<>>]
        /\ produced = [a \in Answers |-> <<>>]
        /\ cuts = [a \in Answers |-> {0}]
        /\ mixed = {}

\* What a char pointer into s shows of it.
CString(s) ==
  LET nuls == {i \in DOMAIN s : s[i] = "nul"}
  IN IF nuls = {} THEN s
     ELSE SubSeq(s, 1, (CHOOSE i \in nuls : \A j \in nuls : i <= j) - 1)

\* Mutant: the last continuation byte is not looked at.
Continued_Short(s, i, n) == \A k \in (i + 1)..(i + n - 2) : k \in DOMAIN s /\ s[k] = "cont"

\* The n - 1 bytes after s[i] continue a character.
Continued(s, i, n) == \A k \in (i + 1)..(i + n - 1) : k \in DOMAIN s /\ s[k] = "cont"

\* is_valid_utf8: whole characters up to the NUL.
IsValidUtf8(s) ==
  LET From[i \in 1..(Len(s) + 4)] ==
        \/ i > Len(s)
        \/ s[i] = "nul"
        \/ \E n \in DOMAIN Leads :
             s[i] = Leads[n] /\ Continued(s, i, n) /\ From[i + n]
  IN From[1]

\* Mutants: the global keeps what the last answer left in it; a piece is
\* handed on at once.
CachedAtInit_Kept == cached
Accepts_Always(s) == TRUE

CachedAtInit == <<>>

Accepts(s) == IsValidUtf8(s)

\* What stays in the global after s.
Remaining(s) == IF Accepts(s) THEN <<>> ELSE s

\* completion_init.
CompletionInit(a) ==
  /\ a \notin begun
  /\ begun' = begun \cup {a}
  /\ cached' = CachedAtInit
  /\ mixed' = IF begun \subseteq over THEN mixed ELSE mixed \cup begun \cup {a}
  /\ UNCHANGED <<over, sent, produced, cuts>>

Produced == FoldSet(LAMBDA a, n : n + Len(produced[a]), 0, Answers)

\* completion_loop with a token: its piece joins the global, and the string is
\* handed on if it is valid, an empty one if not.
CompletionLoop(a, piece) ==
  /\ a \in begun \ over
  /\ Produced + Len(piece) <= MaxBytes
  /\ LET s == cached \o piece IN
       /\ sent' = IF Accepts(s) THEN [sent EXCEPT ![a] = @ \o CString(s)] ELSE sent
       /\ cached' = Remaining(s)
  /\ produced' = [produced EXCEPT ![a] = @ \o piece]
  /\ cuts' = [cuts EXCEPT ![a] = @ \cup {Len(produced'[a])}]
  /\ UNCHANGED <<begun, over, mixed>>

\* End of generation, or the length reached: what is cached is not handed on.
CompletionEnd(a) ==
  /\ a \in begun \ over
  /\ over' = over \cup {a}
  /\ UNCHANGED <<cached, begun, sent, produced, cuts, mixed>>

Next == \E a \in Answers : \/ CompletionInit(a) \/ CompletionEnd(a)
                           \/ \E piece \in Pieces : CompletionLoop(a, piece)

Spec == Init /\ [][Next]_vars

-----------------------------------------------------------------------------
(* Properties *)

TypeOK ==
  /\ cached \in Seq(Bytes)
  /\ over \subseteq begun
  /\ begun \subseteq Answers
  /\ \A a \in Answers : /\ sent[a] \in Seq(Bytes) /\ Len(sent[a]) <= MaxBytes
                        /\ produced[a] \in Seq(Bytes)
                        /\ cuts[a] \subseteq 0..Len(produced[a])

\* A character of n bytes is at s[j]: its first byte and the ones that continue it.
CharacterAt(s, j, n) == /\ j + n <= Len(s) + 1
                        /\ s[j] = Leads[n]
                        /\ \A k \in (j + 1)..(j + n - 1) : s[k] = "cont"

\* Whole characters one after the other: each byte is one of a character's, and
\* two characters share no byte, as none begins with a byte that continues one.
WellFormed(s) == \A k \in 1..Len(s) : \E j \in 1..k, n \in DOMAIN Leads :
                   k < j + n /\ CharacterAt(s, j, n)

Prefix(s, n) == SubSeq(s, 1, n)

\* is_valid_utf8 accepts exactly the strings that are whole characters one
\* after the other.
ValidIsWellFormed == \A a \in Answers : IsValidUtf8(produced[a]) <=> WellFormed(CString(produced[a]))

\* What an answer handed on is whole characters, whatever the tokens are, were
\* another answer to begin in its middle: NewStringUTF is never given less.
WholeCharacters == \A a \in Answers : WellFormed(sent[a])

\* An answer no other one met has handed on exactly the longest part of its
\* text that ends with a token and with a character: no byte is lost, doubled
\* or late, and a stray byte holds back everything after it.
LongestPrefixSent ==
  \A a \in Answers \ mixed : ~Contains(produced[a], "nul") =>
    /\ IsPrefix(sent[a], produced[a])
    /\ Len(sent[a]) \in cuts[a]
    /\ \A n \in cuts[a] : n > Len(sent[a]) => ~WellFormed(Prefix(produced[a], n))
=============================================================================
