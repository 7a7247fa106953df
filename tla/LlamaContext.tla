----------------------------- MODULE LlamaContext -----------------------------
(***************************************************************************)
(* llama_decode and the KV cache behind it (llama-context.cpp,              *)
(* llama-kv-cache.cpp), as the app sets them up: one sequence in one stream, *)
(* no sliding window, the logits of the batch's last token.  A batch is cut  *)
(* into ubatches; places for all of them are found first, on the cells       *)
(* themselves, which are then restored; then each is applied and computed.   *)
(* The library's other clients also remove ranges of positions, in the middle *)
(* too; the app only clears.                                                  *)
(***************************************************************************)
EXTENDS Integers, Sequences, FiniteSets

CONSTANTS
  Size,      \* the cells of the cache: n_ctx, 2048 in the app
  UBatch,    \* n_ubatch: 512 by default
  MaxBatch,  \* the longest batch a caller submits
  MaxPos     \* bound: the positions callers use are below it

ASSUME SizeAssumption == Size \in Nat \ {0} /\ UBatch \in Nat \ {0}
ASSUME CallersAssumption == MaxBatch \in Nat /\ MaxPos \in Nat \ {0}

Cells == 0 .. Size - 1
Empty == -1
Positions == 0 .. MaxPos - 1
Fatal == {2, -2, -3}    \* aborted, out of memory, failed

VARIABLES
  cells,     \* v_cells[0]: the position each cell holds
  head,      \* v_heads[0]: where the search for free cells starts
  pc,        \* where the decode is
  batch,     \* the batch: its first position, its number of tokens
  slots,     \* sinfos: the cells found for the ubatches, in their order
  saved,     \* states: how to undo each placement
  found,     \* success of prepare
  cur,       \* i_cur: the ubatch being applied or computed, from 1
  nOut,      \* n_outputs: rows of logits a caller may read
  row,       \* whose logits are in the buffer: the batch's, older ones, none
  ret,       \* what the last call of llama_decode returned, if that was last
  before,    \* history: cells and head when that call was made
  gaps       \* history: positions removed by callers from between others

memVars == <<cells, head>>
planVars == <<batch, slots, saved, found, cur>>
outVars == <<nOut, row>>
contextVars == <<cells, head, pc, batch, slots, saved, found, cur, nOut, row,
                 ret, before, gaps>>

NoRet == 99
Init == /\ cells = [c \in Cells |-> Empty]
        /\ head = 0
        /\ pc = "idle"
        /\ batch = [first |-> 0, n |-> 0]
        /\ slots = <<>>
        /\ saved = <<>>
        /\ found = FALSE
        /\ cur = 0
        /\ nOut = 0
        /\ row = "none"
        /\ ret = NoRet
        /\ before = [cells |-> cells, head |-> head]
        /\ gaps = {}

-----------------------------------------------------------------------------
(* The cache *)

Free(k) == {c \in Cells : k[c] = Empty}
Held(k) == {k[c] : c \in Cells \ Free(k)}

\* find_slot starts over when enough cells before the head are unused.
SearchFrom(k, h, n) == IF h > Cardinality(Cells \ Free(k)) + 2 * n THEN 0 ELSE h

\* The order in which a search from s comes to the cells.
Rank(c, s) == IF c >= s THEN c - s ELSE c - s + Size

\* find_slot: the first n free cells from there on, around the end; the set is
\* empty when there are fewer, and has one element otherwise.
SlotsFor(k, h, n) ==
  LET s == SearchFrom(k, h, n) IN
  {slot \in [1 .. n -> Free(k)] :
     /\ \A i, j \in 1 .. n : i < j => Rank(slot[i], s) < Rank(slot[j], s)
     /\ \A c \in Free(k) : Rank(c, s) < Rank(slot[n], s)
                             => \E i \in 1 .. n : slot[i] = c}

\* apply_ubatch: the positions from p on go to the cells of a slot.
Put(k, slot, p) == [c \in Cells |->
  IF \E i \in DOMAIN slot : slot[i] = c
  THEN p - 1 + CHOOSE i \in DOMAIN slot : slot[i] = c
  ELSE k[c]]

\* seq_rm of the positions in S.
Without(k, S) == [c \in Cells |-> IF k[c] \in S THEN Empty ELSE k[c]]

\* The head goes back to the first cell freed, if that lies before it.
HeadWithout(h, k, S) ==
  LET freed == {c \in Cells : k[c] \in S} IN
  IF \E c \in freed : c < h
  THEN CHOOSE c \in freed : \A d \in freed : c <= d
  ELSE h

\* seq_rm of the library's clients: the positions p0 .. p1 - 1, whether or not
\* others remain on both sides.
SeqRm == /\ pc = "idle"
         /\ \E p0, p1 \in 0 .. MaxPos :
              LET S == p0 .. p1 - 1
                  rest == Held(cells) \ S
              IN /\ cells' = Without(cells, S)
                 /\ head' = HeadWithout(head, cells, S)
                 /\ gaps' = {r \in gaps \cup S : \E p, q \in rest : p < r /\ r < q}
         /\ ret' = NoRet
         /\ UNCHANGED <<pc, planVars, outVars, before>>

\* llama_memory_clear.
Clear == /\ pc = "idle"
         /\ cells' = [c \in Cells |-> Empty]
         /\ head' = 0
         /\ gaps' = {}
         /\ ret' = NoRet
         /\ UNCHANGED <<pc, planVars, outVars, before>>
-----------------------------------------------------------------------------
(* llama_decode *)

\* Mutant: a batch is accepted anywhere behind the last position.
Follows_Later(p) == \A q \in Held(cells) : q < p

\* llama_batch_allocr::init accepts a batch that starts behind the last position
\* of the sequence, anywhere when there is none.
Follows(p) == Held(cells) = {} \/ (p - 1 \in Held(cells) /\ \A q \in Held(cells) : q < p)

\* The logits in the buffer are no longer those of the last batch.
Aged == IF row = "batch" THEN "old" ELSE row

\* The call: an empty batch and one out of place are refused.
Decode(p, n) ==
  /\ pc = "idle"
  /\ p + n <= MaxPos
  /\ before' = [cells |-> cells, head |-> head]
  /\ row' = Aged
  /\ IF n = 0 \/ ~Follows(p)
     THEN /\ ret' = -1
          /\ UNCHANGED <<pc, planVars>>
     ELSE /\ ret' = NoRet
          /\ pc' = "prepare"
          /\ batch' = [first |-> p, n |-> n]
          /\ slots' = <<>>
          /\ saved' = <<>>
          /\ found' = TRUE
          /\ cur' = 1
  /\ UNCHANGED <<memVars, nOut, gaps>>

\* split_simple: the tokens before ubatch i, and those in it.
Start(i) == (i - 1) * UBatch
Tokens(i) == IF Start(i) + UBatch <= batch.n THEN UBatch ELSE batch.n - Start(i)
IsLast(i) == Start(i) + UBatch >= batch.n

\* prepare finds cells for the next ubatch and puts it there.
Place ==
  /\ pc = "prepare"
  /\ LET i == Len(slots) + 1 IN
     /\ Start(i) < batch.n
     /\ \E slot \in SlotsFor(cells, head, Tokens(i)) :
          /\ slots' = Append(slots, slot)
          /\ saved' = Append(saved, [slot |-> slot, head |-> head,
                                     held |-> [j \in DOMAIN slot |-> cells[slot[j]]]])
          /\ cells' = Put(cells, slot, batch.first + Start(i))
          /\ head' = slot[Tokens(i)] + 1
  /\ UNCHANGED <<pc, batch, found, cur, outVars, ret, before, gaps>>

\* prepare has placed all, or finds no cells for the next.
Placed ==
  /\ pc = "prepare"
  /\ LET i == Len(slots) + 1 IN
     \/ Start(i) >= batch.n /\ UNCHANGED found
     \/ /\ Start(i) < batch.n
        /\ SlotsFor(cells, head, Tokens(i)) = {}
        /\ found' = FALSE
  /\ pc' = "restore"
  /\ UNCHANGED <<memVars, batch, slots, saved, cur, outVars, ret, before, gaps>>

\* Mutant: the head is not put back.
OldHead_Lost(s) == head

OldHead(s) == s.head

\* prepare undoes the placements from the last one back.
Restore ==
  /\ pc = "restore"
  /\ saved # <<>>
  /\ LET s == saved[Len(saved)] IN
     /\ cells' = [c \in Cells |-> IF \E j \in DOMAIN s.slot : s.slot[j] = c
                                  THEN s.held[CHOOSE j \in DOMAIN s.slot : s.slot[j] = c]
                                  ELSE cells[c]]
     /\ head' = OldHead(s)
     /\ saved' = SubSeq(saved, 1, Len(saved) - 1)
  /\ UNCHANGED <<pc, batch, slots, found, cur, outVars, ret, before, gaps>>

\* No cells: there is no shift to apply that would make room, decode gives up.
\* Else output_reserve forgets the rows of the last batch.
Prepared ==
  /\ pc = "restore"
  /\ saved = <<>>
  /\ IF found THEN pc' = "apply" /\ nOut' = 0 /\ UNCHANGED ret
              ELSE pc' = "idle" /\ ret' = 1 /\ UNCHANGED nOut
  /\ UNCHANGED <<memVars, planVars, row, before, gaps>>

\* Only the last token of the batch has its logits computed.
Outputs(i) == IF IsLast(i) THEN 1 ELSE 0

\* process_ubatch applies the ubatch to the cells found for it.
Apply ==
  /\ pc = "apply"
  /\ cells' = Put(cells, slots[cur], batch.first + Start(cur))
  /\ head' = slots[cur][Tokens(cur)] + 1
  /\ nOut' = Outputs(cur)
  /\ pc' = "compute"
  /\ UNCHANGED <<planVars, row, ret, before, gaps>>

\* The graph of the ubatch is computed; after the last one decode returns 0.
ComputeSucceeds ==
  /\ pc = "compute"
  /\ row' = IF nOut > 0 THEN "batch" ELSE row
  /\ IF IsLast(cur)
     THEN pc' = "idle" /\ ret' = 0 /\ nOut' = 1 /\ UNCHANGED cur
     ELSE pc' = "apply" /\ cur' = cur + 1 /\ UNCHANGED <<ret, nOut>>
  /\ UNCHANGED <<memVars, batch, slots, saved, found, before, gaps>>

\* Mutant: all positions of the batch are removed.
Lost_All == {p \in Positions : p >= batch.first}

\* What a failure removes: the positions of the ubatch, and those behind them.
Lost == {p \in Positions : p >= batch.first + Start(cur)}

\* The graph cannot be allocated, fails, or is aborted.  n_outputs stays.
ComputeFails(status) ==
  /\ pc = "compute"
  /\ cells' = Without(cells, Lost)
  /\ head' = HeadWithout(head, cells, Lost)
  /\ ret' = status
  /\ pc' = "idle"
  /\ UNCHANGED <<planVars, outVars, before, gaps>>

\* All of it that is not the computation of a graph.
CallOrStep == \/ SeqRm \/ Clear
              \/ \E p \in Positions, n \in 0 .. MaxBatch : Decode(p, n)
              \/ Place \/ Placed \/ Restore \/ Prepared \/ Apply

Next == CallOrStep \/ ComputeSucceeds \/ \E status \in Fatal : ComputeFails(status)

Spec == Init /\ [][Next]_contextVars
-----------------------------------------------------------------------------
(* Properties *)

TypeOK == /\ cells \in [Cells -> Positions \cup {Empty}]
          /\ head \in 0 .. Size
          /\ pc \in {"idle", "prepare", "restore", "apply", "compute"}
          /\ batch \in [first : Nat, n : Nat]
          /\ found \in BOOLEAN
          /\ cur \in Nat
          /\ nOut \in {0, 1}
          /\ row \in {"none", "old", "batch"}
          /\ ret \in {NoRet, 0, 1, -1} \cup Fatal
          /\ gaps \subseteq Positions

\* "We want to preserve the invariant that all positions between [pos_min,
\* pos_max] for each sequence will be present in the cache" (llama-kv-cache.cpp:
\* 903): each in one cell, and none is missing but those a client has itself cut
\* out, whatever was decoded, removed or given up before and since.
MemoryGapless ==
  /\ \A c, d \in Cells : cells[c] = cells[d] => c = d \/ cells[c] = Empty
  /\ \A p, q \in Held(cells) : p .. q \subseteq Held(cells) \cup gaps

\* What llama_decode returns tells what became of the cache (llama.h:860-867): 0,
\* all tokens are there; 1 and -1, it is as it was before the call, head and
\* all, and 1 means that there were too few free cells; a fatal error leaves
\* whole ubatches, and not the last.  The logits a caller can then read are those
\* of the batch's last token after 0 and only then; else older ones, or none.
ReturnTells ==
  LET old == Held(before.cells)
      new == Held(cells) \ old
      upTo(n) == {batch.first + i : i \in 0 .. n - 1}
  IN pc = "idle" =>
     /\ ret \in {0, 1} \cup Fatal =>
          (ret = 1 <=> batch.n > Cardinality(Free(before.cells)))
     /\ ret = 0 => old \subseteq Held(cells) /\ new = upTo(batch.n)
     /\ ret \in {1, -1} => cells = before.cells /\ head = before.head
     /\ ret \in Fatal =>
          /\ old \subseteq Held(cells)
          /\ \E k \in 0 .. batch.n - 1 : k % UBatch = 0 /\ new = upTo(k)
     /\ ret # NoRet => (ret = 0 <=> nOut = 1 /\ row = "batch")

\* The positions of the tokens whose computation is over: while a decode is on,
\* what it has only placed does not count.
Kept == IF pc = "idle" THEN Held(cells)
        ELSE {p \in Held(cells) : p < batch.first + Start(cur)}

Memory == INSTANCE SequenceMemory WITH
  held <- Kept,
  at <- IF pc = "idle" THEN 0 ELSE batch.first + Start(cur),
  goal <- IF pc = "idle" THEN 0 ELSE batch.first + batch.n

\* Searching, placing, undoing and applying are nothing to a caller: it sees a
\* memory of Size tokens that takes a batch if and only if there is room for it.
ImplementsMemory == Memory!Spec
=============================================================================
