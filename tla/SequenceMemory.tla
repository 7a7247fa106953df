---------------------------- MODULE SequenceMemory ----------------------------
(***************************************************************************)
(* What the callers of llama_decode count on: a set of positions, to which a *)
(* batch is added as a whole if there is room, or by pieces of a ubatch until *)
(* something fatal ends it, or not at all.  No cells, slots or head.          *)
(***************************************************************************)
EXTENDS Integers, FiniteSets

CONSTANTS Size,    \* the tokens there is room for
          UBatch,  \* the tokens computed at a time
          MaxPos   \* bound on positions

Positions == 0 .. MaxPos - 1
NoRet == 99

VARIABLES held,   \* the positions in memory
          at,     \* the next position of the batch being decoded
          goal,   \* the position behind its last; goal = at when there is none
          ret     \* what the last call of decode returned

vars == <<held, at, goal, ret>>

Init == held = {} /\ at = 0 /\ goal = 0 /\ ret = NoRet

Idle == at = goal
Returns(r) == ret' = r /\ at' = 0 /\ goal' = 0

\* A range of positions is forgotten, from one up to another, or all.
Forget == /\ Idle
          /\ \E p, q \in 0 .. MaxPos : held' = held \ (p .. q - 1)
          /\ Returns(NoRet)

\* A batch that does not go on where the memory ends is refused.
Refuse == Idle /\ Returns(-1) /\ UNCHANGED held

Accept == /\ Idle
          /\ \E p, q \in 0 .. MaxPos :
               /\ p < q
               /\ held = {} \/ (p - 1 \in held /\ \A r \in held : r < p)
               /\ at' = p /\ goal' = q
          /\ ret' = NoRet
          /\ UNCHANGED held

HasRoom == Cardinality(held) + (goal - at) <= Size

NoRoom == ~Idle /\ ~HasRoom /\ Returns(1) /\ UNCHANGED held

\* A ubatch, or what is left of the batch, is in memory and computed.
Extend == /\ ~Idle /\ HasRoom
          /\ LET next == IF at + UBatch <= goal THEN at + UBatch ELSE goal IN
             /\ held' = held \cup (at .. next - 1)
             /\ IF next = goal THEN Returns(0)
                ELSE at' = next /\ UNCHANGED <<goal, ret>>

Fail == /\ ~Idle /\ HasRoom
        /\ \E r \in {2, -2, -3} : Returns(r)
        /\ UNCHANGED held

Next == Forget \/ Refuse \/ Accept \/ NoRoom \/ Extend \/ Fail

Spec == Init /\ [][Next]_vars
=============================================================================
