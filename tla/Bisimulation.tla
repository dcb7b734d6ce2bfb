----------------------------- MODULE Bisimulation -----------------------------
(***************************************************************************)
(* Bisimulation_Context::is_bisimilar of Pepper_Planner, by which          *)
(* Policy::get_action recognises the current state among the states of the *)
(* policy.  The worlds of both states are put in one list, partitioned by  *)
(* their propositions, and the partition is refined block by block until   *)
(* no world of a block reaches other blocks than the rest of it.           *)
(*                                                                         *)
(* move_worlds_to_new_block appends to the vector that                     *)
(* partition_into_relations_blocks is iterating over.  When the vector is  *)
(* reallocated, the iteration goes on in the freed array, which is         *)
(* undefined.  Either the array still is as the move of its blocks left    *)
(* it, and the rest of the round passes over empty blocks, or its memory   *)
(* is in use again and nothing can be said of what the comparison does.    *)
(***************************************************************************)
EXTENDS DELOperations, FiniteSetsExt

CONSTANTS
  Spelling,   \* Spelling[p]: the letters of proposition p
  Pairs,      \* the pairs of states to compare
  Library     \* actions of the domain

ASSUME PairsAssumption == \A p \in Pairs : IsState(p[1]) /\ IsState(p[2])
ASSUME LibraryAssumption == \A a \in Library : IsAction(a)

VARIABLES
  s1, s2,          \* the two states
  blocks,          \* the partition: a sequence of sequences of worlds
  world_to_block,
  pos, upto,       \* the iteration over the blocks of one round
  pending,         \* worlds_to_be_moved
  changed,         \* blocks_changed
  dangling,        \* blocks was reallocated in this round
  answer           \* "none" until is_bisimilar returns, "undefined" once its
                   \* blocks are read from memory in use for something else

inputs == <<s1, s2>>
bisimVars == <<s1, s2, blocks, world_to_block, pos, upto, pending, changed, dangling, answer>>

-----------------------------------------------------------------------------
\* convert_propositions_to_string: the names in order, with nothing between.
PropositionString(props) ==
  LET Less(p, q) ==
        LET a == Spelling[p]
            b == Spelling[q]
        IN  \/ IsStrictPrefix(a, b)
            \/ \E k \in (DOMAIN a) \cap (DOMAIN b) : a[k] < b[k] /\ \A j \in 1 .. k - 1 : a[j] = b[j]
      order == SetToSortSeq(props, Less)
  IN  FlattenSeq([k \in DOMAIN order |-> Spelling[order[k]]])

\* No two sets of propositions give the same string.
ASSUME SpellingAssumption ==
  \A P, Q \in SUBSET Props : PropositionString(P) = PropositionString(Q) => P = Q

\* create_merged_worlds_list and create_merged_relations_list: the worlds of
\* s2 come after those of s1.
MergedWorlds == s1.worlds \o s2.worlds
From1(w) == w <= Len(s1.worlds)
Designated(w) == IF From1(w) THEN w \in s1.designated ELSE w - Len(s1.worlds) \in s2.designated

Successors(i, w) ==
  IF From1(w) THEN {v \in DOMAIN s1.worlds : <<w, v>> \in s1.rel[i]}
  ELSE {v \in DOMAIN MergedWorlds : ~From1(v) /\ <<w - Len(s1.worlds), v - Len(s1.worlds)>> \in s2.rel[i]}

\* Mutant: the block numbers are compared without removing duplicates.
RelationsCounted(w, v) ==
  \A i \in Agents, b \in DOMAIN blocks :
    Cardinality({x \in Successors(i, w) : world_to_block[x] = b})
      = Cardinality({x \in Successors(i, v) : world_to_block[x] = b})

\* are_relations_equal, for all agents.
RelationsEqual(w, v) ==
  \A i \in Agents : {world_to_block[x] : x \in Successors(i, w)} = {world_to_block[x] : x \in Successors(i, v)}

\* partition_into_valuation_blocks, in the order of a hash table.
ValuationBlocks ==
  LET worlds == MergedWorlds
      of(key) == Sorted({w \in DOMAIN worlds : PropositionString(worlds[w]) = key})
  IN  SetToSeqs({of(PropositionString(worlds[w])) : w \in DOMAIN worlds})

BisimInit ==
  /\ \E p \in Pairs : s1 = p[1] /\ s2 = p[2]
  /\ blocks \in ValuationBlocks
  /\ world_to_block = [w \in DOMAIN MergedWorlds |-> CHOOSE b \in DOMAIN blocks : w \in ToSet(blocks[b])]
  /\ pos = 1
  /\ upto = Len(blocks)
  /\ pending = <<>>
  /\ changed = FALSE
  /\ dangling = FALSE
  /\ answer = "none"

\* One block of the round: the worlds that differ from its first are taken out.
\* A block whose array was freed reads as empty here, as moving it left it.
RefineBlock ==
  LET block == IF dangling THEN <<>> ELSE blocks[pos]
      stay == {k \in DOMAIN block : RelationsEqual(block[1], block[k])}
      out == Among(block, (DOMAIN block) \ stay)
  IN  /\ answer = "none"
      /\ pending = <<>>
      /\ pos <= upto
      /\ blocks' = IF dangling THEN blocks ELSE [blocks EXCEPT ![pos] = Among(block, stay)]
      /\ pending' = out
      /\ changed' = (changed \/ out # <<>>)
      /\ pos' = pos + 1
      /\ UNCHANGED <<inputs, world_to_block, upto, dangling, answer>>

\* The next block is read from the freed array, whose memory is in use again.
ReadFreed ==
  /\ answer = "none"
  /\ pending = <<>>
  /\ pos <= upto
  /\ dangling
  /\ answer' = "undefined"
  /\ UNCHANGED <<inputs, blocks, world_to_block, pos, upto, pending, changed, dangling>>

\* One call of move_worlds_to_new_block: the worlds equal to the first get a
\* block of their own, the others are left to the recursive call.
MoveWorlds ==
  LET equal == {k \in DOMAIN pending : RelationsEqual(pending[1], pending[k])}
      same == Among(pending, equal)
  IN  /\ pending # <<>>
      /\ blocks' = Append(blocks, same)
      /\ world_to_block' = [w \in DOMAIN world_to_block |->
                              IF w \in ToSet(same) THEN Len(blocks) + 1 ELSE world_to_block[w]]
      /\ pending' = Among(pending, (DOMAIN pending) \ equal)
      /\ dangling' = (dangling \/ Len(blocks) \in {2 ^ k : k \in 0 .. Len(blocks)})
      /\ UNCHANGED <<inputs, pos, upto, changed, answer>>

\* Mutant: blocks_changed keeps its value in the recursive call.
NextRoundStaysChanged ==
  /\ answer = "none"
  /\ pending = <<>>
  /\ pos > upto
  /\ changed
  /\ pos' = 1
  /\ upto' = Len(blocks)
  /\ dangling' = FALSE
  /\ UNCHANGED <<inputs, blocks, world_to_block, pending, changed, answer>>

\* partition_into_relations_blocks calls itself while the blocks change.
NextRound ==
  /\ answer = "none"
  /\ pending = <<>>
  /\ pos > upto
  /\ changed
  /\ pos' = 1
  /\ upto' = Len(blocks)
  /\ changed' = FALSE
  /\ dangling' = FALSE
  /\ UNCHANGED <<inputs, blocks, world_to_block, pending, answer>>

\* Mutant: the designated worlds are not looked at.
BlocksMatchUndesignated ==
  \A b \in DOMAIN blocks : {From1(w) : w \in ToSet(blocks[b])} = BOOLEAN

\* The loop at the end of is_bisimilar.
BlocksMatch ==
  \A b \in DOMAIN blocks :
    LET block == ToSet(blocks[b])
    IN  /\ {From1(w) : w \in block} = BOOLEAN
        /\ (\E w \in block : From1(w) /\ Designated(w)) <=> (\E w \in block : ~From1(w) /\ Designated(w))

Answer ==
  /\ answer = "none"
  /\ pending = <<>>
  /\ pos > upto
  /\ ~changed
  /\ answer' = IF BlocksMatch THEN "bisimilar" ELSE "different"
  /\ UNCHANGED <<inputs, blocks, world_to_block, pos, upto, pending, changed, dangling>>

BisimNext == RefineBlock \/ ReadFreed \/ MoveWorlds \/ NextRound \/ Answer

BisimSpec == BisimInit /\ [][BisimNext]_bisimVars /\ WF_bisimVars(BisimNext)

-----------------------------------------------------------------------------
(* Reference: the largest bisimulation between two states.                 *)

\* Related worlds have the same propositions, and what is possible in one of
\* them is related to something that is possible in the other.
IsBisimulation(s, t, R) ==
  \A p \in R :
    /\ s.worlds[p[1]] = t.worlds[p[2]]
    /\ \A i \in Agents :
         /\ \A q \in s.rel[i] : q[1] = p[1] => \E u \in t.rel[i] : u[1] = p[2] /\ <<q[2], u[2]>> \in R
         /\ \A u \in t.rel[i] : u[1] = p[2] => \E q \in s.rel[i] : q[1] = p[1] /\ <<q[2], u[2]>> \in R

Largest(s, t) ==
  LET alike == {p \in (DOMAIN s.worlds) \X (DOMAIN t.worlds) : s.worlds[p[1]] = t.worlds[p[2]]}
  IN  UNION {R \in SUBSET alike : IsBisimulation(s, t, R)}

\* It relates every world of either state to one of the other, and the
\* designated worlds to designated worlds.
AreBisimilar(s, t) ==
  LET r == Largest(s, t)
  IN  /\ \A w \in DOMAIN s.worlds : \E v \in DOMAIN t.worlds : <<w, v>> \in r
      /\ \A v \in DOMAIN t.worlds : \E w \in DOMAIN s.worlds : <<w, v>> \in r
      /\ \A w \in s.designated : \E v \in t.designated : <<w, v>> \in r
      /\ \A v \in t.designated : \E w \in s.designated : <<w, v>> \in r

-----------------------------------------------------------------------------
(* Properties                                                              *)

\* is_bisimilar has returned, and has read no freed block but as an empty one.
Answered == answer \in {"bisimilar", "different"}

\* When the refinement stops, two worlds are in one block exactly if they are
\* bisimilar.  That holds of the comparisons whose vector of blocks is not
\* reallocated under the loop, and of those that found the freed blocks empty
\* and so lost the rest of a round; of one that read other things in their
\* place nothing is said.
BlocksAreBisimilarity ==
  Answered =>
    {p \in (DOMAIN s1.worlds) \X (DOMAIN s2.worlds) : world_to_block[p[1]] = world_to_block[p[2] + Len(s1.worlds)]}
      = Largest(s1, s2)

\* is_bisimilar answers whether the two states are bisimilar (unless it read
\* freed memory that was in use again).
AnswerIsBisimilarity == Answered => (answer = "bisimilar" <=> AreBisimilar(s1, s2))

\* What Policy::get_action relies on: in a state that is_bisimilar takes for a
\* state of the policy, the same actions are applicable, the same goals hold,
\* and DEL_Interface::perform_action leads to bisimilar states again.  (The
\* same cannot be said of perform_perspective_shift, which drops the worlds
\* that only other agents take for possible.)
LookupSound ==
  answer = "bisimilar" =>
    /\ \A p \in Props : Holds(s1, Atom(p)) <=> Holds(s2, Atom(p))
    /\ \A a \in Library :
         /\ IsApplicable(s1, a) <=> IsApplicable(s2, a)
         /\ AreBisimilar(ProductUpdate(s1, a), ProductUpdate(s2, a))

\* The answer is right, and Policy::get_action may rely on it.
AnswersSound == AnswerIsBisimilarity /\ LookupSound

\* "If s is local for i (closed under indistinguishisability) then nothing
\* changes" (Notes on features.txt): a perspective shift keeps the smallest
\* set of worlds that holds the designated ones and is closed for the agent, a
\* second shift changes nothing, and an action of the agent that is applicable
\* after the shift leaves a designated world if all its events are designated.
ShiftIsLocal ==
  answer # "none" => \A i \in Agents :
    LET s == PerspectiveShift(s1, i)
        closed == {C \in SUBSET DOMAIN s1.worlds :
                     s1.designated \subseteq C /\ \A p \in s1.rel[i] : p[1] \in C => p[2] \in C}
    IN  /\ s.worlds = Among(s1.worlds, {w \in DOMAIN s1.worlds : \A C \in closed : w \in C})
        /\ PerspectiveShift(s, i) = s
        /\ \A a \in Library :
             a.owner = i /\ a.designated = DOMAIN a.events /\ s1.designated # {} /\ IsApplicable(s, a) =>
               IsValid(ProductUpdate(s, a))

\* Every comparison comes to an end: the rounds of
\* partition_into_relations_blocks, which calls itself, are finitely many, or
\* the comparison reads freed memory in use again and is undefined from there.
ComparisonEnds == <>(answer # "none")
==============================================================================
