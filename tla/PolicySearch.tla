----------------------------- MODULE PolicySearch -----------------------------
(***************************************************************************)
(* The search of the epistemic planner for a policy: Planner::find_policy  *)
(* and extract_policy of Pepper_Planner, with the graph they work on       *)
(* (Graph.cpp, Node.cpp) and the policy they make (Policy.cpp).            *)
(*                                                                         *)
(* The search knows an epistemic state only by what the operations of      *)
(* DEL_Operations make of it, so a state is a value and the domain is a    *)
(* function from states and actions to the sequence of the states that     *)
(* perspective shift, product update and the split into global states give *)
(* (empty when the action is not applicable or its result not valid).  The *)
(* search is checked for every domain of a small size.                     *)
(***************************************************************************)
EXTENDS Integers, Vectors, SequencesExt

CONSTANTS
  States, Initial, Goals,   \* epistemic states, the first one, those where the goal holds
  Actions,                  \* the action library, a sequence
  Outcomes,                 \* what an action may lead to: sequences of states
  Roots,                    \* what the uninitialised Graph::root may hold
  MaxNodes                  \* bound on the nodes of the graph

ASSUME SearchAssumption ==
  /\ Initial \in States /\ Goals \subseteq States
  /\ Len(Actions) \in Nat /\ DOMAIN Actions = 1 .. Len(Actions)
  /\ Outcomes \subseteq Seq(States)
  /\ Roots \subseteq Nat \ {0} /\ MaxNodes \in Nat \ {0}

VARIABLES
  domain,     \* domain[s][a]: the global states after action a in state s
  nodes,      \* the graph; a node's id is its index
  root,       \* Graph::root
  frontier,
  status,     \* "search", or how find_policy ended
  policy      \* the entries of the policy

searchVars == <<domain, nodes, root, frontier, status, policy>>

NodeType == [type : {"Or", "And"}, state : States, parent : Nat, action : 0 .. Len(Actions),
             is_root : BOOLEAN, dead : BOOLEAN, solved : BOOLEAN, children : Seq(Nat)]

SearchTypeOK ==
  /\ domain \in [States -> [DOMAIN Actions -> Outcomes]]
  /\ nodes \in Seq(NodeType)
  /\ \A i \in DOMAIN nodes : nodes[i].parent < i /\ \A j \in ToSet(nodes[i].children) : nodes[j].parent = i
  /\ ToSet(frontier) \subseteq DOMAIN nodes
  /\ status \in {"search", "solved", "failed", "undefined"}
  /\ policy \in Seq(States \X DOMAIN Actions)

-----------------------------------------------------------------------------
(* The graph                                                               *)

OrNode(s, p, r) == [type |-> "Or", state |-> s, parent |-> p, action |-> 0, is_root |-> r,
                    dead |-> FALSE, solved |-> FALSE, children |-> <<>>]
\* (The state of an And node is not used.)
AndNode(s, p, a, c) == [type |-> "And", state |-> s, parent |-> p, action |-> a, is_root |-> FALSE,
                        dead |-> FALSE, solved |-> FALSE, children |-> c]

Children(ns, i) == ToSet(ns[i].children)

CheckIfDead(ns, i) ==
  \/ ns[i].dead
  \/ /\ ~ns[i].solved
     /\ \/ ns[i].type = "And" /\ \E c \in Children(ns, i) : ns[c].dead
        \/ ns[i].type = "Or" /\ \A c \in Children(ns, i) : ns[c].dead

CheckIfSolved(ns, i) ==
  \/ ns[i].solved
  \/ /\ ~ns[i].dead
     /\ \/ ns[i].type = "And" /\ \A c \in Children(ns, i) : ns[c].solved
        \/ ns[i].type = "Or" /\ \E c \in Children(ns, i) : ns[c].solved

\* The node the marks go on to from node i; none from the root.
Above(ns, i) == IF ns[i].is_root THEN 0 ELSE ns[i].parent

\* One turn of the loops that mark a node's ancestors: x.at is checked, and
\* the loop ends where the check fails.
ClimbDead(x) ==
  IF x.at # 0 /\ CheckIfDead(x.ns, x.at)
  THEN [ns |-> [x.ns EXCEPT ![x.at].dead = TRUE], at |-> Above(x.ns, x.at)]
  ELSE [ns |-> x.ns, at |-> 0]

ClimbSolved(x) ==
  IF x.at # 0 /\ CheckIfSolved(x.ns, x.at)
  THEN [ns |-> [x.ns EXCEPT ![x.at].solved = TRUE], at |-> Above(x.ns, x.at)]
  ELSE [ns |-> x.ns, at |-> 0]

\* propogate_dead_end_node and propogate_solved_node: mark node i, and go up
\* for as long as the check succeeds.  (Parents have smaller ids, so that i
\* turns are enough.)
PropagateDead(ns, i) ==
  LET climb[k \in 0 .. i] ==
        IF k = 0 THEN [ns |-> [ns EXCEPT ![i].dead = TRUE], at |-> Above(ns, i)] ELSE ClimbDead(climb[k - 1])
  IN  climb[i].ns

PropagateSolved(ns, i) ==
  LET climb[k \in 0 .. i] ==
        IF k = 0 THEN [ns |-> [ns EXCEPT ![i].solved = TRUE], at |-> Above(ns, i)] ELSE ClimbSolved(climb[k - 1])
  IN  climb[i].ns

-----------------------------------------------------------------------------
(* extract_policy                                                          *)

\* Mutant: the loop over the children is always left after the first.
PushedFirst(ns, i) ==
  LET children == ns[i].children
      solved == {k \in DOMAIN children : ns[children[k]].solved}
  IN  Among(children, {k \in solved : \A l \in solved : k <= l})

\* The children that are pushed: the solved ones, of an Or node only the first.
Pushed(ns, i) ==
  LET children == ns[i].children
      solved == {k \in DOMAIN children : ns[children[k]].solved}
  IN  Among(children, IF ns[i].type = "Or" THEN {k \in solved : \A l \in solved : k <= l} ELSE solved)

\* One turn of the loop: the node on top of the stack is taken off it.
ExtractOne(ns, x) ==
  IF x.stack = <<>> THEN x
  ELSE LET i == x.stack[Len(x.stack)]
           entry == IF ns[i].type = "And" THEN <<<<ns[ns[i].parent].state, ns[i].action>>>> ELSE <<>>
       IN  [stack |-> SubSeq(x.stack, 1, Len(x.stack) - 1) \o Pushed(ns, i), entries |-> x.entries \o entry]

\* The entries made from node i on.  (The graph is a tree: no node is taken
\* off the stack twice.)
Extract(ns, i) ==
  LET extract[k \in 0 .. Len(ns)] ==
        IF k = 0 THEN [stack |-> <<i>>, entries |-> <<>>] ELSE ExtractOne(ns, extract[k - 1])
  IN  extract[Len(ns)].entries

-----------------------------------------------------------------------------
(* find_policy                                                             *)

SearchInit ==
  /\ domain \in [States -> [DOMAIN Actions -> Outcomes]]   \* goals are not expanded
  /\ \A s \in Goals, a \in DOMAIN Actions : domain[s][a] = <<>>
  /\ nodes = <<OrNode(Initial, 0, TRUE)>>
  /\ root \in Roots
  /\ frontier = <<1>>
  /\ status = "search"
  /\ policy = <<>>

\* Mutant: the last node of the frontier is given up.
LoopHeadOne(f) == IF Len(f) <= 1 THEN "failed" ELSE "search"

\* The head of the loop, with frontier f.
LoopHead(f) == IF f = <<>> THEN "failed" ELSE "search"

\* What find_policy does after a mark, given the marked nodes and what it
\* then returns.  get_root_node may read past the nodes.
Verdict(ns, marked, result, f) ==
  CASE root \notin DOMAIN ns -> "undefined"
    [] root \in marked -> result
    [] OTHER -> LoopHead(f)

\* is_goal_node(current_node)
FoundGoal ==
  /\ status = "search"
  /\ frontier # <<>>
  /\ nodes[Head(frontier)].state \in Goals
  /\ nodes' = PropagateSolved(nodes, Head(frontier))
  /\ frontier' = Tail(frontier)
  /\ status' = Verdict(nodes', {i \in DOMAIN nodes' : nodes'[i].solved}, "solved", frontier')
  /\ policy' = IF status' = "solved" THEN Extract(nodes', root) ELSE policy
  /\ UNCHANGED <<domain, root>>

\* create_and_node and create_or_node: the And node of action a below node i,
\* its Or nodes, and these at the end of the frontier.
Grow(g, i, a) ==
  LET ns == g.nodes
      outcomes == domain[ns[i].state][a]
      new == Len(ns) + 1
      ids == [k \in DOMAIN outcomes |-> new + k]
  IN  IF outcomes = <<>> THEN g
      ELSE [nodes |-> [ns EXCEPT ![i].children = Append(@, new)]
                        \o <<AndNode(ns[i].state, i, a, ids)>>
                        \o [k \in DOMAIN outcomes |-> OrNode(outcomes[k], new, FALSE)],
            frontier |-> g.frontier \o ids]

\* The loop over the action library.
GrowAll(i) ==
  LET grow[a \in 0 .. Len(Actions)] ==
        IF a = 0 THEN [nodes |-> nodes, frontier |-> Tail(frontier)] ELSE Grow(grow[a - 1], i, a)
  IN  grow[Len(Actions)]

Expand ==
  LET cur == Head(frontier)
      grown == GrowAll(cur)
  IN  /\ status = "search"
      /\ frontier # <<>>
      /\ nodes[cur].state \notin Goals
      /\ \E a \in DOMAIN Actions : domain[nodes[cur].state][a] # <<>>
      /\ Len(grown.nodes) <= MaxNodes
      /\ nodes' = grown.nodes
      /\ frontier' = grown.frontier
      /\ UNCHANGED <<domain, root, status, policy>>

\* No applicable action
DeadEnd ==
  /\ status = "search"
  /\ frontier # <<>>
  /\ nodes[Head(frontier)].state \notin Goals
  /\ \A a \in DOMAIN Actions : domain[nodes[Head(frontier)].state][a] = <<>>
  /\ nodes' = PropagateDead(nodes, Head(frontier))
  /\ frontier' = Tail(frontier)
  /\ status' = Verdict(nodes', {i \in DOMAIN nodes' : nodes'[i].dead}, "failed", frontier')
  /\ UNCHANGED <<domain, root, policy>>

SearchNext == FoundGoal \/ Expand \/ DeadEnd

SearchSpec == SearchInit /\ [][SearchNext]_searchVars

-----------------------------------------------------------------------------
(* Properties                                                              *)

\* Reference: the states from which some choice of actions reaches the goal,
\* whatever the outcomes: the smallest set with the goals and with every state
\* that has an action all of whose outcomes are in it.
Forced(W) ==
  /\ Goals \subseteq W
  /\ \A s \in States : (\E a \in DOMAIN Actions : domain[s][a] # <<>> /\ ToSet(domain[s][a]) \subseteq W) => s \in W
CanWin == {s \in States : \A W \in SUBSET States : Forced(W) => s \in W}

\* A node is marked solved only if the goal can be forced from its state,
\* and dead only if it cannot.
MarksSound ==
  \A i \in DOMAIN nodes : nodes[i].type = "Or" =>
    /\ nodes[i].solved => nodes[i].state \in CanWin
    /\ nodes[i].dead => nodes[i].state \notin CanWin

\* create_root_node leaves Graph::root as it was: find_policy decides by the
\* root only if that happens to be the first node.
RootIsSet == root \in DOMAIN nodes /\ nodes[root].is_root

\* With the root in place find_policy gives up only on problems without a
\* solution.
NoPolicyMeansNone == status = "failed" /\ RootIsSet => Initial \notin CanWin

\* The search stays sound while nodes are solved, die and are opened in any
\* order of the frontier.
SearchSound == SearchTypeOK /\ MarksSound /\ NoPolicyMeansNone

\* A policy is closed under what its actions lead to in the planner's own
\* account of them (perspective shift, product update, split): the outcomes of
\* every entry are goals or states of other entries, whatever node the policy
\* was extracted from.  With the root in place the first state is one of them.
\* This is what find_policy promises, not what execution needs:
\* Domain::perform_action makes a bare product update, and
\* DEL_Interface::get_next_action may find no entry for the state it gives.
PolicyClosed ==
  status = "solved" =>
    LET known == {policy[k][1] : k \in DOMAIN policy} \cup Goals
    IN  /\ RootIsSet => Initial \in known
        /\ \A k \in DOMAIN policy : ToSet(domain[policy[k][1]][policy[k][2]]) \subseteq known
=============================================================================
