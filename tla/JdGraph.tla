-------------------------------- MODULE JdGraph --------------------------------
(***************************************************************************)
(* structures/JdGraph.hpp: nodes that know their parents and, in order,     *)
(* their children.  A node is deleted when its last parent detaches it, and *)
(* detaches its own children then.  Root is the caller's own object.        *)
(*                                                                          *)
(* The caller makes no cycle (every walk is a recursion), and does not      *)
(* append a node to a parent twice (asserted).  Copies of a node by its     *)
(* constructor and operator =, which share its children without their       *)
(* knowing, are left out, as is prepend, which a vector has no push_front   *)
(* for.                                                                     *)
(***************************************************************************)
EXTENDS Naturals, Sequences, FiniteSets

LOCAL INSTANCE SequencesExt
LOCAL INSTANCE FiniteSetsExt

CONSTANTS Nodes, Root, ElementValues

VARIABLES
    graph,      \* [up, down, element] by node; Root's parents are none
    live        \* the nodes that are not deleted

vars == <<graph, live>>

Graph == [graph |-> graph, live |-> live]
Becomes(g) == graph' = g.graph /\ live' = g.live
NoNode == [up |-> {}, down |-> <<>>, element |-> CHOOSE e \in ElementValues : TRUE]

Init ==
    /\ graph = [n \in Nodes \cup {Root} |-> NoNode]
    /\ live = {Root}

RECURSIVE Descendants(_, _), Detach(_, _, _), NumNodes(_, _), Visit(_, _), VisitBottomUp(_, _)
RECURSIVE CloneR(_, _, _)

Descendants(g, n) ==
    UNION {{d} \cup Descendants(g, d) : d \in ToSet(g.graph[n].down)}

-----------------------------------------------------------------------------
\* append of a node.
Attach(g, parent, n) ==
    [g EXCEPT !.graph[n].up = @ \cup {parent}, !.graph[parent].down = Append(@, n)]

\* append of an element, which makes a node of it.
New(g, parent, n, element) ==
    [graph |-> [g.graph EXCEPT ![n] = [up |-> {parent}, down |-> <<>>, element |-> element],
                               ![parent].down = Append(@, n)],
     live |-> g.live \cup {n}]

\* Mutant: a node that is deleted keeps its children.
DetachOnly(g, parent, n) ==
    LET h == [g EXCEPT !.graph[n].up = @ \ {parent},
                       !.graph[parent].down = SelectSeq(@, LAMBDA x : x # n)]
    IN  IF h.graph[n].up # {} THEN h ELSE [h EXCEPT !.live = @ \ {n}, !.graph[n] = NoNode]

\* detach and Release, and with them the destructor.
Detach(g, parent, n) ==
    LET h == [g EXCEPT !.graph[n].up = @ \ {parent},
                       !.graph[parent].down = SelectSeq(@, LAMBDA x : x # n)]
    IN  IF h.graph[n].up # {} THEN h
        ELSE LET cleared == FoldLeft(LAMBDA x, d : Detach(x, n, d), h, h.graph[n].down)
             IN  [cleared EXCEPT !.live = @ \ {n}, !.graph[n] = NoNode]

\* clear: of an element too.
Clear(g, n) ==
    [FoldLeft(LAMBDA x, d : Detach(x, n, d), g, g.graph[n].down) EXCEPT !.graph[n].element = NoNode.element]

\* clone: what is under other is copied under n, behind what is there; what is there twice is
\* copied twice.
CloneR(g, to, from) ==
    LET copy(s, d) ==
            IF Nodes \subseteq s.live THEN s
            ELSE LET n == CHOOSE n \in Nodes : n \notin s.live
                 IN  CloneR(New(s, to, n, s.graph[d].element), n, d)
    IN  FoldLeft(copy, g, g.graph[from].down)

NumNodes(g, n) ==
    Len(g.graph[n].down)
      + FoldLeft(LAMBDA sum, d : sum + NumNodes(g, d), 0, g.graph[n].down)

Visit(g, n) == <<n>> \o FlattenSeq([i \in DOMAIN g.graph[n].down |-> Visit(g, g.graph[n].down[i])])
VisitBottomUp(g, n) ==
    FlattenSeq([i \in DOMAIN g.graph[n].down |-> VisitBottomUp(g, g.graph[n].down[i])]) \o <<n>>

-----------------------------------------------------------------------------
Next ==
    \E parent \in live :
      \/ \E n \in Nodes \ live, e \in ElementValues : Becomes(New(Graph, parent, n, e))
      \/ \E n \in live \ {Root, parent} :
           /\ parent \notin graph[n].up /\ parent \notin Descendants(Graph, n)
           /\ Becomes(Attach(Graph, parent, n))
      \/ \E n \in ToSet(graph[parent].down) : Becomes(Detach(Graph, parent, n))
      \/ /\ graph[parent].down # <<>>
         /\ Becomes(Clear(Graph, parent))
      \/ \E n \in live \ {parent} :
           /\ parent \notin Descendants(Graph, n)
           /\ NumNodes(Graph, n) \in 1 .. Cardinality(Nodes \ live)
           /\ Becomes([CloneR(Graph, parent, n) EXCEPT !.graph[parent].element = graph[n].element])

Spec == Init /\ [][Next]_vars

-----------------------------------------------------------------------------
\* Parents and children know each other; what is in memory is what the root leads to, so
\* that nothing is lost and nothing deleted is led to, over shared children and cascades of
\* deletions; and the walks go down every path.
GraphIsKept ==
    /\ \A n, m \in live : n \in graph[m].up <=> m \in ToSet(graph[n].down)
    /\ live = {Root} \cup Descendants(Graph, Root)
    /\ Len(Visit(Graph, Root)) = NumNodes(Graph, Root) + 1
    /\ ToSet(Visit(Graph, Root)) = live
    /\ \A i, j \in DOMAIN VisitBottomUp(Graph, Root) :
         LET s == VisitBottomUp(Graph, Root) IN
         s[i] \in graph[s[j]].up => \E k \in 1 .. i - 1 : s[k] = s[j]
=============================================================================
