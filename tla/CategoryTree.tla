---------------------------- MODULE CategoryTree ----------------------------
(***************************************************************************)
(* parseCategoryTree and buildCategoryNode (src/parser.go).  The parser    *)
(* walks the page and builds a node of every link of class cat-item; the   *)
(* building walks the link's subtree for links of that class, and calls    *)
(* itself for each.  Names and ids are left out.                           *)
(***************************************************************************)
EXTENDS Naturals, Sequences

CONSTANTS
  MaxNodes,  \* bound: nodes of a page
  MaxCalls   \* bound: calls of buildCategoryNode that the goroutine's stack has room
             \* for, more than a page has nodes

VARIABLES
  page,    \* in document order: the depth of each node, and whether it is a link
  at,      \* the next node of parseCategoryTree's walk
  calls,   \* the open calls of buildCategoryNode: of which node, and its walk's next
  nodes,   \* what has been appended to the result
  status   \* running, returned, or crashed: a stack overflow ends the program

vars == <<page, at, calls, nodes, status>>

Init ==
  /\ page \in UNION {[1 .. n -> [depth : 0 .. MaxNodes, catItem : BOOLEAN]] : n \in 1 .. MaxNodes}
  /\ page[1] = [depth |-> 0, catItem |-> FALSE]
  /\ \A k \in 2 .. Len(page) : page[k].depth \in 1 .. page[k - 1].depth + 1
  /\ at = 1
  /\ calls = <<>>
  /\ nodes = <<>>
  /\ status = "running"

-----------------------------------------------------------------------------
\* walkNodes: the node itself first, then all that is below it.
InSubtree(i, j) ==
  j \in i .. Len(page) /\ \A k \in i + 1 .. j : page[k].depth > page[i].depth

Call(stack, i) ==
  IF Len(stack) = MaxCalls
  THEN status' = "crashed" /\ UNCHANGED calls
  ELSE calls' = Append(stack, [node |-> i, at |-> i]) /\ UNCHANGED status

\* One node of parseCategoryTree's walk.
Walk ==
  /\ status = "running" /\ calls = <<>> /\ at <= Len(page)
  /\ IF page[at].catItem THEN Call(calls, at) ELSE UNCHANGED <<calls, status>>
  /\ at' = at + 1
  /\ UNCHANGED <<page, nodes>>

\* One node of the innermost call's walk, or its return.
Build ==
  /\ status = "running" /\ calls # <<>>
  /\ LET top   == calls[Len(calls)]
         below == SubSeq(calls, 1, Len(calls) - 1)
         moved == Append(below, [top EXCEPT !.at = @ + 1])
     IN IF InSubtree(top.node, top.at)
        THEN /\ IF page[top.at].catItem
                THEN Call(moved, top.at)
                ELSE calls' = moved /\ UNCHANGED status
             /\ UNCHANGED nodes
        ELSE /\ calls' = below
             /\ nodes' = IF below = <<>> THEN Append(nodes, top.node) ELSE nodes
             /\ UNCHANGED status
  /\ UNCHANGED <<page, at>>

Return ==
  /\ status = "running" /\ calls = <<>> /\ at > Len(page)
  /\ status' = "returned"
  /\ UNCHANGED <<page, at, calls, nodes>>

Next == Walk \/ Build \/ Return

FairSpec == Init /\ [][Next]_vars /\ WF_vars(Next)

-----------------------------------------------------------------------------
\* "FetchCategoryTree returns the full marketplace category tree"
\* (client.go:396): whatever the page, it returns.
TreeReturned == <>(status = "returned")

=============================================================================
