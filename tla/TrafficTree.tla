------------------------------ MODULE TrafficTree ------------------------------
(***************************************************************************)
(* The tree of hosts, folders and requests in the side bar                 *)
(* (views/trafficView.ts).  VS Code asks for the children of a node when   *)
(* it is told that the tree changed, which is at most every 120 ms, and    *)
(* keeps the nodes it got until the next time.                             *)
(***************************************************************************)
EXTENDS Naturals, Sequences, FiniteSets, SequencesExt

CONSTANTS Hosts, MaxNodes   \* bound: requests that are recorded

VARIABLES
    transactions,  \* the mirror of the window: an id to its host and path
    timer,         \* refresh waits
    tree           \* the nodes that VS Code shows

treeVars == <<transactions, timer, tree>>

\* The segments of a path, without those that are empty; a CONNECT has none.
Paths == {<<>>, <<"a">>, <<"b">>, <<"a", "b">>}

Host(h) == [kind |-> "host", host |-> h, prefix |-> <<>>, id |-> 0]
Folder(h, p) == [kind |-> "folder", host |-> h, prefix |-> p, id |-> 0]
Leaf(h, i) == [kind |-> "transaction", host |-> h, prefix |-> <<>>, id |-> i]
Root == [kind |-> "root"]

Live == DOMAIN transactions
ForHost(h) == {i \in Live : transactions[i].host = h}
Beneath(prefix) == {i \in Live : IsPrefix(prefix, transactions[i].path)}

Begin(held) ==
    /\ transactions = held
    /\ timer = TRUE /\ tree = {}
Init == Begin(<<>>)

-----------------------------------------------------------------------------
(* Operators of the tree. *)

\* TrafficView.getChildren: the hosts; of a host or a folder, the requests whose path ends
\* there and a folder for each next segment of the others.
Children(node) ==
    IF node = Root THEN {Host(transactions[i].host) : i \in Live}
    ELSE IF node.kind = "transaction" THEN {}
    ELSE LET in == ForHost(node.host) \cap Beneath(node.prefix)
             depth == Len(node.prefix)
             deeper == {i \in in : Len(transactions[i].path) > depth} IN
         {Leaf(node.host, i) : i \in in \ deeper}
         \cup {Folder(node.host, SubSeq(transactions[i].path, 1, depth + 1)) : i \in deeper}

\* All that is below the root, to the depth of the longest path.
Level(nodes) == UNION {Children(n) : n \in nodes}
Whole ==
    LET one == Children(Root) two == Level(one) three == Level(two) four == Level(three)
    IN  one \cup two \cup three \cup four

\* TrafficView.getParent, by which a request is revealed; one that is gone has none.
Parent(node) ==
    CASE node.kind = "host" -> Root
      [] node.kind = "folder" ->
             IF Len(node.prefix) > 1 THEN Folder(node.host, Front(node.prefix))
             ELSE Host(node.host)
      [] node.kind = "transaction" ->
             IF node.id \notin Live THEN Root
             ELSE LET t == transactions[node.id] IN
                  IF t.path = <<>> THEN Host(t.host) ELSE Folder(t.host, t.path)

\* TrafficView.selected: the requests that a node given to a command stands for.
Selected(n) ==
    CASE n.kind = "transaction" -> {n.id} \cap Live
      [] n.kind = "host" -> ForHost(n.host)
      [] n.kind = "folder" -> ForHost(n.host) \cap Beneath(n.prefix)

-----------------------------------------------------------------------------
(* An event of the client refreshes the tree: unless a timer runs already, one is set. *)
Record ==
    /\ Cardinality(Live) < MaxNodes
    /\ \E h \in Hosts, p \in Paths, i \in (1..MaxNodes) \ Live :
           transactions' = [k \in Live \cup {i} |->
                               IF k = i THEN [host |-> h, path |-> p] ELSE transactions[k]]
    /\ timer' = TRUE
    /\ UNCHANGED tree
Removed ==
    /\ \E gone \in SUBSET Live \ {{}} :
           transactions' = [k \in Live \ gone |-> transactions[k]]
    /\ timer' = TRUE
    /\ UNCHANGED tree

\* The timer fires, and VS Code reads the tree anew.
TimerFires ==
    /\ timer /\ timer' = FALSE /\ tree' = Whole
    /\ UNCHANGED transactions

Next == Record \/ Removed \/ TimerFires
Spec == Init /\ [][Next]_treeVars

-----------------------------------------------------------------------------
Nodes == {Host(h) : h \in Hosts} \cup {Folder(h, p) : h \in Hosts, p \in Paths \ {<<>>}}
         \cup {Leaf(h, i) : h \in Hosts, i \in 1..MaxNodes}

TypeOK ==
    /\ Live \subseteq 1..MaxNodes
    /\ \A i \in Live : transactions[i].host \in Hosts /\ transactions[i].path \in Paths
    /\ timer \in BOOLEAN
    /\ tree \subseteq Nodes

\* Every request is in the tree at one place, which is where its parents lead, and what a
\* node stands for in a command is exactly what is below it; a tree at rest is that of the
\* requests there are (trafficView.ts, getChildren, getParent, selected and refresh).
TreeIsWhole ==
    /\ \A i \in Live :
           /\ \E n \in Whole : n.kind = "transaction" /\ n.id = i
           /\ Cardinality({n \in Whole : i \in {c.id : c \in Children(n)}}) = 1
    /\ \A n \in Whole : n \in Children(Parent(n))
    /\ \A n \in Whole : n.kind # "transaction" =>
           Selected(n) = UNION {Selected(c) : c \in Children(n)}
    /\ ~timer => tree = Whole
=============================================================================
