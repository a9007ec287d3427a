---------------------------- MODULE MCZkOperations ----------------------------
(* Instances of ZkOperations for TLC: a chain of three nodes and a node beside
   the second; the tree is empty at first, or holds them all. *)
EXTENDS ZkOperations

CONSTANTS n1, n2, n3, n4
MCNames == {n1, n2, n3, n4}
MCPaths == {<<n1>>, <<n1, n2>>, <<n1, n2, n3>>, <<n1, n4>>}
MCTrees == {[p \in t |-> 0] : t \in {{}, MCPaths}}
Request(op, p, sync) == [op |-> op, path |-> p, version |-> 0, sync |-> sync]
MCRequests ==
    {Request("mkpath", <<n1, n2, n3>>, s) : s \in BOOLEAN}
    \cup {Request("rmr", <<n1>>, s) : s \in BOOLEAN}
    \cup {Request(op, <<n1, n2>>, FALSE) : op \in {"set", "delete", "create", "get", "exist", "children"}}
    \cup {Request("delete", <<n1, n2>>, TRUE)}
===============================================================================
