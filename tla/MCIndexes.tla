---------------------------- MODULE MCIndexes ----------------------------
(* Instances of Indexes for TLC: three processes with every combination of *)
(* ten calls over two columns.                                             *)
EXTENDS Indexes

CONSTANTS u1, u2, u3, a, b, ub

MCUsers == {u1, u2, u3}
Sym == Permutations(MCUsers)

A  == [name |-> Unnamed, type |-> "btree", cols |-> <<a>>]
AB == [name |-> Unnamed, type |-> "btree", cols |-> <<a, b>>]
B  == [name |-> ub, type |-> "unique", cols |-> <<b>>]
P  == [name |-> Unnamed, type |-> "primary", cols |-> <<a>>]
None == [name |-> Unnamed, type |-> "btree", cols |-> <<>>]

Does(call, list) == [call |-> call, list |-> list, name |-> GetName(A)]

MCJobs ==
    {Does("CreateIfNotExists", <<A, B>>), Does("CreateIfNotExists", <<B, AB, P>>),
     Does("BuildIndexes", <<A, B>>), Does("BuildIndexes", <<B, AB, None>>),
     Does("BuildIndexes", <<P, A>>), Does("BuildIndexes", <<B, A>>),
     Does("Create", <<A>>), Does("Create", <<A, None>>),
     Does("DropOne", <<>>), Does("DropAll", <<>>)}

MCCatalogues == {{}, {Entry(P)},
                 {[name |-> GetName(A), storage |-> "FULLTEXT", uniq |-> FALSE, cols |-> {b}]}}
==========================================================================
