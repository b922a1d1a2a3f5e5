-------------------------------- MODULE JsonTrees --------------------------------
(***************************************************************************)
(* walk and redact of tools/key_probe.py as they go through a JSON document: *)
(* a tree of dictionaries, lists and leaves.  KeyProbe has them leaf by    *)
(* leaf.                                                                   *)
(***************************************************************************)
EXTENDS KeyProbe, TLC

CONSTANTS Trees     \* documents of the cloud, and others

Value(value)  == [leaf |-> value]
Dict(entries) == [dict |-> entries]
List(items)   == [list |-> items]
IsValue(tree) == "leaf" \in DOMAIN tree
IsDict(tree)  == "dict" \in DOMAIN tree

\* The leaves below a place that is reached by a key and has a path that ends in a name.
RECURSIVE Walk(_, _, _)
Walk(tree, key, name) ==
    IF IsValue(tree) THEN {Leaf(key, name, tree.leaf)}
    ELSE IF IsDict(tree)
    THEN UNION {Walk(tree.dict[k], k, k) : k \in DOMAIN tree.dict}
    ELSE UNION {Walk(tree.list[i], key, name \o "[" \o ToString(i - 1) \o "]") :
                    i \in DOMAIN tree.list}

RECURSIVE RedactTree(_, _)
RedactTree(tree, key) ==
    IF IsValue(tree) THEN IF key \in Credentials THEN Value(REDACTED) ELSE tree
    ELSE IF IsDict(tree)
    THEN Dict([k \in DOMAIN tree.dict |-> RedactTree(tree.dict[k], k)])
    ELSE List([i \in DOMAIN tree.list |-> RedactTree(tree.list[i], key)])

\* However deep lists and dictionaries are nested in each other, the walk through what redact
\* leaves of a document meets the leaves that the walk through the document meets, each
\* redacted by the last key above it, as KeyProbe has it (key_probe.py:160-180).
ASSUME RedactedLeafByLeaf ==
    \A tree \in Trees :
        Walk(RedactTree(tree, "$"), "$", "$") = {Redacted(leaf) : leaf \in Walk(tree, "$", "$")}
===============================================================================
