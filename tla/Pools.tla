------------------------------- MODULE Pools -------------------------------
(***************************************************************************)
(* utils/multipool.c over utils/typepool.c.  A type pool is a list of      *)
(* nodes, each with a stack of its free elements; free_node remembers      *)
(* where the next claim looks first.  An element carries the node it       *)
(* belongs to, and in a multi pool the index of its type pool, in front of *)
(* the memory the user gets: the index, from 0, in a char.                 *)
(*                                                                         *)
(* An element is <<pool, node, k>>.  malloc may fail when a pool grows.    *)
(***************************************************************************)
EXTENDS Integers, Sequences, FiniteSets

CONSTANTS
    PoolLens,           \* element length of each type pool, in the order given
    BaseNum,            \* elements of a node
    MaxNodes            \* bound: nodes of a pool

ASSUME PoolsAssumption ==
    PoolLens \in Seq(Nat) /\ BaseNum \in Nat \ {0} /\ MaxNodes \in Nat \ {0}

VARIABLES
    ptr_stacks,         \* pool -> node -> its free elements
    free_node,          \* pool -> node, or 0 for NULL
    inUse,              \* elements the user holds, with the length asked for
    claimed             \* what the last call returned: an element, or NULL

poolsVars == <<ptr_stacks, free_node, inUse, claimed>>

PoolIndexes == 1..Len(PoolLens)
NULL == <<>>

\* An int stored in a char, which is signed in the builds of the repository.
char(i) == IF i % 256 < 128 THEN i % 256 ELSE (i % 256) - 256

type_pool_node_new(p, n) == [k \in 1..BaseNum |-> <<p, n, k>>]

PoolsInit ==
    /\ ptr_stacks = [p \in PoolIndexes |-> <<type_pool_node_new(p, 1)>>]
    /\ free_node = [p \in PoolIndexes |-> 1]
    /\ inUse = {} /\ claimed = NULL

\* The node type_pool_claim_help takes from, and the free_node it leaves: the
\* remembered node, or the first with a free element, and then the one after it.
HelpNode(stacks, at) ==
    IF at # 0 /\ stacks[at] # <<>> THEN at
    ELSE LET free == {n \in 1..Len(stacks) : stacks[n] # <<>>}
         IN  IF free = {} THEN 0 ELSE CHOOSE n \in free : \A m \in free : n <= m

NextNode(stacks, at, n) ==
    IF at # 0 /\ stacks[at] # <<>> THEN n ELSE IF n = Len(stacks) THEN 0 ELSE n + 1

Help(p, stacks, at, len) ==
    LET n == HelpNode(stacks, at)
        e == IF n = 0 THEN NULL ELSE stacks[n][Len(stacks[n])]
    IN  /\ claimed' = e
        /\ IF e = NULL
           THEN /\ ptr_stacks' = [ptr_stacks EXCEPT ![p] = stacks]
                /\ free_node' = [free_node EXCEPT ![p] = at]
                /\ UNCHANGED inUse
           ELSE /\ ptr_stacks' = [ptr_stacks EXCEPT ![p] =
                       [stacks EXCEPT ![n] = SubSeq(@, 1, Len(@) - 1)]]
                /\ free_node' = [free_node EXCEPT ![p] = NextNode(stacks, at, n)]
                /\ inUse' = inUse \cup {[el |-> e, len |-> len, pool_index |-> char(p - 1)]}

\* A pool without a free element grows by a node, if it can, and tries again.
ox_type_pool_claim(p, len) ==
    LET stacks == ptr_stacks[p] IN
    \/ /\ HelpNode(stacks, free_node[p]) # 0
       /\ Help(p, stacks, free_node[p], len)
    \/ /\ HelpNode(stacks, free_node[p]) = 0
       /\ \/ /\ Len(stacks) < MaxNodes
             /\ LET n == Len(stacks) + 1
                IN  Help(p, Append(stacks, type_pool_node_new(p, n)), n, len)
          \/ Help(p, stacks, free_node[p], len)

ox_multi_pool_claim(p) == ox_type_pool_claim(p, PoolLens[p])

\* The first pool whose elements are long enough; 0 if there is none.  The
\* bound of the search is a char.
PoolFor(len) ==
    LET fit == {p \in 1..char(Len(PoolLens)) : PoolLens[p] >= len}
    IN  IF fit = {} THEN 0 ELSE CHOOSE p \in fit : \A q \in fit : p <= q

ox_multi_pool_lenclaim(len) ==
    \/ PoolFor(len) # 0 /\ ox_type_pool_claim(PoolFor(len), len)
    \/ PoolFor(len) = 0 /\ claimed' = NULL /\ UNCHANGED <<ptr_stacks, free_node, inUse>>

\* The pool msg_pools[pool_index] of an element.
poolOf(u) == u.pool_index + 1

\* Mutant: the element goes to the node that is remembered.
reclaimNode_free(u) == IF free_node[poolOf(u)] = 0 THEN 1 ELSE free_node[poolOf(u)]

\* The node the element carries.
reclaimNode(u) == u.el[2]

\* ox_multi_pool_reclaim and ox_type_pool_reclaim.
ox_multi_pool_reclaim(u) ==
    LET p == poolOf(u)
        n == reclaimNode(u)
    IN  /\ u \in inUse
        /\ inUse' = inUse \ {u}
        /\ ptr_stacks' = [ptr_stacks EXCEPT ![p][n] = Append(@, u.el)]
        /\ free_node' = [free_node EXCEPT ![p] = n]
        /\ UNCHANGED claimed

PoolsNext ==
    \/ \E p \in PoolIndexes : ox_multi_pool_claim(p)
    \/ \E len \in 0..(PoolLens[Len(PoolLens)] + 1) : ox_multi_pool_lenclaim(len)
    \/ \E u \in inUse : ox_multi_pool_reclaim(u)

PoolsSpec == PoolsInit /\ [][PoolsNext]_poolsVars
-----------------------------------------------------------------------------
AllElements(p) == {p} \X (1..Len(ptr_stacks[p])) \X (1..BaseNum)
FreeIn(p, n) == {ptr_stacks[p][n][i] : i \in 1..Len(ptr_stacks[p][n])}

(***************************************************************************)
(* An element is in the user's hands or on the free stack of its own node, *)
(* once, and is as long as was asked: no element is handed out twice, lost *)
(* or returned to another pool, whatever order claims, growth and reclaims *)
(* come in and wherever free_node points.                                  *)
(***************************************************************************)
PoolsSound ==
    /\ \A p \in PoolIndexes :
        LET held == {u.el : u \in {v \in inUse : poolOf(v) = p}} IN
        /\ UNION {FreeIn(p, n) : n \in 1..Len(ptr_stacks[p])} = AllElements(p) \ held
        /\ held \subseteq AllElements(p)
        /\ \A n \in 1..Len(ptr_stacks[p]) :
            /\ Cardinality(FreeIn(p, n)) = Len(ptr_stacks[p][n])
            /\ \A e \in FreeIn(p, n) : e[2] = n
    /\ \A u, v \in inUse : u.el = v.el => u = v
    /\ \A u \in inUse : u.len <= PoolLens[poolOf(u)]
=============================================================================
