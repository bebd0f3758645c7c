------------------------------ MODULE HashRing ------------------------------
(***************************************************************************)
(* base/util/hashring.go: consistent hashing with weights.  A ring is its  *)
(* list of nodes and its weights; the map and the sorted keys that         *)
(* generateCircle builds of them are operators.  Positions on the circle   *)
(* are 0 .. Circle-1 in place of 2^32, and Digest stands for the three     *)
(* words of the md5 sum of "<node>-<j>": any function, so that two nodes   *)
(* may have a key in common.  The operations return a new ring and leave   *)
(* the old one as it was, except UpdateWithWeights, which replaces it.     *)
(***************************************************************************)
EXTENDS Integers, FiniteSetsExt, SequencesExt

CONSTANTS
    Nodes,
    Circle,     \* number of positions
    Replicas,   \* virtual nodes of a node of mean weight, 40 in the code
    Digest,     \* node |-> its virtual node j |-> three positions
    MaxWeight,  \* bound: weights that are tried
    MaxLen      \* bound: length of the list of a ring

Virtual == 0 .. Replicas * MaxLen - 1

ASSUME RingAssumption ==
    /\ IsFiniteSet(Nodes) /\ MaxLen \in Nat /\ Cardinality(Nodes) <= MaxLen
    /\ {Circle, Replicas, MaxWeight} \subseteq Nat \ {0}
    /\ Digest \in [Nodes -> [Virtual -> [1 .. 3 -> 0 .. Circle - 1]]]

VARIABLE ring   \* the ring in use: [nodes, weights]

\* A list of nodes in any order, as the iteration over a map gives it.
Listings(S) == SetToSeqs(S)

-----------------------------------------------------------------------------
(* generateCircle.                                                         *)

\* A node of a ring made by NewHashring has no weight and counts as one.
Weight(h, n) == IF n \in DOMAIN h.weights THEN h.weights[n] ELSE 1

WeightAt(h, p) == Weight(h, h.nodes[p])

\* A node that is listed twice counts twice.
TotalWeight(h) == MapThenSumSet(LAMBDA p : WeightAt(h, p), DOMAIN h.nodes)

\* Faulty variant: the share is not scaled by the length of the list.
FactorUnscaled(h, n) ==
    IF TotalWeight(h) = 0 THEN 0 ELSE (Replicas * Weight(h, n)) \div TotalWeight(h)

\* Rounded down; zero for a light node, and for all when no node has weight.
Factor(h, n) ==
    IF TotalWeight(h) = 0 THEN 0
    ELSE (Replicas * Len(h.nodes) * Weight(h, n)) \div TotalWeight(h)

KeysOf(h, n) == UNION {Range(Digest[n][j]) : j \in 0 .. Factor(h, n) - 1}

sortedKeys(h) == UNION {KeysOf(h, n) : n \in Range(h.nodes)}

\* The last node in the list that has the key overwrites the others.
Owner(h, key) ==
    h.nodes[Max({p \in DOMAIN h.nodes : key \in KeysOf(h, h.nodes[p])})]

-----------------------------------------------------------------------------
(* Lookups.                                                                *)

\* GetNodePos: the first key behind the position, else the first of all.
GetNodePos(h, pos) ==
    LET behind == {key \in sortedKeys(h) : key > pos}
    IN  Min(IF behind = {} THEN sortedKeys(h) ELSE behind)

\* The node, or nothing on a ring without keys.
GetNode(h, pos) ==
    IF sortedKeys(h) = {} THEN {} ELSE {Owner(h, GetNodePos(h, pos))}

\* Faulty variant: a node that has been met is taken again.
MeetAgain(found, n) == Append(found, n)

Meet(found, n) == IF n \in Range(found) THEN found ELSE Append(found, n)

\* A round of the loop of GetNodes: on to the next key, unless size nodes were
\* met in the rounds before.  The number is compared after a node was met, so
\* size 0 goes on to the end.
Round(h, size, i, last) ==
    IF i > 1 /\ Len(last.found) = size THEN last
    ELSE LET key == GetNodePos(h, last.at)
         IN  [at |-> key, found |-> Meet(last.found, Owner(h, key))]

\* GetNodes: walks once round the circle, or until it has met size nodes.
GetNodes(h, pos, size) ==
    LET n == Cardinality(sortedKeys(h))
        step[i \in 0 .. n] ==
          IF i = 0 THEN [at |-> pos, found |-> <<>>] ELSE Round(h, size, i, step[i - 1])
        found == step[n].found
    IN  IF n = 0 \/ size > Len(h.nodes) THEN [nodes |-> <<>>, ok |-> FALSE]
        ELSE [nodes |-> found, ok |-> Len(found) = size]

-----------------------------------------------------------------------------
(* The operations on the ring in use.                                      *)

NewHashring(nodes) == [nodes |-> nodes, weights |-> <<>>]

Weightings == UNION {[S -> 0 .. MaxWeight] : S \in SUBSET Nodes}

NewHashringWithWeights(weights) ==
    {[nodes |-> nodes, weights |-> weights] : nodes \in Listings(DOMAIN weights)}

\* NewHashring takes any list, NewHashringWithWeights lists every node once.
RingInit ==
    \/ \E k \in 0 .. MaxLen : \E nodes \in [1 .. k -> Nodes] : ring = NewHashring(nodes)
    \/ \E weights \in Weightings : ring \in NewHashringWithWeights(weights)

\* Only a change of the weights makes the ring anew.
UpdateWithWeights(weights) ==
    /\ weights # ring.weights
    /\ ring' \in NewHashringWithWeights(weights)

\* AddNode is AddWeightedNode with weight 1.
AddWeightedNode(n, weight) ==
    /\ n \notin Range(ring.nodes) /\ Len(ring.nodes) < MaxLen
    /\ ring' = [nodes   |-> Append(ring.nodes, n),
                weights |-> [m \in DOMAIN ring.weights \cup {n} |->
                               IF m = n THEN weight ELSE ring.weights[m]]]

\* A node without a weight of its own keeps the one it counts as.
UpdateWeightedNode(n, weight) ==
    /\ n \in DOMAIN ring.weights /\ ring.weights[n] # weight
    /\ ring' = [ring EXCEPT !.weights[n] = weight]

\* The loop of RemoveNode: every occurrence of the node is left out.
Kept(nodes, n) ==
    LET kept[i \in 0 .. Len(nodes)] ==
          IF i = 0 THEN <<>>
          ELSE IF nodes[i] = n THEN kept[i - 1] ELSE Append(kept[i - 1], nodes[i])
    IN  kept[Len(nodes)]

RemoveNode(n) ==
    /\ n \in Range(ring.nodes)
    /\ ring' = [nodes   |-> Kept(ring.nodes, n),
                weights |-> [m \in DOMAIN ring.weights \ {n} |-> ring.weights[m]]]

RingNext ==
    \/ \E weights \in Weightings : UpdateWithWeights(weights)
    \/ \E n \in Nodes :
          \/ \E weight \in 1 .. MaxWeight : AddWeightedNode(n, weight) \/ UpdateWeightedNode(n, weight)
          \/ RemoveNode(n)

RingSpec == RingInit /\ [][RingNext]_ring

-----------------------------------------------------------------------------
Positions == 0 .. Circle - 1

Even(h) == \A m, n \in Range(h.nodes) : Weight(h, m) = Weight(h, n) /\ Weight(h, n) > 0

\* As long as all nodes weigh the same, adding a node moves accounts to that
\* node only, and removing one moves its accounts only: the rounding of
\* generateCircle (hashring.go:94) leaves the keys of the others alone, and so
\* does the order in which nodes with a common key are listed.
OnlyItsKeysMove ==
    [][\A n \in Nodes, pos \in Positions :
         Even(ring) /\ Even(ring') =>
           /\ ring'.nodes = Append(ring.nodes, n)
                => GetNode(ring', pos) \in {GetNode(ring, pos), {n}}
           /\ n \in Range(ring.nodes) /\ RemoveNode(n) /\ GetNode(ring, pos) # {n}
                => GetNode(ring', pos) = GetNode(ring, pos)]_ring

\* How far clockwise of pos the first key of a node is.
Distance(h, pos, n) ==
    Min({(key - pos - 1) % Circle : key \in {k \in sortedKeys(h) : Owner(h, k) = n}})

Reachable(h) == {Owner(h, key) : key \in sortedKeys(h)}

\* GetNodes gives different nodes in the order in which they follow on the
\* circle, the first of them GetNode's, and fails exactly when there are fewer
\* nodes with a key: a light node may have none (hashring.go:94, :143-170).
GetNodesExact ==
    \A pos \in Positions, size \in 1 .. Cardinality(Nodes) :
      LET result == GetNodes(ring, pos, size)
          nodes  == result.nodes
      IN  /\ result.ok <=> size <= Cardinality(Reachable(ring))
          /\ result.ok =>
               /\ Len(nodes) = size /\ IsInjective(nodes)
               /\ GetNode(ring, pos) = {nodes[1]}
               /\ \A i \in 1 .. size : \A n \in Reachable(ring) \ Range(SubSeq(nodes, 1, i)) :
                    Distance(ring, pos, nodes[i]) < Distance(ring, pos, n)
=============================================================================
