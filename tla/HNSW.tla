-------------------------------- MODULE HNSW --------------------------------
(***************************************************************************)
(* The nearest-neighbour graph of internal/rag/index.go: insertion layer   *)
(* by layer, pruning, the best-first search, and the rebuild from a saved  *)
(* blob.                                                                   *)
(*                                                                         *)
(* A vector is a point on a line and the cosine distance the distance of   *)
(* two points.  Ids count from 0 in the order of insertion, as the store   *)
(* adds its examples.  The generator is seeded, so that the layer of the   *)
(* n-th vector is the same in every build; which layer is arbitrary.  Of   *)
(* two equal distances in the heap the smaller id comes first.             *)
(***************************************************************************)
EXTENDS Integers, Sequences, SequencesExt, FiniteSetsExt

CONSTANTS
    Points,             \* the vectors: a set of integers
    M,                  \* links per node, 2 * M in layer 0
    EfConstruction,     \* width of the search for neighbours
    EfSearch,           \* width of a query
    MaxLayer, MaxSize   \* bounds on the layers and on the vectors added

VARIABLES
    graph,              \* the index
    draws               \* the layer the generator gives to the n-th vector

hnswVars == <<graph, draws>>

Layers == 0..MaxLayer

\* vecs[id + 1]; layers[l]: ids of the entries of a layer, in the order they came;
\* links[id + 1][l]: neighbours, [to, dist]; entry[l]: an id, -1 for none.
Empty == [vecs |-> <<>>, layers |-> [l \in Layers |-> <<>>], links |-> <<>>,
          entry |-> [l \in Layers |-> -1], top |-> 0]

distance(a, b) == IF a < b THEN b - a ELSE a - b

\* What a number stands for in a layer: a position in its list.  Only in layer 0 are
\* positions ids, and only there does the number of a neighbour name that neighbour.
Within(g, l, n) == n < Len(g.layers[l])
At(g, l, n) == g.layers[l][n + 1]

\* The loop of searchLayer and searchLayerAtPoint after n turns: pq holds <<dist, position>>.
\* A neighbour is pushed with the length of its link, not its distance from the query.
\* No position is popped twice.
Walk(g, ef, l, first) ==
    LET most == Len(g.layers[l])
        walk[n \in 0..most] ==
            IF n = 0 THEN [pq |-> {first}, visited |-> {first[2]}, found |-> <<>>]
            ELSE LET w == walk[n - 1]
                     next == CHOOSE x \in w.pq : \A y \in w.pq : x[1] < y[1] \/ (x[1] = y[1] /\ x[2] <= y[2])
                     links == g.links[At(g, l, next[2]) + 1][l]
                     fresh == {i \in DOMAIN links : /\ Within(g, l, links[i].to) /\ links[i].to \notin w.visited
                                                    /\ \A j \in 1..(i - 1) : links[j].to # links[i].to}
                     worth == {i \in fresh : Len(w.found) + 1 < ef \/ links[i].dist < next[1]}
                 IN  IF w.pq = {} \/ (Len(w.found) >= ef /\ next[1] > Last(w.found)[1]) THEN w
                     ELSE [pq |-> (w.pq \ {next}) \union {<<links[i].dist, links[i].to>> : i \in worth},
                           visited |-> w.visited \union {links[i].to : i \in fresh},
                           found |-> Append(w.found, next)]
    IN  walk[most].found

\* searchLayerAtPoint: positions in the order they were popped; nothing when the entry
\* point's id is not a position of the layer.
searchLayerAtPoint(g, q, ep, ef, l) ==
    IF ~Within(g, l, ep) THEN <<>>
    ELSE LET found == Walk(g, ef, l, <<distance(q, g.vecs[ep + 1]), ep>>)
         IN  [i \in DOMAIN found |-> found[i][2]]

searchLayer(g, q, ef, l) ==
    IF g.layers[l] = <<>> \/ g.entry[l] = -1 THEN <<>> ELSE searchLayerAtPoint(g, q, g.entry[l], ef, l)

\* The maxM links pruneNeighbors keeps: sorted by descending distance.
pruneNeighbors(links, maxM) ==
    SubSeq(SortSeq(links, LAMBDA a, b : a.dist > b.dist), 1, maxM)

\* One candidate is linked with the entry, both ways, and its list pruned.
Linked(g, id, l, c, m) ==
    LET cand == At(g, l, c)
        d == distance(g.vecs[id + 1], g.vecs[cand + 1])
        back == Append(g.links[cand + 1][l], [to |-> id, dist |-> d])
    IN  [g EXCEPT !.links[id + 1][l] = Append(@, [to |-> c, dist |-> d]),
                  !.links[cand + 1][l] = IF Len(back) > 2 * m THEN pruneNeighbors(back, m) ELSE back]

insertIntoLayer(g, id, l) ==
    LET m == IF l = 0 THEN 2 * M ELSE M
        near == searchLayer(g, g.vecs[id + 1], EfConstruction, l)
        chosen == SubSeq(near, 1, Min({m, Len(near)}))
        joined == FoldLeft(LAMBDA h, c : Linked(h, id, l, c, m), g, chosen)
    IN  [joined EXCEPT !.layers[l] = Append(@, id)]

addImpl(g, v, l) ==
    LET id == Len(g.vecs)
        grown == [g EXCEPT !.vecs = Append(@, v), !.links = Append(@, [k \in Layers |-> <<>>]),
                           !.top = Max({@, l}),
                           !.entry = [k \in Layers |-> IF k <= l /\ @[k] = -1 THEN id ELSE @[k]]]
    IN  FoldLeft(LAMBDA h, k : insertIntoLayer(h, id, k), grown, [i \in 1..(l + 1) |-> l + 1 - i])

\* Search: down to layer 1 for an entry point, which is the first result, that is the
\* position one came with; then layer 0, sorted by the distance from the query.
Search(g, q, k) ==
    LET Down(ep, l) == IF Within(g, l, ep) THEN At(g, l, ep) ELSE ep
        ep == FoldLeft(Down, IF g.entry[g.top] = -1 THEN g.entry[0] ELSE g.entry[g.top],
                       [i \in 1..g.top |-> g.top + 1 - i])
        base == searchLayerAtPoint(g, q, ep, EfSearch, 0)
        sorted == SortSeq(base, LAMBDA a, b : distance(q, g.vecs[a + 1]) < distance(q, g.vecs[b + 1]))
    IN  IF g.vecs = <<>> THEN <<>> ELSE SubSeq(sorted, 1, Min({k, Len(sorted)}))

\* A generator that goes on where the original build left it.
BugRebuilt(g) ==
    FoldLeft(LAMBDA h, id : addImpl(h, g.vecs[id + 1], draws[MaxSize - Len(h.vecs)]), Empty, g.layers[0])

\* DeserializeHNSWIndex of what Serialize wrote: the vectors of layer 0 in its order.
Rebuilt(g) ==
    FoldLeft(LAMBDA h, id : addImpl(h, g.vecs[id + 1], draws[Len(h.vecs) + 1]), Empty, g.layers[0])

-----------------------------------------------------------------------------
\* The first vector is in layer 0 only.
HNSWInit == graph = Empty /\ draws \in {d \in [1..MaxSize -> Layers] : d[1] = 0}

Add == \E v \in Points :
    /\ Len(graph.vecs) < MaxSize
    /\ graph' = addImpl(graph, v, draws[Len(graph.vecs) + 1])
    /\ UNCHANGED draws

Restore == graph.vecs # <<>> /\ graph' = Rebuilt(graph) /\ UNCHANGED draws

HNSWNext == Add \/ Restore

-----------------------------------------------------------------------------
Nearest(q) == Min({distance(q, graph.vecs[i]) : i \in DOMAIN graph.vecs})

\* What a query returns (index.go:348-349): different vectors of the index in the order
\* of their distance, one at least; and while the index holds no more vectors than
\* EfSearch, as many as were asked for and the nearest first, whatever the layers.
SearchSound ==
    graph.vecs # <<>> => \A q \in Points :
        LET n == Len(graph.vecs)
            out == Search(graph, q, n)
            d == [i \in DOMAIN out |-> distance(q, graph.vecs[out[i] + 1])]
        IN  /\ out # <<>> /\ IsInjective(out) /\ \A i \in 1..(Len(d) - 1) : d[i] <= d[i + 1]
            /\ n <= EfSearch => Len(out) = n /\ d[1] = Nearest(q)

\* A restored index is "structurally identical to the original" (index.go:563-565).
RestoredSame == [][graph'.vecs = graph.vecs => graph' = graph]_hnswVars
=============================================================================
