-------------------------------- MODULE Mst --------------------------------
(***************************************************************************)
(* The Merkle search tree over a repository's records (mst.rs of           *)
(* crates/psky-repo).  Hashing is injective on the blocks of one           *)
(* repository, so a block stands for its own CID and a link holds the      *)
(* block it links to.  A key is a sequence of bytes.                       *)
(***************************************************************************)
EXTENDS Integers, Sequences, SequencesExt

CONSTANT ByteWidth    \* bits of a byte of a digest

None == [is |-> "none"]
Underflow == [is |-> "underflow"]

\* The order of keys in a BTreeMap: bytewise.
Less(p, q) ==
  \E i \in 1..Len(q) :
    /\ \A j \in 1..(i - 1) : j <= Len(p) /\ p[j] = q[j]
    /\ i > Len(p) \/ p[i] < q[i]

\* Length of the common prefix.
CommonPrefix(p, q) ==
  LET shared == {n \in 0..Len(q) :
                   n <= Len(p) /\ SubSeq(p, 1, n) = SubSeq(q, 1, n)} IN
  CHOOSE n \in shared : \A m \in shared : m <= n

leading_zeros(byte) ==
  CHOOSE n \in 0..ByteWidth :
    /\ byte < 2^(ByteWidth - n)
    /\ n < ByteWidth => byte >= 2^(ByteWidth - n - 1)

\* The layer of a key, from its digest.
layer(digest) ==
  LET zeros[i \in 1..(Len(digest) + 1)] ==
        IF i > Len(digest) THEN 0
        ELSE leading_zeros(digest[i])
               + IF digest[i] # 0 THEN 0 ELSE zeros[i + 1] IN
  zeros[1] \div 2

-----------------------------------------------------------------------------
RECURSIVE subtree(_, _)

child(entries, parent_layer) ==
  IF entries = <<>> THEN None
  ELSE IF parent_layer = 0 THEN Underflow
  ELSE subtree(entries, parent_layer - 1)

\* Mutated form: the loop never moves on to the next key to shorten by, so
\* every key is stored in full.  Such a tree decodes to the same keys.
unmoved_key(entries, anchors, n) == <<>>

\* The key before the n-th one of a node, which the n-th is shortened by.
previous_key(entries, anchors, n) ==
  IF n = 1 THEN <<>> ELSE entries[anchors[n - 1]].key

\* The node at a layer over a run of entries in key order.
subtree(entries, at) ==
  LET anchors == SelectSeq([i \in DOMAIN entries |-> i],
                           LAMBDA i : entries[i].layer = at)
      left_end == IF anchors = <<>> THEN Len(entries) ELSE anchors[1] - 1
      end(n) == IF n = Len(anchors) THEN Len(entries) ELSE anchors[n + 1] - 1
      entry(n) ==
        LET key == entries[anchors[n]].key
            prefix == CommonPrefix(previous_key(entries, anchors, n), key) IN
        [p |-> prefix, k |-> SubSeq(key, prefix + 1, Len(key)),
         v |-> entries[anchors[n]].value,
         t |-> child(SubSeq(entries, anchors[n] + 1, end(n)), at)] IN
  [l |-> child(SubSeq(entries, 1, left_end), at),
   e |-> [n \in DOMAIN anchors |-> entry(n)]]

\* The tree of a mapping from keys to record CIDs.
build(mapping, digest) ==
  LET keys == SetToSortSeq(DOMAIN mapping, Less)
      entries == [i \in DOMAIN keys |->
                    [key |-> keys[i], value |-> mapping[keys[i]],
                     layer |-> layer(digest[keys[i]])]]
      layers == {entries[i].layer : i \in DOMAIN entries} \cup {0}
      top == CHOOSE n \in layers : \A m \in layers : m <= n IN
  subtree(entries, top)

RECURSIVE tree_blocks(_)

\* The blocks inserted while a tree is built.
tree_blocks(node) ==
  LET links == ({node.l} \cup {node.e[n].t : n \in DOMAIN node.e}) \ {None} IN
  {node} \cup UNION {tree_blocks(link) : link \in links}

-----------------------------------------------------------------------------
(* Reference definitions.                                                  *)

\* The keys of a node, from the prefixes and suffixes it stores.
Keys(node) ==
  LET key[n \in 0..Len(node.e)] ==
        IF n = 0 THEN <<>>
        ELSE SubSeq(key[n - 1], 1, node.e[n].p) \o node.e[n].k IN
  [n \in DOMAIN node.e |-> key[n]]

RECURSIVE Walk(_)

\* The pairs met by walking a tree from left to right.
Walk(node) ==
  IF node = None THEN <<>>
  ELSE LET pairs[n \in 0..Len(node.e)] ==
             IF n = 0 THEN Walk(node.l)
             ELSE pairs[n - 1] \o << <<Keys(node)[n], node.e[n].v>> >>
                               \o Walk(node.e[n].t) IN
       pairs[Len(node.e)]

\* The layer of a key as the format defines it: pairs of zero bits in front
\* of the digest read as one number.
LayerOf(digest) ==
  LET number[i \in 0..Len(digest)] ==
        IF i = 0 THEN 0 ELSE number[i - 1] * 2^ByteWidth + digest[i]
      bits == ByteWidth * Len(digest) IN
  CHOOSE n \in 0..(bits \div 2) :
    /\ number[Len(digest)] < 2^(bits - 2 * n)
    /\ 2 * (n + 1) <= bits => number[Len(digest)] >= 2^(bits - 2 * (n + 1))

\* Each key of a node is shortened by all it shares with the one before it:
\* the first byte it stores is one the other key does not have there.
Shortened(node) ==
  \A n \in DOMAIN node.e :
    LET before == IF n = 1 THEN <<>> ELSE Keys(node)[n - 1]
        p == node.e[n].p
        k == node.e[n].k IN
    /\ p \in 0..Len(before) /\ k # <<>>
    /\ p < Len(before) => k[1] # before[p + 1]

RECURSIVE InLayer(_, _, _)

\* Every key of the tree sits in the layer of its digest and is stored as
\* short as can be, every link leads one layer down, and no node is empty.
InLayer(node, at, digest) ==
  LET links == ({node.l} \cup {node.e[n].t : n \in DOMAIN node.e}) \ {None} IN
  /\ at >= 0
  /\ \A n \in DOMAIN node.e : LayerOf(digest[Keys(node)[n]]) = at
  /\ Shortened(node)
  /\ node.e # <<>> \/ links # {}
  /\ Underflow \notin links
  /\ \A link \in links : InLayer(link, at - 1, digest)

\* The tree a mapping must have.  There is one only: the layers fix which
\* keys share a node, the order fixes where, and Shortened fixes what is
\* stored of each.
IsTreeOf(root, mapping, digest) ==
  /\ Walk(root) = [i \in 1..Len(SetToSortSeq(DOMAIN mapping, Less)) |->
                     LET key == SetToSortSeq(DOMAIN mapping, Less)[i] IN
                     <<key, mapping[key]>>]
  /\ DOMAIN mapping = {} => root = [l |-> None, e |-> <<>>]
  /\ DOMAIN mapping # {} =>
       /\ root.e # <<>>
       /\ InLayer(root, LayerOf(digest[Keys(root)[1]]), digest)
=============================================================================
