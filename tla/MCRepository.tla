---- MODULE MCRepository ----
(* Record sets of a few small records or one or two larger ones, with     *)
(* values that are refused for every reason and every choice of layers.    *)
EXTENDS Repository

String(n) == [is |-> "string", len |-> n]
Null == [is |-> "null"]
Unnamed(v) == [name |-> 0, value |-> v]
Array(vs) == [is |-> "array", items |-> [n \in DOMAIN vs |-> Unnamed(vs[n])]]
Object(name, v) == [is |-> "object", items |-> <<[name |-> name, value |-> v]>>]
Link(len) == [is |-> "link", extra_fields |-> FALSE, canonical |-> TRUE, len |-> len]
Octets(len) == [is |-> "bytes", extra_fields |-> FALSE, canonical |-> TRUE, len |-> len]

Json == {Null, String(5), Array(<<String(2), Null>>),
         Array(<<Link(2), Link(2)>>),
         Array(<<Array(<<Array(<<>>)>>)>>), Array(<<Array(<<Null>>), Null>>),
         [is |-> "number", safe |-> FALSE], Link(5), Octets(6),
         [Link(5) EXCEPT !.extra_fields = TRUE], [Octets(4) EXCEPT !.canonical = FALSE]}

\* A path without a key, and paths that share prefixes, in two collections.
MCPaths == {<<1>>, <<1, 1>>, <<1, 1, 2>>, <<1, 1, 3>>, <<1, 2>>, <<2, 1>>}
MCValues == {[type |-> 1, json |-> Object(1, j)] : j \in Json}
              \cup {[type |-> 2, json |-> Object(1, Null)]}

\* Layers 0, 1 and 4 of digests of two four-bit bytes.
MCDigests == {<<8, 0>>, <<2, 1>>, <<0, 0>>}
====
