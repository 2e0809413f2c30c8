----------------------------- MODULE Repository -----------------------------
(***************************************************************************)
(* A record set and its signed repository (crates/psky-repo/src/lib.rs and *)
(* car.rs): a worker puts and deletes records, and can at any time build   *)
(* the repository over them, verify it and export it, as the               *)
(* reconstruction lab does (crates/psky/src/lab.rs).                       *)
(*                                                                         *)
(* A path is a sequence whose first element is the collection.  A JSON     *)
(* value is a record `is` of its kind; strings, names and texts are their  *)
(* lengths.  A block stands for its CID (see Mst).                         *)
(***************************************************************************)
EXTENDS Mst, FiniteSetsExt

CONSTANTS
  Paths,                  \* paths asked for, wrong ones among them
  Values,                 \* values put: their $type, and the JSON beside it
  Digests,                \* digests a key may have
  MAX_RECORDS,
  MAX_RECORD_BYTES,
  MAX_TOTAL_RECORD_BYTES,
  MAX_RECORD_DEPTH,
  LINK_BYTES              \* size of an encoded link

ASSUME ConstantsAssumption ==
  {MAX_RECORDS, MAX_RECORD_BYTES, MAX_TOTAL_RECORD_BYTES, MAX_RECORD_DEPTH,
   LINK_BYTES, ByteWidth} \subseteq Nat \ {0}

VARIABLES
  digest,                 \* of every path: fixed, unknown
  records,                \* what is stored under each path
  encoded_bytes           \* the running total

vars == <<digest, records, encoded_bytes>>

-----------------------------------------------------------------------------
(* Records.                                                                *)

\* syntax::path: a collection and a key.
ValidPath(path) == Len(path) >= 2

Accepted(left) == [ok |-> TRUE, left |-> left]
Refused == [ok |-> FALSE]

\* budget.checked_sub.
Charge(budget, n) == IF n > budget THEN Refused ELSE Accepted(budget - n)

RECURSIVE json_to_ipld(_, _, _)

\* Mutated form: each member is given the whole budget.
members_apart(items, depth, budget) ==
  IF \A n \in DOMAIN items :
       /\ items[n].name <= budget
       /\ json_to_ipld(items[n].value, depth + 1, budget - items[n].name).ok
  THEN Accepted(budget) ELSE Refused

\* The members of a list or an object, one after the other.
members(items, depth, budget) ==
  LET left[n \in 0..Len(items)] ==
        IF n = 0 THEN Accepted(budget)
        ELSE LET before == left[n - 1]
                 named == IF before.ok
                          THEN Charge(before.left, items[n].name) ELSE Refused IN
             IF named.ok
             THEN json_to_ipld(items[n].value, depth + 1, named.left)
             ELSE Refused IN
  left[Len(items)]

\* What is left of the budget after a value, or its refusal.
json_to_ipld(v, depth, budget) ==
  LET charged == Charge(budget, IF v.is = "string" THEN v.len + 1 ELSE 1) IN
  IF depth > MAX_RECORD_DEPTH \/ ~charged.ok THEN Refused
  ELSE CASE v.is \in {"null", "string"} -> charged
         [] v.is = "number" -> IF v.safe THEN charged ELSE Refused
         [] v.is \in {"array", "object"} ->
              members(v.items, depth, charged.left)
         \* {"$link": ...} and {"$bytes": ...}
         [] v.is \in {"link", "bytes"} ->
              IF v.extra_fields \/ ~v.canonical THEN Refused
              ELSE Charge(charged.left, v.len)

RECURSIVE encoded_len(_)

\* Length of the canonical DAG-CBOR encoding, with headers of one byte; four
\* base64 digits are three bytes.
encoded_len(v) ==
  CASE v.is \in {"null", "number"} -> 1
    [] v.is = "string" -> v.len + 1
    [] v.is = "link" -> LINK_BYTES
    [] v.is = "bytes" -> 1 + (v.len * 3) \div 4
    [] v.is \in {"array", "object"} ->
         1 + MapThenSumSet(LAMBDA n :
               encoded_len(v.items[n].value)
                 + IF v.is = "object" THEN 1 + v.items[n].name ELSE 0,
               DOMAIN v.items)

-----------------------------------------------------------------------------
(* Record sets.                                                            *)

Init ==
  /\ digest \in [{p \in Paths : ValidPath(p)} -> Digests]
  /\ records = <<>>
  /\ encoded_bytes = 0

Stored == DOMAIN records
Bytes(path) ==
  IF path \in Stored THEN encoded_len(records[path].json) ELSE 0

\* The total after a put.
NewTotal(path, v) == encoded_bytes - Bytes(path) + encoded_len(v.json)

\* The checks of put.
Puttable(path, v) ==
  /\ ValidPath(path) /\ v.type = path[1]
  /\ path \in Stored \/ Cardinality(Stored) < MAX_RECORDS
  /\ json_to_ipld(v.json, 0, MAX_RECORD_BYTES).ok
  /\ encoded_len(v.json) <= MAX_RECORD_BYTES
  /\ NewTotal(path, v) <= MAX_TOTAL_RECORD_BYTES

put(path, v) ==
  /\ Puttable(path, v)
  /\ records' = [p \in Stored \cup {path} |-> IF p = path THEN v ELSE records[p]]
  /\ encoded_bytes' = NewTotal(path, v)
  /\ UNCHANGED digest

delete(path) ==
  /\ path \in Stored
  /\ records' = [p \in Stored \ {path} |-> records[p]]
  /\ encoded_bytes' = encoded_bytes - Bytes(path)
  /\ UNCHANGED digest

Next ==
  \E path \in Paths :
    \/ \E v \in Values : put(path, v)
    \/ delete(path)

Spec == Init /\ [][Next]_vars

-----------------------------------------------------------------------------
(* Repositories.                                                           *)

\* The commit over a tree, signed by the one key of the instance.
SignedCommit(data) == [data |-> data, version |-> 3, prev |-> None]

\* Repository::build.
Build(rs) ==
  LET data == build(rs, digest) IN
  [root |-> SignedCommit(data), records |-> rs,
   blocks |-> tree_blocks(data) \cup {rs[p] : p \in DOMAIN rs}
                \cup {SignedCommit(data)}]

\* Mutated form: the tree is taken as it is.
verify_records_only(repo) ==
  /\ repo.root \in repo.blocks
  /\ \A p \in DOMAIN repo.records : repo.records[p] \in repo.blocks

\* Repository::verify.  Hashes and signatures cannot be wrong here.
verify(repo) ==
  LET expected == build(repo.records, digest) IN
  /\ repo.root \in repo.blocks
  /\ repo.root.version = 3 /\ repo.root.prev = None
  /\ expected = repo.root.data
  /\ tree_blocks(expected) \subseteq repo.blocks
  /\ \A p \in DOMAIN repo.records : repo.records[p] \in repo.blocks

\* Repository::to_car: the root, then every other block once, in CID order.
export(repo) == [root |-> repo.root, rest |-> repo.blocks \ {repo.root}]

\* fixture_car of the lab: nothing is exported that does not verify.
reconstruct(rs) ==
  IF verify(Build(rs)) THEN export(Build(rs)) ELSE None

-----------------------------------------------------------------------------
(* Properties.                                                             *)

RECURSIVE Depth(_)
Depth(v) ==
  IF v.is \notin {"array", "object"} \/ v.items = <<>> THEN 0
  ELSE 1 + Max({Depth(v.items[n].value) : n \in DOMAIN v.items})

RECURSIVE WellFormed(_)
WellFormed(v) ==
  /\ v.is = "number" => v.safe
  /\ v.is \in {"link", "bytes"} => ~v.extra_fields /\ v.canonical
  /\ v.is \in {"array", "object"} =>
       \A n \in DOMAIN v.items : WellFormed(v.items[n].value)

RECURSIVE Cost(_)
Cost(v) ==
  CASE v.is \in {"null", "number"} -> 1
    [] v.is \in {"string", "link", "bytes"} -> 1 + v.len
    [] v.is \in {"array", "object"} ->
         1 + MapThenSumSet(LAMBDA n : v.items[n].name + Cost(v.items[n].value),
                           DOMAIN v.items)

(* A put is accepted exactly when the record is well formed, of its        *)
(* path's collection, not nested too deep and not too large, and the       *)
(* record set that would result keeps its limits: the running total is     *)
(* right whatever was replaced and deleted before, replacing a record in a *)
(* full set is allowed, and a budget spent in one member of a value is not *)
(* there for the next (put, delete, json_to_ipld).                         *)
PutIsJudgedRight ==
  \A path \in Paths, v \in Values :
    LET after == Stored \cup {path}
        size(p) == IF p = path THEN encoded_len(v.json) ELSE Bytes(p) IN
    Puttable(path, v) <=>
      /\ ValidPath(path) /\ v.type = path[1]
      /\ WellFormed(v.json) /\ Depth(v.json) <= MAX_RECORD_DEPTH
      /\ Cost(v.json) <= MAX_RECORD_BYTES
      /\ encoded_len(v.json) <= MAX_RECORD_BYTES
      /\ Cardinality(after) <= MAX_RECORDS
      /\ MapThenSumSet(size, after) <= MAX_TOTAL_RECORD_BYTES

(* The tree built over the records is the one tree for them: read from     *)
(* left to right it gives every path with its record, in order, each path  *)
(* sits in the layer of its digest, links lead exactly one layer down,     *)
(* through empty nodes if need be, the root sits in the highest layer in   *)
(* use, and the layers never run out (mst.rs).                             *)
TreeIsCanonical == IsTreeOf(build(records, digest), records, digest)

(* Every record set can be exported: its repository verifies, and would    *)
(* not with any block missing.  The file holds what is needed and nothing  *)
(* else, no deleted or replaced record among it (Repository::build,        *)
(* verify, to_car, fixture_car).                                           *)
ExportIsExact ==
  LET repo == Build(records) IN
  /\ reconstruct(records) = export(repo)
  /\ {repo.root} \cup export(repo).rest = repo.blocks
  /\ \A b \in repo.blocks : ~verify([repo EXCEPT !.blocks = @ \ {b}])
=============================================================================
