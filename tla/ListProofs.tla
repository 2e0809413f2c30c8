----------------------------- MODULE ListProofs -----------------------------
(***************************************************************************)
(* The components whose state or result is a list built by a loop: the     *)
(* Hypersnap preflight, the limits of the account service, and the event   *)
(* journal with a console tab that follows it.  They share the lemmas      *)
(* about lists and what a loop keeps of one, which come first.             *)
(*                                                                         *)
(* Preflight: what a report says is earned by the answers, for any number  *)
(* of endpoints, shards and events and whatever the nodes answer.  The     *)
(* invariant relates the report of each node to the answers of its         *)
(* endpoint (Tells); what a report that relates so may conclude is a       *)
(* matter of counting: as many distinct shard ids as there may be cover    *)
(* every shard, and as many distinct peers as endpoints are all the peers. *)
(* What the loop over registry events finds is shown by induction.         *)
(*                                                                         *)
(* AttemptLimit and LogFeed come last.  What they promise is stated over   *)
(* the state in Limiter and FeedView, which this module extends; their     *)
(* behaviours are instances, so what they assume of their constants is a   *)
(* hypothesis of each theorem.                                             *)
(***************************************************************************)
EXTENDS Preflight, Limiter, FeedView, FiniteSetTheorems, SequenceTheorems,
        WellFoundedInduction, TLAPS

-----------------------------------------------------------------------------
(* Lists and records.                                                      *)

(* A list has its elements at the places from one to its length.           *)
LEMMA ListFacts ==
  ASSUME NEW s, IsList(s)
  PROVE  Len(s) \in Nat /\ DOMAIN s = 1..Len(s)
BY DEF IsList

(* Intervals of the same numbers end alike.                                *)
LEMMA SameInterval ==
  ASSUME NEW a \in Nat, NEW b \in Nat, 1..a = 1..b
  PROVE  a = b
<1>1. a > 0 => a \in 1..b
  OBVIOUS
<1>2. b > 0 => b \in 1..a
  OBVIOUS
<1> QED
  BY <1>1, <1>2

(* A function on the numbers from one to n is a list.                      *)
LEMMA FunctionIsList ==
  ASSUME NEW n \in Nat, NEW t, t = [i \in 1..n |-> t[i]]
  PROVE  IsList(t) /\ Len(t) = n /\ DOMAIN t = 1..n
<1>1. DOMAIN t = 1..n
  OBVIOUS
<1>2. t \in [1..n -> {t[i] : i \in DOMAIN t}]
  BY <1>1
<1>3. IsList(t)
  BY <1>2, SeqDef DEF IsList
<1> QED
  BY <1>1, <1>3, ListFacts, SameInterval

(* The empty list.                                                         *)
LEMMA EmptyList == IsList(<<>>) /\ Len(<<>>) = 0
BY DEF IsList

(* A list that is appended to.                                             *)
LEMMA AppendFacts ==
  ASSUME NEW s, IsList(s), NEW e
  PROVE  /\ IsList(Append(s, e)) /\ Len(Append(s, e)) = Len(s) + 1
         /\ \A i \in 1..Len(s) : Append(s, e)[i] = s[i]
         /\ Append(s, e)[Len(s) + 1] = e
<1> DEFINE S == {s[i] : i \in DOMAIN s} \cup {e}
<1>1. s \in Seq({s[i] : i \in DOMAIN s})
  BY DEF IsList
<1>2. s \in Seq(S) /\ e \in S
  BY <1>1, SeqMonotonic
<1> HIDE DEF S
<1>3. /\ Append(s, e) \in Seq(S) /\ Len(Append(s, e)) = Len(s) + 1
      /\ \A i \in 1..Len(s) : Append(s, e)[i] = s[i]
      /\ Append(s, e)[Len(s) + 1] = e
  BY <1>2
<1>4. ASSUME NEW t \in Seq(S) PROVE IsList(t)
  BY <1>4, FunctionIsList
<1> QED
  BY <1>3, <1>4

-----------------------------------------------------------------------------
(* Induction over the steps of a loop, stated over the set of the numbers  *)
(* for which the claim holds.                                              *)

(* A set that has zero and, with each number below N, the next one has all *)
(* the numbers up to N: else take the least it lacks.                      *)
LEMMA UpTo ==
  ASSUME NEW N \in Nat, NEW T, 0 \in T,
         \A n \in 0..(N - 1) : n \in T => n + 1 \in T
  PROVE  N \in T
<1> DEFINE U == {n \in 0..N : n \notin T}
<1> SUFFICES ASSUME U # {} PROVE FALSE
  OBVIOUS
<1>1. PICK R : R = {z \in Nat \X Nat : z[1] < z[2]}
  OBVIOUS
<1>2. IsWellFoundedOn(R, Nat)
  BY <1>1, NatLessThanWellFounded DEF OpToRel
<1>3. U \subseteq Nat
  OBVIOUS
<1> HIDE DEF U
<1>4. \E x \in U : \A y \in U : ~(<<y, x>> \in R)
  BY <1>2, <1>3, WFMin
<1>5. PICK m \in U : \A k \in U : ~(k < m)
  BY <1>1, <1>3, <1>4
<1>6. m \in 1..N /\ m \notin T
  BY DEF U
<1>7. m - 1 \in 0..(N - 1) /\ m - 1 \in 0..N /\ m - 1 < m
  BY <1>6
<1>8. m - 1 \in T
  BY <1>5, <1>7 DEF U
<1>9. (m - 1) + 1 \in T
  BY <1>7, <1>8
<1> QED
  BY <1>6, <1>9

-----------------------------------------------------------------------------
(* What is kept of a list (Vec::retain, Iterator::filter).                 *)

\* After n elements of s, f holds what was kept after each.
Sifted(f, s, S, n) ==
  f = [i \in 0..n |-> IF i = 0 THEN <<>>
                      ELSE IF s[i] \in S THEN Append(f[i - 1], s[i])
                      ELSE f[i - 1]]

(* A list can be sifted, whatever its elements are.                        *)
LEMMA SiftExists ==
  ASSUME NEW s, NEW S, NEW N \in Nat
  PROVE  \E f : Sifted(f, s, S, N)
<1> DEFINE T == {n \in 0..N : \E f : Sifted(f, s, S, n)}
<1>1. 0 \in T
  <2>1. PICK f : f = [i \in 0..0 |-> <<>>]
    OBVIOUS
  <2>2. Sifted(f, s, S, 0)
    BY <2>1 DEF Sifted
  <2> QED
    BY <2>2
<1>2. ASSUME NEW n \in 0..(N - 1), n \in T PROVE n + 1 \in T
  <2>1. PICK f : Sifted(f, s, S, n)
    BY <1>2
  <2>2. PICK g : g = [i \in 0..(n + 1) |->
                        IF i # n + 1 THEN f[i]
                        ELSE IF s[n + 1] \in S THEN Append(f[n], s[n + 1])
                        ELSE f[n]]
    OBVIOUS
  <2>3. ASSUME NEW i \in 0..(n + 1)
        PROVE  g[i] = IF i = 0 THEN <<>>
                      ELSE IF s[i] \in S THEN Append(g[i - 1], s[i])
                      ELSE g[i - 1]
    <3>1. CASE i = n + 1
      <4>1. g[i - 1] = f[n] /\ i # 0
        BY <2>2, <3>1
      <4> QED
        BY <2>2, <3>1, <4>1
    <3>2. CASE i \in 0..n
      <4>1. f[i] = IF i = 0 THEN <<>>
                   ELSE IF s[i] \in S THEN Append(f[i - 1], s[i])
                   ELSE f[i - 1]
        BY <2>1, <3>2 DEF Sifted
      <4>2. g[i] = f[i] /\ (i # 0 => g[i - 1] = f[i - 1])
        BY <2>2, <3>2
      <4> QED
        BY <4>1, <4>2
    <3> QED
      BY <3>1, <3>2
  <2>4. g = [i \in 0..(n + 1) |-> g[i]]
    BY <2>2
  <2>5. Sifted(g, s, S, n + 1)
    BY <2>3, <2>4 DEF Sifted
  <2> QED
    BY <2>5
<1>3. N \in T
  <2> HIDE DEF T
  <2> QED
    BY <1>1, <1>2, UpTo
<1> QED
  BY <1>3

\* f leads from the empty list to what is kept of s.
Sifting(f, s, S, N) ==
  /\ Kept(s, S) = f[N] /\ f[0] = <<>>
  /\ \A n \in 0..(N - 1) :
       f[n + 1] = IF s[n + 1] \in S THEN Append(f[n], s[n + 1]) ELSE f[n]

(* What is kept is what the sifting ends with.                             *)
LEMMA SiftResult ==
  ASSUME NEW s, NEW S, NEW N \in Nat, N = Len(s)
  PROVE  \E f : Sifting(f, s, S, N)
<1>1. PICK f : f = CHOOSE g : Sifted(g, s, S, N)
  OBVIOUS
<1>2. Sifted(f, s, S, N)
  BY <1>1, SiftExists
<1>3. Kept(s, S) = f[N]
  BY <1>1 DEF Kept, Sifted
<1>4. f[0] = <<>>
  BY <1>2 DEF Sifted
<1>5. ASSUME NEW n \in 0..(N - 1)
      PROVE  f[n + 1] = IF s[n + 1] \in S THEN Append(f[n], s[n + 1]) ELSE f[n]
  <2>1. n + 1 \in 0..N /\ n + 1 # 0 /\ (n + 1) - 1 = n
    OBVIOUS
  <2> QED
    BY <1>2, <2>1 DEF Sifted
<1> QED
  BY <1>3, <1>4, <1>5 DEF Sifting

\* Exactly the elements after the first d are in S.
PartsAt(s, S, N, d) ==
  /\ N \in Nat /\ N = Len(s) /\ d \in 0..N
  /\ \A i \in 1..N : s[i] \in S <=> i > d

\* t is s without its first d elements.
IsSuffix(t, s, N, d) ==
  /\ IsList(t) /\ Len(t) = N - d
  /\ \A i \in 1..(N - d) : t[i] = s[d + i]

(* Where a list parts, what is kept is its second part.                    *)
LEMMA KeptSuffix ==
  ASSUME NEW s, NEW S, NEW N, NEW d, PartsAt(s, S, N, d)
  PROVE  IsSuffix(Kept(s, S), s, N, d)
<1>0. /\ N \in Nat /\ N = Len(s) /\ d \in 0..N
      /\ \A i \in 1..N : s[i] \in S <=> i > d
  BY DEF PartsAt
<1>a. N \in Nat /\ N = Len(s)
  BY <1>0
<1>b. PICK f : Sifting(f, s, S, N)
  BY <1>a, SiftResult
<1>1. /\ Kept(s, S) = f[N] /\ f[0] = <<>>
      /\ \A n \in 0..(N - 1) :
           f[n + 1] = IF s[n + 1] \in S THEN Append(f[n], s[n + 1])
                      ELSE f[n]
  BY <1>b DEF Sifting
<1> DEFINE P(n) == IF n <= d THEN f[n] = <<>>
                   ELSE /\ IsList(f[n]) /\ Len(f[n]) = n - d
                        /\ \A i \in 1..(n - d) : f[n][i] = s[d + i]
           T == {n \in 0..N : P(n)}
<1>2. 0 \in T
  BY <1>0, <1>1
<1>3. ASSUME NEW n \in 0..(N - 1), n \in T PROVE n + 1 \in T
  <2>1. PICK t : t = f[n]
    OBVIOUS
  <2>2. CASE n + 1 <= d
    BY <1>0, <1>1, <1>3, <2>2
  <2>3. CASE ~(n + 1 <= d)
    <3>0. n + 1 \in 1..N /\ s[n + 1] \in S
      BY <1>0, <2>3
    <3>1. f[n + 1] = Append(t, s[n + 1])
      <4> HIDE DEF T
      <4> QED
        BY <1>0, <1>1, <2>1, <3>0
    <3>2. /\ IsList(t) /\ Len(t) = n - d
          /\ \A i \in 1..(n - d) : t[i] = s[d + i]
      BY <1>0, <1>3, <2>1, <2>3, EmptyList
    <3>3. PICK u : u = Append(t, s[n + 1])
      OBVIOUS
    <3>4. /\ IsList(u) /\ Len(u) = (n - d) + 1
          /\ \A i \in 1..(n - d) : u[i] = t[i]
          /\ u[(n - d) + 1] = s[n + 1]
      BY <1>0, <3>2, <3>3, AppendFacts
    <3>5. \A i \in 1..((n + 1) - d) : u[i] = s[d + i]
      BY <1>0, <2>3, <3>2, <3>4
    <3>6. f[n + 1] = u
      BY <3>1, <3>3
    <3>7. Len(u) = (n + 1) - d /\ n + 1 \in 0..N
      BY <1>0, <3>4
    <3> QED
      BY <1>0, <2>3, <3>4, <3>5, <3>6, <3>7
  <2> QED
    BY <1>0, <2>2, <2>3
<1>4. N \in T
  <2> HIDE DEF T
  <2> QED
    BY <1>0, <1>2, <1>3, UpTo
<1> QED
  BY <1>0, <1>1, <1>4, EmptyList DEF IsSuffix

\* g leads from the places of t to the places of s that are in S: each kept
\* element to where it was.
Leads(g, t, s, S, n) ==
  /\ g \in [1..Len(t) -> 1..n] /\ Len(t) <= n
  /\ \A i, j \in 1..Len(t) : g[i] = g[j] => i = j
  /\ \A j \in 1..Len(t) : t[j] = s[g[j]] /\ s[g[j]] \in S
  /\ \A i \in 1..n : s[i] \in S => \E j \in 1..Len(t) : g[j] = i

(* What is kept of a list is a list of those of its elements that are to   *)
(* be kept, each of them once.                                             *)
LEMMA KeptLeads ==
  ASSUME NEW s, NEW S, NEW N \in Nat, N = Len(s)
  PROVE  IsList(Kept(s, S)) /\ \E g : Leads(g, Kept(s, S), s, S, N)
<1>a. PICK f : Sifting(f, s, S, N)
  BY SiftResult
<1>1. /\ Kept(s, S) = f[N] /\ f[0] = <<>>
      /\ \A n \in 0..(N - 1) :
           f[n + 1] = IF s[n + 1] \in S THEN Append(f[n], s[n + 1])
                      ELSE f[n]
  BY <1>a DEF Sifting
<1> DEFINE T == {n \in 0..N : IsList(f[n]) /\ \E g : Leads(g, f[n], s, S, n)}
<1>2. 0 \in T
  <2>1. PICK g : g = [i \in 1..0 |-> i]
    OBVIOUS
  <2>2. Leads(g, <<>>, s, S, 0)
    BY <2>1, EmptyList DEF Leads
  <2> QED
    BY <1>1, <2>2, EmptyList
<1>3. ASSUME NEW n \in 0..(N - 1), n \in T PROVE n + 1 \in T
  <2>1. PICK t, e : t = f[n] /\ e = s[n + 1]
    OBVIOUS
  <2>2. PICK g : Leads(g, t, s, S, n)
    BY <1>3, <2>1
  <2>3. IsList(t) /\ Len(t) \in Nat
    BY <1>3, <2>1, ListFacts
  <2>4. CASE e \notin S
    <3>1. f[n + 1] = t
      BY <1>1, <2>1, <2>4
    <3>2. Leads(g, t, s, S, n + 1)
      BY <2>1, <2>2, <2>3, <2>4 DEF Leads
    <3> QED
      BY <2>3, <3>1, <3>2
  <2>5. CASE e \in S
    <3>1. f[n + 1] = Append(t, e)
      BY <1>1, <2>1, <2>5
    <3>2. PICK u, m : u = Append(t, e) /\ m = Len(t)
      OBVIOUS
    <3>3. /\ IsList(u) /\ Len(u) = m + 1 /\ m \in Nat
          /\ \A i \in 1..m : u[i] = t[i]
          /\ u[m + 1] = e
      BY <2>3, <3>2, AppendFacts
    <3>4. PICK h : h = [i \in 1..(m + 1) |-> IF i = m + 1 THEN n + 1 ELSE g[i]]
      OBVIOUS
    <3>5. \A i \in 1..m : g[i] \in 1..n
      BY <2>2, <3>2 DEF Leads
    <3>6. Leads(h, u, s, S, n + 1)
      <4>1. h \in [1..Len(u) -> 1..(n + 1)]
        BY <3>3, <3>4, <3>5
      <4>2. ASSUME NEW i \in 1..Len(u), NEW j \in 1..Len(u), h[i] = h[j]
            PROVE  i = j
        <5>1. \A a, b \in 1..m : g[a] = g[b] => a = b
          BY <2>2, <3>2 DEF Leads
        <5>2. \A a \in 1..m : h[a] = g[a] /\ h[a] # n + 1
          BY <3>3, <3>4, <3>5
        <5>3. h[m + 1] = n + 1
          BY <3>3, <3>4
        <5>4. i \in 1..m \/ i = m + 1
          BY <3>3
        <5>5. j \in 1..m \/ j = m + 1
          BY <3>3
        <5> QED
          BY <4>2, <5>1, <5>2, <5>3, <5>4, <5>5
      <4>3. ASSUME NEW j \in 1..Len(u) PROVE u[j] = s[h[j]] /\ s[h[j]] \in S
        <5>1. CASE j \in 1..m
          BY <2>2, <3>2, <3>3, <3>4, <5>1 DEF Leads
        <5>2. CASE j = m + 1
          BY <2>1, <2>5, <3>3, <3>4, <5>2
        <5> QED
          BY <3>3, <5>1, <5>2
      <4>4. ASSUME NEW i \in 1..(n + 1), s[i] \in S
            PROVE  \E j \in 1..Len(u) : h[j] = i
        <5>1. CASE i = n + 1
          BY <3>3, <3>4, <5>1
        <5>2. CASE i \in 1..n
          <6>1. PICK j \in 1..m : g[j] = i
            BY <2>2, <3>2, <4>4, <5>2 DEF Leads
          <6> QED
            BY <3>3, <3>4, <6>1
        <5> QED
          BY <5>1, <5>2
      <4>5. Len(u) <= n + 1
        BY <2>2, <3>2, <3>3 DEF Leads
      <4> QED
        BY <4>1, <4>2, <4>3, <4>4, <4>5 DEF Leads
    <3>7. f[n + 1] = u /\ n + 1 \in 0..N
      BY <3>1, <3>2
    <3> QED
      BY <3>3, <3>6, <3>7
  <2> QED
    BY <2>4, <2>5
<1>4. N \in T
  <2> HIDE DEF T
  <2> QED
    BY <1>2, <1>3, UpTo
<1> QED
  BY <1>1, <1>4

-----------------------------------------------------------------------------
(* The preflight (module Preflight).                                       *)

\* The fields of a node's report, and of the answers of an endpoint.
NodeFields == {"info", "reachable", "protocol", "network", "freshness",
               "storage", "authority", "requests"}
ReplyFields == {"info", "casts", "storage", "events"}

(* A report with one field set is else the same.                           *)
LEMMA SetField ==
  ASSUME NEW r, NEW v, DOMAIN r = NodeFields
  PROVE  /\ LET n == [r EXCEPT !.reachable = v] IN
              /\ DOMAIN n = NodeFields /\ n.info = r.info
              /\ n.protocol = r.protocol /\ n.network = r.network
              /\ n.freshness = r.freshness /\ n.authority = r.authority
         /\ LET n == [r EXCEPT !.requests = v] IN
              /\ DOMAIN n = NodeFields /\ n.info = r.info
              /\ n.protocol = r.protocol /\ n.network = r.network
              /\ n.freshness = r.freshness /\ n.authority = r.authority
         /\ LET n == [r EXCEPT !.storage = v] IN
              /\ DOMAIN n = NodeFields /\ n.info = r.info
              /\ n.protocol = r.protocol /\ n.network = r.network
              /\ n.freshness = r.freshness /\ n.authority = r.authority
         /\ LET n == [r EXCEPT !.network = v] IN
              /\ DOMAIN n = NodeFields /\ n.info = r.info
              /\ n.protocol = r.protocol /\ n.network = v
              /\ n.freshness = r.freshness /\ n.authority = r.authority
         /\ LET n == [r EXCEPT !.authority = v] IN
              /\ DOMAIN n = NodeFields /\ n.info = r.info
              /\ n.protocol = r.protocol /\ n.network = r.network
              /\ n.freshness = r.freshness /\ n.authority = v
BY DEF NodeFields

(* A report with the node's information.                                   *)
LEMMA SetInfo ==
  ASSUME NEW r, NEW i, NEW p, NEW f, DOMAIN r = NodeFields
  PROVE  LET n == [r EXCEPT !.info = i, !.protocol = p, !.freshness = f] IN
           /\ DOMAIN n = NodeFields /\ n.info = i
           /\ n.protocol = p /\ n.network = r.network
           /\ n.freshness = f /\ n.authority = r.authority
BY DEF NodeFields

(* One more answer beside the others.                                      *)
LEMMA SetAnswer ==
  ASSUME NEW r, NEW v, DOMAIN r = ReplyFields
  PROVE  /\ LET n == [r EXCEPT !.casts = v] IN
              /\ DOMAIN n = ReplyFields /\ n.info = r.info /\ n.casts = v
              /\ n.events = r.events
         /\ LET n == [r EXCEPT !.storage = v] IN
              /\ DOMAIN n = ReplyFields /\ n.info = r.info
              /\ n.casts = r.casts /\ n.events = r.events
         /\ LET n == [r EXCEPT !.events = v] IN
              /\ DOMAIN n = ReplyFields /\ n.info = r.info
              /\ n.casts = r.casts /\ n.events = v
BY DEF ReplyFields

-----------------------------------------------------------------------------
(* Counting.                                                               *)

(* As many distinct shards as a node may have are all its shards, so       *)
(* freshness, which only counts them, speaks of every one of them.         *)
LEMMA FreshIsFull ==
  ASSUME NEW v, InfoFields(v), parse_info(v), NEW max \in Nat,
         from_info(v, max) = "Fresh"
  PROVE  \A s \in 0..v.num_shards : \E i \in DOMAIN v.shards :
           /\ v.shards[i].shard_id = s
           /\ v.shards[i].max_height > 0
           /\ v.shards[i].block_delay <= max
<1>0. PICK n : n = v.num_shards
  OBVIOUS
<1> DEFINE f == [i \in 1..(n + 1) |-> v.shards[i].shard_id]
<1>1. n \in Nat /\ n + 1 \in Nat /\ Len(v.shards) = n + 1
  BY <1>0 DEF InfoFields, from_info
<1>2. DOMAIN v.shards = 1..(n + 1)
  BY <1>1 DEF InfoFields
<1>3. \A i \in 1..(n + 1) :
        /\ v.shards[i].shard_id \in Nat /\ v.shards[i].max_height \in Nat
        /\ v.shards[i].block_delay \in Nat
  <2>1. v.shards \in Seq([shard_id : Nat, max_height : Nat, block_delay : Nat])
    BY DEF InfoFields
  <2>2. ASSUME NEW i \in 1..(n + 1)
        PROVE  v.shards[i] \in
                 [shard_id : Nat, max_height : Nat, block_delay : Nat]
    BY <1>1, <2>1, ElementOfSeq
  <2> QED
    BY <2>2
<1>4. ASSUME NEW i \in 1..(n + 1) PROVE v.shards[i].shard_id \in 0..n
  BY <1>0, <1>1, <1>2, <1>3 DEF parse_info
<1>5. ASSUME NEW i \in 1..(n + 1), NEW j \in 1..(n + 1), i # j
      PROVE  v.shards[i].shard_id # v.shards[j].shard_id
  <2>1. CASE j \in 1..(i - 1)
    BY <1>2, <2>1 DEF parse_info
  <2>2. CASE i \in 1..(j - 1)
    BY <1>2, <2>2 DEF parse_info
  <2> QED
    BY <1>1, <1>5, <2>1, <2>2
<1>6. \A i \in 1..(n + 1) : /\ ~(v.shards[i].block_delay > max)
                            /\ v.shards[i].max_height # 0
  BY <1>2 DEF from_info
<1>7. f \in Injection(1..(n + 1), 0..n)
  BY <1>4, <1>5 DEF Injection, IsInjective
<1>8. /\ IsFiniteSet(0..n) /\ Cardinality(0..n) = n + 1
      /\ IsFiniteSet(1..(n + 1)) /\ Cardinality(1..(n + 1)) = n + 1
  <2>1. 0 \in Int /\ 1 \in Int /\ n \in Int /\ n + 1 \in Int
    BY <1>1
  <2>2. /\ IsFiniteSet(0..n)
        /\ Cardinality(0..n) = IF 0 > n THEN 0 ELSE n - 0 + 1
    BY <2>1, FS_Interval
  <2>3. /\ IsFiniteSet(1..(n + 1))
        /\ Cardinality(1..(n + 1)) = IF 1 > n + 1 THEN 0 ELSE (n + 1) - 1 + 1
    BY <2>1, FS_Interval
  <2> QED
    BY <1>1, <2>2, <2>3
<1>9. f \in Surjection(1..(n + 1), 0..n)
  BY <1>7, <1>8, FS_Injection
<1>10. \A s \in 0..n : \E i \in 1..(n + 1) : v.shards[i].shard_id = s
  BY <1>9 DEF Surjection
<1> QED
  <2> SUFFICES ASSUME NEW s \in 0..n
               PROVE  \E i \in 1..(n + 1) : /\ v.shards[i].shard_id = s
                                            /\ v.shards[i].max_height > 0
                                            /\ v.shards[i].block_delay <= max
    BY <1>0, <1>2
  <2>1. PICK i \in 1..(n + 1) : v.shards[i].shard_id = s
    BY <1>10
  <2>2. v.shards[i].max_height > 0 /\ v.shards[i].block_delay <= max
    BY <1>3, <1>6
  <2> QED
    BY <2>1, <2>2

-----------------------------------------------------------------------------
(* The invariant.                                                          *)

Midway == {"casts", "storage", "events"}

Configured ==
  \E es \in Inputs, fid \in TestFids, delay \in Delays :
    /\ ValidConfig(es, fid, delay)
    /\ config = [urls |-> [i \in DOMAIN es |-> es[i].url],
                 test_fid |-> fid, max_block_delay |-> delay]

\* How far the inspection has come.
Shape ==
  /\ IsList(nodes) /\ IsList(replies)
  /\ \/ phase \in {"new", "refused"} /\ config = None
     \/ phase \in {"info", "done"} \cup Midway /\ Configured
  /\ phase \in {"new", "refused"} => Len(nodes) = 0
  /\ phase \in {"info"} \cup Midway => Len(nodes) < Len(config.urls)
  /\ phase \in Midway => config.test_fid # None
  /\ phase = "done" => Len(nodes) = Len(config.urls)
  /\ report = IF phase = "done" THEN Some(Summary(nodes)) ELSE None
  /\ phase \in Midway => Len(replies) = Len(nodes) + 1
  /\ phase \notin Midway => Len(replies) = Len(nodes)

\* What a node's report says of it was in the answers r of its endpoint.
Tells(node, r) ==
  /\ DOMAIN node = NodeFields /\ DOMAIN r = ReplyFields
  /\ {node.protocol, node.network} \subseteq Verdicts
  /\ node.freshness \in {"Fresh", "Lagging", "Unknown"}
  /\ node.info = None =>
       /\ node.protocol = "Unknown"
       /\ ~(r.info.is = "json" /\ parse_info(r.info.value))
  /\ node.info # None =>
       /\ r.info.is = "json" /\ parse_info(r.info.value)
       /\ InfoFields(r.info.value)
       /\ node.info.value.peer_id = r.info.value.peer_id
       /\ node.protocol = "Compatible" =>
            r.info.value.version = SUPPORTED_VERSION
       /\ node.freshness = from_info(r.info.value, config.max_block_delay)
  /\ node.network = "Compatible" => ConfirmsNetwork(r.casts)
  /\ node.authority # None =>
       /\ EventFields(r.events.value)
       /\ node.authority.value = parse_authority(r.events.value)

\* Every report does, the one of the node being inspected included.
Truthful ==
  /\ \A i \in 1..Len(nodes) : Tells(nodes[i], replies[i])
  /\ phase = "info" => current = EmptyNode
  /\ phase \in Midway => Tells(current, replies[Here])
  /\ phase = "casts" => current.network = "Unknown"
  /\ phase \in Midway => current.authority = None

Inv == Shape /\ Truthful

(* An accepted configuration.                                              *)
LEMMA ConfigFacts ==
  ASSUME Configured
  PROVE  /\ config # None /\ Len(config.urls) \in 1..MAX_ENDPOINTS
         /\ Len(config.urls) \in Nat /\ config.max_block_delay \in Nat
         /\ config.test_fid = None \/ config.test_fid = Some(config.test_fid.value)
         /\ \A i \in 1..Len(config.urls) :
              \E es \in Inputs : \E j \in DOMAIN es : config.urls[i] = es[j].url
<1>1. PICK es \in Inputs, fid \in TestFids, delay \in Delays :
        /\ ValidConfig(es, fid, delay)
        /\ config = [urls |-> [i \in DOMAIN es |-> es[i].url],
                     test_fid |-> fid, max_block_delay |-> delay]
  BY DEF Configured
<1>2. /\ config.urls = [i \in DOMAIN es |-> es[i].url]
      /\ config.test_fid = fid /\ config.max_block_delay = delay
  BY <1>1
<1>3. IsList(es) /\ DOMAIN es = 1..Len(es) /\ Len(es) \in Nat
  BY ConstantsAssumption, ListFacts
<1>4. DOMAIN config.urls = 1..Len(es) /\ Len(config.urls) = Len(es)
  BY <1>2, <1>3, FunctionIsList
<1>5. config # None
  <2>1. "urls" \in DOMAIN config
    BY <1>1
  <2>2. "urls" \notin DOMAIN None
    BY DEF None
  <2> QED
    BY <2>1, <2>2
<1>6. Len(es) \in 1..MAX_ENDPOINTS /\ delay \in Nat
  BY <1>1, ConstantsAssumption DEF ValidConfig, ValidEndpoints
<1>7. fid = None \/ fid = Some(fid.value)
  BY ConstantsAssumption
<1>8. \A i \in 1..Len(config.urls) : config.urls[i] = es[i].url /\ i \in DOMAIN es
  BY <1>2, <1>3, <1>4
<1> QED
  BY <1>2, <1>3, <1>4, <1>5, <1>6, <1>7, <1>8

(* A report that has nothing yet tells nothing wrong.                      *)
LEMMA EmptyFacts ==
  /\ DOMAIN EmptyNode = NodeFields /\ EmptyNode.info = None
  /\ EmptyNode.protocol = "Unknown" /\ EmptyNode.network = "Unknown"
  /\ EmptyNode.freshness = "Unknown" /\ EmptyNode.authority = None
BY DEF EmptyNode, NodeFields

(* A preflight starts with nothing.                                        *)
LEMMA InitInv == Init => Inv
BY EmptyList DEF Init, Inv, Shape, Truthful, Midway

(* An accepted configuration starts with the first endpoint.               *)
LEMMA ConfigureInv ==
  ASSUME Inv, NEW es \in Inputs, NEW fid \in TestFids, NEW delay \in Delays,
         configure(es, fid, delay)
  PROVE  Inv'
<1>1. /\ phase = "new" /\ UNCHANGED <<nodes, report, replies>>
      /\ config = None /\ Len(nodes) = 0 /\ Len(replies) = 0
      /\ IsList(nodes) /\ IsList(replies) /\ report = None
  BY DEF configure, Inv, Shape, Midway
<1>2. CASE phase' = "refused" /\ config' = config
  BY <1>1, <1>2 DEF Inv, Shape, Truthful, Midway
<1>3. CASE /\ ValidConfig(es, fid, delay)
           /\ phase' = "info" /\ current' = EmptyNode
           /\ config' = [urls |-> [i \in DOMAIN es |-> es[i].url],
                         test_fid |-> fid, max_block_delay |-> delay]
  <2>1. Configured'
    BY <1>3 DEF Configured
  <2>2. Len(config'.urls) \in 1..MAX_ENDPOINTS
    <3>1. IsList(es) /\ DOMAIN es = 1..Len(es) /\ Len(es) \in Nat
      BY ConstantsAssumption, ListFacts
    <3>2. config'.urls = [i \in 1..Len(es) |-> es[i].url]
      BY <1>3, <3>1
    <3>3. Len(config'.urls) = Len(es)
      BY <3>1, <3>2, FunctionIsList
    <3> QED
      BY <1>3, <3>3 DEF ValidConfig, ValidEndpoints
  <2>3. 0 < Len(config'.urls)
    BY <2>2, ConstantsAssumption
  <2>4. Shape'
    BY <1>1, <1>3, <2>1, <2>3 DEF Shape, Midway
  <2>5. Truthful'
    BY <1>1, <1>3 DEF Truthful, Midway
  <2> QED
    BY <2>4, <2>5 DEF Inv
<1> QED
  BY <1>2, <1>3 DEF configure

-----------------------------------------------------------------------------
(* Requests.                                                               *)

\* The endpoint being inspected has now given the answers r.
Heard(r) ==
  /\ IsList(replies') /\ Len(replies') = Len(nodes) + 1
  /\ replies'[Len(nodes) + 1] = r
  /\ \A i \in 1..Len(nodes) : replies'[i] = replies[i]

(* Where the inspection stands while a node is asked.                      *)
LEMMA AskingFacts ==
  ASSUME Inv, phase \in {"info"} \cup Midway
  PROVE  /\ Configured /\ IsList(nodes) /\ IsList(replies) /\ report = None
         /\ Len(nodes) \in Nat /\ Len(config.urls) \in Nat
         /\ Len(nodes) + 1 \in 1..Len(config.urls)
         /\ phase = "info" => Len(replies) = Len(nodes)
         /\ phase \in Midway => Len(replies) = Len(nodes) + 1
<1>1. /\ Configured /\ IsList(nodes) /\ IsList(replies) /\ report = None
      /\ Len(nodes) < Len(config.urls)
      /\ phase = "info" => Len(replies) = Len(nodes)
      /\ phase \in Midway => Len(replies) = Len(nodes) + 1
  BY DEF Inv, Shape, Midway
<1> QED
  BY <1>1, ListFacts, ConfigFacts

(* The report of the node is finished.                                     *)
LEMMA ConcludeInv ==
  ASSUME Inv, phase \in {"info"} \cup Midway, UNCHANGED config, NEW node,
         NEW r, Heard(r), Tells(node, r), Conclude(node)
  PROVE  Inv'
<1>1. /\ Configured /\ IsList(nodes) /\ report = None
      /\ Len(nodes) \in Nat /\ Len(config.urls) \in Nat
  BY AskingFacts
<1>2. /\ nodes' = Append(nodes, node)
      /\ IsList(nodes') /\ Len(nodes') = Len(nodes) + 1
      /\ \A i \in 1..Len(nodes) : nodes'[i] = nodes[i]
      /\ nodes'[Len(nodes) + 1] = node
  BY <1>1, AppendFacts DEF Conclude
<1>3. Configured'
  BY <1>1 DEF Configured
<1>4. \/ /\ Len(nodes') < Len(config'.urls)
         /\ phase' = "info" /\ current' = EmptyNode /\ report' = None
      \/ /\ Len(nodes') = Len(config'.urls)
         /\ phase' = "done" /\ report' = Some(Summary(nodes'))
  BY <1>1, <1>2 DEF Conclude
<1>5. report' = IF phase' = "done" THEN Some(Summary(nodes'))
                ELSE None
  BY <1>4
<1>6. (Summary(nodes))' = Summary(nodes')
  BY DEF Summary, peer_unique, HasPeer, PeerOf, Compatible
<1>7. Shape'
  BY <1>2, <1>3, <1>4, <1>5, <1>6 DEF Shape, Heard, Midway
<1>8. ASSUME NEW i \in 1..Len(nodes') PROVE Tells(nodes[i], replies[i])'
  <2>1. CASE i \in 1..Len(nodes)
    <3>1. Tells(nodes[i], replies[i])
      BY <2>1 DEF Inv, Truthful
    <3>2. nodes'[i] = nodes[i] /\ replies'[i] = replies[i]
      BY <1>2, <2>1 DEF Heard
    <3> QED
      BY <3>1, <3>2 DEF Tells, ConfirmsNetwork
  <2>2. CASE i = Len(nodes) + 1
    <3>1. nodes'[i] = node /\ replies'[i] = r
      BY <1>2, <2>2 DEF Heard
    <3> QED
      BY <3>1 DEF Tells, ConfirmsNetwork
  <2> QED
    BY <1>1, <1>2, <2>1, <2>2
<1>9. Truthful'
  BY <1>4, <1>8 DEF Truthful, Midway
<1> QED
  BY <1>7, <1>9 DEF Inv

(* The node is asked for something more.                                   *)
LEMMA ContinueInv ==
  ASSUME Inv, phase \in {"info"} \cup Midway, UNCHANGED config, NEW node,
         NEW r, Heard(r), Tells(node, r), NEW route \in Midway,
         Continue(node, route), node.authority = None,
         config.test_fid # None, route = "casts" => node.network = "Unknown"
  PROVE  Inv'
<1>1. /\ Configured /\ IsList(nodes) /\ report = None
      /\ Len(nodes) \in Nat /\ Len(nodes) < Len(config.urls)
  BY AskingFacts DEF Inv, Shape
<1>2. phase' = route /\ current' = node /\ UNCHANGED <<nodes, report>>
  BY DEF Continue
<1>3. Configured'
  BY <1>1 DEF Configured
<1>4. Shape'
  BY <1>1, <1>2, <1>3 DEF Shape, Heard, Midway
<1>5. ASSUME NEW i \in 1..Len(nodes) PROVE Tells(nodes[i], replies[i])'
  <2>1. Tells(nodes[i], replies[i])
    BY DEF Inv, Truthful
  <2>2. nodes'[i] = nodes[i] /\ replies'[i] = replies[i]
    BY <1>2 DEF Heard
  <2> QED
    BY <2>1, <2>2 DEF Tells, ConfirmsNetwork
<1>6. Tells(current, replies[Here])'
  <2>1. current' = node /\ replies'[Here'] = r
    BY <1>2 DEF Heard, Here
  <2> QED
    BY <2>1 DEF Tells, ConfirmsNetwork
<1>7. Truthful'
  BY <1>2, <1>5, <1>6 DEF Truthful, Midway
<1> QED
  BY <1>4, <1>7 DEF Inv

(* A well-formed answer has its fields.                                    *)
LEMMA AnswerFields ==
  ASSUME Inv, phase \in {"info"} \cup Midway, NEW reply \in Asked,
         WellFormed(reply)
  PROVE  /\ phase = "info" => InfoFields(reply.value)
         /\ phase = "casts" => CastFields(reply.value)
         /\ phase = "events" => EventFields(reply.value)
<1>1. PICK es \in Inputs : \E j \in DOMAIN es : config.urls[Here] = es[j].url
  BY AskingFacts, ConfigFacts DEF Here
<1>2. PICK j \in DOMAIN es : config.urls[Here] = es[j].url
  BY <1>1
<1>3. reply \in Replies(es[j].url, phase)
  BY <1>2 DEF Asked
<1> QED
  BY <1>3, RepliesAssumption

(* The evidence of a request changes nothing else of a report.             *)
LEMMA EvidenceFacts ==
  ASSUME NEW node, DOMAIN node = NodeFields, NEW e
  PROVE  LET n == WithEvidence(node, e) IN
           /\ DOMAIN n = NodeFields /\ n.info = node.info
           /\ n.protocol = node.protocol /\ n.network = node.network
           /\ n.freshness = node.freshness /\ n.authority = node.authority
<1>1. PICK v : v = Append(node.requests, e)
  OBVIOUS
<1>2. WithEvidence(node, e) = [node EXCEPT !.requests = v]
  BY <1>1 DEF WithEvidence
<1> QED
  BY <1>2, SetField

(* A node is asked for its information.                                    *)
LEMMA InfoInv ==
  ASSUME Inv, phase = "info", NEW reply \in Asked, info(reply)
  PROVE  Inv'
<1>1. PICK r : r = [info |-> reply, casts |-> None, storage |-> None,
                    events |-> None]
  OBVIOUS
<1>2. DOMAIN r = ReplyFields /\ r.info = reply
  BY <1>1 DEF ReplyFields
<1>3. /\ replies' = Append(replies, r) /\ UNCHANGED config
      /\ IsList(replies) /\ Len(replies) = Len(nodes)
      /\ Len(nodes) \in Nat /\ Configured
  BY <1>1, AskingFacts DEF info
<1>4. Heard(r)
  BY <1>3, AppendFacts DEF Heard
<1> DEFINE parses == Understood(reply, parse_info)
           reached == [current EXCEPT !.reachable =
                         reply.is \notin {"timeout", "transport"}]
           v == reply.value
<1>5. /\ DOMAIN reached = NodeFields /\ reached.info = None
      /\ reached.protocol = "Unknown" /\ reached.network = "Unknown"
      /\ reached.freshness = "Unknown" /\ reached.authority = None
  <2>1. current = EmptyNode
    BY DEF Inv, Truthful
  <2> QED
    BY <2>1, EmptyFacts, SetField
<1> HIDE DEF reached
<1>6. PICK heard : heard = WithEvidence(reached,
                                        evidence("info", reply, parses))
  OBVIOUS
<1>7. /\ DOMAIN heard = NodeFields /\ heard.info = None
      /\ heard.protocol = "Unknown" /\ heard.network = "Unknown"
      /\ heard.freshness = "Unknown" /\ heard.authority = None
  BY <1>5, <1>6, EvidenceFacts
<1>8. CASE ~parses /\ Conclude(heard)
  <2>1. ~(r.info.is = "json" /\ parse_info(r.info.value))
    BY <1>2, <1>8 DEF Understood
  <2>2. Tells(heard, r)
    BY <1>2, <1>7, <2>1 DEF Tells, Verdicts
  <2> QED
    BY <1>3, <1>4, <1>8, <2>2, ConcludeInv
<1>9. ASSUME parses, NEW node,
             node = [heard EXCEPT
               !.info = Some([version |-> v.version, peer_id |-> v.peer_id]),
               !.protocol = IF v.version = SUPPORTED_VERSION
                            THEN "Compatible" ELSE "Incompatible",
               !.freshness = from_info(v, config.max_block_delay)]
      PROVE  Tells(node, r) /\ node.authority = None /\ node.network = "Unknown"
  <2>1. PICK i, q, f :
          /\ i = Some([version |-> v.version, peer_id |-> v.peer_id])
          /\ q = IF v.version = SUPPORTED_VERSION
                 THEN "Compatible" ELSE "Incompatible"
          /\ f = from_info(v, config.max_block_delay)
    OBVIOUS
  <2>2. node = [heard EXCEPT !.info = i, !.protocol = q, !.freshness = f]
    BY <1>9, <2>1
  <2>3. /\ DOMAIN node = NodeFields /\ node.info = i
        /\ node.protocol = q /\ node.network = "Unknown"
        /\ node.freshness = f /\ node.authority = None
    BY <1>7, <2>2, SetInfo
  <2>4. /\ i # None /\ i.value.peer_id = v.peer_id
        /\ q \in Verdicts /\ (q = "Compatible" => v.version = SUPPORTED_VERSION)
    BY <2>1 DEF Some, None, Verdicts
  <2>5. f \in {"Fresh", "Lagging", "Unknown"}
    BY <2>1 DEF from_info
  <2>6. /\ r.info.is = "json" /\ parse_info(r.info.value)
        /\ WellFormed(reply)
    BY <1>2, <1>9 DEF Understood, parse_info, WellFormed
  <2>7. InfoFields(r.info.value)
    BY <1>2, <2>6, AnswerFields
  <2>8. Tells(node, r)
    BY <1>2, <2>1, <2>3, <2>4, <2>5, <2>6, <2>7 DEF Tells, Verdicts
  <2> QED
    BY <2>3, <2>8
<1>10. \/ ~parses /\ Conclude(heard)
       \/ \E node :
            /\ parses
            /\ node = [heard EXCEPT
                 !.info = Some([version |-> v.version, peer_id |-> v.peer_id]),
                 !.protocol = IF v.version = SUPPORTED_VERSION
                              THEN "Compatible" ELSE "Incompatible",
                 !.freshness = from_info(v, config.max_block_delay)]
            /\ \/ config.test_fid # None /\ Continue(node, "casts")
               \/ Conclude(node)
  BY <1>6 DEF info, reached
<1>11. ASSUME NEW node, Tells(node, r), node.authority = None,
              node.network = "Unknown",
              \/ config.test_fid # None /\ Continue(node, "casts")
              \/ Conclude(node)
       PROVE  Inv'
  <2>1. CASE Conclude(node)
    BY <1>3, <1>4, <1>11, <2>1, ConcludeInv
  <2>2. CASE config.test_fid # None /\ Continue(node, "casts")
    <3>1. "casts" \in Midway
      BY DEF Midway
    <3> QED
      BY <1>3, <1>4, <1>11, <2>2, <3>1, ContinueInv
  <2> QED
    BY <1>11, <2>1, <2>2
<1> HIDE DEF parses
<1> QED
  BY <1>8, <1>9, <1>10, <1>11

(* The answers so far, with one more.                                      *)
LEMMA AnsweredFacts ==
  ASSUME Inv, phase \in Midway, NEW r, DOMAIN r = ReplyFields,
         replies' = [replies EXCEPT ![Here] = r]
  PROVE  Heard(r)
<1>1. PICK k : k = Here
  OBVIOUS
<1>2. /\ IsList(replies) /\ Len(replies) = Len(nodes) + 1
      /\ Len(nodes) \in Nat /\ k \in 1..Len(replies)
      /\ k = Len(nodes) + 1
  BY <1>1, AskingFacts DEF Here
<1>3. Len(replies) \in Nat /\ DOMAIN replies = 1..Len(replies)
  BY <1>2, ListFacts
<1>4. /\ replies' = [i \in 1..Len(replies) |-> IF i = k THEN r ELSE replies[i]]
      /\ replies'[k] = r
      /\ \A i \in 1..Len(replies) : i # k => replies'[i] = replies[i]
  BY <1>1, <1>2, <1>3
<1>5. replies' = [i \in 1..Len(replies) |-> replies'[i]]
  BY <1>4
<1>6. PICK t, n : t = replies' /\ n = Len(replies)
  OBVIOUS
<1>7. n \in Nat /\ t = [i \in 1..n |-> t[i]]
  BY <1>3, <1>5, <1>6
<1>8. IsList(t) /\ Len(t) = n
  BY <1>7, FunctionIsList
<1>9. \A i \in 1..Len(nodes) : i \in 1..Len(replies) /\ i # k
  BY <1>2
<1> QED
  BY <1>2, <1>4, <1>6, <1>8, <1>9 DEF Heard

(* What is known midway of the node being inspected.                       *)
LEMMA MidwayFacts ==
  ASSUME Inv, phase \in Midway
  PROVE  /\ Tells(current, replies[Here]) /\ DOMAIN current = NodeFields
         /\ DOMAIN replies[Here] = ReplyFields /\ current.authority = None
         /\ phase = "casts" => current.network = "Unknown"
         /\ config.test_fid = Some(config.test_fid.value)
         /\ config.test_fid # None
<1>1. Configured /\ config.test_fid # None
  BY AskingFacts DEF Inv, Shape
<1> QED
  BY <1>1, ConfigFacts DEF Inv, Truthful, Tells

(* A node is asked for a cast of the test FID.                             *)
LEMMA CastsInv ==
  ASSUME Inv, phase = "casts", NEW reply \in Asked, casts(reply)
  PROVE  Inv'
<1>1. phase \in Midway /\ "storage" \in Midway
  BY DEF Midway
<1>2. PICK s, r : s = replies[Here] /\ r = [s EXCEPT !.casts = reply]
  OBVIOUS
<1>3. /\ Tells(current, s) /\ DOMAIN current = NodeFields
      /\ DOMAIN s = ReplyFields /\ current.authority = None
      /\ current.network = "Unknown"
      /\ config.test_fid = Some(config.test_fid.value)
      /\ config.test_fid # None
  BY <1>1, <1>2, MidwayFacts
<1>4. /\ DOMAIN r = ReplyFields /\ r.info = s.info /\ r.casts = reply
      /\ r.events = s.events
  BY <1>2, <1>3, SetAnswer
<1>5. replies' = [replies EXCEPT ![Here] = r] /\ UNCHANGED config
  BY <1>2 DEF casts
<1>6. Heard(r)
  BY <1>1, <1>4, <1>5, AnsweredFacts
<1> DEFINE parses == Understood(reply, LAMBDA v : parse_network(v, config.test_fid.value))
           network == reply.value.messages[1].network
           tells == /\ parses /\ reply.value.messages # <<>>
                    /\ network # "unrecognised"
<1>7. PICK heard : heard = WithEvidence(current,
                             evidence("castsByFid", reply, parses))
  OBVIOUS
<1>8. /\ DOMAIN heard = NodeFields /\ heard.info = current.info
      /\ heard.protocol = current.protocol /\ heard.network = "Unknown"
      /\ heard.freshness = current.freshness /\ heard.authority = None
  BY <1>3, <1>7, EvidenceFacts
<1>9. CASE Continue(heard, "storage")
  <2>1. Tells(heard, r)
    BY <1>3, <1>4, <1>8 DEF Tells
  <2> QED
    BY <1>1, <1>3, <1>5, <1>6, <1>8, <1>9, <2>1, ContinueInv
<1>10. CASE /\ tells
            /\ Continue([heard EXCEPT !.network = IF network = Expected
                           THEN "Compatible" ELSE "Incompatible"], "storage")
  <2>1. PICK q, node : /\ q = IF network = Expected
                              THEN "Compatible" ELSE "Incompatible"
                       /\ node = [heard EXCEPT !.network = q]
    OBVIOUS
  <2>2. /\ DOMAIN node = NodeFields /\ node.info = current.info
        /\ node.protocol = current.protocol /\ node.network = q
        /\ node.freshness = current.freshness /\ node.authority = None
    BY <1>8, <2>1, SetField
  <2>3. q \in Verdicts /\ (q = "Compatible" => network = Expected)
    BY <2>1 DEF Verdicts
  <2>4. ConfirmsNetwork(reply) \/ q # "Compatible"
    <3>1. /\ reply.is = "json" /\ WellFormed(reply)
          /\ Len(reply.value.messages) = 1
          /\ reply.value.messages[1].fid = config.test_fid.value
      BY <1>10 DEF Understood, parse_network, WellFormed
    <3>2. 1 \in DOMAIN reply.value.messages
      <4>1. CastFields(reply.value)
        BY <1>1, <3>1, AnswerFields
      <4> QED
        BY <3>1, <4>1, ListFacts DEF CastFields
    <3>3. Some(reply.value.messages[1].fid) = config.test_fid
      BY <1>3, <3>1
    <3> QED
      BY <2>3, <3>1, <3>2, <3>3 DEF ConfirmsNetwork
  <2>5. Tells(node, r)
    BY <1>3, <1>4, <2>2, <2>3, <2>4 DEF Tells
  <2>6. Continue(node, "storage")
    BY <1>10, <2>1
  <2> QED
    BY <1>1, <1>3, <1>5, <1>6, <2>2, <2>5, <2>6, ContinueInv
<1> QED
  BY <1>7, <1>9, <1>10 DEF casts

(* A node is asked for the storage of the test FID.                        *)
LEMMA StorageInv ==
  ASSUME Inv, phase = "storage", NEW reply \in Asked, storage(reply)
  PROVE  Inv'
<1>1. phase \in Midway /\ "events" \in Midway
  BY DEF Midway
<1>2. PICK s, r : s = replies[Here] /\ r = [s EXCEPT !.storage = reply]
  OBVIOUS
<1>3. /\ Tells(current, s) /\ DOMAIN current = NodeFields
      /\ DOMAIN s = ReplyFields /\ current.authority = None
      /\ config.test_fid # None
  BY <1>1, <1>2, MidwayFacts
<1>4. /\ DOMAIN r = ReplyFields /\ r.info = s.info /\ r.casts = s.casts
      /\ r.events = s.events
  BY <1>2, <1>3, SetAnswer
<1>5. replies' = [replies EXCEPT ![Here] = r] /\ UNCHANGED config
  BY <1>2 DEF storage
<1>6. Heard(r)
  BY <1>1, <1>4, <1>5, AnsweredFacts
<1>7. PICK heard, limits :
        /\ heard = WithEvidence(current,
                     evidence("storageLimitsByFid", reply,
                              Understood(reply, parse_storage)))
        /\ limits = Some(reply.value.limits)
  OBVIOUS
<1>8. /\ DOMAIN heard = NodeFields /\ heard.info = current.info
      /\ heard.protocol = current.protocol /\ heard.network = current.network
      /\ heard.freshness = current.freshness /\ heard.authority = None
  BY <1>3, <1>7, EvidenceFacts
<1>9. PICK node : /\ node = heard \/ node = [heard EXCEPT !.storage = limits]
                  /\ Continue(node, "events")
  BY <1>7 DEF storage
<1>10. /\ DOMAIN node = NodeFields /\ node.info = current.info
       /\ node.protocol = current.protocol /\ node.network = current.network
       /\ node.freshness = current.freshness /\ node.authority = None
  <2>1. CASE node = heard
    BY <1>8, <2>1
  <2>2. CASE node = [heard EXCEPT !.storage = limits]
    BY <1>8, <2>2, SetField
  <2> QED
    BY <1>9, <2>1, <2>2
<1>11. Tells(node, r)
  BY <1>3, <1>4, <1>10 DEF Tells
<1> QED
  BY <1>1, <1>3, <1>5, <1>6, <1>9, <1>10, <1>11, ContinueInv

(* A node is asked for the registry events of the test FID.                *)
LEMMA EventsInv ==
  ASSUME Inv, phase = "events", NEW reply \in Asked, onChainEvents(reply)
  PROVE  Inv'
<1>1. phase \in Midway
  BY DEF Midway
<1>2. PICK s, r : s = replies[Here] /\ r = [s EXCEPT !.events = reply]
  OBVIOUS
<1>3. /\ Tells(current, s) /\ DOMAIN current = NodeFields
      /\ DOMAIN s = ReplyFields /\ current.authority = None
  BY <1>1, <1>2, MidwayFacts
<1>4. /\ DOMAIN r = ReplyFields /\ r.info = s.info /\ r.casts = s.casts
      /\ r.events = reply
  BY <1>2, <1>3, SetAnswer
<1>5. replies' = [replies EXCEPT ![Here] = r] /\ UNCHANGED config
  BY <1>2 DEF onChainEvents
<1>6. Heard(r)
  BY <1>1, <1>4, <1>5, AnsweredFacts
<1> DEFINE parses == Understood(reply, LAMBDA v : ParsesEvents(v, config.test_fid.value))
<1>7. PICK heard, authority :
        /\ heard = WithEvidence(current,
                     evidence("onChainEventsByFid", reply, parses))
        /\ authority = Some(parse_authority(reply.value))
  OBVIOUS
<1>8. /\ DOMAIN heard = NodeFields /\ heard.info = current.info
      /\ heard.protocol = current.protocol /\ heard.network = current.network
      /\ heard.freshness = current.freshness /\ heard.authority = None
  BY <1>3, <1>7, EvidenceFacts
<1>9. CASE Conclude(heard)
  <2>1. Tells(heard, r)
    BY <1>3, <1>4, <1>8 DEF Tells
  <2> QED
    BY <1>1, <1>5, <1>6, <1>9, <2>1, ConcludeInv
<1>10. CASE parses /\ Conclude([heard EXCEPT !.authority = authority])
  <2>1. PICK node : node = [heard EXCEPT !.authority = authority]
    OBVIOUS
  <2>2. /\ DOMAIN node = NodeFields /\ node.info = current.info
        /\ node.protocol = current.protocol /\ node.network = current.network
        /\ node.freshness = current.freshness /\ node.authority = authority
    BY <1>8, <2>1, SetField
  <2>3. authority.value = parse_authority(reply.value)
    BY <1>7 DEF Some
  <2>4. EventFields(reply.value)
    <3>1. WellFormed(reply)
      BY <1>10 DEF Understood, ParsesEvents, WellFormed
    <3> QED
      BY <1>1, <3>1, AnswerFields
  <2>5. Tells(node, r)
    BY <1>3, <1>4, <2>2, <2>3, <2>4 DEF Tells
  <2>6. Conclude(node)
    BY <1>10, <2>1
  <2> QED
    BY <1>1, <1>5, <1>6, <2>5, <2>6, ConcludeInv
<1> QED
  BY <1>7, <1>9, <1>10 DEF onChainEvents

(* No step breaks the invariant.                                           *)
LEMMA NextInv == Inv /\ [Next]_vars => Inv'
<1> SUFFICES ASSUME Inv, [Next]_vars PROVE Inv'
  OBVIOUS
<1>1. CASE UNCHANGED vars
  BY <1>1 DEF vars, Inv, Shape, Truthful, Configured, Tells, ConfirmsNetwork, Here
<1>2. CASE \E es \in Inputs, fid \in TestFids, delay \in Delays :
             configure(es, fid, delay)
  BY <1>2, ConfigureInv
<1>3. CASE phase = "info" /\ \E reply \in Asked : info(reply)
  BY <1>3, InfoInv
<1>4. CASE phase = "casts" /\ \E reply \in Asked : casts(reply)
  BY <1>4, CastsInv
<1>5. CASE phase = "storage" /\ \E reply \in Asked : storage(reply)
  BY <1>5, StorageInv
<1>6. CASE phase = "events" /\ \E reply \in Asked : onChainEvents(reply)
  BY <1>6, EventsInv
<1> QED
  BY <1>1, <1>2, <1>3, <1>4, <1>5, <1>6 DEF Next

(* Every report is in line with the answers it was made from, in every     *)
(* reachable state of the preflight (run).                                 *)
THEOREM Invariance == Spec => []Inv
BY InitInv, NextInv, PTL DEF Spec

-----------------------------------------------------------------------------
(* Results.                                                                *)

(* Every variable has its type, no more endpoints are asked than were      *)
(* configured, and the report is there exactly when all of them were.      *)
THEOREM TypeCorrect == Spec => []TypeOK
<1>1. ASSUME Inv PROVE TypeOK
  <2>1. IsList(nodes) /\ DOMAIN nodes = 1..Len(nodes) /\ Len(nodes) \in Nat
    BY <1>1, ListFacts DEF Inv, Shape
  <2>2. \A i \in DOMAIN nodes :
          /\ {nodes[i].protocol, nodes[i].network} \subseteq Verdicts
          /\ nodes[i].freshness \in {"Fresh", "Lagging", "Unknown"}
    BY <1>1, <2>1 DEF Inv, Truthful, Tells
  <2>3. report = (IF phase = "done" THEN Some(Summary(nodes)) ELSE None)
    BY <1>1 DEF Inv, Shape
  <2>4. report # None <=> phase = "done"
    BY <2>3 DEF Some, None
  <2>5. CASE phase \in {"new", "refused"} /\ config = None
    BY <2>2, <2>5 DEF TypeOK
  <2>6. CASE phase \in {"info", "done"} \cup Midway /\ Configured
    <3>1. config # None /\ Len(config.urls) \in 1..MAX_ENDPOINTS
      BY <2>6, ConfigFacts
    <3>2. /\ phase # "done" => Len(nodes) < Len(config.urls)
          /\ phase = "done" => Len(nodes) = Len(config.urls)
      BY <1>1, <2>6 DEF Inv, Shape
    <3>3. Len(config.urls) \in Nat
      BY <2>6, ConfigFacts
    <3> QED
      BY <2>1, <2>2, <2>4, <2>6, <3>1, <3>2, <3>3 DEF TypeOK, Midway
  <2> QED
    BY <1>1, <2>5, <2>6 DEF Inv, Shape
<1> QED
  BY <1>1, Invariance, PTL

(* A finished report is the summary of one report for each endpoint.       *)
LEMMA FinishedFacts ==
  ASSUME Inv, report # None
  PROVE  /\ Configured /\ report = Some(Summary(nodes))
         /\ report.value = Summary(nodes) /\ Len(config.urls) \in Nat
         /\ DOMAIN nodes = 1..Len(config.urls)
         /\ DOMAIN replies = 1..Len(config.urls)
         /\ Len(replies) = Len(config.urls)
         /\ \A i \in 1..Len(config.urls) : Tells(nodes[i], replies[i])
<1>1. phase = "done" /\ report = Some(Summary(nodes))
  BY DEF Inv, Shape
<1>2. /\ IsList(nodes) /\ IsList(replies) /\ Configured
      /\ Len(nodes) = Len(config.urls) /\ Len(replies) = Len(config.urls)
  BY <1>1 DEF Inv, Shape, Midway, None, Configured
<1>3. Len(config.urls) \in Nat
  BY <1>2, ConfigFacts
<1>4. report.value = Summary(nodes)
  BY <1>1 DEF Some
<1>5. \A i \in 1..Len(config.urls) : Tells(nodes[i], replies[i])
  BY <1>2 DEF Inv, Truthful
<1> QED
  BY <1>1, <1>2, <1>3, <1>4, <1>5, ListFacts

(* A peer counted as the only one of its kind told its identifier, as did  *)
(* every endpoint, and no other endpoint told the same.                    *)
LEMMA UniqueFacts ==
  ASSUME NEW all, NEW i \in DOMAIN all, peer_unique(all, i) = Some(TRUE)
  PROVE  /\ \A j \in DOMAIN all : HasPeer(all[j])
         /\ \A j \in DOMAIN all \ {i} : PeerOf(all[j]) # PeerOf(all[i])
<1>1. Some(TRUE) # None /\ Some(TRUE) # Some(FALSE)
  BY DEF Some, None
<1> QED
  BY <1>1 DEF peer_unique

(* A healthy report is earned by every endpoint: each one answered with    *)
(* the supported version and a peer of its own, listed every shard it has  *)
(* with a block of tolerable age, and served a cast of the test FID from   *)
(* the expected network (run, parse_info, from_info).                      *)
THEOREM HealthIsEarned == Spec => []HealthyIsEarned
<1>1. ASSUME Inv, report # None, report.value.healthy
      PROVE  /\ Len(replies) = Len(config.urls)
             /\ \A i \in DOMAIN replies :
                  /\ replies[i].info.is = "json"
                  /\ replies[i].info.value.version = SUPPORTED_VERSION
                  /\ FullyFresh(replies[i].info.value)
                  /\ ConfirmsNetwork(replies[i].casts)
             /\ \A i, j \in DOMAIN replies : i # j =>
                  replies[i].info.value.peer_id # replies[j].info.value.peer_id
  <2>1. /\ report.value = Summary(nodes) /\ Len(replies) = Len(config.urls)
        /\ DOMAIN nodes = DOMAIN replies
        /\ \A i \in DOMAIN replies : Tells(nodes[i], replies[i])
        /\ config.max_block_delay \in Nat
    BY <1>1, FinishedFacts, ConfigFacts
  <2>2. \A i \in DOMAIN nodes :
          /\ Compatible(nodes[i]) /\ nodes[i].freshness = "Fresh"
          /\ peer_unique(nodes, i) = Some(TRUE)
    <3>1. Summary(nodes).healthy =
            \A i \in DOMAIN nodes :
              /\ Compatible(nodes[i]) /\ nodes[i].freshness = "Fresh"
              /\ peer_unique(nodes, i) = Some(TRUE)
      BY Zenon DEF Summary
    <3>2. Summary(nodes).healthy
      BY <1>1, <2>1, Zenon
    <3> QED
      BY <3>1, <3>2, Zenon
  <2>3. ASSUME NEW i \in DOMAIN replies
        PROVE  /\ replies[i].info.is = "json"
               /\ replies[i].info.value.version = SUPPORTED_VERSION
               /\ FullyFresh(replies[i].info.value)
               /\ ConfirmsNetwork(replies[i].casts)
               /\ PeerOf(nodes[i]) = replies[i].info.value.peer_id
    <3>1. PICK r, node : r = replies[i] /\ node = nodes[i]
      OBVIOUS
    <3>2. /\ Tells(node, r) /\ HasPeer(node)
          /\ node.protocol = "Compatible" /\ node.network = "Compatible"
          /\ node.freshness = "Fresh"
      BY <2>1, <2>2, <3>1, UniqueFacts DEF Compatible
    <3>3. /\ r.info.is = "json" /\ parse_info(r.info.value)
          /\ InfoFields(r.info.value)
          /\ r.info.value.version = SUPPORTED_VERSION
          /\ from_info(r.info.value, config.max_block_delay) = "Fresh"
          /\ ConfirmsNetwork(r.casts)
          /\ node.info.value.peer_id = r.info.value.peer_id
      BY <3>2 DEF Tells, HasPeer
    <3>4. FullyFresh(r.info.value)
      BY <2>1, <3>3, FreshIsFull DEF FullyFresh
    <3> QED
      BY <3>1, <3>3, <3>4 DEF PeerOf
  <2>4. ASSUME NEW i \in DOMAIN replies, NEW j \in DOMAIN replies, i # j
        PROVE  replies[i].info.value.peer_id # replies[j].info.value.peer_id
    <3>1. PeerOf(nodes[j]) # PeerOf(nodes[i])
      BY <2>1, <2>2, <2>4, UniqueFacts
    <3> QED
      BY <2>3, <3>1
  <2> QED
    BY <2>1, <2>3, <2>4
<1>2. Inv => HealthyIsEarned
  BY <1>1 DEF HealthyIsEarned
<1> QED
  BY <1>2, Invariance, PTL

(* As many pairwise different things as there are places are that many.    *)
LEMMA CountDifferent ==
  ASSUME NEW n \in Nat, NEW f, DOMAIN f = 1..n,
         \A i, j \in 1..n : i # j => f[i] # f[j]
  PROVE  Cardinality({f[i] : i \in 1..n}) = n
<1> DEFINE S == {f[i] : i \in 1..n}
           g == [i \in 1..n |-> f[i]]
<1>1. g \in Bijection(1..n, S)
  BY DEF Bijection, Injection, Surjection, IsInjective
<1> HIDE DEF g
<1>2. ExistsBijection(1..n, S)
  BY <1>1 DEF ExistsBijection
<1> HIDE DEF S
<1>3. Cardinality(S) = n
  BY <1>2, FS_CountingElements
<1> QED
  BY <1>3 DEF S

(* Two endpoints that lead to the same peer are both named as duplicates;  *)
(* a peer is called unique only when every endpoint told its own, and then *)
(* as many distinct peers are counted as there are endpoints (run).        *)
THEOREM DuplicatesNamed == Spec => []DuplicatesAreNamed
<1> DEFINE Told(i) == /\ replies[i].info.is = "json"
                      /\ parse_info(replies[i].info.value)
                      /\ replies[i].info.value.peer_id # "absent"
           peer(i) == replies[i].info.value.peer_id
<1>1. ASSUME Inv, report # None
      PROVE  /\ \A i, j \in DOMAIN replies :
                  i # j /\ Told(i) /\ Told(j) /\ peer(i) = peer(j) =>
                    {report.value.peer_unique[i], report.value.peer_unique[j]}
                      = {Some(FALSE)}
             /\ (\E i \in DOMAIN replies :
                   report.value.peer_unique[i] = Some(TRUE)) =>
                  \A i \in DOMAIN replies : Told(i)
             /\ (\A i \in DOMAIN replies :
                   report.value.peer_unique[i] = Some(TRUE)) =>
                  report.value.distinct_peers = Len(config.urls)
  <2>1. PICK n : n = Len(config.urls)
    OBVIOUS
  <2>2. /\ n \in Nat /\ report.value = Summary(nodes)
        /\ DOMAIN nodes = 1..n /\ DOMAIN replies = 1..n
        /\ \A i \in 1..n : Tells(nodes[i], replies[i])
    BY <1>1, <2>1, FinishedFacts
  <2>3. /\ \A i \in 1..n :
             report.value.peer_unique[i] = peer_unique(nodes, i)
        /\ report.value.distinct_peers =
             Cardinality({PeerOf(nodes[i]) :
                          i \in {j \in 1..n : HasPeer(nodes[j])}})
    BY <2>2 DEF Summary
  <2>4. ASSUME NEW i \in 1..n
        PROVE  /\ HasPeer(nodes[i]) <=> Told(i)
               /\ HasPeer(nodes[i]) => PeerOf(nodes[i]) = peer(i)
    BY <2>2 DEF Tells, HasPeer, PeerOf
  <2>5. ASSUME NEW i \in 1..n, NEW j \in 1..n, i # j, Told(i), Told(j),
               peer(i) = peer(j)
        PROVE  peer_unique(nodes, i) = Some(FALSE)
    <3>1. /\ HasPeer(nodes[i]) /\ HasPeer(nodes[j])
          /\ PeerOf(nodes[i]) = PeerOf(nodes[j])
      BY <2>4, <2>5
    <3>2. j \in DOMAIN nodes \ {i}
      BY <2>2, <2>5
    <3> QED
      BY <3>1, <3>2 DEF peer_unique
  <2>6. ASSUME NEW i \in 1..n, peer_unique(nodes, i) = Some(TRUE)
        PROVE  \A j \in 1..n : Told(j)
    BY <2>2, <2>4, <2>6, UniqueFacts
  <2>7. ASSUME \A i \in 1..n : peer_unique(nodes, i) = Some(TRUE)
        PROVE  report.value.distinct_peers = n
    <3> DEFINE f == [i \in 1..n |-> PeerOf(nodes[i])]
    <3>1. \A i \in 1..n : HasPeer(nodes[i])
      BY <2>2, <2>7, UniqueFacts
    <3>2. \A i, j \in 1..n : i # j => f[i] # f[j]
      BY <2>2, <2>7, UniqueFacts
    <3>3. DOMAIN f = 1..n
      OBVIOUS
    <3>4. {PeerOf(nodes[i]) : i \in {j \in 1..n : HasPeer(nodes[j])}}
            = {f[i] : i \in 1..n}
      BY <3>1
    <3> HIDE DEF f
    <3>5. Cardinality({f[i] : i \in 1..n}) = n
      BY <2>2, <3>2, <3>3, CountDifferent
    <3> QED
      BY <2>3, <3>4, <3>5
  <2> HIDE DEF Told, peer
  <2> QED
    BY <2>1, <2>2, <2>3, <2>5, <2>6, <2>7
<1>2. Inv => DuplicatesAreNamed
  BY <1>1 DEF DuplicatesAreNamed
<1> QED
  BY <1>2, Invariance, PTL

-----------------------------------------------------------------------------
(* The newest registry event.  parse_authority is a loop, so what it finds *)
(* is shown by induction (UpTo) on the events it has seen.                 *)

\* The first n events have been seen; f holds what was latest after each.
Scanned(f, events, n) ==
  f = [i \in 0..n |-> IF i = 0 THEN None ELSE Newer(f[i - 1], events[i])]

(* The loop has a result, whatever the events are.                         *)
LEMMA ScanExists ==
  ASSUME NEW events, NEW N \in Nat
  PROVE  \E f : Scanned(f, events, N)
<1> DEFINE T == {n \in 0..N : \E f : Scanned(f, events, n)}
<1>1. 0 \in T
  <2>1. PICK f : f = [i \in 0..0 |-> None]
    OBVIOUS
  <2>2. Scanned(f, events, 0)
    BY <2>1 DEF Scanned
  <2> QED
    BY <2>2
<1>2. ASSUME NEW n \in 0..(N - 1), n \in T PROVE n + 1 \in T
  <2>1. PICK f : Scanned(f, events, n)
    BY <1>2
  <2>2. PICK g : g = [i \in 0..(n + 1) |->
                       IF i = n + 1 THEN Newer(f[n], events[n + 1]) ELSE f[i]]
    OBVIOUS
  <2>3. \A i \in 0..(n + 1) :
          g[i] = IF i = 0 THEN None ELSE Newer(g[i - 1], events[i])
    <3> SUFFICES ASSUME NEW i \in 0..(n + 1)
                 PROVE  g[i] = IF i = 0 THEN None ELSE Newer(g[i - 1], events[i])
      OBVIOUS
    <3>1. CASE i = n + 1
      <4>1. g[i - 1] = f[n] /\ i # 0
        BY <2>2, <3>1
      <4> QED
        BY <2>2, <3>1, <4>1
    <3>2. CASE i \in 0..n
      <4>1. f[i] = IF i = 0 THEN None ELSE Newer(f[i - 1], events[i])
        BY <2>1, <3>2 DEF Scanned
      <4>2. g[i] = f[i] /\ (i # 0 => g[i - 1] = f[i - 1])
        BY <2>2, <3>2
      <4> QED
        BY <4>1, <4>2
    <3> QED
      BY <3>1, <3>2
  <2>4. g = [i \in 0..(n + 1) |-> g[i]]
    BY <2>2
  <2>5. Scanned(g, events, n + 1)
    BY <2>3, <2>4 DEF Scanned
  <2> QED
    BY <2>5
<1>3. N \in T
  <2> HIDE DEF T
  <2> QED
    BY <1>1, <1>2, UpTo
<1> QED
  BY <1>3

(* What the loop returns is the last of the values it held.                *)
LEMMA ScanResult ==
  ASSUME NEW events, Len(events) \in Nat
  PROVE  \E f : Scanned(f, events, Len(events)) /\ latest_custody(events) = f[Len(events)]
<1>1. PICK n, f : n = Len(events) /\ f = CHOOSE g : Scanned(g, events, n)
  OBVIOUS
<1>2. Scanned(f, events, n)
  BY <1>1, ScanExists
<1>3. latest_custody(events) = f[n]
  BY <1>1 DEF latest_custody, Scanned
<1> QED
  BY <1>1, <1>2, <1>3

(* Positions are ordered, first by block, then by transaction, then by log.*)
LEMMA AfterOrders ==
  ASSUME NEW p \in Nat \X Nat \X Nat, NEW q \in Nat \X Nat \X Nat,
         NEW r \in Nat \X Nat \X Nat
  PROVE  /\ ~After(p, p)
         /\ After(p, q) /\ ~After(r, q) => ~After(r, p)
BY DEF After

\* k is a newest custodial event among the first n.
NewestOf(events, n, k) ==
  /\ k \in 1..n /\ Custodial(events[k])
  /\ \A l \in 1..n :
       Custodial(events[l]) => ~After(events[l].position, events[k].position)

(* After n events the loop holds a newest custodial one of them, or none   *)
(* when there is none.                                                     *)
LEMMA ScanFinds ==
  ASSUME NEW events, NEW N \in Nat, NEW f, Scanned(f, events, N),
         \A i \in 1..N :
           Custodial(events[i]) => events[i].position \in Nat \X Nat \X Nat
  PROVE  \/ f[N] = None /\ \A k \in 1..N : ~Custodial(events[k])
         \/ \E k \in 1..N : NewestOf(events, N, k) /\ f[N] = Some(events[k])
<1> DEFINE P(n) ==
             \/ f[n] = None /\ \A k \in 1..n : ~Custodial(events[k])
             \/ \E k \in 1..n : NewestOf(events, n, k) /\ f[n] = Some(events[k])
           T == {n \in 0..N : P(n)}
<1>1. f[0] = None /\ \A n \in 0..(N - 1) : f[n + 1] = Newer(f[n], events[n + 1])
  BY DEF Scanned
<1>2. 0 \in T
  BY <1>1
<1>3. ASSUME NEW n \in 0..(N - 1), n \in T PROVE n + 1 \in T
  <2>1. PICK e, v : e = events[n + 1] /\ v = f[n]
    OBVIOUS
  <2>2. /\ f[n + 1] = Newer(v, e)
        /\ Custodial(e) => e.position \in Nat \X Nat \X Nat
        /\ n + 1 \in 0..N /\ n \in Nat /\ 1..(n + 1) = 1..n \cup {n + 1}
    BY <1>1, <2>1
  <2>3. CASE v = None /\ \A k \in 1..n : ~Custodial(events[k])
    <3>1. CASE Custodial(e)
      <4>1. f[n + 1] = Some(e)
        BY <2>2, <2>3, <3>1 DEF Newer
      <4>2. ~After(e.position, e.position)
        BY <2>2, <3>1, AfterOrders
      <4>3. NewestOf(events, n + 1, n + 1)
        BY <2>1, <2>2, <2>3, <3>1, <4>2 DEF NewestOf
      <4> QED
        BY <2>1, <2>2, <4>1, <4>3
    <3>2. CASE ~Custodial(e)
      <4>1. f[n + 1] = None
        BY <2>2, <2>3, <3>2 DEF Newer
      <4> QED
        BY <2>1, <2>2, <2>3, <3>2, <4>1
    <3> QED
      BY <3>1, <3>2
  <2>4. ASSUME NEW k \in 1..n, NewestOf(events, n, k), v = Some(events[k])
        PROVE  n + 1 \in T
    <3>1. PICK d : d = events[k]
      OBVIOUS
    <3>2. /\ v # None /\ v.value = d /\ k \in 1..(n + 1)
          /\ d.position \in Nat \X Nat \X Nat /\ Custodial(d)
      BY <1>3, <2>4, <3>1 DEF Some, None, NewestOf
    <3>3. CASE Custodial(e) /\ After(e.position, d.position)
      <4>1. f[n + 1] = Some(e)
        BY <2>2, <3>2, <3>3 DEF Newer
      <4>2. ASSUME NEW l \in 1..n, Custodial(events[l])
            PROVE  ~After(events[l].position, e.position)
        <5>1. ~After(events[l].position, d.position)
          BY <2>4, <3>1, <4>2 DEF NewestOf
        <5>2. events[l].position \in Nat \X Nat \X Nat
          BY <1>3, <4>2
        <5> QED
          BY <2>2, <3>2, <3>3, <5>1, <5>2, AfterOrders
      <4>3. ~After(e.position, e.position)
        BY <2>2, <3>3, AfterOrders
      <4>4. NewestOf(events, n + 1, n + 1)
        BY <2>1, <2>2, <3>3, <4>2, <4>3 DEF NewestOf
      <4> QED
        BY <2>1, <2>2, <4>1, <4>4
    <3>4. CASE ~(Custodial(e) /\ After(e.position, d.position))
      <4>1. f[n + 1] = v
        BY <2>2, <3>2, <3>4 DEF Newer
      <4>2. NewestOf(events, n + 1, k)
        BY <2>1, <2>2, <2>4, <3>1, <3>2, <3>4 DEF NewestOf
      <4> QED
        BY <2>2, <2>4, <3>2, <4>1, <4>2
    <3> QED
      BY <3>3, <3>4
  <2> QED
    BY <1>3, <2>1, <2>3, <2>4
<1>4. N \in T
  <2> HIDE DEF T
  <2> QED
    BY <1>2, <1>3, UpTo
<1> QED
  BY <1>4

(* The custody address a report shows is that of the newest registration   *)
(* or transfer the node listed, in whatever order it listed them, and a    *)
(* change of the recovery address is never taken for one (parse_authority).*)
THEOREM CustodyIsNewest == Spec => []NewestCustodyIsReported
<1>1. ASSUME NEW node, NEW r, EventFields(r.events.value),
             node.authority.value = parse_authority(r.events.value)
      PROVE  LET events == r.events.value.events
                 custodial == {k \in DOMAIN events : Custodial(events[k])}
                 shown == node.authority.value.reported_custody IN
             IF custodial = {} THEN shown = None
             ELSE \E k \in custodial :
                    /\ shown = Some(events[k].to)
                    /\ \A l \in custodial :
                         ~After(events[l].position, events[k].position)
  <2>1. PICK events, shown, n :
          /\ events = r.events.value.events /\ n = Len(events)
          /\ shown = node.authority.value.reported_custody
    OBVIOUS
  <2>2. /\ n \in Nat /\ DOMAIN events = 1..n
        /\ \A i \in 1..n :
             Custodial(events[i]) => events[i].position \in Nat \X Nat \X Nat
    BY <1>1, <2>1, ListFacts DEF EventFields
  <2>3. PICK f : Scanned(f, events, n) /\ latest_custody(events) = f[n]
    BY <2>1, <2>2, ScanResult
  <2>4. shown = IF f[n] = None THEN None ELSE Some(f[n].value.to)
    BY <1>1, <2>1, <2>3 DEF parse_authority
  <2>5. CASE f[n] = None /\ \A k \in 1..n : ~Custodial(events[k])
    BY <2>1, <2>2, <2>4, <2>5
  <2>6. CASE \E k \in 1..n : NewestOf(events, n, k) /\ f[n] = Some(events[k])
    <3>1. PICK k \in 1..n : NewestOf(events, n, k) /\ f[n] = Some(events[k])
      BY <2>6
    <3>2. f[n] # None /\ f[n].value = events[k]
      BY <3>1 DEF Some, None
    <3>3. shown = Some(events[k].to)
      BY <2>4, <3>2
    <3> QED
      BY <2>1, <2>2, <3>1, <3>3 DEF NewestOf
  <2>7. \/ f[n] = None /\ \A k \in 1..n : ~Custodial(events[k])
        \/ \E k \in 1..n : NewestOf(events, n, k) /\ f[n] = Some(events[k])
    BY <2>2, <2>3, ScanFinds
  <2> QED
    BY <2>5, <2>6, <2>7
<1>2. ASSUME Inv, NEW i \in DOMAIN nodes, nodes[i].authority # None
      PROVE  /\ EventFields(replies[i].events.value)
             /\ nodes[i].authority.value = parse_authority(replies[i].events.value)
  <2>1. i \in 1..Len(nodes)
    BY <1>2, ListFacts DEF Inv, Shape
  <2> QED
    BY <1>2, <2>1 DEF Inv, Truthful, Tells
<1>3. Inv => NewestCustodyIsReported
  BY <1>1, <1>2 DEF NewestCustodyIsReported
<1> QED
  BY <1>3, Invariance, PTL

-----------------------------------------------------------------------------
(* The limits of the account service (module AttemptLimit; their promises  *)
(* are in module Limiter).  Every attempt in memory is one that was let    *)
(* in, noted with what the clock showed then, and those let in during the  *)
(* last window are all in memory.                                          *)

CONSTANTS MAX_PENDING, CHALLENGE_TTL, FirstNow, MaxBack, MaxAttempts

VARIABLE pending

Limit == INSTANCE AttemptLimit

\* What the clock would show had it never been moved, and so what it showed
\* at a moment m is Origin + m.ahead - m.back.
Origin == now - ahead + back

Past(m) == m.ahead <= ahead /\ m.back <= back

\* Every element of s is the clock's reading at an attempt of a of its own.
Recalls(f, s, a, o) ==
  /\ f \in [1..Len(s) -> 1..Len(a)]
  /\ \A i, j \in 1..Len(s) : f[i] = f[j] => i = j
  /\ \A j \in 1..Len(s) : s[j] = o + a[f[j]].ahead - a[f[j]].back

\* No attempt of a in the window before ah is forgotten.
Covers(f, s, a, ah) ==
  \A i \in 1..Len(a) :
    ah - a[i].ahead < WINDOW => \E j \in 1..Len(s) : f[j] = i

Counted ==
  \A k \in Kinds :
    /\ \A i \in 1..Len(admitted[k]) : Past(admitted[k][i])
    /\ \E f : /\ Recalls(f, times[k], admitted[k], Origin)
              /\ Covers(f, times[k], admitted[k], ahead)

\* The last poll that is noted is the last one that was made.
Noted ==
  \A r \in Requests :
    pending[r] # Absent /\ asked[r] # Absent =>
      /\ Past(asked[r])
      /\ pending[r].last_poll = Origin + asked[r].ahead - asked[r].back

LimitInv == Limit!TypeOK /\ Counted /\ Noted

(* What the types say of the lists of one kind.                            *)
LEMMA KindFacts ==
  ASSUME Limit!LimitAssumption, Limit!TypeOK, NEW k \in Kinds
  PROVE  /\ times[k] \in Seq(0..MaxNow) /\ admitted[k] \in Seq(Limit!Moment)
         /\ Len(times[k]) \in Nat /\ Len(admitted[k]) \in Nat
         /\ DOMAIN admitted[k] = 1..Len(admitted[k])
         /\ \A j \in 1..Len(times[k]) : times[k][j] \in 0..MaxNow
         /\ \A i \in 1..Len(admitted[k]) :
              admitted[k][i].ahead \in Nat /\ admitted[k][i].back \in Nat
         /\ now \in 0..MaxNow /\ now \in Nat /\ ahead \in Nat /\ back \in Nat
         /\ Origin \in Int /\ MaxNow \in Nat
         /\ WINDOW \in Nat /\ WINDOW > 0
         /\ Capacity[k] \in Nat /\ Capacity[k] > 0
         /\ Len(times[k]) <= Capacity[k]
<1>1. times[k] \in Seq(0..MaxNow) /\ admitted[k] \in Seq(Limit!Moment)
  BY DEF Limit!TypeOK
<1>2. /\ Len(times[k]) \in Nat /\ Len(admitted[k]) \in Nat
      /\ DOMAIN admitted[k] = 1..Len(admitted[k])
      /\ \A j \in 1..Len(times[k]) : times[k][j] \in 0..MaxNow
      /\ \A i \in 1..Len(admitted[k]) : admitted[k][i] \in Limit!Moment
  BY <1>1, LenProperties, ElementOfSeq
<1>3. \A i \in 1..Len(admitted[k]) :
        admitted[k][i].ahead \in Nat /\ admitted[k][i].back \in Nat
  BY <1>2 DEF Limit!Moment
<1>4. /\ MaxNow \in Nat /\ WINDOW \in Nat /\ WINDOW > 0
      /\ Capacity[k] \in Nat /\ Capacity[k] > 0
  BY DEF Limit!LimitAssumption
<1>5. now \in 0..MaxNow /\ now \in Nat /\ ahead \in Nat /\ back \in Nat
  BY <1>4 DEF Limit!TypeOK
<1>6. Origin \in Int
  BY <1>5 DEF Origin
<1>7. Len(times[k]) <= Capacity[k]
  BY DEF Limit!TypeOK
<1> QED
  BY <1>1, <1>2, <1>3, <1>4, <1>5, <1>6, <1>7

(* Forgetting attempts that left the window forgets nothing that counts.   *)
LEMMA Forgetting ==
  ASSUME NEW s, Len(s) \in Nat, NEW a, NEW S, NEW o, NEW ah, NEW f,
         Recalls(f, s, a, o), Covers(f, s, a, ah),
         \A j \in 1..Len(s) :
           s[j] \notin S => ~(ah - a[f[j]].ahead < WINDOW)
  PROVE  \E h : Recalls(h, Kept(s, S), a, o) /\ Covers(h, Kept(s, S), a, ah)
<1>1. PICK t, n : t = Kept(s, S) /\ n = Len(s)
  OBVIOUS
<1>2. PICK g : Leads(g, t, s, S, n)
  BY <1>1, KeptLeads
<1>3. PICK h : h = [j \in 1..Len(t) |-> f[g[j]]]
  OBVIOUS
<1>4. \A j \in 1..Len(t) : g[j] \in 1..n /\ t[j] = s[g[j]]
  BY <1>2 DEF Leads
<1>5. h \in [1..Len(t) -> 1..Len(a)]
  BY <1>1, <1>3, <1>4 DEF Recalls
<1>6. ASSUME NEW i \in 1..Len(t), NEW j \in 1..Len(t), h[i] = h[j]
      PROVE  i = j
  <2>1. g[i] = g[j]
    BY <1>1, <1>3, <1>4, <1>6 DEF Recalls
  <2> QED
    BY <1>2, <2>1 DEF Leads
<1>7. ASSUME NEW j \in 1..Len(t)
      PROVE  t[j] = o + a[h[j]].ahead - a[h[j]].back
  BY <1>1, <1>3, <1>4 DEF Recalls
<1>8. ASSUME NEW i \in 1..Len(a), ah - a[i].ahead < WINDOW
      PROVE  \E j \in 1..Len(t) : h[j] = i
  <2>1. PICK l \in 1..n : f[l] = i
    BY <1>1, <1>8 DEF Covers
  <2>2. s[l] \in S
    BY <1>1, <1>8, <2>1
  <2>3. PICK j \in 1..Len(t) : g[j] = l
    BY <1>2, <2>2 DEF Leads
  <2> QED
    BY <1>3, <2>1, <2>3
<1> QED
  BY <1>1, <1>5, <1>6, <1>7, <1>8 DEF Recalls, Covers

(* An attempt that is let in is noted with what the clock shows.           *)
LEMMA Noting ==
  ASSUME NEW s, IsList(s), NEW a, IsList(a), NEW o, NEW ah, NEW f,
         Recalls(f, s, a, o), Covers(f, s, a, ah),
         NEW e, NEW m, e = o + m.ahead - m.back
  PROVE  \E h : /\ Recalls(h, Append(s, e), Append(a, m), o)
                /\ Covers(h, Append(s, e), Append(a, m), ah)
<1>1. PICK t, b, n, c : /\ t = Append(s, e) /\ b = Append(a, m)
                        /\ n = Len(s) /\ c = Len(a)
  OBVIOUS
<1>2. n \in Nat /\ c \in Nat
  BY <1>1, ListFacts
<1>3. /\ Len(t) = n + 1 /\ t[n + 1] = e
      /\ \A i \in 1..n : t[i] = s[i]
  BY <1>1, AppendFacts
<1>4. /\ Len(b) = c + 1 /\ b[c + 1] = m
      /\ \A i \in 1..c : b[i] = a[i]
  BY <1>1, AppendFacts
<1>5. PICK h : h = [j \in 1..(n + 1) |-> IF j = n + 1 THEN c + 1 ELSE f[j]]
  OBVIOUS
<1>6. \A j \in 1..n : f[j] \in 1..c /\ h[j] = f[j]
  <2>1. f \in [1..n -> 1..c]
    BY <1>1 DEF Recalls
  <2>2. \A j \in 1..n : j \in 1..(n + 1) /\ j # n + 1
    BY <1>2
  <2> QED
    BY <1>5, <2>1, <2>2
<1>7. h[n + 1] = c + 1
  BY <1>2, <1>5
<1>8. \A j \in 1..(n + 1) : j \in 1..n \/ j = n + 1
  BY <1>2
<1>9. h \in [1..(n + 1) -> 1..(c + 1)]
  <2>1. \A j \in 1..(n + 1) : h[j] \in 1..(c + 1)
    BY <1>2, <1>6, <1>7, <1>8
  <2> QED
    BY <1>5, <2>1
<1>10. ASSUME NEW i \in 1..(n + 1), NEW j \in 1..(n + 1), h[i] = h[j]
       PROVE  i = j
  <2>1. \A p, q \in 1..n : f[p] = f[q] => p = q
    BY <1>1 DEF Recalls
  <2>2. \A p \in 1..n : h[p] # c + 1
    BY <1>2, <1>6
  <2> QED
    BY <1>6, <1>7, <1>8, <1>10, <2>1, <2>2
<1>11. ASSUME NEW j \in 1..(n + 1)
       PROVE  t[j] = o + b[h[j]].ahead - b[h[j]].back
  <2>1. CASE j \in 1..n
    BY <1>1, <1>3, <1>4, <1>6, <2>1 DEF Recalls
  <2>2. CASE j = n + 1
    BY <1>3, <1>4, <1>7, <2>2
  <2> QED
    BY <1>8, <2>1, <2>2
<1>12. ASSUME NEW i \in 1..(c + 1), ah - b[i].ahead < WINDOW
       PROVE  \E j \in 1..(n + 1) : h[j] = i
  <2>1. CASE i \in 1..c
    <3>1. PICK j \in 1..n : f[j] = i
      BY <1>1, <1>4, <1>12, <2>1 DEF Covers
    <3> QED
      BY <1>2, <1>6, <3>1
  <2>2. CASE i = c + 1
    BY <1>2, <1>7, <2>2
  <2> QED
    BY <1>2, <2>1, <2>2
<1>13. Recalls(h, t, b, o)
  BY <1>3, <1>4, <1>9, <1>10, <1>11 DEF Recalls
<1>14. Covers(h, t, b, ah)
  BY <1>3, <1>4, <1>12 DEF Covers
<1> QED
  BY <1>1, <1>13, <1>14

(* What limit retains of the attempts of a kind: those that still count,   *)
(* each one the reading of an attempt of its own, and none of the last     *)
(* window is missing.                                                      *)
LEMMA RetainedFacts ==
  ASSUME Limit!LimitAssumption, Limit!TypeOK, Counted, NEW k \in Kinds
  PROVE  /\ Limit!Retained(k) \in Seq(0..MaxNow) /\ IsList(Limit!Retained(k))
         /\ Len(Limit!Retained(k)) \in Nat
         /\ Len(Limit!Retained(k)) <= Capacity[k]
         /\ \A j \in 1..Len(Limit!Retained(k)) :
              Limit!Counts(Limit!Retained(k)[j])
         /\ \E f : /\ Recalls(f, Limit!Retained(k), admitted[k], Origin)
                   /\ Covers(f, Limit!Retained(k), admitted[k], ahead)
<1>1. PICK s, a, o, ah, bk, nw, S :
        /\ s = times[k] /\ a = admitted[k] /\ o = Origin /\ ah = ahead
        /\ bk = back /\ nw = now /\ S = {t \in 0..MaxNow : Limit!Counts(t)}
  OBVIOUS
<1>2. PICK t : t = Kept(s, S)
  OBVIOUS
<1>3. Limit!Retained(k) = t
  <2>1. Limit!Kept(s, S) = Kept(s, S)
    BY DEF Limit!Kept, Kept
  <2> QED
    BY <1>1, <1>2, <2>1 DEF Limit!Retained
<1>4. /\ Len(s) \in Nat /\ Len(a) \in Nat
      /\ \A j \in 1..Len(s) : s[j] \in 0..MaxNow
      /\ \A i \in 1..Len(a) : a[i].ahead \in Nat /\ a[i].back \in Nat
      /\ nw \in Nat /\ ah \in Nat /\ bk \in Nat /\ o \in Int
      /\ WINDOW \in Nat /\ WINDOW > 0 /\ MaxNow \in Nat
      /\ Capacity[k] \in Nat /\ Len(s) <= Capacity[k]
  BY <1>1, KindFacts
<1>5. PICK f : Recalls(f, s, a, o) /\ Covers(f, s, a, ah)
  BY <1>1 DEF Counted
<1>6. IsList(t)
  BY <1>2, <1>4, KeptLeads
<1>7. PICK g : Leads(g, t, s, S, Len(s))
  BY <1>2, <1>4, KeptLeads
<1>8. Len(t) \in Nat /\ DOMAIN t = 1..Len(t)
  BY <1>6, ListFacts
<1>9. \A j \in 1..Len(t) : t[j] \in S
  BY <1>7 DEF Leads
<1>10. \A j \in 1..Len(t) : t[j] \in 0..MaxNow /\ Limit!Counts(t[j])
  BY <1>1, <1>9
<1>11. t \in Seq(0..MaxNow)
  <2>1. t \in Seq({t[i] : i \in DOMAIN t})
    BY <1>6 DEF IsList
  <2>2. {t[i] : i \in DOMAIN t} \subseteq 0..MaxNow
    BY <1>8, <1>10
  <2> QED
    BY <2>1, <2>2, SeqMonotonic
<1>12. Len(t) <= Capacity[k]
  <2>1. Len(t) <= Len(s)
    BY <1>7 DEF Leads
  <2> QED
    BY <1>4, <1>8, <2>1
<1>13. ASSUME NEW j \in 1..Len(s), s[j] \notin S
       PROVE  ~(ah - a[f[j]].ahead < WINDOW)
  <2>1. PICK i \in 1..Len(a) : i = f[j]
    BY <1>5 DEF Recalls
  <2>2. PICK ma, mb, v : ma = a[i].ahead /\ mb = a[i].back /\ v = s[j]
    OBVIOUS
  <2>3. ma \in Nat /\ mb \in Nat /\ v \in 0..MaxNow
    BY <1>4, <2>2
  <2>4. v = o + ma - mb
    BY <1>5, <2>1, <2>2 DEF Recalls
  <2>5. ma <= ah /\ mb <= bk /\ o = nw - ah + bk
    BY <1>1, <2>2 DEF Counted, Past, Origin
  <2>6. ~Limit!Counts(v)
    BY <1>1, <1>13, <2>2, <2>3
  <2>7. ~((IF nw >= v THEN nw - v ELSE 0) < WINDOW)
    BY <1>1, <2>6 DEF Limit!Counts, Limit!saturating_sub
  <2>8. ~(ah - ma < WINDOW)
    BY <1>4, <2>3, <2>4, <2>5, <2>7
  <2> QED
    BY <2>1, <2>2, <2>8
<1>14. \E h : Recalls(h, t, a, o) /\ Covers(h, t, a, ah)
  BY <1>2, <1>4, <1>5, <1>13, Forgetting
<1> QED
  BY <1>1, <1>3, <1>6, <1>8, <1>10, <1>11, <1>12, <1>14

(* limit keeps count of the attempts of a kind.                            *)
LEMMA LimitCounts ==
  ASSUME Limit!LimitAssumption, Limit!TypeOK, Counted, NEW k \in Kinds,
         Limit!limit(k), UNCHANGED <<now, ahead, back>>
  PROVE  /\ times' \in [Kinds -> Seq(0..MaxNow)]
         /\ \A q \in Kinds : Len(times'[q]) <= Capacity[q]
         /\ admitted' \in [Kinds -> Seq(Limit!Moment)]
         /\ Counted'
<1>1. PICK t : t = Limit!Retained(k)
  OBVIOUS
<1>2. PICK a, m, o, ah, e :
        /\ a = admitted[k] /\ m = [ahead |-> ahead, back |-> back]
        /\ o = Origin /\ ah = ahead /\ e = now
  OBVIOUS
<1>3. /\ t \in Seq(0..MaxNow) /\ IsList(t) /\ Len(t) \in Nat
      /\ Len(t) <= Capacity[k]
  BY <1>1, RetainedFacts
<1>4. PICK f : Recalls(f, t, a, o) /\ Covers(f, t, a, ah)
  BY <1>1, <1>2, RetainedFacts
<1>5. /\ a \in Seq(Limit!Moment) /\ Len(a) \in Nat
      /\ DOMAIN a = 1..Len(a)
      /\ e \in 0..MaxNow /\ ahead \in Nat /\ back \in Nat /\ Capacity[k] \in Nat
  BY <1>2, KindFacts
<1>6. Origin' = Origin /\ ahead' = ahead /\ back' = back
  BY DEF Origin
<1>7. times \in [Kinds -> Seq(0..MaxNow)] /\ admitted \in [Kinds -> Seq(Limit!Moment)]
      /\ \A q \in Kinds : Len(times[q]) <= Capacity[q]
  BY DEF Limit!TypeOK
<1>8. \A i \in 1..Len(a) : Past(a[i])
  BY <1>2 DEF Counted
<1>9. ASSUME NEW u, NEW b, times' = [times EXCEPT ![k] = u], admitted'[k] = b,
             admitted' \in [Kinds -> Seq(Limit!Moment)],
             \A q \in Kinds \ {k} : admitted'[q] = admitted[q],
             u \in Seq(0..MaxNow), Len(u) <= Capacity[k],
             \A i \in 1..Len(b) : Past(b[i]),
             \E h : Recalls(h, u, b, o) /\ Covers(h, u, b, ah)
      PROVE  /\ times' \in [Kinds -> Seq(0..MaxNow)]
             /\ \A q \in Kinds : Len(times'[q]) <= Capacity[q]
             /\ Counted'
  <2>1. times' \in [Kinds -> Seq(0..MaxNow)]
    BY <1>7, <1>9
  <2>2. times'[k] = u /\ \A q \in Kinds \ {k} : times'[q] = times[q]
    BY <1>7, <1>9
  <2>3. \A q \in Kinds : Len(times'[q]) <= Capacity[q]
    BY <1>7, <1>9, <2>2
  <2>4. ASSUME NEW q \in Kinds
        PROVE  (/\ \A i \in 1..Len(admitted[q]) : Past(admitted[q][i])
                /\ \E h : /\ Recalls(h, times[q], admitted[q], Origin)
                          /\ Covers(h, times[q], admitted[q], ahead))'
    <3>1. CASE q = k
      BY <1>2, <1>6, <1>9, <2>2, <3>1 DEF Past
    <3>2. CASE q # k
      BY <1>6, <1>9, <2>2, <3>2 DEF Past, Counted
    <3> QED
      BY <3>1, <3>2
  <2>5. Counted'
    BY <2>4 DEF Counted
  <2> QED
    BY <2>1, <2>3, <2>5
<1>10. CASE Limit!Full(k)
  <2>1. times' = [times EXCEPT ![k] = t] /\ admitted' = admitted
    BY <1>1, <1>10 DEF Limit!limit
  <2> QED
    BY <1>2, <1>3, <1>4, <1>7, <1>8, <1>9, <2>1
<1>11. CASE ~Limit!Full(k)
  <2>1. PICK u, b : u = Append(t, e) /\ b = Append(a, m)
    OBVIOUS
  <2>2. times' = [times EXCEPT ![k] = u] /\ admitted' = [admitted EXCEPT ![k] = b]
    BY <1>1, <1>2, <1>11, <2>1 DEF Limit!limit
  <2>3. m \in Limit!Moment
    BY <1>2, <1>5 DEF Limit!Moment
  <2>4. u \in Seq(0..MaxNow) /\ Len(u) = Len(t) + 1
    BY <1>3, <1>5, <2>1, AppendProperties
  <2>5. b \in Seq(Limit!Moment)
    BY <1>5, <2>1, <2>3, AppendProperties
  <2>6. Len(u) <= Capacity[k]
    BY <1>1, <1>3, <1>5, <1>11, <2>4 DEF Limit!Full
  <2>7. admitted' \in [Kinds -> Seq(Limit!Moment)] /\ admitted'[k] = b
        /\ \A q \in Kinds \ {k} : admitted'[q] = admitted[q]
    BY <1>7, <2>2, <2>5
  <2>8. IsList(a)
    BY <1>5, FunctionIsList, LenProperties
  <2>9. /\ Len(b) = Len(a) + 1 /\ b[Len(a) + 1] = m
        /\ \A i \in 1..Len(a) : b[i] = a[i]
    BY <2>1, <2>8, AppendFacts
  <2>10. Past(m)
    BY <1>2, <1>5 DEF Past
  <2>11. \A i \in 1..Len(b) : Past(b[i])
    <3> SUFFICES ASSUME NEW i \in 1..Len(b) PROVE Past(b[i])
      OBVIOUS
    <3>1. i \in 1..Len(a) \/ i = Len(a) + 1
      BY <1>5, <2>9
    <3> QED
      BY <1>8, <2>9, <2>10, <3>1 DEF Past
  <2>12. e = o + m.ahead - m.back
    BY <1>2, <1>5 DEF Origin
  <2>13. \E h : Recalls(h, u, b, o) /\ Covers(h, u, b, ah)
    BY <1>3, <1>4, <2>1, <2>8, <2>12, Noting
  <2> QED
    BY <1>9, <2>2, <2>4, <2>6, <2>7, <2>11, <2>13
<1> QED
  BY <1>10, <1>11

\* A process that has just started.
Started ==
  /\ times = [k \in Kinds |-> <<>>]
  /\ pending = [r \in Requests |-> Absent]
  /\ ahead = 0 /\ back = 0
  /\ admitted = [k \in Kinds |-> <<>>]
  /\ asked = [r \in Requests |-> Absent]

(* A process starts with nothing counted.                                  *)
LEMMA StartedInv ==
  Limit!LimitAssumption /\ now \in 0..MaxNow /\ Started => LimitInv
<1> SUFFICES ASSUME Limit!LimitAssumption, now \in 0..MaxNow, Started
             PROVE  LimitInv
  OBVIOUS
<1>1. Limit!TypeOK
  <2>1. 0 <= MaxBack /\ \A k \in Kinds : 0 <= Capacity[k]
    BY DEF Limit!LimitAssumption
  <2>2. /\ <<>> \in Seq(0..MaxNow) /\ <<>> \in Seq(Limit!Moment)
        /\ Len(<<>>) = 0
    OBVIOUS
  <2> QED
    BY <2>1, <2>2 DEF Started, Limit!TypeOK
<1>2. Counted
  <2>1. PICK f : f = [i \in 1..0 |-> i]
    OBVIOUS
  <2>2. ASSUME NEW o, NEW ah
        PROVE  Recalls(f, <<>>, <<>>, o) /\ Covers(f, <<>>, <<>>, ah)
    BY <2>1, EmptyList DEF Recalls, Covers
  <2>3. \A k \in Kinds : times[k] = <<>> /\ admitted[k] = <<>>
    BY DEF Started
  <2>4. ASSUME NEW k \in Kinds
        PROVE  /\ \A i \in 1..Len(admitted[k]) : Past(admitted[k][i])
               /\ \E h : /\ Recalls(h, times[k], admitted[k], Origin)
                         /\ Covers(h, times[k], admitted[k], ahead)
    <3>1. Recalls(f, <<>>, <<>>, Origin) /\ Covers(f, <<>>, <<>>, ahead)
      BY <2>2
    <3>2. 1..Len(admitted[k]) = {}
      BY <2>3, EmptyList
    <3> QED
      BY <2>3, <3>1, <3>2
  <2> QED
    BY <2>4 DEF Counted
<1>3. Noted
  BY DEF Started, Noted
<1> QED
  BY <1>1, <1>2, <1>3 DEF LimitInv

\* The sign-ins that are left are as they were.
Left(p) == \A r \in Requests : p[r] = pending[r] \/ p[r] = Absent

(* Dropping expired sign-ins changes none of the others.                   *)
LEMMA LiveFacts ==
  ASSUME Limit!TypeOK
  PROVE  /\ Limit!Live \in [Requests -> Limit!Pending \cup {Absent}]
         /\ Left(Limit!Live)
BY DEF Limit!TypeOK, Limit!Live, Left

(* A step that only drops sign-ins leaves what is noted of the others.     *)
LEMMA DroppingNoted ==
  ASSUME Noted, Left(pending'), UNCHANGED <<now, ahead, back, asked>>
  PROVE  Noted'
BY DEF Noted, Left, Past, Origin

(* A step that leaves the clock and the attempts leaves the count.         *)
LEMMA IdleCounted ==
  ASSUME Counted, UNCHANGED <<now, ahead, back, times, admitted>>
  PROVE  Counted'
BY DEF Counted, Past, Origin

(* The clock is moved: what it showed at earlier moments stays the same,   *)
(* and the window only moves ahead.                                        *)
LEMMA MovingClock ==
  ASSUME Limit!LimitAssumption, LimitInv, NEW d \in 1..MaxNow,
         Limit!Advance(d) \/ Limit!SetBack(d)
  PROVE  LimitInv'
<1>1. /\ now \in 0..MaxNow /\ ahead \in Nat /\ back \in Nat /\ MaxNow \in Nat
      /\ MaxBack \in Nat /\ back <= MaxBack
  BY DEF LimitInv, Limit!TypeOK, Limit!LimitAssumption
<1>2. /\ now' \in 0..MaxNow /\ ahead' \in Nat /\ back' \in Nat
      /\ back' <= MaxBack /\ ahead <= ahead' /\ back <= back'
      /\ Origin' = Origin
      /\ UNCHANGED <<times, pending, admitted, asked>>
  BY <1>1 DEF Limit!Advance, Limit!SetBack, Origin
<1>3. Limit!TypeOK'
  BY <1>2 DEF LimitInv, Limit!TypeOK
<1>4. Counted'
  <2> SUFFICES ASSUME NEW k \in Kinds
               PROVE  (/\ \A i \in 1..Len(admitted[k]) : Past(admitted[k][i])
                       /\ \E f : /\ Recalls(f, times[k], admitted[k], Origin)
                                 /\ Covers(f, times[k], admitted[k], ahead))'
    BY DEF Counted
  <2>1. PICK s, a, o, ah, bk, ah2, bk2 :
          /\ s = times[k] /\ a = admitted[k] /\ o = Origin /\ ah = ahead
          /\ bk = back /\ ah2 = ahead' /\ bk2 = back'
    OBVIOUS
  <2>2. PICK f : Recalls(f, s, a, o) /\ Covers(f, s, a, ah)
    BY <2>1 DEF LimitInv, Counted
  <2>3. /\ \A i \in 1..Len(a) : a[i].ahead \in Nat /\ a[i].back \in Nat
        /\ ah \in Nat /\ bk \in Nat /\ ah2 \in Nat /\ bk2 \in Nat
        /\ ah <= ah2 /\ bk <= bk2 /\ WINDOW \in Nat
    BY <1>2, <2>1, KindFacts DEF LimitInv
  <2>4. \A i \in 1..Len(a) : a[i].ahead <= ah /\ a[i].back <= bk
    BY <2>1 DEF LimitInv, Counted, Past
  <2>5. \A i \in 1..Len(a) : a[i].ahead <= ah2 /\ a[i].back <= bk2
    <3> SUFFICES ASSUME NEW i \in 1..Len(a)
                 PROVE  a[i].ahead <= ah2 /\ a[i].back <= bk2
      OBVIOUS
    <3>1. PICK x, y : x = a[i].ahead /\ y = a[i].back
      OBVIOUS
    <3>2. x \in Nat /\ y \in Nat /\ x <= ah /\ y <= bk
      BY <2>3, <2>4, <3>1
    <3>3. x <= ah2 /\ y <= bk2
      BY <2>3, <3>2
    <3> QED
      BY <3>1, <3>3
  <2>6. Covers(f, s, a, ah2)
    <3> SUFFICES ASSUME NEW i \in 1..Len(a), ah2 - a[i].ahead < WINDOW
                 PROVE  \E j \in 1..Len(s) : f[j] = i
      BY DEF Covers
    <3>1. ah - a[i].ahead < WINDOW
      <4>1. PICK x : x = a[i].ahead
        OBVIOUS
      <4>2. x \in Nat /\ ah2 - x < WINDOW
        BY <2>3, <4>1
      <4>3. ah - x < WINDOW
        BY <2>3, <4>2
      <4> QED
        BY <4>1, <4>3
    <3> QED
      BY <2>2, <3>1 DEF Covers
  <2> QED
    BY <1>2, <2>1, <2>2, <2>5, <2>6 DEF Past
<1>5. Noted'
  <2> SUFFICES ASSUME NEW r \in Requests, pending[r] # Absent, asked[r] # Absent
               PROVE  /\ Past(asked[r])'
                      /\ pending[r].last_poll
                           = Origin + asked[r].ahead - asked[r].back
    BY <1>2 DEF Noted
  <2>1. PICK a, b : a = asked[r].ahead /\ b = asked[r].back
    OBVIOUS
  <2>2. asked[r] \in Limit!Moment
    BY DEF LimitInv, Limit!TypeOK
  <2>3. a \in Nat /\ b \in Nat
    BY <2>1, <2>2 DEF Limit!Moment
  <2>4. /\ a <= ahead /\ b <= back
        /\ pending[r].last_poll = Origin + asked[r].ahead - asked[r].back
    BY <2>1 DEF LimitInv, Noted, Past
  <2>5. a <= ahead' /\ b <= back'
    BY <1>1, <1>2, <2>3, <2>4
  <2> QED
    BY <1>2, <2>1, <2>4, <2>5 DEF Past
<1> QED
  BY <1>3, <1>4, <1>5 DEF LimitInv

(* A poll is noted with what the clock shows.                              *)
LEMMA PollInv ==
  ASSUME Limit!LimitAssumption, LimitInv, NEW r \in Requests, Limit!Poll(r)
  PROVE  LimitInv'
<1>1. PICK L, o, nw, ah, bk :
        /\ L = Limit!Live /\ o = Origin /\ nw = now /\ ah = ahead /\ bk = back
  OBVIOUS
<1>2. /\ L \in [Requests -> Limit!Pending \cup {Absent}] /\ Left(L)
  BY <1>1, LiveFacts DEF LimitInv
<1>3. /\ L[r] # Absent /\ UNCHANGED <<now, times, ahead, back, admitted>>
      /\ asked' = [asked EXCEPT ![r] = [ahead |-> ah, back |-> bk]]
      /\ \/ \E done \in BOOLEAN : pending' = Limit!Noted(r, done)
         \/ pending' = [L EXCEPT ![r] = Absent]
  BY <1>1 DEF Limit!Poll
<1>4. nw \in Nat /\ ah \in Nat /\ bk \in Nat /\ o = nw - ah + bk
  BY <1>1 DEF LimitInv, Limit!TypeOK, Origin
<1>5. asked \in [Requests -> Limit!Moment \cup {Absent}]
  BY DEF LimitInv, Limit!TypeOK
<1>6. /\ asked' \in [Requests -> Limit!Moment \cup {Absent}]
      /\ asked'[r] = [ahead |-> ah, back |-> bk]
      /\ \A q \in Requests \ {r} : asked'[q] = asked[q]
  <2>1. [ahead |-> ah, back |-> bk] \in Limit!Moment
    BY <1>4 DEF Limit!Moment
  <2> QED
    BY <1>3, <1>5, <2>1
<1>7. /\ pending' \in [Requests -> Limit!Pending \cup {Absent}]
      /\ pending'[r] # Absent => pending'[r].last_poll = nw
      /\ \A q \in Requests \ {r} : pending'[q] = L[q]
  <2>1. CASE pending' = [L EXCEPT ![r] = Absent]
    BY <1>2, <2>1
  <2>2. CASE \E done \in BOOLEAN : pending' = Limit!Noted(r, done)
    <3>1. PICK done \in BOOLEAN : pending' = Limit!Noted(r, done)
      BY <2>2
    <3>2. PICK p : p = L[r]
      OBVIOUS
    <3>3. p \in Limit!Pending
      BY <1>2, <1>3, <3>2
    <3>4. pending' = [L EXCEPT ![r] =
                        [[p EXCEPT !.complete = done] EXCEPT !.last_poll = nw]]
      BY <1>1, <1>2, <3>1, <3>2 DEF Limit!Noted
    <3>5. PICK v : v = [[p EXCEPT !.complete = done] EXCEPT !.last_poll = nw]
      OBVIOUS
    <3>6. v \in Limit!Pending /\ v.last_poll = nw
      BY <1>4, <3>3, <3>5 DEF Limit!Pending
    <3> QED
      BY <1>2, <3>4, <3>5, <3>6
  <2> QED
    BY <1>3, <2>1, <2>2
<1>8. Limit!TypeOK'
  BY <1>3, <1>6, <1>7 DEF LimitInv, Limit!TypeOK
<1>9. Counted'
  BY <1>3, IdleCounted DEF LimitInv
<1>10. Noted'
  <2> SUFFICES ASSUME NEW q \in Requests, pending'[q] # Absent, asked'[q] # Absent
               PROVE  (/\ Past(asked[q])
                       /\ pending[q].last_poll
                            = Origin + asked[q].ahead - asked[q].back)'
    BY DEF Noted
  <2>1. Origin' = o
    BY <1>1, <1>3 DEF Origin
  <2>2. CASE q = r
    <3>1. asked'[q].ahead = ah /\ asked'[q].back = bk
      BY <1>6, <2>2
    <3>2. ah <= ah /\ bk <= bk /\ nw = o + ah - bk
      BY <1>4
    <3> QED
      BY <1>1, <1>3, <1>7, <2>1, <2>2, <3>1, <3>2 DEF Past
  <2>3. CASE q # r
    <3>1. asked'[q] = asked[q] /\ pending'[q] = pending[q]
      BY <1>2, <1>6, <1>7, <2>3 DEF Left
    <3> QED
      BY <1>1, <1>3, <2>1, <3>1 DEF LimitInv, Noted, Past
  <2> QED
    BY <2>2, <2>3
<1> QED
  BY <1>8, <1>9, <1>10 DEF LimitInv

(* A sign-in that is started has not been polled.                          *)
LEMMA StartInv ==
  ASSUME Limit!LimitAssumption, LimitInv, NEW r \in Requests, Limit!Start(r)
  PROVE  LimitInv'
<1>1. PICK L, p :
        /\ L = Limit!Live
        /\ p = [expires_at |-> now + CHALLENGE_TTL, last_poll |-> 0,
                complete |-> FALSE]
  OBVIOUS
<1>2. /\ L \in [Requests -> Limit!Pending \cup {Absent}] /\ Left(L)
  BY <1>1, LiveFacts DEF LimitInv
<1>3. /\ Limit!limit("start") /\ UNCHANGED <<now, ahead, back>>
      /\ pending' = [L EXCEPT ![r] = p]
      /\ asked' = [asked EXCEPT ![r] = Absent]
  BY <1>1 DEF Limit!Start
<1>4. /\ "start" \in Kinds /\ CHALLENGE_TTL \in Nat
  BY DEF Limit!LimitAssumption
<1>5. p \in Limit!Pending
  <2>1. now \in Nat
    BY DEF LimitInv, Limit!TypeOK
  <2> QED
    BY <1>1, <1>4, <2>1 DEF Limit!Pending
<1>6. /\ times' \in [Kinds -> Seq(0..MaxNow)]
      /\ \A q \in Kinds : Len(times'[q]) <= Capacity[q]
      /\ admitted' \in [Kinds -> Seq(Limit!Moment)]
      /\ Counted'
  BY <1>3, <1>4, LimitCounts DEF LimitInv
<1>7. /\ asked' \in [Requests -> Limit!Moment \cup {Absent}]
      /\ asked'[r] = Absent
      /\ \A q \in Requests \ {r} : asked'[q] = asked[q]
  BY <1>3 DEF LimitInv, Limit!TypeOK
<1>8. /\ pending' \in [Requests -> Limit!Pending \cup {Absent}]
      /\ \A q \in Requests \ {r} : pending'[q] = L[q]
  BY <1>2, <1>3, <1>5
<1>9. Limit!TypeOK'
  BY <1>3, <1>6, <1>7, <1>8 DEF LimitInv, Limit!TypeOK
<1>10. Noted'
  <2> SUFFICES ASSUME NEW q \in Requests, pending'[q] # Absent, asked'[q] # Absent
               PROVE  (/\ Past(asked[q])
                       /\ pending[q].last_poll
                            = Origin + asked[q].ahead - asked[q].back)'
    BY DEF Noted
  <2>1. q # r
    BY <1>7
  <2>2. asked'[q] = asked[q] /\ pending'[q] = pending[q]
    BY <1>2, <1>7, <1>8, <2>1 DEF Left
  <2> QED
    BY <1>3, <2>2 DEF LimitInv, Noted, Past, Origin
<1> QED
  BY <1>6, <1>9, <1>10 DEF LimitInv

(* Every step keeps the invariant.                                         *)
LEMMA LimitNext ==
  Limit!LimitAssumption /\ LimitInv /\ [Limit!Next]_Limit!vars => LimitInv'
<1> SUFFICES ASSUME Limit!LimitAssumption, LimitInv, [Limit!Next]_Limit!vars
             PROVE  LimitInv'
  OBVIOUS
<1>1. ASSUME NEW k \in Kinds, Limit!limit(k), Limit!Prune,
             UNCHANGED <<now, ahead, back, asked>>
      PROVE  LimitInv'
  <2>1. /\ times' \in [Kinds -> Seq(0..MaxNow)]
        /\ \A q \in Kinds : Len(times'[q]) <= Capacity[q]
        /\ admitted' \in [Kinds -> Seq(Limit!Moment)]
        /\ Counted'
    BY <1>1, LimitCounts DEF LimitInv
  <2>2. /\ pending' \in [Requests -> Limit!Pending \cup {Absent}]
        /\ Left(pending')
    BY <1>1, LiveFacts DEF LimitInv, Limit!Prune
  <2>3. Limit!TypeOK'
    BY <1>1, <2>1, <2>2 DEF LimitInv, Limit!TypeOK
  <2>4. Noted'
    BY <1>1, <2>2, DroppingNoted DEF LimitInv
  <2> QED
    BY <2>1, <2>3, <2>4 DEF LimitInv
<1>2. CASE \E k \in Kinds : Limit!Try(k)
  BY <1>1, <1>2 DEF Limit!Try
<1>3. CASE Limit!StartRefused
  <2>1. "start" \in Kinds
    BY DEF Limit!LimitAssumption
  <2> QED
    BY <1>1, <1>3, <2>1 DEF Limit!StartRefused
<1>4. ASSUME /\ pending' \in [Requests -> Limit!Pending \cup {Absent}]
             /\ Left(pending'),
             UNCHANGED <<now, times, ahead, back, admitted, asked>>
      PROVE  LimitInv'
  <2>1. Limit!TypeOK'
    BY <1>4 DEF LimitInv, Limit!TypeOK
  <2>2. Noted'
    BY <1>4, DroppingNoted DEF LimitInv
  <2>3. Counted'
    BY <1>4, IdleCounted DEF LimitInv
  <2> QED
    BY <2>1, <2>2, <2>3 DEF LimitInv
<1>5. CASE Limit!PollRefused
  BY <1>4, <1>5, LiveFacts DEF Limit!PollRefused, Limit!Prune, LimitInv
<1>6. CASE \E r \in Requests : Limit!Start(r) \/ Limit!Poll(r)
  BY <1>6, StartInv, PollInv
<1>7. CASE \E d \in 1..MaxNow : Limit!Advance(d) \/ Limit!SetBack(d)
  BY <1>7, MovingClock
<1>8. CASE Limit!Reconfigure
  <2>1. /\ pending' \in [Requests -> Limit!Pending \cup {Absent}]
        /\ Left(pending')
    BY <1>8 DEF Limit!Reconfigure, Left
  <2> QED
    BY <1>4, <1>8, <2>1 DEF Limit!Reconfigure
<1>9. CASE Limit!Restart
  <2>1. /\ now' = now /\ times' = [k \in Kinds |-> <<>>]
        /\ pending' = [r \in Requests |-> Absent]
        /\ ahead' = 0 /\ back' = 0
        /\ admitted' = [k \in Kinds |-> <<>>]
        /\ asked' = [r \in Requests |-> Absent]
    BY <1>9 DEF Limit!Restart, Limit!Fresh
  <2>2. (now \in 0..MaxNow)'
    BY <2>1 DEF LimitInv, Limit!TypeOK
  <2>3. Started'
    BY <2>1 DEF Started
  <2>4. (Limit!LimitAssumption /\ now \in 0..MaxNow /\ Started => LimitInv)'
    BY StartedInv, PTL
  <2> QED
    BY <2>2, <2>3, <2>4
<1>10. CASE UNCHANGED Limit!vars
  <2>1. UNCHANGED <<now, times, pending, ahead, back, admitted, asked>>
    BY <1>10 DEF Limit!vars
  <2>2. /\ pending' \in [Requests -> Limit!Pending \cup {Absent}]
        /\ Left(pending')
    BY <2>1 DEF LimitInv, Limit!TypeOK, Left
  <2> QED
    BY <1>4, <2>1, <2>2
<1> QED
  BY <1>2, <1>3, <1>5, <1>6, <1>7, <1>8, <1>9, <1>10 DEF Limit!Next

(* The invariant holds throughout.                                         *)
LEMMA LimitInvariance ==
  Limit!LimitAssumption /\ Limit!Spec => [](Limit!LimitAssumption /\ LimitInv)
<1>1. Limit!LimitAssumption /\ Limit!Init => LimitInv
  <2>1. Limit!LimitAssumption /\ Limit!Init => now \in 0..MaxNow /\ Started
    BY DEF Limit!LimitAssumption, Limit!Init, Started
  <2> QED
    BY <2>1, StartedInv
<1>2. Limit!LimitAssumption => Limit!LimitAssumption'
  OBVIOUS
<1> QED
  BY <1>1, <1>2, LimitNext, PTL DEF Limit!Spec

(* Every variable has its type, and no more attempts of a kind are         *)
(* remembered than the limit allows.                                       *)
THEOREM LimitTypes ==
  Limit!LimitAssumption /\ Limit!Spec => []Limit!TypeOK
<1>1. LimitInv => Limit!TypeOK
  BY DEF LimitInv
<1> QED
  BY <1>1, LimitInvariance, PTL

(* limit lets in no more than Capacity attempts of a kind while the clock  *)
(* moves ahead by less than a window, however it is set back in between:   *)
(* each of them is in memory, and the memory never holds more.             *)
THEOREM RateIsLimited ==
  Limit!LimitAssumption /\ Limit!Spec => []RateHolds
<1>1. ASSUME Limit!LimitAssumption, LimitInv, NEW k \in Kinds
      PROVE  Cardinality({i \in DOMAIN admitted[k] :
                            ahead - admitted[k][i].ahead < WINDOW})
               <= Capacity[k]
  <2>1. PICK s, a, ah : s = times[k] /\ a = admitted[k] /\ ah = ahead
    OBVIOUS
  <2>2. /\ Len(s) \in Nat /\ DOMAIN a = 1..Len(a)
        /\ Capacity[k] \in Nat /\ Len(s) <= Capacity[k]
    BY <1>1, <2>1, KindFacts DEF LimitInv
  <2>3. PICK f : Covers(f, s, a, ah)
    BY <1>1, <2>1 DEF LimitInv, Counted
  <2>4. PICK W : W = {i \in 1..Len(a) : ah - a[i].ahead < WINDOW}
    OBVIOUS
  <2>5. PICK h : h = [i \in W |-> CHOOSE j \in 1..Len(s) : f[j] = i]
    OBVIOUS
  <2>6. ASSUME NEW i \in W PROVE h[i] \in 1..Len(s) /\ f[h[i]] = i
    <3>1. \E j \in 1..Len(s) : f[j] = i
      BY <2>3, <2>4 DEF Covers
    <3> QED
      BY <2>5, <3>1
  <2>7. h \in Injection(W, 1..Len(s))
    <3>1. h \in [W -> 1..Len(s)]
      BY <2>5, <2>6
    <3>2. \A i, j \in W : h[i] = h[j] => i = j
      BY <2>6
    <3> QED
      BY <3>1, <3>2 DEF Injection, IsInjective
  <2>8. IsFiniteSet(1..Len(s)) /\ Cardinality(1..Len(s)) = Len(s)
    <3>1. 1 \in Int /\ Len(s) \in Int
      BY <2>2
    <3>2. /\ IsFiniteSet(1..Len(s))
          /\ Cardinality(1..Len(s)) = IF 1 > Len(s) THEN 0 ELSE Len(s) - 1 + 1
      BY <3>1, FS_Interval
    <3> QED
      BY <2>2, <3>2
  <2>9. IsFiniteSet(W) /\ Cardinality(W) <= Len(s)
    BY <2>7, <2>8, FS_Injection
  <2>10. Cardinality(W) \in Nat
    BY <2>9, FS_CardinalityType
  <2>11. Cardinality(W) <= Capacity[k]
    BY <2>2, <2>9, <2>10
  <2> QED
    BY <2>1, <2>2, <2>4, <2>11
<1>2. Limit!LimitAssumption /\ LimitInv => RateHolds
  BY <1>1 DEF RateHolds
<1> QED
  BY <1>2, LimitInvariance, PTL

(* limit refuses an attempt only when Capacity others were let in within   *)
(* the window and the seconds the clock was set back since: what it        *)
(* retains are readings of that many different attempts, all of which      *)
(* still count.                                                            *)
THEOREM RefusalsEarned ==
  Limit!LimitAssumption /\ Limit!Spec => []RefusalsAreEarned
<1>1. ASSUME Limit!LimitAssumption, LimitInv, NEW k \in Kinds, Limit!Full(k)
      PROVE  Cardinality({i \in DOMAIN admitted[k] :
                            ahead - admitted[k][i].ahead
                              < WINDOW + (back - admitted[k][i].back)})
               >= Capacity[k]
  <2>1. PICK t, a, o, nw, ah, bk :
          /\ t = Limit!Retained(k) /\ a = admitted[k] /\ o = Origin
          /\ nw = now /\ ah = ahead /\ bk = back
    OBVIOUS
  <2>2. /\ DOMAIN a = 1..Len(a) /\ Len(a) \in Nat /\ Capacity[k] \in Nat
        /\ WINDOW \in Nat /\ WINDOW > 0
        /\ nw \in Nat /\ ah \in Nat /\ bk \in Nat /\ o = nw - ah + bk
        /\ \A i \in 1..Len(a) : a[i].ahead \in Nat /\ a[i].back \in Nat
    BY <1>1, <2>1, KindFacts DEF LimitInv, Origin
  <2>3. /\ Len(t) \in Nat /\ \A j \in 1..Len(t) : Limit!Counts(t[j])
    BY <1>1, <2>1, RetainedFacts DEF LimitInv
  <2>4. PICK f : Recalls(f, t, a, o)
    BY <1>1, <2>1, RetainedFacts DEF LimitInv
  <2>5. PICK E : E = {i \in 1..Len(a) :
                        ah - a[i].ahead < WINDOW + (bk - a[i].back)}
    OBVIOUS
  <2>6. ASSUME NEW j \in 1..Len(t) PROVE f[j] \in E
    <3>1. PICK i \in 1..Len(a) : i = f[j]
      BY <2>4 DEF Recalls
    <3>2. PICK x, y, v : x = a[i].ahead /\ y = a[i].back /\ v = t[j]
      OBVIOUS
    <3>3. x \in Nat /\ y \in Nat
      BY <2>2, <3>2
    <3>4. v = o + x - y
      BY <2>4, <3>1, <3>2 DEF Recalls
    <3>5. (IF nw >= v THEN nw - v ELSE 0) < WINDOW
      BY <2>1, <2>3, <3>2 DEF Limit!Counts, Limit!saturating_sub
    <3>6. ah - x < WINDOW + (bk - y)
      BY <2>2, <3>3, <3>4, <3>5
    <3> QED
      BY <2>5, <3>1, <3>2, <3>6
  <2>7. f \in Injection(1..Len(t), E)
    <3>1. f \in [1..Len(t) -> E]
      BY <2>4, <2>6 DEF Recalls
    <3>2. \A i, j \in 1..Len(t) : f[i] = f[j] => i = j
      BY <2>4 DEF Recalls
    <3> QED
      BY <3>1, <3>2 DEF Injection, IsInjective
  <2>8. IsFiniteSet(E) /\ Cardinality(E) \in Nat
    <3>1. 1 \in Int /\ Len(a) \in Int
      BY <2>2
    <3>2. IsFiniteSet(1..Len(a))
      BY <3>1, FS_Interval
    <3>3. E \in SUBSET (1..Len(a))
      BY <2>5
    <3>4. IsFiniteSet(E)
      BY <3>2, <3>3, FS_Subset
    <3> QED
      BY <3>4, FS_CardinalityType
  <2>9. Cardinality(1..Len(t)) = Len(t)
    <3>1. 1 \in Int /\ Len(t) \in Int
      BY <2>3
    <3>2. Cardinality(1..Len(t)) = IF 1 > Len(t) THEN 0 ELSE Len(t) - 1 + 1
      BY <3>1, FS_Interval
    <3> QED
      BY <2>3, <3>2
  <2>10. Len(t) <= Cardinality(E)
    BY <2>7, <2>8, <2>9, FS_Injection
  <2>11. Len(t) >= Capacity[k]
    BY <1>1, <2>1 DEF Limit!Full
  <2>12. Cardinality(E) >= Capacity[k]
    BY <2>2, <2>3, <2>8, <2>10, <2>11
  <2> QED
    BY <2>1, <2>2, <2>5, <2>12
<1>2. \A k \in Kinds : Full(k) => Limit!Full(k)
  <2> SUFFICES ASSUME NEW k \in Kinds PROVE Limit!Retained(k) = Retained(k)
    BY DEF Full, Limit!Full
  <2>1. Limit!Kept(times[k], {t \in 0..MaxNow : Counts(t)})
          = Kept(times[k], {t \in 0..MaxNow : Counts(t)})
    BY DEF Limit!Kept, Kept
  <2>2. \A t : Limit!Counts(t) = Counts(t)
    BY DEF Limit!Counts, Counts, Limit!saturating_sub, saturating_sub
  <2> QED
    BY <2>1, <2>2 DEF Limit!Retained, Retained
<1>3. Limit!LimitAssumption /\ LimitInv => RefusalsAreEarned
  BY <1>1, <1>2 DEF RefusalsAreEarned
<1> QED
  BY <1>3, LimitInvariance, PTL

(* Action::Poll takes a sign-in to relay or provider at most once in       *)
(* PollGap seconds of the clock's way ahead, however it is set back: the   *)
(* poll is noted before anyone is asked, with what the clock shows.        *)
THEOREM PollsSpaced ==
  Limit!LimitAssumption /\ Limit!Spec => PollsAreSpaced
<1> DEFINE Spaced == \A r \in Requests :
             asked[r] # Absent /\ asked'[r] # Absent /\ asked'[r] # asked[r] =>
               asked'[r].ahead - asked[r].ahead >= PollGap
<1>1. ASSUME Limit!LimitAssumption, LimitInv, NEW q \in Requests, Limit!Poll(q)
      PROVE  Spaced
  <2> SUFFICES ASSUME NEW r \in Requests, asked[r] # Absent,
                      asked'[r] # asked[r]
               PROVE  asked'[r].ahead - asked[r].ahead >= PollGap
    OBVIOUS
  <2>1. PICK L, o, nw, ah, bk, v :
          /\ L = Limit!Live /\ o = Origin /\ nw = now /\ ah = ahead
          /\ bk = back /\ v = L[r].last_poll
    OBVIOUS
  <2>2. asked \in [Requests -> Limit!Moment \cup {Absent}]
    BY <1>1 DEF LimitInv, Limit!TypeOK
  <2>3. asked' = [asked EXCEPT ![q] = [ahead |-> ah, back |-> bk]]
    BY <1>1, <2>1 DEF Limit!Poll
  <2>4. r = q /\ asked'[r].ahead = ah
    BY <2>2, <2>3
  <2>5. /\ L[r] # Absent
        /\ (IF nw >= v THEN nw - v ELSE 0) >= PollGap
    BY <1>1, <2>1, <2>4 DEF Limit!Poll, Limit!saturating_sub
  <2>6. /\ nw \in Nat /\ ah \in Nat /\ bk \in Nat /\ o = nw - ah + bk
        /\ PollGap \in Nat /\ PollGap > 0
    BY <1>1, <2>1 DEF LimitInv, Limit!TypeOK, Origin, Limit!LimitAssumption
  <2>7. L[r] = pending[r]
    BY <1>1, <2>1, <2>5, LiveFacts DEF LimitInv, Left
  <2>8. PICK x, y : x = asked[r].ahead /\ y = asked[r].back
    OBVIOUS
  <2>9. x \in Nat /\ y \in Nat
    BY <2>2, <2>8 DEF Limit!Moment
  <2>10. y <= bk /\ v = o + x - y
    BY <1>1, <2>1, <2>5, <2>7, <2>8 DEF LimitInv, Noted, Past
  <2>11. ah - x >= PollGap
    BY <2>5, <2>6, <2>9, <2>10
  <2> QED
    BY <2>4, <2>8, <2>11
<1>2. ASSUME asked' = asked PROVE Spaced
  BY <1>2
<1>3. ASSUME Limit!TypeOK, NEW r \in Requests, asked' = [asked EXCEPT ![r] = Absent]
      PROVE  Spaced
  BY <1>3 DEF Limit!TypeOK
<1>4. Limit!LimitAssumption /\ LimitInv /\ [Limit!Next]_Limit!vars =>
        [Spaced]_asked
  <2>0. UNCHANGED Limit!vars => asked' = asked
    BY DEF Limit!vars
  <2> SUFFICES ASSUME Limit!LimitAssumption, LimitInv, Limit!Next PROVE Spaced
    BY <2>0
  <2>1. CASE \E k \in Kinds : Limit!Try(k)
    BY <1>2, <2>1 DEF Limit!Try
  <2>2. CASE Limit!StartRefused \/ Limit!PollRefused \/ Limit!Reconfigure
    BY <1>2, <2>2 DEF Limit!StartRefused, Limit!PollRefused, Limit!Reconfigure
  <2>3. CASE \E r \in Requests : Limit!Start(r)
    BY <1>3, <2>3 DEF Limit!Start, LimitInv
  <2>4. CASE \E r \in Requests : Limit!Poll(r)
    BY <1>1, <2>4
  <2>5. CASE \E d \in 1..MaxNow : Limit!Advance(d) \/ Limit!SetBack(d)
    BY <1>2, <2>5 DEF Limit!Advance, Limit!SetBack
  <2>6. CASE Limit!Restart
    BY <2>6 DEF Limit!Restart, Limit!Fresh
  <2> QED
    BY <2>1, <2>2, <2>3, <2>4, <2>5, <2>6 DEF Limit!Next
<1> QED
  BY <1>4, LimitInvariance, PTL DEF Limit!Spec, PollsAreSpaced

-----------------------------------------------------------------------------
(* The event journal and a console tab that follows it (module LogFeed).   *)
(* At most one call of the present connection is under way; what the page  *)
(* it was answered with holds continues the list of the tab, as long as    *)
(* the worker that answered still runs, because the tab has not moved its  *)
(* cursor since it asked.                                                  *)

CONSTANTS LOG_CAPACITY, PAGE_LIMIT, TAB_CAPACITY, MaxSequence, MaxInstance,
          MaxGeneration

VARIABLES entries, sequence, connecting, refreshing, generation, calls

Feed == INSTANCE LogFeed

\* The ring holds the last events of this process, without gaps.
Ring ==
  /\ instance \in 1..MaxInstance /\ sequence \in 1..MaxSequence
  /\ Len(entries) \in 1..LOG_CAPACITY /\ Len(entries) <= sequence
  /\ entries = [i \in 1..Len(entries) |->
       [instance |-> instance, sequence |-> sequence - Len(entries) + i]]

\* The ring has lost events.
Dropped == Len(entries) < sequence

\* Every event up to the cursor is listed.
Whole == \A n \in 1..cursor : \E i \in 1..Len(logs) : logs[i].sequence = n

\* The list is one of this process's events, and where it has gaps, the tab
\* says so and will say so again.
Follows ==
  /\ cursor \in 0..sequence
  /\ logs \in Seq([instance : {instance}, sequence : 1..cursor])
  /\ \A i, j \in 1..Len(logs) : i < j => logs[i].sequence < logs[j].sequence
  /\ Whole \/ (truncated /\ (Len(logs) >= TAB_CAPACITY \/ Dropped))

Tab ==
  /\ connected \in BOOLEAN /\ connecting \in BOOLEAN
  /\ refreshing \in BOOLEAN /\ truncated \in BOOLEAN
  /\ generation \in 0..MaxGeneration
  /\ logs \in Seq(Feed!Event) /\ Len(logs) <= TAB_CAPACITY
  /\ cursor \in 0..MaxSequence
  /\ instanceId \in 0..instance
  /\ connected => instanceId >= 1
  /\ refreshing => connected
  /\ connected \/ connecting =>
       generation < MaxGeneration /\ generation >= 1
  /\ connected /\ instanceId = instance => Follows

Page(p) ==
  /\ p.entries \in Seq(Feed!Event) /\ Len(p.entries) <= PAGE_LIMIT
  /\ p.next_cursor \in 0..MaxSequence /\ p.dropped_before \in 0..MaxSequence
  /\ p.truncated \in BOOLEAN

\* The page goes on where the list ends, or says that the ring has lost
\* events.
Continues(p) ==
  /\ p.next_cursor \in cursor..sequence
  /\ Len(p.entries) <= p.next_cursor - cursor
  /\ p.entries = [i \in 1..Len(p.entries) |->
       [instance |-> instance,
        sequence |-> p.next_cursor - Len(p.entries) + i]]
  /\ p.dropped_before # 0 => Dropped
  /\ p.dropped_before = 0 => p.next_cursor - Len(p.entries) = cursor
  /\ Whole \/ Len(logs) >= TAB_CAPACITY \/ p.dropped_before # 0

CallFields == {"kind", "generation", "after", "status", "logs"}

Call(c) ==
  /\ DOMAIN c = CallFields
  /\ c.kind \in {"connect", "refresh"}
  /\ c.generation \in 1..generation /\ c.after \in 0..MaxSequence
  /\ \/ c.status \in Feed!Unanswered
     \/ c.status.is = "ok" /\ c.status.instance_id \in 1..instance
        /\ c.status = [is |-> "ok", instance_id |-> c.status.instance_id]
  /\ c.logs \in Feed!Unanswered \/ (c.logs.is = "ok" /\ Page(c.logs.page))

\* What a call of the present connection relies on.
Pursues(c) ==
  /\ c.kind = "connect" => ~connected /\ connecting
  /\ c.kind = "refresh" =>
       /\ connected /\ refreshing /\ c.after = cursor
       /\ c.logs.is = "ok" /\ instanceId = instance => Continues(c.logs.page)

Calling ==
  /\ \A c \in calls : Call(c) /\ (c.generation = generation => Pursues(c))
  /\ \A c, d \in calls :
       c.generation = generation /\ d.generation = generation => c = d

FeedInv == Ring /\ Tab /\ Calling

(* What the assumption says of each constant.                              *)
LEMMA FeedConstants ==
  ASSUME Feed!ConstantsAssumption
  PROVE  /\ LOG_CAPACITY \in Nat /\ LOG_CAPACITY > 0
         /\ TAB_CAPACITY \in Nat /\ TAB_CAPACITY > 0
         /\ PAGE_LIMIT \in Nat /\ PAGE_LIMIT > 0 /\ PAGE_LIMIT <= LOG_CAPACITY
         /\ MaxSequence \in Nat /\ MaxSequence > 0
         /\ MaxInstance \in Nat /\ MaxInstance > 0
         /\ MaxGeneration \in Nat /\ MaxGeneration > 0
BY DEF Feed!ConstantsAssumption

(* The events of the ring.                                                 *)
LEMMA RingFacts ==
  ASSUME Feed!ConstantsAssumption, Ring
  PROVE  /\ Len(entries) \in Nat /\ Len(entries) > 0 /\ sequence \in Nat
         /\ \A i \in 1..Len(entries) :
              /\ entries[i].sequence = sequence - Len(entries) + i
              /\ entries[i].instance = instance
              /\ entries[i] \in Feed!Event
         /\ Head(entries).sequence = sequence - Len(entries) + 1
         /\ entries # <<>>
<1>1. PICK n, sq, ins, E :
        /\ n = Len(entries) /\ sq = sequence /\ ins = instance /\ E = entries
  OBVIOUS
<1>2. /\ n \in 1..LOG_CAPACITY /\ n <= sq /\ sq \in 1..MaxSequence
      /\ ins \in 1..MaxInstance /\ n \in Nat /\ sq \in Nat /\ n > 0
  BY <1>1, FeedConstants DEF Ring
<1>3. E = [i \in 1..n |-> [instance |-> ins, sequence |-> sq - n + i]]
  BY <1>1 DEF Ring
<1>4. \A i \in 1..n : E[i] = [instance |-> ins, sequence |-> sq - n + i]
  BY <1>3
<1>5. ASSUME NEW i \in 1..n
      PROVE  /\ E[i].sequence = sq - n + i /\ E[i].instance = ins
             /\ E[i] \in Feed!Event
  <2>1. PICK v : v = sq - n + i
    OBVIOUS
  <2>2. v \in 1..MaxSequence
    BY <1>2, <2>1, FeedConstants
  <2>3. E[i] = [instance |-> ins, sequence |-> v]
    BY <1>4, <2>1
  <2>4. E[i] \in Feed!Event
    BY <1>2, <2>2, <2>3 DEF Feed!Event
  <2> QED
    BY <2>1, <2>3, <2>4
<1>6. IsList(E) /\ Len(E) = n
  <2>1. E = [i \in 1..n |-> E[i]]
    BY <1>3
  <2> QED
    BY <1>2, <2>1, FunctionIsList
<1>7. Head(E) = E[1] /\ E # <<>>
  BY <1>2, <1>6, EmptyList
<1>8. Head(E).sequence = sq - n + 1
  <2>1. 1 \in 1..n
    BY <1>2
  <2> QED
    BY <1>5, <1>7, <2>1
<1> QED
  BY <1>1, <1>2, <1>5, <1>7, <1>8

(* What journal::page answers: the events of the ring after the first d,   *)
(* at most PAGE_LIMIT of them.                                             *)
LEMMA PageIs ==
  ASSUME Feed!ConstantsAssumption, Ring, NEW after \in 0..MaxSequence
  PROVE  \E p, d, m :
           /\ p = Feed!page(after)
           /\ d \in 0..Len(entries) /\ m \in 0..PAGE_LIMIT
           /\ m <= Len(entries) - d /\ (m = 0 <=> d = Len(entries))
           /\ after <= sequence - Len(entries) => d = 0
           /\ after > sequence - Len(entries) /\ after <= sequence =>
                d = after - (sequence - Len(entries))
           /\ p.entries = [i \in 1..m |->
                [instance |-> instance,
                 sequence |-> (sequence - Len(entries)) + d + i]]
           /\ p.next_cursor = IF m = 0 THEN sequence
                              ELSE (sequence - Len(entries)) + d + m
           /\ p.dropped_before = sequence - Len(entries)
           /\ p.truncated \in BOOLEAN
<1>1. PICK n, sq, ins, E :
        /\ n = Len(entries) /\ sq = sequence /\ ins = instance /\ E = entries
  OBVIOUS
<1>2. /\ n \in Nat /\ sq \in Nat /\ n > 0 /\ n <= sq /\ E # <<>> /\ n = Len(E)
      /\ \A i \in 1..n : /\ E[i].sequence = sq - n + i
                         /\ E[i] \in Feed!Event
      /\ Head(E).sequence = sq - n + 1
  BY <1>1, RingFacts DEF Ring
<1>3. \A i \in 1..n : E[i] = [instance |-> ins, sequence |-> sq - n + i]
  BY <1>1 DEF Ring
<1>4. PICK d : d = IF after <= sq - n THEN 0
                   ELSE IF after <= sq THEN after - (sq - n) ELSE n
  OBVIOUS
<1>5. d \in 0..n /\ \A i \in 1..n : (sq - n + i > after) <=> i > d
  BY <1>2, <1>4, FeedConstants
<1>6. PICK S : S = {e \in Feed!Event : e.sequence > after}
  OBVIOUS
<1>7. \A i \in 1..n : E[i] \in S <=> i > d
  <2> SUFFICES ASSUME NEW i \in 1..n PROVE E[i] \in S <=> i > d
    OBVIOUS
  <2>1. E[i] \in S <=> E[i].sequence > after
    BY <1>2, <1>6
  <2> QED
    BY <1>2, <1>5, <2>1
<1>8. PICK newer : newer = Kept(E, S)
  OBVIOUS
<1>9. /\ IsList(newer) /\ Len(newer) = n - d
      /\ \A i \in 1..(n - d) : newer[i] = E[d + i]
  <2>1. PartsAt(E, S, n, d)
    BY <1>2, <1>5, <1>7 DEF PartsAt
  <2>2. IsSuffix(newer, E, n, d)
    BY <1>8, <2>1, KeptSuffix
  <2> QED
    BY <2>2 DEF IsSuffix
<1>10. PICK m : m = IF Len(newer) < PAGE_LIMIT THEN Len(newer) ELSE PAGE_LIMIT
  OBVIOUS
<1>11. m \in 0..PAGE_LIMIT /\ m <= n - d /\ (m = 0 <=> d = n)
  BY <1>2, <1>5, <1>9, <1>10, FeedConstants
<1>12. PICK found : found = SubSeq(newer, 1, m)
  OBVIOUS
<1>13. /\ found \in Seq(Feed!Event) /\ Len(found) = m
       /\ \A i \in 1..m : found[i] = newer[i]
  <2>1. 1 \in Int /\ m \in Int /\ m \in Nat
    BY <1>11, FeedConstants
  <2>2. \A i \in 1..m : newer[i] \in Feed!Event
    <3> SUFFICES ASSUME NEW i \in 1..m PROVE newer[i] \in Feed!Event
      OBVIOUS
    <3>1. i \in 1..(n - d) /\ d + i \in 1..n
      BY <1>2, <1>5, <1>11, <2>1
    <3> QED
      BY <1>2, <1>9, <3>1
  <2>3. /\ found \in Seq(Feed!Event)
        /\ Len(found) = IF 1 <= m THEN m - 1 + 1 ELSE 0
        /\ \A i \in 1..(m - 1 + 1) : found[i] = newer[1 + i - 1]
    BY <1>12, <2>1, <2>2, SubSeqProperties
  <2> QED
    BY <2>1, <2>3
<1>14. \A i \in 1..m :
         found[i] = [instance |-> ins, sequence |-> (sq - n) + d + i]
  <2> SUFFICES ASSUME NEW i \in 1..m
               PROVE  found[i] = [instance |-> ins, sequence |-> (sq - n) + d + i]
    OBVIOUS
  <2>1. i \in 1..(n - d) /\ d + i \in 1..n
    BY <1>2, <1>5, <1>11, FeedConstants
  <2>2. found[i] = E[d + i]
    BY <1>9, <1>13, <2>1
  <2>3. E[d + i] = [instance |-> ins, sequence |-> sq - n + (d + i)]
    BY <1>3, <2>1
  <2>4. sq - n + (d + i) = (sq - n) + d + i
    BY <1>2, <1>5, <2>1
  <2> QED
    BY <2>2, <2>3, <2>4
<1>15. found = [i \in 1..m |->
                  [instance |-> ins, sequence |-> (sq - n) + d + i]]
  <2>1. DOMAIN found = 1..m /\ found = [i \in DOMAIN found |-> found[i]]
    BY <1>13
  <2> QED
    BY <1>14, <2>1
<1>16. PICK p : p = Feed!page(after)
  OBVIOUS
<1>17. p = [entries |-> found,
            next_cursor |-> IF found = <<>> THEN sq ELSE found[Len(found)].sequence,
            dropped_before |-> Head(E).sequence - 1,
            truncated |-> after < Head(E).sequence - 1]
  <2>1. Feed!Kept(E, S) = newer
    BY <1>8 DEF Feed!Kept, Kept
  <2> QED
    BY <1>1, <1>2, <1>6, <1>10, <1>12, <1>16, <2>1 DEF Feed!page
<1>18. (found = <<>>) <=> (m = 0)
  BY <1>11, <1>13, EmptyList, FeedConstants
<1>19. m # 0 => found[Len(found)].sequence = (sq - n) + d + m
  BY <1>11, <1>13, <1>14, FeedConstants
<1>20. /\ p.entries = found
       /\ p.next_cursor = IF m = 0 THEN sq ELSE (sq - n) + d + m
       /\ p.truncated \in BOOLEAN
  BY <1>17, <1>18, <1>19
<1>21. p.dropped_before = sq - n
  <2>1. PICK h : h = Head(E).sequence
    OBVIOUS
  <2>2. h - 1 = sq - n
    BY <1>2, <2>1
  <2> QED
    BY <1>17, <2>1, <2>2
<1>22. /\ after <= sq - n => d = 0
       /\ after > sq - n /\ after <= sq => d = after - (sq - n)
  BY <1>2, <1>4, FeedConstants
<1> QED
  BY <1>1, <1>5, <1>11, <1>15, <1>16, <1>20, <1>21, <1>22

(* The answer to any request for a page has its type.                      *)
LEMMA PageTyped ==
  ASSUME Feed!ConstantsAssumption, Ring, NEW after \in 0..MaxSequence
  PROVE  Page(Feed!page(after))
<1>1. PICK p, d, m :
        /\ p = Feed!page(after)
        /\ d \in 0..Len(entries) /\ m \in 0..PAGE_LIMIT
        /\ m <= Len(entries) - d
        /\ p.entries = [i \in 1..m |->
             [instance |-> instance,
              sequence |-> (sequence - Len(entries)) + d + i]]
        /\ p.next_cursor = IF m = 0 THEN sequence
                           ELSE (sequence - Len(entries)) + d + m
        /\ p.dropped_before = sequence - Len(entries)
        /\ p.truncated \in BOOLEAN
  BY PageIs
<1>2. PICK n, sq, ins, t :
        n = Len(entries) /\ sq = sequence /\ ins = instance /\ t = p.entries
  OBVIOUS
<1>3. /\ n \in Nat /\ sq \in Nat /\ n <= sq /\ n > 0
      /\ sq \in 1..MaxSequence /\ ins \in 1..MaxInstance
  BY <1>2, RingFacts DEF Ring
<1>4. d \in 0..n /\ m \in 0..PAGE_LIMIT /\ m \in Nat /\ m <= n - d
  BY <1>1, <1>2, FeedConstants
<1>5. t = [i \in 1..m |-> [instance |-> ins, sequence |-> (sq - n) + d + i]]
  BY <1>1, <1>2
<1>6. ASSUME NEW i \in 1..m PROVE t[i] \in Feed!Event
  <2>1. PICK v : v = (sq - n) + d + i
    OBVIOUS
  <2>2. v \in 1..MaxSequence
    BY <1>3, <1>4, <2>1, FeedConstants
  <2>3. t[i] = [instance |-> ins, sequence |-> v]
    BY <1>5, <2>1
  <2> QED
    BY <1>3, <2>2, <2>3 DEF Feed!Event
<1>7. t = [i \in 1..m |-> t[i]]
  BY <1>5
<1>8. IsList(t) /\ Len(t) = m /\ DOMAIN t = 1..m
  BY <1>4, <1>7, FunctionIsList
<1>9. t \in Seq(Feed!Event)
  BY <1>4, <1>6, <1>7, SeqDef
<1>10. sq - n \in 0..MaxSequence /\ (sq - n) + d + m \in 0..MaxSequence
  BY <1>3, <1>4, FeedConstants
<1>11. p.next_cursor \in 0..MaxSequence /\ p.dropped_before \in 0..MaxSequence
  BY <1>1, <1>2, <1>3, <1>10, FeedConstants
<1> QED
  BY <1>1, <1>2, <1>4, <1>8, <1>9, <1>11, FeedConstants DEF Page

(* A page that the present process serves from the tab's cursor continues  *)
(* the list.                                                               *)
LEMMA PageContinues ==
  ASSUME Feed!ConstantsAssumption, Ring, Follows
  PROVE  Continues(Feed!page(cursor))
<1>0. cursor \in 0..MaxSequence
  BY FeedConstants DEF Ring, Follows
<1>1. PICK p, d, m :
        /\ p = Feed!page(cursor)
        /\ d \in 0..Len(entries) /\ m \in 0..PAGE_LIMIT
        /\ m <= Len(entries) - d /\ (m = 0 <=> d = Len(entries))
        /\ cursor <= sequence - Len(entries) => d = 0
        /\ cursor > sequence - Len(entries) /\ cursor <= sequence =>
             d = cursor - (sequence - Len(entries))
        /\ p.entries = [i \in 1..m |->
             [instance |-> instance,
              sequence |-> (sequence - Len(entries)) + d + i]]
        /\ p.next_cursor = IF m = 0 THEN sequence
                           ELSE (sequence - Len(entries)) + d + m
        /\ p.dropped_before = sequence - Len(entries)
  BY <1>0, PageIs
<1>2. PICK n, sq, ins, cu, t :
        /\ n = Len(entries) /\ sq = sequence /\ ins = instance /\ cu = cursor
        /\ t = p.entries
  OBVIOUS
<1>3. /\ n \in Nat /\ sq \in Nat /\ n <= sq /\ n > 0 /\ cu \in 0..sq
  BY <1>2, RingFacts DEF Ring, Follows
<1>4. d \in 0..n /\ m \in 0..PAGE_LIMIT /\ m \in Nat /\ m <= n - d
  BY <1>1, <1>2, FeedConstants
<1>5. PICK nc : nc = p.next_cursor
  OBVIOUS
<1>6. /\ m = 0 <=> d = n
      /\ cu <= sq - n => d = 0
      /\ cu > sq - n => d = cu - (sq - n)
      /\ nc = IF m = 0 THEN sq ELSE (sq - n) + d + m
      /\ p.dropped_before = sq - n
  BY <1>1, <1>2, <1>3, <1>5
<1>7. nc - m = (sq - n) + d
  BY <1>3, <1>4, <1>6
<1>8. t = [i \in 1..m |-> [instance |-> ins, sequence |-> (nc - m) + i]]
  <2>1. PICK b : b = (sq - n) + d
    OBVIOUS
  <2>2. t = [i \in 1..m |-> [instance |-> ins, sequence |-> b + i]]
    BY <1>1, <1>2, <2>1
  <2> QED
    BY <1>7, <2>1, <2>2
<1>9. IsList(t) /\ Len(t) = m
  <2>1. t = [i \in 1..m |-> t[i]]
    BY <1>8
  <2> QED
    BY <1>4, <2>1, FunctionIsList
<1>10. nc \in cu..sq /\ m <= nc - cu
  BY <1>3, <1>4, <1>6
<1>11. p.dropped_before # 0 => Dropped
  BY <1>2, <1>3, <1>6 DEF Dropped
<1>12. p.dropped_before = 0 => nc - m = cu
  BY <1>3, <1>4, <1>6, <1>7
<1>13. Dropped => p.dropped_before # 0
  BY <1>2, <1>3, <1>6 DEF Dropped
<1>14. Whole \/ Len(logs) >= TAB_CAPACITY \/ p.dropped_before # 0
  BY <1>13 DEF Follows
<1>15. t = [i \in 1..Len(t) |->
              [instance |-> ins, sequence |-> nc - Len(t) + i]]
  BY <1>8, <1>9
<1> QED
  BY <1>1, <1>2, <1>5, <1>9, <1>10, <1>11, <1>12, <1>14, <1>15 DEF Continues

(* A list cut to the capacity of the tab keeps its end.                    *)
LEMMA TrimmedFacts ==
  ASSUME Feed!ConstantsAssumption, NEW T, NEW s \in Seq(T)
  PROVE  /\ Feed!Trimmed(s) \in Seq(T)
         /\ Len(Feed!Trimmed(s)) \in Nat
         /\ Len(Feed!Trimmed(s)) =
              IF Len(s) > TAB_CAPACITY THEN TAB_CAPACITY ELSE Len(s)
         /\ \A i \in 1..Len(Feed!Trimmed(s)) :
              Feed!Trimmed(s)[i] = s[(Len(s) - Len(Feed!Trimmed(s))) + i]
<1>1. PICK n, C : n = Len(s) /\ C = TAB_CAPACITY
  OBVIOUS
<1>2. n \in Nat /\ C \in Nat /\ C > 0 /\ \A i \in 1..n : s[i] \in T
  BY <1>1, FeedConstants, LenProperties, ElementOfSeq
<1>3. CASE n > C
  <2>1. PICK t, a : t = SubSeq(s, a, n) /\ a = n - C + 1
    OBVIOUS
  <2>2. Feed!Trimmed(s) = t
    BY <1>1, <1>3, <2>1 DEF Feed!Trimmed
  <2>3. a \in Int /\ n \in Int /\ \A i \in a..n : s[i] \in T
    BY <1>2, <1>3, <2>1
  <2>4. /\ t \in Seq(T) /\ Len(t) = IF a <= n THEN n - a + 1 ELSE 0
        /\ \A i \in 1..(n - a + 1) : t[i] = s[a + i - 1]
    BY <2>1, <2>3, SubSeqProperties
  <2>5. n - a + 1 = C /\ a <= n
    BY <1>2, <1>3, <2>1
  <2>6. Len(t) = C
    BY <2>4, <2>5
  <2>7. \A i \in 1..C : t[i] = s[(n - C) + i]
    <3> SUFFICES ASSUME NEW i \in 1..C PROVE t[i] = s[(n - C) + i]
      OBVIOUS
    <3>1. a + i - 1 = (n - C) + i
      BY <1>2, <2>1
    <3> QED
      BY <2>4, <2>5, <3>1
  <2> QED
    BY <1>1, <1>2, <1>3, <2>2, <2>4, <2>6, <2>7
<1>4. CASE ~(n > C)
  <2>1. Feed!Trimmed(s) = s
    BY <1>1, <1>4 DEF Feed!Trimmed
  <2>2. \A i \in 1..n : s[(n - n) + i] = s[i]
    BY <1>2
  <2> QED
    BY <1>1, <1>2, <1>4, <2>1, <2>2
<1> QED
  BY <1>3, <1>4

(* Whatever page is appended, the list keeps its type and capacity.        *)
LEMMA AppendTyped ==
  ASSUME Feed!ConstantsAssumption, Tab, NEW p, Page(p), Feed!appendLogs(p)
  PROVE  /\ logs' \in Seq(Feed!Event) /\ Len(logs') <= TAB_CAPACITY
         /\ cursor' \in 0..MaxSequence /\ truncated' \in BOOLEAN
<1>1. PICK S : S = {e \in Feed!Event :
                      e.sequence \notin {logs[i].sequence : i \in DOMAIN logs}}
  OBVIOUS
<1>2. PICK new : new = Kept(p.entries, S)
  OBVIOUS
<1>3. logs' = Feed!Trimmed(logs \o new)
  <2>1. Feed!Kept(p.entries, S) = new
    BY <1>2 DEF Feed!Kept, Kept
  <2> QED
    BY <1>1, <2>1 DEF Feed!appendLogs
<1>4. new \in Seq(Feed!Event)
  <2>1. PICK n \in Nat : n = Len(p.entries)
    BY LenProperties DEF Page
  <2>2. IsList(new)
    BY <1>2, <2>1, KeptLeads
  <2>3. PICK g : Leads(g, new, p.entries, S, n)
    BY <1>2, <2>1, KeptLeads
  <2>4. \A j \in 1..Len(new) : new[j] \in Feed!Event
    BY <1>1, <2>3 DEF Leads
  <2>5. {new[i] : i \in DOMAIN new} \subseteq Feed!Event
    BY <2>2, <2>4, ListFacts
  <2> QED
    BY <2>2, <2>5, SeqMonotonic DEF IsList
<1>5. logs \o new \in Seq(Feed!Event)
  BY <1>4, ConcatProperties DEF Tab
<1>6. logs' \in Seq(Feed!Event) /\ Len(logs') <= TAB_CAPACITY
  <2>1. PICK s : s = logs \o new
    OBVIOUS
  <2>2. /\ Feed!Trimmed(s) \in Seq(Feed!Event)
        /\ Len(Feed!Trimmed(s)) =
             IF Len(s) > TAB_CAPACITY THEN TAB_CAPACITY ELSE Len(s)
    BY <1>5, <2>1, TrimmedFacts
  <2>3. Len(s) \in Nat
    BY <1>5, <2>1, LenProperties
  <2>4. Len(Feed!Trimmed(s)) <= TAB_CAPACITY
    BY <2>2, <2>3, FeedConstants
  <2> QED
    BY <1>3, <2>1, <2>2, <2>4
<1>7. cursor' \in 0..MaxSequence /\ truncated' \in BOOLEAN
  BY DEF Feed!appendLogs, Page
<1> QED
  BY <1>6, <1>7

(* A page that continues the list leaves it one that follows the journal.  *)
LEMMA AppendFollows ==
  ASSUME Feed!ConstantsAssumption, Ring, Tab, Follows, NEW p, Page(p),
         Continues(p), Feed!appendLogs(p), UNCHANGED <<instance, entries, sequence>>
  PROVE  Follows'
<1>1. PICK lg, l, cu, pe, m, nc, ins, sq, C :
        /\ lg = logs /\ l = Len(logs) /\ cu = cursor /\ pe = p.entries
        /\ m = Len(p.entries) /\ nc = p.next_cursor /\ ins = instance
        /\ sq = sequence /\ C = TAB_CAPACITY
  OBVIOUS
<1>2. PICK T : T = [instance : {ins}, sequence : 1..nc]
  OBVIOUS
<1>3. /\ l \in Nat /\ m \in Nat /\ cu \in Nat /\ nc \in Nat /\ sq \in Nat
      /\ C \in Nat /\ C > 0
      /\ cu <= nc /\ nc <= sq /\ m <= nc - cu /\ sq <= MaxSequence
      /\ MaxSequence \in Nat
  <2>1. l \in Nat /\ m \in Nat
    BY <1>1, LenProperties DEF Tab, Page
  <2>2. /\ cu \in 0..sq /\ sq \in 1..MaxSequence /\ nc \in cu..sq
        /\ m <= nc - cu
    BY <1>1 DEF Follows, Ring, Continues
  <2> QED
    BY <1>1, <2>1, <2>2, FeedConstants
<1>4. lg \in Seq([instance : {ins}, sequence : 1..cu])
  BY <1>1 DEF Follows
<1>5. \A i \in 1..l :
        /\ lg[i].instance = ins /\ lg[i].sequence \in 1..cu
        /\ lg[i] = [instance |-> ins, sequence |-> lg[i].sequence]
  <2> SUFFICES ASSUME NEW i \in 1..l
               PROVE  /\ lg[i].instance = ins /\ lg[i].sequence \in 1..cu
                      /\ lg[i] = [instance |-> ins, sequence |-> lg[i].sequence]
    OBVIOUS
  <2>1. i \in 1..Len(lg)
    BY <1>1
  <2>2. PICK e : e = lg[i]
    OBVIOUS
  <2>3. e \in [instance : {ins}, sequence : 1..cu]
    BY <1>4, <2>1, <2>2, ElementOfSeq
  <2> QED
    BY <2>2, <2>3
<1>6. \A i \in 1..m :
        pe[i] = [instance |-> ins, sequence |-> (nc - m) + i]
  <2>1. pe = [i \in 1..m |-> [instance |-> ins, sequence |-> nc - m + i]]
    BY <1>1 DEF Continues
  <2> QED
    BY <2>1
<1>7. \A i \in 1..m : /\ pe[i].sequence = (nc - m) + i
                      /\ pe[i].sequence > cu /\ pe[i].sequence \in 1..nc
                      /\ pe[i].instance = ins
                      /\ pe[i] \in Feed!Event
                      /\ pe[i] \in T
  <2> SUFFICES ASSUME NEW i \in 1..m
               PROVE  /\ pe[i].sequence = (nc - m) + i
                      /\ pe[i].sequence > cu /\ pe[i].sequence \in 1..nc
                      /\ pe[i].instance = ins
                      /\ pe[i] \in Feed!Event
                      /\ pe[i] \in T
    OBVIOUS
  <2>1. PICK v : v = (nc - m) + i
    OBVIOUS
  <2>2. v \in 1..nc /\ v > cu /\ v \in 1..MaxSequence
    BY <1>3, <2>1
  <2>3. pe[i] = [instance |-> ins, sequence |-> v]
    BY <1>6, <2>1
  <2>4. ins \in 1..MaxInstance
    BY <1>1 DEF Ring
  <2>5. pe[i] \in Feed!Event
    BY <2>2, <2>3, <2>4 DEF Feed!Event
  <2>6. pe[i] \in T
    BY <1>2, <2>2, <2>3
  <2> QED
    BY <2>1, <2>2, <2>3, <2>5, <2>6
<1>8. PICK seen, S : /\ seen = {lg[i].sequence : i \in DOMAIN lg}
                     /\ S = {e \in Feed!Event : e.sequence \notin seen}
  OBVIOUS
<1>9. DOMAIN lg = 1..l
  BY <1>1, <1>4, LenProperties
<1>10. \A i \in 1..m : pe[i] \in S
  <2> SUFFICES ASSUME NEW i \in 1..m PROVE pe[i].sequence \notin seen
    BY <1>7, <1>8
  <2>1. PICK v : v = pe[i].sequence
    OBVIOUS
  <2>2. v \in 1..nc /\ v > cu
    BY <1>7, <2>1
  <2>3. ASSUME NEW j \in 1..l PROVE lg[j].sequence # v
    <3>1. PICK w : w = lg[j].sequence
      OBVIOUS
    <3>2. w \in 1..cu
      BY <1>5, <3>1
    <3>3. w # v
      BY <1>3, <2>2, <3>2
    <3> QED
      BY <3>1, <3>3
  <2> QED
    BY <1>8, <1>9, <2>1, <2>3
<1>11. PICK new : new = Kept(pe, S)
  OBVIOUS
<1>12. /\ IsList(new) /\ Len(new) = m
       /\ \A i \in 1..m : new[i] = pe[i]
  <2>1. PartsAt(pe, S, m, 0)
    BY <1>1, <1>3, <1>10 DEF PartsAt
  <2>2. IsSuffix(new, pe, m, 0)
    BY <1>11, <2>1, KeptSuffix
  <2>3. m - 0 = m /\ \A i \in 1..m : 0 + i = i
    BY <1>3
  <2> QED
    BY <2>2, <2>3 DEF IsSuffix
<1>13. lg \in Seq(T) /\ new \in Seq(T)
  <2>1. [instance : {ins}, sequence : 1..cu] \subseteq T
    BY <1>2, <1>3
  <2>2. lg \in Seq(T)
    BY <1>4, <2>1, SeqMonotonic
  <2>3. {new[i] : i \in DOMAIN new} \subseteq T
    BY <1>7, <1>12, ListFacts
  <2> QED
    BY <1>12, <2>2, <2>3, SeqMonotonic DEF IsList
<1>14. PICK X : X = lg \o new
  OBVIOUS
<1>15. /\ X \in Seq(T) /\ Len(X) = l + m
       /\ \A i \in 1..(l + m) : X[i] = IF i <= l THEN lg[i] ELSE new[i - l]
  BY <1>1, <1>12, <1>13, <1>14, ConcatProperties
<1>16. PICK Y, y : Y = Feed!Trimmed(X) /\ y = Len(Feed!Trimmed(X))
  OBVIOUS
<1>17. /\ Y \in Seq(T) /\ y \in Nat /\ y = Len(Y)
       /\ y = IF l + m > C THEN C ELSE l + m
       /\ \A i \in 1..y : Y[i] = X[((l + m) - y) + i]
  <2>1. /\ Y \in Seq(T) /\ y \in Nat /\ y = Len(Y)
        /\ y = IF Len(X) > TAB_CAPACITY THEN TAB_CAPACITY ELSE Len(X)
        /\ \A i \in 1..Len(Y) : Y[i] = X[(Len(X) - Len(Y)) + i]
    <3>1. X \in Seq(T)
      BY <1>15
    <3> QED
      BY <1>16, <3>1, TrimmedFacts
  <2> QED
    BY <1>1, <1>15, <2>1
<1>18. PICK r : r = (l + m) - y
  OBVIOUS
<1>19. r \in Nat /\ r + y = l + m
  BY <1>3, <1>17, <1>18
<1>20. logs' = Y /\ cursor' = nc
       /\ truncated' = (p.truncated \/ p.dropped_before # 0 \/ y >= C)
  <2>1. Feed!Kept(pe, S) = new
    BY <1>11 DEF Feed!Kept, Kept
  <2>2. logs' = Y
    BY <1>1, <1>8, <1>14, <1>16, <2>1 DEF Feed!appendLogs
  <2>3. truncated' = (p.truncated \/ p.dropped_before # 0 \/ Len(logs') >= C)
    BY <1>1 DEF Feed!appendLogs
  <2> QED
    BY <1>1, <1>17, <2>2, <2>3 DEF Feed!appendLogs
<1>21. \A i \in 1..l : X[i].sequence = lg[i].sequence
  <2> SUFFICES ASSUME NEW i \in 1..l PROVE X[i] = lg[i]
    OBVIOUS
  <2>1. i \in 1..(l + m) /\ i <= l
    BY <1>3
  <2> QED
    BY <1>15, <2>1
<1>22. \A i \in (l + 1)..(l + m) : X[i].sequence = (nc - m) + (i - l)
  <2> SUFFICES ASSUME NEW i \in (l + 1)..(l + m)
               PROVE  X[i].sequence = (nc - m) + (i - l)
    OBVIOUS
  <2>1. i \in 1..(l + m) /\ ~(i <= l) /\ i - l \in 1..m
    BY <1>3
  <2>2. X[i] = pe[i - l]
    BY <1>12, <1>15, <2>1
  <2> QED
    BY <1>7, <2>1, <2>2
<1>23. ASSUME NEW i \in 1..(l + m), NEW j \in 1..(l + m), i < j
       PROVE  X[i].sequence < X[j].sequence
  <2>1. CASE j <= l
    <3>1. i \in 1..l /\ j \in 1..l
      BY <1>3, <1>23, <2>1
    <3>2. lg[i].sequence < lg[j].sequence
      BY <1>1, <1>23, <3>1 DEF Follows
    <3> QED
      BY <1>21, <3>1, <3>2
  <2>2. CASE i <= l /\ ~(j <= l)
    <3>1. i \in 1..l /\ j \in (l + 1)..(l + m)
      BY <1>3, <2>2
    <3>2. PICK v, w : v = X[i].sequence /\ w = X[j].sequence
      OBVIOUS
    <3>3. v \in 1..cu
      BY <1>5, <1>21, <3>1, <3>2
    <3>4. w = (nc - m) + (j - l)
      BY <1>22, <3>1, <3>2
    <3>5. v < w
      BY <1>3, <3>1, <3>3, <3>4
    <3> QED
      BY <3>2, <3>5
  <2>3. CASE ~(i <= l)
    <3>1. i \in (l + 1)..(l + m) /\ j \in (l + 1)..(l + m)
      BY <1>3, <1>23, <2>3
    <3>2. PICK v, w : v = X[i].sequence /\ w = X[j].sequence
      OBVIOUS
    <3>3. v = (nc - m) + (i - l) /\ w = (nc - m) + (j - l)
      BY <1>22, <3>1, <3>2
    <3>4. v < w
      BY <1>3, <1>23, <3>3
    <3> QED
      BY <3>2, <3>4
  <2> QED
    BY <2>1, <2>2, <2>3
<1>24. ASSUME NEW i \in 1..y, NEW j \in 1..y, i < j
       PROVE  Y[i].sequence < Y[j].sequence
  <2>1. r + i \in 1..(l + m) /\ r + j \in 1..(l + m) /\ r + i < r + j
    BY <1>3, <1>17, <1>19, <1>24
  <2>2. Y[i] = X[r + i] /\ Y[j] = X[r + j]
    BY <1>17, <1>18
  <2> QED
    BY <1>23, <2>1, <2>2
<1>25. (y >= C) \/ p.dropped_before # 0 \/
         \A n \in 1..nc : \E i \in 1..y : Y[i].sequence = n
  <2> SUFFICES ASSUME ~(y >= C), p.dropped_before = 0, NEW n \in 1..nc
               PROVE  \E i \in 1..y : Y[i].sequence = n
    OBVIOUS
  <2>1. y = l + m /\ r = 0 /\ l < C
    BY <1>3, <1>17, <1>18
  <2>2. \A i \in 1..(l + m) : Y[i] = X[i]
    BY <1>3, <1>17, <1>18, <2>1
  <2>3. nc - m = cu
    BY <1>1 DEF Continues
  <2>4. Whole
    BY <1>1, <1>3, <2>1 DEF Continues
  <2>5. CASE n <= cu
    <3>1. PICK i \in 1..l : lg[i].sequence = n
      BY <1>1, <1>3, <2>4, <2>5 DEF Whole
    <3>2. i \in 1..(l + m)
      BY <1>3
    <3> QED
      BY <1>21, <2>1, <2>2, <3>1, <3>2
  <2>6. CASE ~(n <= cu)
    <3>1. PICK i : i = l + (n - cu)
      OBVIOUS
    <3>2. i \in (l + 1)..(l + m) /\ i \in 1..(l + m) /\ (nc - m) + (i - l) = n
      BY <1>3, <2>3, <2>6, <3>1
    <3> QED
      BY <1>22, <2>1, <2>2, <3>2
  <2> QED
    BY <2>5, <2>6
<1>26. p.dropped_before # 0 => Dropped'
  BY DEF Continues, Dropped
<1>27. /\ nc \in 0..sq
       /\ Y \in Seq([instance : {ins}, sequence : 1..nc])
       /\ \A i, j \in 1..Len(Y) : i < j => Y[i].sequence < Y[j].sequence
  BY <1>2, <1>3, <1>17, <1>24
<1>28. \/ \A n \in 1..nc : \E i \in 1..Len(Y) : Y[i].sequence = n
       \/ truncated' /\ (Len(Y) >= TAB_CAPACITY \/ Dropped')
  <2>1. CASE y >= C
    BY <1>1, <1>17, <1>20, <2>1
  <2>2. CASE p.dropped_before # 0
    BY <1>20, <1>26, <2>2
  <2> QED
    BY <1>17, <1>25, <2>1, <2>2
<1> QED
  BY <1>1, <1>20, <1>27, <1>28 DEF Follows, Whole

(* A new worker's ring holds its first event.                              *)
LEMMA FreshRing ==
  ASSUME Feed!ConstantsAssumption, NEW i \in 1..MaxInstance, Feed!FreshJournal(i)
  PROVE  Ring'
<1>1. PICK e, E : e = [instance |-> i, sequence |-> 1] /\ E = <<e>>
  OBVIOUS
<1>2. instance' = i /\ entries' = E /\ sequence' = 1
  BY <1>1 DEF Feed!FreshJournal
<1>3. Len(E) = 1 /\ E = [k \in 1..1 |-> e]
  BY <1>1
<1>4. 1 - 1 + 1 = 1 /\ 1 \in 1..LOG_CAPACITY /\ 1 \in 1..MaxSequence
  BY FeedConstants
<1>5. E = [k \in 1..1 |-> [instance |-> i, sequence |-> 1 - 1 + k]]
  BY <1>1, <1>3, <1>4
<1> QED
  BY <1>2, <1>3, <1>4, <1>5 DEF Ring

(* A call remains well-formed while generations and workers are counted up.*)
LEMMA CallStays ==
  ASSUME NEW c, Call(c), generation \in Nat, instance \in Nat,
         generation' \in Nat, instance' \in Nat,
         generation <= generation', instance <= instance'
  PROVE  Call(c)'
<1>1. c.generation \in 1..generation'
  BY DEF Call
<1>2. c.status.instance_id \in 1..instance =>
        c.status.instance_id \in 1..instance'
  OBVIOUS
<1>3. Page(c.logs.page) => Page(c.logs.page)'
  BY DEF Page, Feed!Event
<1> QED
  BY <1>1, <1>2, <1>3 DEF Call

(* journal::push keeps the ring without gaps.                              *)
LEMMA PushRing ==
  ASSUME Feed!ConstantsAssumption, Ring, Feed!push
  PROVE  /\ Ring' /\ sequence' = sequence + 1 /\ sequence \in Nat
         /\ Dropped => Dropped'
<1>1. PICK n, sq, ins, E, e :
        /\ n = Len(entries) /\ sq = sequence /\ ins = instance /\ E = entries
        /\ e = [instance |-> ins, sequence |-> sq + 1]
  OBVIOUS
<1>2. /\ n \in 1..LOG_CAPACITY /\ n <= sq /\ sq \in 1..MaxSequence
      /\ ins \in 1..MaxInstance /\ n \in Nat /\ sq \in Nat /\ n > 0
      /\ LOG_CAPACITY \in Nat /\ MaxSequence \in Nat /\ E # <<>> /\ Len(E) = n
  BY <1>1, RingFacts, FeedConstants DEF Ring
<1>3. E = [i \in 1..n |-> [instance |-> ins, sequence |-> sq - n + i]]
  BY <1>1 DEF Ring
<1>4. IsList(E)
  <2>1. E = [i \in 1..n |-> E[i]]
    BY <1>3
  <2> QED
    BY <1>2, <2>1, FunctionIsList
<1>5. \A i \in 1..n : E[i] = [instance |-> ins, sequence |-> sq - n + i]
  BY <1>3
<1>6. PICK B : B = IF n = LOG_CAPACITY THEN Tail(E) ELSE E
  OBVIOUS
<1>7. PICK b : b = IF n = LOG_CAPACITY THEN n - 1 ELSE n
  OBVIOUS
<1>8. /\ IsList(B) /\ Len(B) = b /\ b \in Nat /\ b <= n /\ b + 1 <= LOG_CAPACITY
      /\ \A i \in 1..b : B[i] = E[(n - b) + i]
  <2>1. CASE n = LOG_CAPACITY
    <3>1. E \in Seq({E[i] : i \in DOMAIN E})
      BY <1>4 DEF IsList
    <3>2. PICK T : T = {E[i] : i \in DOMAIN E}
      OBVIOUS
    <3>3. /\ Tail(E) \in Seq(T) /\ Len(Tail(E)) = n - 1
          /\ \A i \in 1..Len(Tail(E)) : Tail(E)[i] = E[i + 1]
      BY <1>2, <3>1, <3>2, HeadTailProperties
    <3>4. PICK t : t = Tail(E)
      OBVIOUS
    <3>5. IsList(t) /\ B = t
      <4>1. t \in Seq(T) /\ Len(t) \in Nat
        BY <1>2, <3>3, <3>4
      <4>2. t = [i \in 1..Len(t) |-> t[i]]
        BY <4>1
      <4> QED
        BY <1>6, <2>1, <3>4, <4>1, <4>2, FunctionIsList
    <3>6. b = n - 1 /\ n - b = 1 /\ b \in Nat /\ b <= n /\ b + 1 <= LOG_CAPACITY
      BY <1>2, <1>7, <2>1
    <3>7. \A i \in 1..b : t[i] = E[(n - b) + i]
      <4> SUFFICES ASSUME NEW i \in 1..b PROVE t[i] = E[(n - b) + i]
        OBVIOUS
      <4>1. (n - b) + i = i + 1
        BY <3>6
      <4> QED
        BY <3>3, <3>4, <3>6, <4>1
    <3> QED
      BY <3>3, <3>4, <3>5, <3>6, <3>7
  <2>2. CASE n # LOG_CAPACITY
    <3>1. B = E /\ b = n /\ n - b = 0 /\ n + 1 <= LOG_CAPACITY
      BY <1>2, <1>6, <1>7, <2>2
    <3>2. \A i \in 1..n : 0 + i = i
      BY <1>2
    <3> QED
      BY <1>2, <1>4, <3>1, <3>2
  <2> QED
    BY <2>1, <2>2
<1>9. PICK F : F = Append(B, e)
  OBVIOUS
<1>10. /\ entries' = F /\ sequence' = sq + 1 /\ instance' = ins
       /\ sq < MaxSequence
  BY <1>1, <1>6, <1>9 DEF Feed!push
<1>11. /\ IsList(F) /\ Len(F) = b + 1
       /\ \A i \in 1..b : F[i] = B[i]
       /\ F[b + 1] = e
  BY <1>8, <1>9, AppendFacts
<1>12. ASSUME NEW i \in 1..(b + 1)
       PROVE  F[i] = [instance |-> ins, sequence |-> (sq + 1) - (b + 1) + i]
  <2>1. CASE i \in 1..b
    <3>1. (n - b) + i \in 1..n /\ sq - n + ((n - b) + i) = (sq + 1) - (b + 1) + i
      BY <1>2, <1>8, <2>1
    <3>2. F[i] = E[(n - b) + i]
      BY <1>8, <1>11, <2>1
    <3> QED
      BY <1>5, <3>1, <3>2
  <2>2. CASE i = b + 1
    <3>1. (sq + 1) - (b + 1) + i = sq + 1
      BY <1>2, <1>8, <2>2
    <3> QED
      BY <1>1, <1>11, <2>2, <3>1
  <2> QED
    BY <1>8, <2>1, <2>2
<1>13. F = [i \in 1..(b + 1) |->
              [instance |-> ins, sequence |-> (sq + 1) - (b + 1) + i]]
  <2>1. F = [i \in DOMAIN F |-> F[i]] /\ DOMAIN F = 1..(b + 1)
    BY <1>11, ListFacts DEF IsList
  <2> QED
    BY <1>12, <2>1
<1>14. Ring'
  <2>1. /\ sq + 1 \in 1..MaxSequence /\ b + 1 \in 1..LOG_CAPACITY
        /\ b + 1 <= sq + 1
    BY <1>2, <1>8, <1>10
  <2> QED
    BY <1>2, <1>10, <1>11, <1>13, <2>1 DEF Ring
<1>15. n < sq => b + 1 < sq + 1
  BY <1>2, <1>8
<1> QED
  BY <1>1, <1>2, <1>10, <1>11, <1>14, <1>15 DEF Dropped

(* The worker moves on.  What the tab has still follows the journal, or    *)
(* the worker it followed is gone.                                         *)
LEMMA WorkerInv ==
  ASSUME Feed!ConstantsAssumption, FeedInv, Ring',
         UNCHANGED <<connected, connecting, refreshing, generation, logs, cursor,
                     instanceId, truncated, calls>>,
         \/ instance' = instance + 1
         \/ /\ instance' = instance /\ sequence' = sequence + 1
            /\ Dropped => Dropped'
  PROVE  FeedInv'
<1>1. /\ instance \in Nat /\ instance' \in Nat /\ instance <= instance'
      /\ instanceId \in 0..instance /\ instanceId \in Nat
      /\ sequence \in Nat /\ generation \in Nat
  BY FeedConstants DEF FeedInv, Ring, Tab
<1>2. ASSUME instanceId = instance'
      PROVE  /\ instance' = instance /\ sequence' = sequence + 1
             /\ Dropped => Dropped'
             /\ instanceId = instance
  BY <1>1, <1>2
<1>3. ASSUME connected, instanceId = instance' PROVE Follows'
  <2>1. Follows
    BY <1>2, <1>3 DEF FeedInv, Tab
  <2>2. (cursor \in 0..sequence)'
    BY <1>1, <1>2, <1>3, <2>1 DEF Follows
  <2> QED
    BY <1>2, <1>3, <2>1, <2>2 DEF Follows, Whole
<1>4. Tab'
  <2>1. instanceId \in 0..instance'
    BY <1>1
  <2> QED
    BY <1>3, <2>1 DEF FeedInv, Tab, Feed!Event
<1>5. ASSUME NEW c \in calls, c.generation = generation PROVE Pursues(c)'
  <2>1. Pursues(c)
    BY <1>5 DEF FeedInv, Calling
  <2>2. ASSUME c.kind = "refresh", c.logs.is = "ok", instanceId = instance'
        PROVE  Continues(c.logs.page)'
    <3>1. PICK p : p = c.logs.page
      OBVIOUS
    <3>2. Continues(p)
      BY <1>2, <2>1, <2>2, <3>1 DEF Pursues
    <3>3. p.next_cursor \in cursor..(sequence + 1)
      BY <1>1, <3>2 DEF Continues
    <3> QED
      BY <1>2, <2>2, <3>1, <3>2, <3>3 DEF Continues, Whole
  <2> QED
    BY <2>1, <2>2 DEF Pursues
<1>6. ASSUME NEW c \in calls PROVE Call(c)'
  BY <1>1, CallStays DEF FeedInv, Calling
<1>7. Calling'
  BY <1>5, <1>6 DEF FeedInv, Calling
<1> QED
  BY <1>4, <1>7 DEF FeedInv

(* A call with another answer is else the same.                            *)
LEMMA SetReply ==
  ASSUME NEW c, NEW v, DOMAIN c = CallFields
  PROVE  /\ LET d == [c EXCEPT !.status = v] IN
              /\ DOMAIN d = CallFields /\ d.kind = c.kind
              /\ d.generation = c.generation /\ d.after = c.after
              /\ d.status = v /\ d.logs = c.logs
         /\ LET d == [c EXCEPT !.logs = v] IN
              /\ DOMAIN d = CallFields /\ d.kind = c.kind
              /\ d.generation = c.generation /\ d.after = c.after
              /\ d.status = c.status /\ d.logs = v
BY DEF CallFields

(* A request of a call is answered, lost or refused.                       *)
LEMMA ReplaceInv ==
  ASSUME FeedInv, NEW c \in calls, NEW d, Feed!Replace(c, d),
         d.generation = c.generation, Call(d),
         c.generation = generation => Pursues(d)
  PROVE  FeedInv'
<1>1. /\ UNCHANGED <<instance, entries, sequence>>
      /\ UNCHANGED <<connected, connecting, refreshing, generation, logs, cursor,
                     instanceId, truncated>>
      /\ calls' = (calls \ {c}) \cup {d}
  BY DEF Feed!Replace, Feed!worker, Feed!tab
<1>2. Ring' /\ Tab'
  BY <1>1 DEF FeedInv, Ring, Tab, Follows, Whole, Dropped
<1>3. ASSUME NEW e PROVE Call(e)' <=> Call(e)
  BY <1>1 DEF Call, Page
<1>4. ASSUME NEW e PROVE Pursues(e)' <=> Pursues(e)
  BY <1>1 DEF Pursues, Continues, Whole, Dropped
<1>5. ASSUME NEW e \in calls'
      PROVE  Call(e)' /\ (e.generation = generation' => Pursues(e)')
  <2>1. Call(e) /\ (e.generation = generation => Pursues(e))
    BY <1>1 DEF FeedInv, Calling
  <2> QED
    BY <1>1, <1>3, <1>4, <2>1
<1>6. ASSUME NEW e \in calls', NEW f \in calls',
             e.generation = generation', f.generation = generation'
      PROVE  e = f
  BY <1>1, <1>6 DEF FeedInv, Calling
<1>7. Calling'
  BY <1>5, <1>6 DEF Calling
<1> QED
  BY <1>2, <1>7 DEF FeedInv

(* What the facts about a call come to.                                    *)
LEMMA CallFacts ==
  ASSUME FeedInv, NEW c \in calls
  PROVE  /\ Call(c) /\ DOMAIN c = CallFields
         /\ c.kind \in {"connect", "refresh"}
         /\ c.after \in 0..MaxSequence
         /\ c.generation = generation => Pursues(c)
         /\ c.logs \in Feed!Unanswered => c.logs.is # "ok"
BY DEF FeedInv, Calling, Call, Feed!Unanswered, Feed!Sent, Feed!Failed, Feed!Refused

(* The status of a call is answered, lost or refused.                      *)
LEMMA StatusInv ==
  ASSUME FeedInv, NEW c \in calls, NEW v,
         Feed!Replace(c, [c EXCEPT !.status = v]),
         \/ v \in Feed!Unanswered
         \/ v = [is |-> "ok", instance_id |-> instance] /\ instance \in Nat \ {0}
  PROVE  FeedInv'
<1>1. PICK d : d = [c EXCEPT !.status = v]
  OBVIOUS
<1>2. /\ DOMAIN d = CallFields /\ d.kind = c.kind
      /\ d.generation = c.generation /\ d.after = c.after
      /\ d.status = v /\ d.logs = c.logs
  BY <1>1, CallFacts, SetReply
<1>3. \/ v \in Feed!Unanswered
      \/ /\ v.is = "ok" /\ v.instance_id \in 1..instance
         /\ v = [is |-> "ok", instance_id |-> v.instance_id]
  OBVIOUS
<1>4. Call(c)
  BY CallFacts
<1>5. Call(d)
  BY <1>2, <1>3, <1>4 DEF Call
<1>6. c.generation = generation => Pursues(d)
  BY <1>2, CallFacts DEF Pursues
<1> QED
  BY <1>1, <1>2, <1>5, <1>6, ReplaceInv

(* The log request of a call is answered, lost or refused.                 *)
LEMMA LogsInv ==
  ASSUME Feed!ConstantsAssumption, FeedInv, NEW c \in calls, NEW v,
         Feed!Replace(c, [c EXCEPT !.logs = v]),
         \/ v \in Feed!Unanswered
         \/ v = [is |-> "ok", page |-> Feed!page(c.after)]
  PROVE  FeedInv'
<1>1. PICK d : d = [c EXCEPT !.logs = v]
  OBVIOUS
<1>2. /\ DOMAIN d = CallFields /\ d.kind = c.kind
      /\ d.generation = c.generation /\ d.after = c.after
      /\ d.status = c.status /\ d.logs = v
  BY <1>1, CallFacts, SetReply
<1>3. Call(c) /\ (c.generation = generation => Pursues(c))
  BY CallFacts
<1>4. CASE v \in Feed!Unanswered
  <2>1. v.is # "ok"
    BY <1>4 DEF Feed!Unanswered, Feed!Sent, Feed!Failed, Feed!Refused
  <2>2. Call(d)
    BY <1>2, <1>3, <1>4 DEF Call
  <2>3. c.generation = generation => Pursues(d)
    BY <1>2, <1>3, <2>1 DEF Pursues
  <2> QED
    BY <1>1, <1>2, <2>2, <2>3, ReplaceInv
<1>5. CASE v = [is |-> "ok", page |-> Feed!page(c.after)]
  <2>1. PICK p : p = Feed!page(c.after)
    OBVIOUS
  <2>2. v.is = "ok" /\ v.page = p
    BY <1>5, <2>1
  <2>3. Page(p)
    BY <2>1, PageTyped, CallFacts DEF FeedInv
  <2>4. Call(d)
    BY <1>2, <1>3, <2>2, <2>3 DEF Call
  <2>5. ASSUME c.generation = generation, c.kind = "refresh", instanceId = instance
        PROVE  Continues(p)
    <3>1. connected /\ c.after = cursor
      BY <1>3, <2>5 DEF Pursues
    <3>2. Follows
      BY <2>5, <3>1 DEF FeedInv, Tab
    <3> QED
      BY <2>1, <3>1, <3>2, PageContinues DEF FeedInv
  <2>6. c.generation = generation => Pursues(d)
    BY <1>2, <1>3, <2>2, <2>5 DEF Pursues
  <2> QED
    BY <1>1, <1>2, <2>4, <2>6, ReplaceInv
<1> QED
  BY <1>4, <1>5

(* A step of the tab, which leaves the worker alone and may count up the   *)
(* generation, end calls and make one.                                     *)
LEMMA TabInv ==
  ASSUME FeedInv, UNCHANGED <<instance, entries, sequence>>, Tab',
         generation <= generation',
         \A c \in calls' :
           \/ c \in calls /\ (c.generation = generation' => Pursues(c)')
           \/ Call(c)' /\ (c.generation = generation' => Pursues(c)'),
         \A c, d \in calls' :
           c.generation = generation' /\ d.generation = generation' => c = d
  PROVE  FeedInv'
<1>1. /\ Ring' /\ instance \in Nat /\ generation \in Nat /\ generation' \in Nat
      /\ instance' = instance
  BY DEF FeedInv, Ring, Tab
<1>2. ASSUME NEW c \in calls PROVE Call(c)'
  BY <1>1, <1>2, CallStays, CallFacts
<1>3. Calling'
  BY <1>2 DEF Calling
<1> QED
  BY <1>1, <1>3 DEF FeedInv

(* A new call.                                                             *)
LEMMA NewCallFacts ==
  ASSUME NEW kind \in {"connect", "refresh"}, NEW gen, NEW after
  PROVE  \E c : /\ c = Feed!NewCall(kind, gen, after)
                /\ DOMAIN c = CallFields /\ c.kind = kind
                /\ c.generation = gen /\ c.after = after
                /\ c.status \in Feed!Unanswered
                /\ c.logs \in Feed!Unanswered /\ c.logs.is # "ok"
<1>1. PICK c : c = Feed!NewCall(kind, gen, after)
  OBVIOUS
<1>2. /\ DOMAIN c = CallFields /\ c.kind = kind
      /\ c.generation = gen /\ c.after = after
      /\ c.status = Feed!Sent /\ c.logs \in {Feed!Sent, Feed!Failed}
  BY <1>1 DEF Feed!NewCall, CallFields
<1> QED
  BY <1>1, <1>2 DEF Feed!Unanswered, Feed!Sent, Feed!Failed

(* No answer is for a call of a generation to come.                        *)
LEMMA Generations ==
  ASSUME FeedInv
  PROVE  /\ generation \in Nat
         /\ \A c \in calls : c.generation \in Nat /\ c.generation <= generation
         /\ \A c \in calls : c.generation # generation + 1
<1>1. generation \in Nat
  BY DEF FeedInv, Tab
<1>2. ASSUME NEW c \in calls
      PROVE  /\ c.generation \in Nat /\ c.generation <= generation
             /\ c.generation # generation + 1
  <2>1. PICK g, h : g = generation /\ h = c.generation
    OBVIOUS
  <2>2. h \in 1..g
    BY <2>1, CallFacts DEF Call
  <2>3. h \in Nat /\ h <= g /\ h # g + 1
    BY <1>1, <2>1, <2>2
  <2> QED
    BY <2>1, <2>3
<1> QED
  BY <1>1, <1>2

(* Submitting the token.                                                   *)
LEMMA ConnectInv ==
  ASSUME Feed!ConstantsAssumption, FeedInv, Feed!Connect
  PROVE  FeedInv'
<1>1. /\ ~connected /\ generation + 1 < MaxGeneration
      /\ connecting' = TRUE /\ generation' = generation + 1
      /\ calls' = calls \cup {Feed!NewCall("connect", generation + 1, 0)}
      /\ UNCHANGED <<instance, entries, sequence, connected, refreshing, logs,
                     cursor, instanceId, truncated>>
  BY DEF Feed!Connect, Feed!worker
<1>2. PICK c : /\ c = Feed!NewCall("connect", generation + 1, 0)
               /\ DOMAIN c = CallFields /\ c.kind = "connect"
               /\ c.generation = generation + 1 /\ c.after = 0
               /\ c.status \in Feed!Unanswered /\ c.logs \in Feed!Unanswered
  BY NewCallFacts
<1>3. /\ generation \in Nat /\ generation <= generation'
      /\ generation' \in 0..MaxGeneration
      /\ generation' \in 1..generation' /\ generation' >= 1
  BY <1>1, FeedConstants, Generations
<1>4. Tab'
  BY <1>1, <1>3 DEF FeedInv, Tab
<1>5. Call(c)' /\ Pursues(c)'
  <2>1. 0 \in 0..MaxSequence
    BY FeedConstants
  <2> QED
    BY <1>1, <1>2, <1>3, <2>1 DEF Call, Pursues
<1>6. \A d \in calls : d.generation # generation'
  BY <1>1, Generations
<1> QED
  BY <1>1, <1>2, <1>3, <1>4, <1>5, <1>6, TabInv

(* The connection ends: every call under way is one of the past.           *)
LEMMA DisconnectInv ==
  ASSUME Feed!ConstantsAssumption, FeedInv, Feed!disconnect,
         UNCHANGED <<instance, entries, sequence>>, calls' \subseteq calls,
         connected \/ connecting
  PROVE  FeedInv'
<1>1. /\ generation' = generation + 1
      /\ connected' = FALSE /\ connecting' = FALSE /\ refreshing' = FALSE
      /\ UNCHANGED <<logs, cursor, instanceId, truncated>>
  BY DEF Feed!disconnect
<1>2. generation \in Nat /\ generation < MaxGeneration
  BY DEF FeedInv, Tab
<1>3. generation <= generation' /\ generation' \in 0..MaxGeneration
  BY <1>1, <1>2, FeedConstants
<1>4. Tab'
  BY <1>1, <1>3 DEF FeedInv, Tab
<1>5. \A d \in calls : d.generation # generation'
  BY <1>1, Generations
<1> QED
  BY <1>3, <1>4, <1>5, TabInv

(* A refresh is the only call of its connection.                           *)
LEMMA RefreshInv ==
  ASSUME Feed!ConstantsAssumption, FeedInv, Feed!Refresh
  PROVE  FeedInv'
<1>1. /\ connected /\ ~refreshing /\ refreshing' = TRUE
      /\ calls' = calls \cup Feed!Refreshes(generation, cursor)
      /\ UNCHANGED <<instance, entries, sequence, connected, connecting,
                     generation, logs, cursor, instanceId, truncated>>
  BY DEF Feed!Refresh, Feed!worker
<1>2. PICK c : /\ c = Feed!NewCall("refresh", generation, cursor)
               /\ DOMAIN c = CallFields /\ c.kind = "refresh"
               /\ c.generation = generation /\ c.after = cursor
               /\ c.status \in Feed!Unanswered /\ c.logs \in Feed!Unanswered
               /\ c.logs.is # "ok"
  BY NewCallFacts
<1>3. calls' = calls \cup {c}
  BY <1>1, <1>2 DEF Feed!Refreshes
<1>4. \A d \in calls : d.generation # generation
  BY <1>1, CallFacts DEF Pursues
<1>5. /\ generation \in 0..MaxGeneration /\ cursor \in 0..MaxSequence
      /\ instanceId >= 1 /\ generation \in Nat
  BY <1>1 DEF FeedInv, Tab
<1>6. Tab'
  BY <1>1 DEF FeedInv, Tab, Follows, Whole, Dropped
<1>7. generation \in 1..generation
  <2>1. generation >= 1
    BY <1>1 DEF FeedInv, Tab
  <2> QED
    BY <1>5, <2>1
<1>8. Call(c)' /\ Pursues(c)'
  BY <1>1, <1>2, <1>5, <1>7 DEF Call, Pursues
<1> QED
  BY <1>1, <1>2, <1>3, <1>4, <1>5, <1>6, <1>8, TabInv

(* A late answer is dropped.                                               *)
LEMMA DropInv ==
  ASSUME FeedInv, NEW c \in calls, Feed!DropLate(c)
  PROVE  FeedInv'
<1>1. /\ UNCHANGED <<instance, entries, sequence>>
      /\ UNCHANGED <<connected, connecting, refreshing, generation, logs, cursor,
                     instanceId, truncated>>
      /\ calls' = calls \ {c}
  BY DEF Feed!DropLate, Feed!worker, Feed!tab
<1>2. Tab'
  BY <1>1 DEF FeedInv, Tab, Follows, Whole, Dropped
<1>3. ASSUME NEW d \in calls, d.generation = generation PROVE Pursues(d)'
  <2>1. Pursues(d)
    BY <1>3, CallFacts
  <2> QED
    BY <1>1, <2>1 DEF Pursues, Continues, Whole, Dropped
<1>4. generation <= generation'
  BY <1>1, Generations
<1>5. \A d, e \in calls :
        d.generation = generation /\ e.generation = generation => d = e
  BY DEF FeedInv, Calling
<1> QED
  BY <1>1, <1>2, <1>3, <1>4, <1>5, TabInv

(* A connection starts with an empty list, which follows the journal.      *)
LEMMA ConnectedInv ==
  ASSUME Feed!ConstantsAssumption, FeedInv, NEW c \in calls, Feed!Connected(c)
  PROVE  FeedInv'
<1>1. /\ c.kind = "connect" /\ c.generation = generation /\ c.status.is = "ok"
      /\ connected' = TRUE /\ connecting' = ~refreshing
      /\ logs' = <<>> /\ cursor' = 0
      /\ instanceId' = c.status.instance_id
      /\ refreshing' = TRUE
      /\ calls' = (calls \ {c}) \cup Feed!Refreshes(generation, 0)
      /\ UNCHANGED <<instance, entries, sequence, generation, truncated>>
  BY DEF Feed!Connected, Feed!Current, Feed!worker
<1>2. ~connected /\ connecting
  BY <1>1, CallFacts DEF Pursues
<1>3. ~refreshing /\ generation < MaxGeneration /\ generation >= 1
  BY <1>2 DEF FeedInv, Tab
<1>4. PICK d : /\ d = Feed!NewCall("refresh", generation, 0)
               /\ DOMAIN d = CallFields /\ d.kind = "refresh"
               /\ d.generation = generation /\ d.after = 0
               /\ d.status \in Feed!Unanswered /\ d.logs \in Feed!Unanswered
               /\ d.logs.is # "ok"
  BY NewCallFacts
<1>5. calls' = (calls \ {c}) \cup {d}
  BY <1>1, <1>3, <1>4 DEF Feed!Refreshes
<1>6. \A e \in calls \ {c} : e.generation # generation
  BY <1>1 DEF FeedInv, Calling
<1>7. c.status.instance_id \in 1..instance
  <2>1. Call(c)
    BY CallFacts
  <2>2. c.status \notin Feed!Unanswered
    BY <1>1 DEF Feed!Unanswered, Feed!Sent, Feed!Failed, Feed!Refused
  <2> QED
    BY <2>1, <2>2 DEF Call
<1>8. /\ instance \in Nat /\ sequence \in Nat /\ generation \in 1..generation
      /\ generation \in Nat
  <2>1. instance \in Nat /\ sequence \in Nat
    BY FeedConstants DEF FeedInv, Ring
  <2>2. generation \in Nat
    BY Generations
  <2> QED
    BY <1>3, <2>1, <2>2
<1>9. Follows'
  <2>1. <<>> \in Seq([instance : {instance}, sequence : 1..0]) /\ Len(<<>>) = 0
    OBVIOUS
  <2>2. 0 \in 0..sequence /\ 1..0 = {}
    BY <1>8
  <2> QED
    BY <1>1, <2>1, <2>2 DEF Follows, Whole
<1>10. Tab'
  <2>1. /\ instanceId' \in 0..instance /\ instanceId' >= 1
        /\ 0 \in 0..MaxSequence /\ 0 <= TAB_CAPACITY
    BY <1>1, <1>7, <1>8, FeedConstants
  <2>2. <<>> \in Seq(Feed!Event) /\ Len(<<>>) = 0
    OBVIOUS
  <2>3. /\ generation \in 0..MaxGeneration /\ truncated \in BOOLEAN
        /\ refreshing \in BOOLEAN
    BY DEF FeedInv, Tab
  <2> QED
    BY <1>1, <1>3, <1>9, <2>1, <2>2, <2>3 DEF Tab
<1>11. Call(d)' /\ Pursues(d)'
  <2>1. 0 \in 0..MaxSequence
    BY FeedConstants
  <2> QED
    BY <1>1, <1>4, <1>8, <2>1 DEF Call, Pursues
<1>12. generation <= generation'
  BY <1>1, <1>8
<1> QED
  BY <1>1, <1>4, <1>5, <1>6, <1>10, <1>11, <1>12, TabInv

(* A refresh ends: what it was answered is rendered.                       *)
LEMMA RefreshedInv ==
  ASSUME Feed!ConstantsAssumption, FeedInv, NEW c \in calls, Feed!Refreshed(c)
  PROVE  FeedInv'
<1>1. /\ c.kind = "refresh" /\ c.generation = generation
      /\ instanceId' = IF c.status.is = "ok" THEN c.status.instance_id
                       ELSE instanceId
      /\ Feed!Render(c)
      /\ refreshing' = FALSE /\ connecting' = FALSE
      /\ \/ connected' = FALSE /\ generation' = generation + 1
         \/ connected' = connected /\ generation' = generation
      /\ calls' = calls \ {c}
      /\ UNCHANGED <<instance, entries, sequence>>
  BY DEF Feed!Refreshed, Feed!Current, Feed!worker
<1>2. /\ connected /\ refreshing /\ c.after = cursor
      /\ c.logs.is = "ok" /\ instanceId = instance => Continues(c.logs.page)
  BY <1>1, CallFacts DEF Pursues
<1>3. /\ generation \in Nat /\ generation < MaxGeneration /\ generation >= 1
      /\ instanceId \in 0..instance /\ instanceId >= 1 /\ instance \in Nat
  BY <1>2 DEF FeedInv, Ring, Tab
<1>4. Call(c)
  BY CallFacts
<1>5. c.status.is = "ok" => c.status.instance_id \in 1..instance
  <2>1. c.status.is = "ok" => c.status \notin Feed!Unanswered
    BY DEF Feed!Unanswered, Feed!Sent, Feed!Failed, Feed!Refused
  <2> QED
    BY <1>4, <2>1 DEF Call
<1>6. c.logs.is = "ok" => Page(c.logs.page)
  <2>1. c.logs.is = "ok" => c.logs \notin Feed!Unanswered
    BY DEF Feed!Unanswered, Feed!Sent, Feed!Failed, Feed!Refused
  <2> QED
    BY <1>4, <2>1 DEF Call
<1>7. /\ logs' \in Seq(Feed!Event) /\ Len(logs') <= TAB_CAPACITY
      /\ cursor' \in 0..MaxSequence /\ truncated' \in BOOLEAN
      /\ instanceId' = instance => Follows'
  <2>1. CASE /\ Feed!Restarted(c) /\ logs' = <<>> /\ cursor' = 0
             /\ UNCHANGED truncated
    <3>1. /\ <<>> \in Seq([instance : {instance}, sequence : 1..0])
          /\ <<>> \in Seq(Feed!Event) /\ Len(<<>>) = 0
      OBVIOUS
    <3>2. 0 \in 0..sequence /\ 1..0 = {} /\ 0 \in 0..MaxSequence /\ 0 <= TAB_CAPACITY
      BY FeedConstants DEF FeedInv, Ring
    <3>3. truncated \in BOOLEAN
      BY DEF FeedInv, Tab
    <3> QED
      BY <1>1, <2>1, <3>1, <3>2, <3>3 DEF Follows, Whole
  <2>2. ASSUME ~Feed!Restarted(c) PROVE instanceId' = instanceId
    BY <1>1, <1>3, <2>2 DEF Feed!Restarted
  <2>3. CASE /\ ~Feed!Restarted(c) /\ c.logs.is = "ok"
             /\ Feed!appendLogs(c.logs.page)
    <3>1. PICK p : p = c.logs.page
      OBVIOUS
    <3>2. Page(p) /\ Feed!appendLogs(p)
      BY <1>6, <2>3, <3>1
    <3>3. /\ logs' \in Seq(Feed!Event) /\ Len(logs') <= TAB_CAPACITY
          /\ cursor' \in 0..MaxSequence /\ truncated' \in BOOLEAN
      BY <3>2, AppendTyped DEF FeedInv
    <3>4. ASSUME instanceId' = instance PROVE Follows'
      <4>1. instanceId = instance
        BY <2>2, <2>3, <3>4
      <4>2. Continues(p) /\ Follows
        BY <1>2, <2>3, <3>1, <4>1 DEF FeedInv, Tab
      <4> QED
        BY <1>1, <3>2, <4>2, AppendFollows DEF FeedInv
    <3> QED
      BY <3>3, <3>4
  <2>4. CASE /\ ~Feed!Restarted(c)
             /\ UNCHANGED <<logs, cursor, truncated>>
    <3>1. instanceId' = instance => Follows
      BY <1>2, <2>2, <2>4 DEF FeedInv, Tab
    <3>2. Follows => Follows'
      BY <1>1, <2>4 DEF Follows, Whole, Dropped
    <3> QED
      BY <2>4, <3>1, <3>2 DEF FeedInv, Tab
  <2> QED
    BY <1>1, <2>1, <2>3, <2>4 DEF Feed!Render
<1>8. instanceId' \in 0..instance /\ instanceId' >= 1
  BY <1>1, <1>3, <1>5
<1>9. /\ connected' \in BOOLEAN /\ generation' \in 0..MaxGeneration
      /\ connected' => generation' < MaxGeneration /\ generation' >= 1
      /\ generation <= generation'
  <2>1. connected' \in BOOLEAN
    BY <1>1 DEF FeedInv, Tab
  <2>2. CASE connected' = FALSE /\ generation' = generation + 1
    <3>1. generation' \in 0..MaxGeneration /\ generation <= generation'
      BY <1>3, <2>2, FeedConstants
    <3> QED
      BY <2>1, <2>2, <3>1
  <2>3. CASE connected' = connected /\ generation' = generation
    <3>1. generation' \in 0..MaxGeneration /\ generation <= generation'
      BY <1>3, <2>3, FeedConstants
    <3> QED
      BY <1>3, <2>1, <2>3, <3>1
  <2> QED
    BY <1>1, <2>2, <2>3
<1>10. Tab'
  BY <1>1, <1>7, <1>8, <1>9 DEF Tab
<1>11. \A d \in calls \ {c} : d.generation # generation'
  <2>1. \A d \in calls \ {c} : d.generation # generation
    BY <1>1 DEF FeedInv, Calling
  <2> QED
    BY <1>1, <2>1, Generations
<1> QED
  BY <1>1, <1>9, <1>10, <1>11, TabInv

(* A connection that failed is one the tab was still making.               *)
LEMMA ConnectFailedInv ==
  ASSUME Feed!ConstantsAssumption, FeedInv, NEW c \in calls,
         Feed!ConnectFailed(c)
  PROVE  FeedInv'
<1>1. /\ c.kind = "connect" /\ c.generation = generation /\ Feed!disconnect
      /\ calls' = calls \ {c}
      /\ UNCHANGED <<instance, entries, sequence>>
  BY DEF Feed!ConnectFailed, Feed!Current, Feed!worker
<1>2. connecting
  BY <1>1, CallFacts DEF Pursues
<1> QED
  BY <1>1, <1>2, DisconnectInv

(* The worker has its first event, and the tab is not connected.           *)
LEMMA FeedInit ==
  Feed!ConstantsAssumption /\ Feed!Init => FeedInv
<1> SUFFICES ASSUME Feed!ConstantsAssumption, Feed!Init PROVE FeedInv
  OBVIOUS
<1>1. /\ instance = 1 /\ sequence = 1
      /\ connected = FALSE /\ connecting = FALSE /\ refreshing = FALSE
      /\ generation = 0 /\ logs = <<>> /\ cursor = 0 /\ instanceId = 0
      /\ truncated = FALSE /\ calls = {}
  BY DEF Feed!Init
<1>2. Ring
  <2>1. PICK e, E : e = [instance |-> 1, sequence |-> 1] /\ E = <<e>>
    OBVIOUS
  <2>2. entries = E
    BY <2>1 DEF Feed!Init
  <2>3. Len(E) = 1 /\ E = [k \in 1..1 |-> e]
    BY <2>1
  <2>4. /\ 1 - 1 + 1 = 1 /\ 1 \in 1..LOG_CAPACITY /\ 1 \in 1..MaxSequence
        /\ 1 \in 1..MaxInstance
    BY FeedConstants
  <2>5. E = [k \in 1..1 |-> [instance |-> 1, sequence |-> 1 - 1 + k]]
    BY <2>1, <2>3, <2>4
  <2> QED
    BY <1>1, <2>2, <2>3, <2>4, <2>5 DEF Ring
<1>3. Tab
  <2>1. <<>> \in Seq(Feed!Event) /\ Len(<<>>) = 0
    OBVIOUS
  <2>2. /\ 0 \in 0..MaxGeneration /\ 0 \in 0..MaxSequence /\ 0 \in 0..1
        /\ 0 <= TAB_CAPACITY
    BY FeedConstants
  <2> QED
    BY <1>1, <2>1, <2>2 DEF Tab
<1>4. Calling
  BY <1>1 DEF Calling
<1> QED
  BY <1>2, <1>3, <1>4 DEF FeedInv

(* Every step of the worker and of the tab keeps the invariant.            *)
LEMMA FeedNext ==
  Feed!ConstantsAssumption /\ FeedInv /\ [Feed!Next]_Feed!vars => FeedInv'
<1> SUFFICES ASSUME Feed!ConstantsAssumption, FeedInv, [Feed!Next]_Feed!vars
             PROVE  FeedInv'
  OBVIOUS
<1>1. CASE Feed!push
  <2>1. /\ instance' = instance
        /\ UNCHANGED <<connected, connecting, refreshing, generation, logs,
                       cursor, instanceId, truncated, calls>>
    BY <1>1 DEF Feed!push, Feed!tab
  <2>2. Ring' /\ sequence' = sequence + 1 /\ (Dropped => Dropped')
    BY <1>1, PushRing DEF FeedInv
  <2> QED
    BY <2>1, <2>2, WorkerInv
<1>2. CASE Feed!Restart
  <2>1. /\ instance < MaxInstance /\ Feed!FreshJournal(instance + 1)
        /\ UNCHANGED <<connected, connecting, refreshing, generation, logs,
                       cursor, instanceId, truncated, calls>>
    BY <1>2 DEF Feed!Restart, Feed!tab
  <2>2. instance \in 1..MaxInstance
    BY DEF FeedInv, Ring
  <2>3. instance + 1 \in 1..MaxInstance
    BY <2>1, <2>2, FeedConstants
  <2>4. Ring'
    BY <2>1, <2>3, FreshRing
  <2>5. instance' = instance + 1
    BY <2>1 DEF Feed!FreshJournal
  <2> QED
    BY <2>1, <2>4, <2>5, WorkerInv
<1>3. CASE Feed!Connect
  BY <1>3, ConnectInv
<1>4. CASE Feed!Disconnect
  <2>1. connected /\ Feed!disconnect /\ calls' = calls
    BY <1>4 DEF Feed!Disconnect
  <2>2. UNCHANGED <<instance, entries, sequence>>
    BY <1>4 DEF Feed!Disconnect, Feed!worker
  <2> QED
    BY <2>1, <2>2, DisconnectInv
<1>5. CASE Feed!Refresh
  BY <1>5, RefreshInv
<1>6. ASSUME NEW c \in calls,
             \/ Feed!ServeStatus(c) \/ Feed!LoseStatus(c)
             \/ Feed!RefuseStatus(c)
      PROVE  FeedInv'
  <2>1. instance \in Nat \ {0}
    BY FeedConstants DEF FeedInv, Ring
  <2>2. CASE Feed!ServeStatus(c)
    <3>1. PICK v : v = [is |-> "ok", instance_id |-> instance]
      OBVIOUS
    <3>2. Feed!Replace(c, [c EXCEPT !.status = v])
      BY <2>2, <3>1 DEF Feed!ServeStatus
    <3> QED
      BY <2>1, <3>1, <3>2, StatusInv
  <2>3. CASE Feed!LoseStatus(c)
    BY <2>3, StatusInv DEF Feed!LoseStatus, Feed!Unanswered
  <2>4. CASE Feed!RefuseStatus(c)
    BY <2>4, StatusInv DEF Feed!RefuseStatus, Feed!Unanswered
  <2> QED
    BY <1>6, <2>2, <2>3, <2>4
<1>7. ASSUME NEW c \in calls,
             \/ Feed!ServeLogs(c) \/ Feed!LoseLogs(c) \/ Feed!RefuseLogs(c)
      PROVE  FeedInv'
  <2>1. CASE Feed!ServeLogs(c)
    <3>1. PICK v : v = [is |-> "ok", page |-> Feed!page(c.after)]
      OBVIOUS
    <3>2. Feed!Replace(c, [c EXCEPT !.logs = v])
      BY <2>1, <3>1 DEF Feed!ServeLogs
    <3> QED
      BY <3>1, <3>2, LogsInv
  <2>2. CASE Feed!LoseLogs(c)
    BY <2>2, LogsInv DEF Feed!LoseLogs, Feed!Unanswered
  <2>3. CASE Feed!RefuseLogs(c)
    BY <2>3, LogsInv DEF Feed!RefuseLogs, Feed!Unanswered
  <2> QED
    BY <1>7, <2>1, <2>2, <2>3
<1>8. ASSUME NEW c \in calls,
             \/ Feed!DropLate(c) \/ Feed!Connected(c)
             \/ Feed!ConnectFailed(c) \/ Feed!Refreshed(c)
      PROVE  FeedInv'
  BY <1>8, DropInv, ConnectedInv, ConnectFailedInv, RefreshedInv
<1>9. CASE UNCHANGED Feed!vars
  <2>1. /\ UNCHANGED <<instance, entries, sequence>>
        /\ UNCHANGED <<connected, connecting, refreshing, generation, logs,
                       cursor, instanceId, truncated, calls>>
    BY <1>9 DEF Feed!vars, Feed!worker, Feed!tab
  <2>2. Ring' /\ Tab'
    BY <2>1 DEF FeedInv, Ring, Tab, Follows, Whole, Dropped
  <2>3. ASSUME NEW c \in calls
        PROVE  Call(c)' /\ (c.generation = generation' => Pursues(c)')
    <3>1. Call(c) /\ (c.generation = generation => Pursues(c))
      BY CallFacts
    <3>2. Call(c)'
      BY <2>1, <3>1 DEF Call, Page
    <3>3. Pursues(c) => Pursues(c)'
      BY <2>1 DEF Pursues, Continues, Whole, Dropped
    <3> QED
      BY <2>1, <3>1, <3>2, <3>3
  <2>4. Calling'
    BY <2>1, <2>3 DEF FeedInv, Calling
  <2> QED
    BY <2>2, <2>4 DEF FeedInv
<1> QED
  BY <1>1, <1>2, <1>3, <1>4, <1>5, <1>6, <1>7, <1>8, <1>9 DEF Feed!Next

(* The invariant of the feed.                                              *)
LEMMA FeedInvariance ==
  Feed!ConstantsAssumption /\ Feed!Spec
    => [](Feed!ConstantsAssumption /\ FeedInv)
<1>1. Feed!ConstantsAssumption /\ Feed!Init
        => Feed!ConstantsAssumption /\ FeedInv
  BY FeedInit
<1>2. /\ Feed!ConstantsAssumption /\ FeedInv
      /\ [Feed!Next]_Feed!vars
      => (Feed!ConstantsAssumption /\ FeedInv)'
  <2>1. Feed!ConstantsAssumption => Feed!ConstantsAssumption'
    BY DEF Feed!ConstantsAssumption
  <2> QED
    BY <2>1, FeedNext
<1> QED
  BY <1>1, <1>2, PTL DEF Feed!Spec

(* Every variable of the feed has its type: neither the ring nor the tab's *)
(* list ever grows past its capacity, and no page past the limit asked for.*)
THEOREM FeedTypes ==
  Feed!ConstantsAssumption /\ Feed!Spec => []Feed!TypeOK
<1>1. ASSUME Feed!ConstantsAssumption, FeedInv PROVE Feed!TypeOK
  <2>1. /\ instance \in 1..MaxInstance /\ sequence \in 1..MaxSequence
        /\ Len(entries) \in 1..LOG_CAPACITY
    BY <1>1 DEF FeedInv, Ring
  <2>2. \A i \in DOMAIN entries : entries[i] \in Feed!Event
    <3>1. DOMAIN entries = 1..Len(entries)
      BY <1>1 DEF FeedInv, Ring
    <3> QED
      BY <1>1, <3>1, RingFacts DEF FeedInv
  <2>3. Len(entries) <= LOG_CAPACITY
    BY <2>1, FeedConstants
  <2>4. {connected, connecting, refreshing, truncated} \subseteq BOOLEAN
    BY <1>1 DEF FeedInv, Tab
  <2>5. /\ generation \in 0..MaxGeneration /\ Len(logs) <= TAB_CAPACITY
        /\ cursor \in 0..MaxSequence /\ logs \in Seq(Feed!Event)
    BY <1>1 DEF FeedInv, Tab
  <2>6. instanceId \in 0..MaxInstance
    BY <1>1, <2>1, FeedConstants DEF FeedInv, Tab
  <2>7. \A i \in DOMAIN logs : logs[i] \in Feed!Event
    BY <2>5, LenProperties, ElementOfSeq
  <2>8. ASSUME NEW c \in calls
        PROVE  /\ c.generation \in 1..generation /\ c.after \in 0..MaxSequence
               /\ c.status \in Feed!StatusReply
               /\ c.logs \in Feed!Unanswered \/ Feed!IsPage(c.logs.page)
    <3>1. Call(c)
      BY <1>1, CallFacts
    <3>2. c.generation \in 1..generation /\ c.after \in 0..MaxSequence
      BY <3>1 DEF Call
    <3>3. c.status \in Feed!StatusReply
      <4>1. CASE c.status \in Feed!Unanswered
        BY <4>1 DEF Feed!StatusReply
      <4>2. CASE /\ c.status.instance_id \in 1..instance
                 /\ c.status = [is |-> "ok",
                                instance_id |-> c.status.instance_id]
        <5>1. PICK i : i = c.status.instance_id
          OBVIOUS
        <5>2. i \in 1..MaxInstance
          BY <1>1, <2>1, <4>2, <5>1, FeedConstants
        <5>3. c.status = [is |-> "ok", instance_id |-> i]
          BY <4>2, <5>1
        <5>4. c.status \in [is : {"ok"}, instance_id : 1..MaxInstance]
          BY <5>2, <5>3
        <5> QED
          BY <5>4 DEF Feed!StatusReply
      <4> QED
        BY <3>1, <4>1, <4>2 DEF Call
    <3>4. ASSUME NEW p, Page(p) PROVE Feed!IsPage(p)
      <4>1. \A i \in DOMAIN p.entries : p.entries[i] \in Feed!Event
        BY <3>4, LenProperties, ElementOfSeq DEF Page
      <4> QED
        BY <3>4, <4>1 DEF Page, Feed!IsPage
    <3> QED
      BY <3>1, <3>2, <3>3, <3>4 DEF Call
  <2> QED
    BY <2>1, <2>2, <2>3, <2>4, <2>5, <2>6, <2>7, <2>8 DEF Feed!TypeOK
<1>2. Feed!ConstantsAssumption /\ FeedInv => Feed!TypeOK
  BY <1>1
<1> QED
  BY <1>2, FeedInvariance, PTL

(* While the process the tab last heard of still runs, its list shows only *)
(* that process's events, in order, and every event up to the cursor       *)
(* unless the tab says that some are missing (FeedIsFaithful), whatever    *)
(* the capacities of journal, page and tab, and whichever answers are      *)
(* lost, late or refused (console.js refresh and appendLogs, journal.rs    *)
(* page).                                                                  *)
THEOREM FeedFaithful ==
  Feed!ConstantsAssumption /\ Feed!Spec => []FeedIsFaithful
<1>1. ASSUME Feed!ConstantsAssumption, FeedInv PROVE FeedIsFaithful
  <2> SUFFICES ASSUME connected, instanceId = instance
               PROVE  /\ \A i \in DOMAIN logs : logs[i].instance = instance
                      /\ \A i, j \in DOMAIN logs :
                           i < j => logs[i].sequence < logs[j].sequence
                      /\ \A n \in 1..cursor :
                           truncated \/ \E i \in DOMAIN logs : logs[i].sequence = n
    BY DEF FeedIsFaithful
  <2>1. Follows
    BY <1>1 DEF FeedInv, Tab
  <2>2. logs \in Seq([instance : {instance}, sequence : 1..cursor])
    BY <2>1 DEF Follows
  <2>3. DOMAIN logs = 1..Len(logs)
    BY <2>2, LenProperties
  <2>4. \A i \in DOMAIN logs : logs[i].instance = instance
    <3> SUFFICES ASSUME NEW i \in DOMAIN logs PROVE logs[i].instance = instance
      OBVIOUS
    <3>1. logs[i] \in [instance : {instance}, sequence : 1..cursor]
      BY <2>2, <2>3, ElementOfSeq
    <3> QED
      BY <3>1
  <2> QED
    BY <2>1, <2>3, <2>4 DEF Follows, Whole
<1>2. Feed!ConstantsAssumption /\ FeedInv => FeedIsFaithful
  BY <1>1
<1> QED
  BY <1>2, FeedInvariance, PTL
=============================================================================
