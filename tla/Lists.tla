------------------------------- MODULE Lists -------------------------------
(* Lists whose elements may be of any kind.                                *)
EXTENDS Integers, Sequences

\* A list is a sequence of its own elements.
IsList(s) == s \in Seq({s[i] : i \in DOMAIN s})

\* The elements of s that are in S, in their order.
Kept(s, S) ==
  LET kept[n \in 0..Len(s)] ==
        IF n = 0 THEN <<>>
        ELSE IF s[n] \in S THEN Append(kept[n - 1], s[n]) ELSE kept[n - 1] IN
  kept[Len(s)]
=============================================================================
