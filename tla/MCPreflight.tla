---- MODULE MCPreflight ----
(* The preflight on a small instance: three endpoints with few answers     *)
(* each, or one endpoint with every list of shards and registry events.    *)
EXTENDS Preflight

MCStores == {"CASTS", "LINKS"}
AnyFid == {None, Some(0), Some(1)}

Url(u) == [url |-> u, parses |-> TRUE, credentials |-> FALSE, query |-> FALSE,
           root_path |-> TRUE, scheme |-> "https", host |-> "domain"]
Local(u) == [Url(u) EXCEPT !.scheme = "http", !.host = "loopback"]

\* Endpoint lists: valid ones, and one for each way to be refused.
Valid == {<<Url("a"), Url("b"), Local("c")>>, <<Url("solo")>>}
Refused == {<<>>, <<Url("a"), Url("a")>>,
            <<Url("a"), Url("b"), Url("c"), Url("d")>>,
            <<[Url("a") EXCEPT !.parses = FALSE]>>,
            <<[Url("a") EXCEPT !.credentials = TRUE]>>,
            <<[Url("a") EXCEPT !.query = TRUE]>>,
            <<[Url("a") EXCEPT !.root_path = FALSE]>>,
            <<[Url("a") EXCEPT !.host = "none"]>>,
            <<[Url("a") EXCEPT !.scheme = "http"]>>}
MCInputs == Valid \cup Refused

Shard(id, height, delay) ==
  [shard_id |-> id, max_height |-> height, block_delay |-> delay]
Info(version, peer, shards) ==
  [wellformed |-> TRUE, version |-> version, num_shards |-> 1,
   peer_id |-> peer, shards |-> shards]
Full == <<Shard(0, 1, 0), Shard(1, 1, 1)>>

FewInfos ==
  {Info("0.13.5", "p", Full), Info("0.13.5", "q", Full),
   Info("0.13.5", "r", Full), Info("0.13.5", "absent", Full),
   Info("0.14", "p", Full), Info("0.13.5", "p", <<Shard(0, 1, 0)>>),
   [Info("0.13.5", "q", Full) EXCEPT !.wellformed = FALSE]}
Cast(fid, network) ==
  [wellformed |-> TRUE, messages |-> <<[fid |-> fid, network |-> network]>>]
FewCasts == {Cast(1, "mainnet"), Cast(1, "testnet")}
NoStorage == {[wellformed |-> TRUE, limits |-> <<>>]}
NoEvents == {[wellformed |-> TRUE, events |-> <<>>]}

Lists(S, n) == UNION {[1..k -> S] : k \in 0..n}
ManyInfos ==
  {[wellformed |-> TRUE, version |-> "0.13.5", num_shards |-> n,
    peer_id |-> "p", shards |-> l] :
     n \in 0..2,
     l \in Lists({Shard(0, 1, 1), Shard(1, 1, 1), Shard(2, 1, 1),
                  Shard(0, 0, 1), Shard(1, 1, 2), Shard(3, 1, 0)}, 3)}
ManyCasts ==
  {Cast(1, "mainnet"), Cast(1, "testnet"), Cast(1, "unrecognised"),
   Cast(2, "mainnet"), [wellformed |-> TRUE, messages |-> <<>>],
   [wellformed |-> FALSE, messages |-> <<>>],
   [wellformed |-> TRUE, messages |-> <<[fid |-> 1, network |-> "mainnet"],
                                        [fid |-> 1, network |-> "mainnet"]>>]}
ManyStorages ==
  {[wellformed |-> TRUE, limits |-> l] :
     l \in {<<"CASTS", "LINKS">>, <<"CASTS", "CASTS">>}}
Register(to, position) ==
  [fid |-> 1, type |-> "Register", to |-> to, position |-> position]
Events == {Register("x", <<1, 0, 2>>), Register("y", <<1, 1, 0>>),
           [Register("z", <<2, 0, 0>>) EXCEPT !.type = "Transfer"],
           [Register("malformed", <<3, 0, 0>>) EXCEPT !.type = "ChangeRecovery"]}
ManyEvents ==
  {[wellformed |-> TRUE, events |-> l] : l \in Lists(Events, 2)}
    \cup {[wellformed |-> TRUE,
           events |-> <<[Register("x", <<1, 0, 0>>) EXCEPT !.fid = 2]>>],
          [wellformed |-> TRUE, events |-> <<Register("malformed", <<1, 0, 0>>)>>]}

Few ==
  [info |-> FewInfos, casts |-> FewCasts, storage |-> NoStorage,
   events |-> NoEvents]
Many ==
  [info |-> ManyInfos, casts |-> ManyCasts, storage |-> ManyStorages,
   events |-> ManyEvents]

MCReplies(url, route) ==
  IF url = "solo"
  THEN {Json(v) : v \in Many[route]}
         \cup {Fault(f) : f \in DOMAIN FailureOf}
  ELSE {Json(v) : v \in Few[route]} \cup {Fault("timeout")}
====
