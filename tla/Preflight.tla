----------------------------- MODULE Preflight -----------------------------
(***************************************************************************)
(* The read-only preflight of Hypersnap nodes (crates/psky-hypersnap): a   *)
(* configuration is validated, every endpoint is asked in turn for its     *)
(* information and, when a test FID is configured, for one retained cast,  *)
(* its storage allocation and its registry events, and the answers are     *)
(* summarised.  Each request may fail in every way the client tells apart. *)
(* What the nodes answered is kept beside the report, to compare them.     *)
(***************************************************************************)
EXTENDS Lists, FiniteSets

CONSTANTS
  MAX_ENDPOINTS,
  MAX_SHARDS,            \* shards a node may list (256)
  MAX_LIMITS,            \* store limits a node may list (32)
  MAX_EVENTS,            \* registry events a node may list (1024)
  MAX_BLOCK_DELAY_SECS,
  SUPPORTED_VERSION,
  Stores,                \* names of the recognised message stores
  Expected,              \* expected_network
  TestFids,              \* test FIDs an operator may give, None among them
  Inputs,                \* lists of endpoints an operator may give
  Delays,                \* delay thresholds an operator may give
  Replies(_, _)          \* what may become of a request to a url and route

\* How a request without an answer in JSON ends, as the client reports it.
\* The first two never get a status.
FailureOf ==
  [timeout |-> "Timeout", transport |-> "Transport",
   slow_body |-> "Timeout", cut_body |-> "Transport",
   redirect |-> "Redirect", not_found |-> "Unavailable",
   other_status |-> "HttpStatus", oversized |-> "Oversized",
   not_json |-> "Malformed"]

None == [is |-> "none"]
Some(v) == [is |-> "some", value |-> v]

ASSUME ConstantsAssumption ==
  /\ {MAX_ENDPOINTS, MAX_SHARDS, MAX_LIMITS, MAX_EVENTS,
      MAX_BLOCK_DELAY_SECS} \subseteq Nat \ {0}
  /\ Delays \subseteq Nat
  /\ \A es \in Inputs : IsList(es)
  /\ \A fid \in TestFids : fid = None \/ fid = Some(fid.value)

\* The types of the fields a well-formed answer has (u32, u64 and vectors in
\* the code), as far as they are counted or compared.
InfoFields(v) ==
  /\ v.num_shards \in Nat
  /\ v.shards \in Seq([shard_id : Nat, max_height : Nat, block_delay : Nat])
CastFields(v) == IsList(v.messages)
Custodial(e) == e.type \in {"Register", "Transfer"}
EventFields(v) ==
  /\ IsList(v.events)
  /\ \A i \in DOMAIN v.events :
       Custodial(v.events[i]) => v.events[i].position \in Nat \X Nat \X Nat

\* What became of a request: an answer in JSON or a failure.
Json(v) == [is |-> "json", value |-> v]
Fault(f) == [is |-> f]
Understood(reply, Parses(_)) == reply.is = "json" /\ Parses(reply.value)
WellFormed(reply) == reply.is = "json" /\ reply.value.wellformed

ASSUME RepliesAssumption ==
  \A es \in Inputs : \A i \in DOMAIN es :
    /\ \A r \in Replies(es[i].url, "info") :
         WellFormed(r) => InfoFields(r.value)
    /\ \A r \in Replies(es[i].url, "casts") :
         WellFormed(r) => CastFields(r.value)
    /\ \A r \in Replies(es[i].url, "events") :
         WellFormed(r) => EventFields(r.value)

VARIABLES
  phase,     \* "new", "refused", the route asked next, or "done"
  config,    \* the validated configuration
  current,   \* report of the node being inspected
  nodes,     \* reports of the nodes inspected so far
  report,    \* the finished report
  replies    \* for each endpoint asked, what it replied to each route

vars == <<phase, config, current, nodes, report, replies>>

-----------------------------------------------------------------------------
(* Configuration.                                                          *)

\* An endpoint is a record of what validate_endpoint looks at; `url` is its
\* normalised form.
validate_endpoint(e) ==
  /\ e.parses /\ ~e.credentials /\ ~e.query /\ e.root_path
  /\ e.host # "none"
  /\ e.scheme = "https" \/ (e.scheme = "http" /\ e.host = "loopback")

ValidEndpoints(es) ==
  /\ Len(es) \in 1..MAX_ENDPOINTS
  /\ \A i \in DOMAIN es : validate_endpoint(es[i])
  /\ \A i, j \in DOMAIN es : i # j => es[i].url # es[j].url

Init ==
  /\ phase = "new"
  /\ config = None /\ current = None /\ report = None
  /\ nodes = <<>> /\ replies = <<>>

EmptyNode ==
  [info |-> None, reachable |-> FALSE, protocol |-> "Unknown",
   network |-> "Unknown", freshness |-> "Unknown",
   storage |-> None, authority |-> None, requests |-> <<>>]

ValidConfig(es, fid, delay) ==
  /\ ValidEndpoints(es)
  /\ fid # Some(0)
  /\ delay \in 1..MAX_BLOCK_DELAY_SECS

\* PreflightConfig::new, with_max_block_delay_secs.
configure(es, fid, delay) ==
  /\ phase = "new"
  /\ \/ /\ ValidConfig(es, fid, delay)
        /\ phase' = "info"
        /\ config' = [urls |-> [i \in DOMAIN es |-> es[i].url],
                      test_fid |-> fid, max_block_delay |-> delay]
        /\ current' = EmptyNode
     \/ /\ ~ValidConfig(es, fid, delay)
        /\ phase' = "refused"
        /\ UNCHANGED <<config, current>>
  /\ UNCHANGED <<nodes, report, replies>>

-----------------------------------------------------------------------------
(* Parsing.  `wellformed` stands for the fields being there with their     *)
(* types, and for the version and the peer identifier being short plain    *)
(* text.                                                                   *)

\* Mutated form: a shard listed twice is not noticed.
parse_info_repeated(v) ==
  /\ v.wellformed /\ v.num_shards > 0
  /\ Len(v.shards) <= MAX_SHARDS
  /\ \A i \in DOMAIN v.shards : v.shards[i].shard_id <= v.num_shards

parse_info(v) ==
  /\ v.wellformed /\ v.num_shards > 0
  /\ Len(v.shards) <= MAX_SHARDS
  /\ \A i \in DOMAIN v.shards :
       /\ v.shards[i].shard_id <= v.num_shards
       /\ \A j \in 1..(i - 1) : v.shards[j].shard_id # v.shards[i].shard_id

\* Freshness::from_info.
from_info(v, max) ==
  IF \E i \in DOMAIN v.shards : v.shards[i].block_delay > max THEN "Lagging"
  ELSE IF \/ Len(v.shards) # v.num_shards + 1
          \/ \E i \in DOMAIN v.shards : v.shards[i].max_height = 0
       THEN "Unknown"
  ELSE "Fresh"

\* A page holds at most one cast, and it is the FID's own.
parse_network(v, fid) ==
  /\ v.wellformed
  /\ \/ v.messages = <<>>
     \/ Len(v.messages) = 1 /\ v.messages[1].fid = fid

parse_storage(v) ==
  /\ v.wellformed /\ Len(v.limits) <= MAX_LIMITS
  /\ \A i \in DOMAIN v.limits :
       /\ v.limits[i] \in Stores
       /\ \A j \in 1..(i - 1) : v.limits[j] # v.limits[i]

ParsesEvents(v, fid) ==
  /\ v.wellformed /\ Len(v.events) <= MAX_EVENTS
  /\ \A i \in DOMAIN v.events :
       /\ v.events[i].fid = fid
       /\ Custodial(v.events[i]) => v.events[i].to # "malformed"

\* Positions are (block, transaction, log) triples, compared as such.
After(p, q) ==
  \/ p[1] > q[1]
  \/ p[1] = q[1] /\ p[2] > q[2]
  \/ p[1] = q[1] /\ p[2] = q[2] /\ p[3] > q[3]

\* Mutated form: the event listed last is taken for the latest.
latest_listed(events) ==
  LET latest[n \in 0..Len(events)] ==
        IF n = 0 THEN None
        ELSE IF Custodial(events[n]) THEN Some(events[n])
        ELSE latest[n - 1] IN
  latest[Len(events)]

\* One event of the loop of parse_authority.
Newer(latest, e) ==
  IF Custodial(e) /\ (latest = None \/ After(e.position, latest.value.position))
  THEN Some(e) ELSE latest

\* parse_authority: one pass over the events, in the order listed.
latest_custody(events) ==
  LET latest[n \in 0..Len(events)] ==
        IF n = 0 THEN None ELSE Newer(latest[n - 1], events[n]) IN
  latest[Len(events)]

parse_authority(v) ==
  LET latest == latest_custody(v.events) IN
  [registry_events |-> Len(v.events),
   reported_custody |-> IF latest = None THEN None ELSE Some(latest.value.to)]

-----------------------------------------------------------------------------
(* The summary of the finished reports.                                    *)

HasPeer(node) == node.info # None /\ node.info.value.peer_id # "absent"
PeerOf(node) == node.info.value.peer_id

\* Mutated form: only the endpoints that told their peer are compared.
peer_unique_partial(all, i) ==
  IF ~HasPeer(all[i]) THEN None
  ELSE Some(~ \E j \in DOMAIN all \ {i} :
                HasPeer(all[j]) /\ PeerOf(all[j]) = PeerOf(all[i]))

peer_unique(all, i) ==
  IF ~HasPeer(all[i]) THEN None
  ELSE IF \E j \in DOMAIN all \ {i} :
            HasPeer(all[j]) /\ PeerOf(all[j]) = PeerOf(all[i])
       THEN Some(FALSE)
  ELSE IF \A j \in DOMAIN all : HasPeer(all[j]) THEN Some(TRUE)
  ELSE None

Compatible(node) == node.protocol = "Compatible" /\ node.network = "Compatible"

Summary(all) ==
  LET healthy(i) == /\ Compatible(all[i]) /\ all[i].freshness = "Fresh"
                    /\ peer_unique(all, i) = Some(TRUE) IN
  [compatible |-> \A i \in DOMAIN all : Compatible(all[i]),
   healthy |-> \A i \in DOMAIN all : healthy(i),
   distinct_peers |-> Cardinality({PeerOf(all[i]) :
                        i \in {j \in DOMAIN all : HasPeer(all[j])}}),
   peer_unique |-> [i \in DOMAIN all |-> peer_unique(all, i)],
   node_healthy |-> [i \in DOMAIN all |-> healthy(i)]]

-----------------------------------------------------------------------------
(* Requests.                                                               *)

\* The evidence kept of a request: whether a status came, and the failure.
evidence(route, reply, parses) ==
  [route |-> route,
   status |-> reply.is \notin {"timeout", "transport"},
   failure |-> IF reply.is # "json" THEN FailureOf[reply.is]
               ELSE IF parses THEN "none" ELSE "Malformed"]

WithEvidence(node, e) == [node EXCEPT !.requests = Append(@, e)]

\* The node is done: the next endpoint, or the summary.
Conclude(node) ==
  LET all == Append(nodes, node) IN
  /\ nodes' = all
  /\ \/ /\ Len(all) < Len(config.urls)
        /\ phase' = "info" /\ current' = EmptyNode
        /\ UNCHANGED report
     \/ /\ Len(all) = Len(config.urls)
        /\ phase' = "done" /\ current' = None
        /\ report' = Some(Summary(all))

Continue(node, route) ==
  phase' = route /\ current' = node /\ UNCHANGED <<nodes, report>>

Here == Len(nodes) + 1     \* the endpoint being inspected
Asked == Replies(config.urls[Here], phase)

info(reply) ==
  LET parses == Understood(reply, parse_info)
      asked == WithEvidence([current EXCEPT !.reachable =
                               reply.is \notin {"timeout", "transport"}],
                            evidence("info", reply, parses))
      v == reply.value
      node == [asked EXCEPT
                 !.info = Some([version |-> v.version, peer_id |-> v.peer_id]),
                 !.protocol = IF v.version = SUPPORTED_VERSION
                              THEN "Compatible" ELSE "Incompatible",
                 !.freshness = from_info(v, config.max_block_delay)] IN
  /\ phase = "info"
  /\ \/ /\ parses /\ config.test_fid # None
        /\ Continue(node, "casts")
     \/ /\ parses /\ config.test_fid = None
        /\ Conclude(node)
     \/ /\ ~parses
        /\ Conclude(asked)
  /\ replies' = Append(replies, [info |-> reply, casts |-> None,
                                 storage |-> None, events |-> None])
  /\ UNCHANGED config

casts(reply) ==
  LET parses == Understood(reply, LAMBDA v : parse_network(v, config.test_fid.value))
      asked == WithEvidence(current, evidence("castsByFid", reply, parses))
      network == reply.value.messages[1].network
      tells == /\ parses /\ reply.value.messages # <<>>
               /\ network # "unrecognised" IN
  /\ phase = "casts"
  /\ \/ /\ tells
        /\ Continue([asked EXCEPT !.network = IF network = Expected
                       THEN "Compatible" ELSE "Incompatible"], "storage")
     \/ /\ ~tells
        /\ Continue(asked, "storage")
  /\ replies' = [replies EXCEPT ![Here].casts = reply]
  /\ UNCHANGED config

storage(reply) ==
  LET parses == Understood(reply, parse_storage)
      asked == WithEvidence(current,
                            evidence("storageLimitsByFid", reply, parses)) IN
  /\ phase = "storage"
  /\ \/ parses /\ Continue([asked EXCEPT !.storage = Some(reply.value.limits)],
                            "events")
     \/ ~parses /\ Continue(asked, "events")
  /\ replies' = [replies EXCEPT ![Here].storage = reply]
  /\ UNCHANGED config

onChainEvents(reply) ==
  LET parses == Understood(reply, LAMBDA v : ParsesEvents(v, config.test_fid.value))
      asked == WithEvidence(current,
                            evidence("onChainEventsByFid", reply, parses)) IN
  /\ phase = "events"
  /\ \/ parses /\ Conclude([asked EXCEPT !.authority =
                               Some(parse_authority(reply.value))])
     \/ ~parses /\ Conclude(asked)
  /\ replies' = [replies EXCEPT ![Here].events = reply]
  /\ UNCHANGED config

-----------------------------------------------------------------------------
Next ==
  \/ \E es \in Inputs, fid \in TestFids, delay \in Delays : configure(es, fid, delay)
  \/ phase = "info" /\ \E reply \in Asked : info(reply)
  \/ phase = "casts" /\ \E reply \in Asked : casts(reply)
  \/ phase = "storage" /\ \E reply \in Asked : storage(reply)
  \/ phase = "events" /\ \E reply \in Asked : onChainEvents(reply)

Spec == Init /\ [][Next]_vars

-----------------------------------------------------------------------------
(* Properties.                                                             *)

Verdicts == {"Compatible", "Incompatible", "Unknown"}

(* Every variable has its type, no more endpoints are asked than were      *)
(* configured, and the report is there exactly when all of them were.      *)
TypeOK ==
  /\ phase \in {"new", "refused", "info", "casts", "storage", "events", "done"}
  /\ (phase \in {"new", "refused"}) <=> (config = None)
  /\ phase \notin {"new", "refused"} =>
       /\ Len(config.urls) \in 1..MAX_ENDPOINTS
       /\ Len(nodes) <= Len(config.urls)
       /\ (report # None) <=> (Len(nodes) = Len(config.urls))
       /\ (phase = "done") <=> (report # None)
  /\ \A i \in DOMAIN nodes : /\ {nodes[i].protocol, nodes[i].network} \subseteq Verdicts
                             /\ nodes[i].freshness \in {"Fresh", "Lagging", "Unknown"}

\* A node's information covers its block shard and all its data shards, none
\* of them empty or late.
FullyFresh(v) ==
  \A s \in 0..v.num_shards : \E i \in DOMAIN v.shards :
    /\ v.shards[i].shard_id = s
    /\ v.shards[i].max_height > 0
    /\ v.shards[i].block_delay <= config.max_block_delay

ConfirmsNetwork(reply) ==
  /\ reply.is = "json"
  /\ \E m \in {reply.value.messages[i] : i \in DOMAIN reply.value.messages} :
       Some(m.fid) = config.test_fid /\ m.network = Expected

(* A healthy report is earned by every endpoint: each one answered with    *)
(* the supported version and a peer of its own, listed every shard it has  *)
(* with a block of tolerable age, and served a cast of the test FID from   *)
(* the expected network.  No combination of timeouts, partial answers and  *)
(* doubtful shard lists adds up to health (run, parse_info, from_info).    *)
HealthyIsEarned ==
  report # None /\ report.value.healthy =>
    /\ Len(replies) = Len(config.urls)
    /\ \A i \in DOMAIN replies :
         /\ replies[i].info.is = "json"
         /\ replies[i].info.value.version = SUPPORTED_VERSION
         /\ FullyFresh(replies[i].info.value)
         /\ ConfirmsNetwork(replies[i].casts)
    /\ \A i, j \in DOMAIN replies : i # j =>
         replies[i].info.value.peer_id # replies[j].info.value.peer_id

(* Two endpoints that lead to the same peer are both named as duplicates,  *)
(* even when another endpoint did not answer; a peer is called unique only *)
(* when every endpoint told its own, and then the count of distinct peers  *)
(* is the count of endpoints (run).                                        *)
DuplicatesAreNamed ==
  report # None =>
    LET Told(i) == /\ replies[i].info.is = "json" /\ parse_info(replies[i].info.value)
                   /\ replies[i].info.value.peer_id # "absent"
        peer(i) == replies[i].info.value.peer_id IN
    /\ \A i, j \in DOMAIN replies :
         i # j /\ Told(i) /\ Told(j) /\ peer(i) = peer(j) =>
           {report.value.peer_unique[i], report.value.peer_unique[j]} = {Some(FALSE)}
    /\ (\E i \in DOMAIN replies : report.value.peer_unique[i] = Some(TRUE)) =>
         \A i \in DOMAIN replies : Told(i)
    /\ (\A i \in DOMAIN replies : report.value.peer_unique[i] = Some(TRUE)) =>
         report.value.distinct_peers = Len(config.urls)

(* The custody address a report shows is that of the newest registration   *)
(* or transfer the node listed, in whatever order it listed them, and a    *)
(* change of the recovery address is never taken for one (parse_authority).*)
NewestCustodyIsReported ==
  \A i \in DOMAIN nodes : nodes[i].authority # None =>
    LET events == replies[i].events.value.events
        custodial == {k \in DOMAIN events : Custodial(events[k])}
        shown == nodes[i].authority.value.reported_custody IN
    IF custodial = {} THEN shown = None
    ELSE \E k \in custodial :
           /\ shown = Some(events[k].to)
           /\ \A l \in custodial : ~After(events[l].position, events[k].position)
=============================================================================
