------------------------------ MODULE Sidecar ------------------------------
(***************************************************************************)
(* The dashboard sidecar (dashboard/sidecar.py): a read-only HTTP server   *)
(* over the store, the audit log, the policy file and serve's sentinel.    *)
(*                                                                         *)
(* Every statement and every file access of a route sees the state of its  *)
(* own moment (the connections hold no read transaction), so a route is a  *)
(* program of reads, one per step, with the operator, serve and index      *)
(* running in between.  Readers do not disturb one another: one request,   *)
(* one stream, one pager and one proof stand for any number of them.       *)
(***************************************************************************)
EXTENDS ServePolicy, Merkle

CONSTANTS
    MaxRows,        \* bound: rows of the audit log
    StreamLimit,    \* rows per poll of the stream (50 in the code)
    PageLimit       \* the client's page size

ASSUME SidecarAssumption ==
    /\ MaxRows \in Nat
    /\ StreamLimit \in Nat \ {0}
    /\ PageLimit \in Nat \ {0}

VARIABLES
    req,            \* the request being answered
    log,            \* mcp_audit, by id: [refused, anchor]
    stream,         \* a client of /api/audit/stream
    pager,          \* a client paging through /api/audit/rows or /refusals
    proof           \* a request for an inclusion proof

readerVars == <<req, stream, pager, proof>>
vars == <<policyVars, log, readerVars>>

-----------------------------------------------------------------------------
(* Routes over the policy and the store.                                   *)

\* The reads of each route, in the order of its statements.
PolicyRoute    == <<"exists", "parse", "tags", "sentinel", "stat">>
PreviewRoute   == <<"exists", "parse">>
DriftRoute     == <<"enriched", "sentinel", "stat">>
OverviewRoute  == <<"exists", "parse", "entities", "levels", "tags",
                    "enriched", "sentinel", "stat", "audit">>
GraphRoute     == <<"nodes", "entities", "refusals", "levels">>
EntitiesRoute  == <<"entities", "levels">>
PiiMatrixRoute == <<"entities", "levels">>

\* The two commands that print what the policy view shows.
PolicyShow    == <<"exists", "parse", "tags">>
PolicyTagList == <<"tags">>

Routes == {"policy", "preview", "drift", "overview", "graph", "entities", "matrix",
           "show", "list"}

Program(route) ==
    CASE route = "policy"   -> PolicyRoute
      [] route = "preview"  -> PreviewRoute
      [] route = "drift"    -> DriftRoute
      [] route = "overview" -> OverviewRoute
      [] route = "graph"    -> GraphRoute
      [] route = "entities" -> EntitiesRoute
      [] route = "matrix"   -> PiiMatrixRoute
      [] route = "show"     -> PolicyShow
      [] route = "list"     -> PolicyTagList

NoRequest == [route |-> "none"]

\* steady (ghost): the policy file has not changed since the request came.
Request(route) ==
    /\ req = NoRequest
    /\ req' = [route |-> route, step |-> 1, status |-> 200, steady |-> TRUE,
               block |-> {}, cols |-> <<>>, sent |-> NoSentinel, banner |-> FALSE,
               stale |-> FALSE, names |-> {}, drawn |-> {}, left |-> {},
               levels |-> <<>>, tally |-> <<>>, total |-> 0]

Done == req # NoRequest /\ req.step > Len(Program(req.route))

Reading(what) == req # NoRequest /\ ~Done /\ Program(req.route)[req.step] = what

Next1(r) == [r EXCEPT !.step = @ + 1]

Fails(r) == [r EXCEPT !.status = 500, !.step = Len(Program(r.route)) + 1]

\* _load_active_block, _load_current_policy and _active_block: the file is
\* looked for, then opened; FileNotFoundError is not a PolicyYamlError.
ReadExists ==
    /\ Reading("exists")
    /\ req' = IF policy = 0
              THEN [req EXCEPT !.step = @ + 2, !.block = Floor]
              ELSE Next1(req)

ReadPolicy ==
    /\ Reading("parse")
    /\ req' = IF policy = 0 THEN Fails(req) ELSE [Next1(req) EXCEPT !.block = ActiveBlock(policy)]

ReadTags ==
    /\ Reading("tags")
    /\ req' = [Next1(req) EXCEPT !.cols = tags]

\* _compute_policy_drift, in its two reads.  A sentinel that cannot be read,
\* that is not JSON, or that was written for another file says nothing.
ReadSentinel ==
    /\ Reading("sentinel")
    /\ req' = [Next1(req) EXCEPT !.sent = sentinel]

\* Fault: only a newer file counts as changed.
Drifted_newer(sent, v) ==
    sent.is = "payload" /\ sent.path = "default" /\ v > sent.mtime

Drifted(sent, v) ==
    sent.is = "payload" /\ sent.path = "default" /\ v # sent.mtime

ReadStat ==
    /\ Reading("stat")
    /\ req' = [Next1(req) EXCEPT !.banner = Drifted(req.sent, policy)]

\* has_stale_prompt_version: a description of another prompt version is in
\* the store or not, independently of everything here.
ReadEnriched ==
    /\ Reading("enriched")
    /\ \E stale \in BOOLEAN : req' = [Next1(req) EXCEPT !.stale = stale]

ReadNodes ==
    /\ Reading("nodes")
    /\ req' = [Next1(req) EXCEPT !.drawn = nodes]

ReadEntities ==
    /\ Reading("entities")
    /\ req' = [Next1(req) EXCEPT !.names = entities,
                                 !.left  = IF req.route = "graph" THEN req.drawn ELSE entities]

Refusals == {i \in DOMAIN log : log[i].refused}

\* refusal_counts_by_entity, and the remainder that no drawn node accounts for.
ReadRefusals ==
    /\ Reading("refusals")
    /\ req' = [Next1(req) EXCEPT
          !.tally = [t \in req.drawn |-> Cardinality({i \in Refusals : log[i].anchor = t})],
          !.total = Cardinality({i \in Refusals : log[i].anchor \notin req.drawn})]

\* _pii_level_from_tags over the table's columns; a table no longer indexed
\* has none.
PiiLevel(t) ==
    IF t \notin indexed \/ (tags[t].cats = {} /\ tags[t].sens = "public")
    THEN "none"
    ELSE IF Protected(tags[t]) THEN "catastrophic" ELSE tags[t].sens

\* One table and its tags, in a fixed order.  The graph looks each drawn node up among the
\* entities it read after the nodes: a missing one is a KeyError.
ReadLevel ==
    /\ Reading("levels")
    /\ req.left # {}
    /\ LET t == CHOOSE t \in req.left : TRUE
       IN  req' = IF t \notin req.names
                  THEN Fails(req)
                  ELSE [req EXCEPT !.left = @ \ {t}, !.levels = Append(@, <<t, PiiLevel(t)>>)]

LevelsRead ==
    /\ Reading("levels")
    /\ req.left = {}
    /\ req' = Next1(req)

\* The overview's audit figures come from the log by themselves.
ReadAudit ==
    /\ Reading("audit")
    /\ req' = [Next1(req) EXCEPT !.total = Len(log)]

Respond == Done /\ req' = NoRequest

RequestNext ==
    /\ \/ \E route \in Routes : Request(route)
       \/ ReadExists \/ ReadPolicy \/ ReadTags \/ ReadSentinel \/ ReadStat
       \/ ReadEnriched \/ ReadNodes \/ ReadEntities \/ ReadRefusals
       \/ ReadLevel \/ LevelsRead \/ ReadAudit \/ Respond
    /\ UNCHANGED <<policyVars, log, stream, pager, proof>>

\* The verdict a route prints for a column: the policy view names the block
\* set the column is in, the overview's posture puts the floor first.
Verdict(cats) ==
    LET inPolicy == cats \cap req.block # {}
        inFloor  == cats \cap Floor # {}
    IN  IF req.route = "overview"
        THEN IF inFloor THEN "catastrophic" ELSE IF inPolicy THEN "policy_blocked" ELSE "allowed"
        ELSE IF inPolicy THEN "blocked" ELSE IF inFloor THEN "floor_blocked" ELSE "allowed"

-----------------------------------------------------------------------------
(* The audit log: serve appends, the routes read.                          *)

\* A refused call may name the entity it was about.
AppendRow(refused, anchor) ==
    /\ Len(log) < MaxRows
    /\ anchor = "none" \/ refused
    /\ log' = Append(log, [refused |-> refused, anchor |-> anchor])
    /\ UNCHANGED <<policyVars, readerVars>>

\* GET /api/audit/rows/{id}/proof: does the row exist, its rank, all leaves.
NoProof == [at |-> "none"]

ProofExists(id) ==
    /\ proof = NoProof
    /\ id \in DOMAIN log
    /\ proof' = [at |-> "exists", row |-> id]

Rank(id) == Cardinality({i \in DOMAIN log : i < id})

ProofRank ==
    /\ proof.at = "exists"
    /\ proof' = [at |-> "rank", row |-> proof.row, leaf_index |-> Rank(proof.row)]

\* _audit_leaf_preimages: a row's canonical form, here its id and status.
Leaves == [i \in DOMAIN log |-> <<i, log[i].refused>>]

ProofLeaves ==
    /\ proof.at = "rank"
    /\ proof' = [at         |-> "done",
                 row        |-> proof.row,
                 leaf_index |-> proof.leaf_index,
                 tree_size  |-> Len(log),
                 root       |-> merkle_root(Leaves),
                 leaf_hash  |-> leaf_hash(Leaves[proof.leaf_index + 1]),
                 audit_path |-> inclusion_proof(proof.leaf_index, Leaves)]

ProofReturned == proof.at = "done" /\ proof' = NoProof

ProofNext ==
    /\ (\E id \in 1..MaxRows : ProofExists(id)) \/ ProofRank \/ ProofLeaves \/ ProofReturned
    /\ UNCHANGED <<policyVars, log, req, stream, pager>>

-----------------------------------------------------------------------------
(* GET /api/audit/stream.  batch is what the poll fetched, wire what was   *)
(* sent and not yet received; a dropped connection loses both, and the     *)
(* client comes back with the last id it received as since_id.             *)

NoStream == [since |-> Unread]

Connection(since, got) ==
    [since |-> since, got |-> got, on |-> TRUE, batch |-> <<>>, wire |-> <<>>,
     last_seen |-> since + Len(got)]

StreamOpen(since) ==
    /\ stream = NoStream
    /\ since <= Len(log)
    /\ stream' = Connection(since, <<>>)

Streaming == stream # NoStream /\ stream.on

\* SELECT ... WHERE id > last_seen ORDER BY id ASC LIMIT
NewRows(after) ==
    LET last == IF after + StreamLimit < Len(log) THEN after + StreamLimit ELSE Len(log)
    IN  [i \in 1..(last - after) |-> after + i]

StreamPoll ==
    /\ Streaming
    /\ stream.batch = <<>>
    /\ NewRows(stream.last_seen) # <<>>
    /\ stream' = [stream EXCEPT !.batch = NewRows(stream.last_seen)]

\* Fault: after a row the position jumps to the newest id of the table.
StreamYield_newest ==
    /\ Streaming
    /\ stream.batch # <<>>
    /\ stream' = [stream EXCEPT !.wire = Append(@, Head(stream.batch)),
                                !.last_seen = Len(log),
                                !.batch = Tail(@)]

StreamYield ==
    /\ Streaming
    /\ stream.batch # <<>>
    /\ stream' = [stream EXCEPT !.wire = Append(@, Head(stream.batch)),
                                !.last_seen = Head(stream.batch),
                                !.batch = Tail(@)]

StreamReceive ==
    /\ Streaming
    /\ stream.wire # <<>>
    /\ stream' = [stream EXCEPT !.got = Append(@, Head(stream.wire)), !.wire = Tail(@)]

StreamDrop ==
    /\ Streaming
    /\ stream' = [stream EXCEPT !.on = FALSE, !.batch = <<>>, !.wire = <<>>]

StreamReconnect ==
    /\ stream # NoStream
    /\ ~stream.on
    /\ stream' = Connection(stream.since, stream.got)

StreamNext ==
    /\ \/ \E since \in 0..MaxRows : StreamOpen(since)
       \/ StreamPoll \/ StreamYield \/ StreamReceive \/ StreamDrop \/ StreamReconnect
    /\ UNCHANGED <<policyVars, log, req, pager, proof>>

-----------------------------------------------------------------------------
(* GET /api/audit/rows and /api/audit/refusals: newest first, LIMIT and    *)
(* OFFSET, and the total by a second statement.  The client asks for page  *)
(* after page until it has gone past the total it was last told.           *)

NoPager == [at |-> "none"]

Matching(refusalsOnly, after) ==
    {i \in DOMAIN log : i > after /\ (refusalsOnly => log[i].refused)}

\* The ids of one page: ORDER BY id DESC LIMIT PageLimit OFFSET offset.
PageOf(ids, offset) ==
    {i \in ids : Cardinality({j \in ids : j > i}) \in offset..(offset + PageLimit - 1)}

\* Fault: the status filter is applied to the page instead of to the table.
SelectAuditRows_late(refusalsOnly, after, offset) ==
    {i \in PageOf(Matching(FALSE, after), offset) : refusalsOnly => log[i].refused}

\* _select_audit_rows
SelectAuditRows(refusalsOnly, after, offset) ==
    PageOf(Matching(refusalsOnly, after), offset)

\* there (ghost): the rows that matched when the client began.
PagerOpen(refusalsOnly, after) ==
    /\ pager = NoPager
    /\ after <= Len(log)
    /\ pager' = [at |-> "select", refusals |-> refusalsOnly, after |-> after, offset |-> 0,
                 seen |-> {}, there |-> Matching(refusalsOnly, after)]

PagerSelect ==
    /\ pager.at = "select"
    /\ pager' = [pager EXCEPT !.at = "count",
          !.seen = @ \cup SelectAuditRows(pager.refusals, pager.after, pager.offset)]

\* _count_audit_rows
PagerCount ==
    /\ pager.at = "count"
    /\ LET total == Cardinality(Matching(pager.refusals, pager.after))
           next  == pager.offset + PageLimit
       IN  pager' = [pager EXCEPT !.at = IF next >= total THEN "done" ELSE "select",
                                  !.offset = next]

PagerClose == pager.at = "done" /\ pager' = NoPager

PagerNext ==
    /\ \/ \E refusalsOnly \in BOOLEAN, after \in 0..MaxRows : PagerOpen(refusalsOnly, after)
       \/ PagerSelect \/ PagerCount \/ PagerClose
    /\ UNCHANGED <<policyVars, log, req, stream, proof>>

-----------------------------------------------------------------------------
\* An edit of the policy file under a request is remembered by it.
EditFile ==
    /\ FileNext
    /\ req' = IF req = NoRequest THEN req ELSE [req EXCEPT !.steady = FALSE]
    /\ UNCHANGED <<log, stream, pager, proof>>

Others == (ServeNext \/ PolicyNext \/ StoreNext) /\ UNCHANGED <<log, readerVars>>

Init ==
    /\ saved \in {<<>>} \cup {<<d>> : d \in Docs}
    /\ policy = Len(saved)
    /\ sentinel = NoSentinel
    /\ serve = [s \in Serves |-> Down]
    /\ tags = Classified
    /\ indexed = Tables
    /\ entities = Tables
    /\ nodes = Tables
    /\ cmd = [p \in Terminals |-> Idle]
    /\ req = NoRequest
    /\ log = <<>>
    /\ stream = NoStream
    /\ pager = NoPager
    /\ proof = NoProof

Next ==
    \/ EditFile \/ Others
    \/ \E refused \in BOOLEAN, anchor \in Tables \cup {"none"} : AppendRow(refused, anchor)
    \/ RequestNext \/ ProofNext \/ StreamNext \/ PagerNext

Spec == Init /\ [][Next]_vars

-----------------------------------------------------------------------------
\* What the dashboard shows is what the firewall does: when a policy or an
\* overview answer carries no restart banner, found the whole sentinel of
\* a serve on the default file that read the version it recorded, and the
\* file did not change while the request ran, the columns it does not call
\* allowed are exactly those that serve refuses.  Saves, removals and
\* older files moved back between the boot and the request must all raise
\* the banner (or not matter).
VerdictsAreEnforced ==
    Done /\ req.status = 200 /\ req.route \in {"policy", "overview"}
    /\ req.steady /\ ~req.banner /\ req.sent.is = "payload"
       => (req.sent.path = "default" /\ req.sent.clean
             => \A t \in DOMAIN req.cols :
                   Verdict(req.cols[t].cats) # "allowed"
                      <=> req.cols[t].cats \cap req.sent.block # {})

\* An inclusion proof proves the row that was asked for and no other place:
\* with rows appended between the three reads of the route, the returned
\* path leads from that row's leaf to the returned root at the returned
\* index, and at no other index of a tree of that size.
ProofVerifies ==
    proof.at = "done" =>
       /\ proof.leaf_hash = leaf_hash(Leaves[proof.row])
       /\ \A i \in 0..proof.tree_size :
             verify_inclusion(i, proof.tree_size, proof.leaf_hash, proof.audit_path, proof.root)
                <=> i = proof.leaf_index

\* The live feed drops and repeats nothing: over polls of limited size, rows
\* appended at any moment and connections lost with rows on the wire, the
\* client holds every id after its first since_id, once and in order.
StreamIsGapless ==
    stream # NoStream =>
       stream.got = [i \in 1..Len(stream.got) |-> stream.since + i]

\* Paging by offset over a log that grows at the front, with a total read
\* after the page, still ends with every row that was there at the start.
PagesMissNothing == pager.at = "done" => pager.there \subseteq pager.seen
=============================================================================
