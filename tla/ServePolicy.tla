---------------------------- MODULE ServePolicy ----------------------------
(***************************************************************************)
(* The PII policy as three kinds of process see it: the operator, who      *)
(* edits pii_policy.yaml and runs the `policy` commands; `schemabrain      *)
(* serve`, which resolves its block set from that file at startup and      *)
(* leaves a sentinel with the file's mtime; and `schemabrain index`, which *)
(* writes the heuristic tags.  Sidecar.tla adds the dashboard that reads   *)
(* what they leave.                                                        *)
(*                                                                         *)
(* A version of the file stands for its contents and its mtime: versions   *)
(* are more than a millisecond apart, and moving an older file back        *)
(* restores its mtime with its contents.  Each table has one column whose  *)
(* tag matters, so tags are kept by table.                                 *)
(***************************************************************************)
EXTENDS Integers, Sequences, FiniteSets

CONSTANTS
    Serves,         \* serve processes
    Terminals,      \* where an operator runs `policy` commands
    Tables,         \* tables of the one indexed source
    Categories,     \* PII categories
    Floor,          \* CATASTROPHIC_LEAK_CATEGORIES
    Docs,           \* what the operator may save: [ok, block, overrides]
    FlagBlocks,     \* --pii-block values, {} for the explicit empty one
    OtherBlock,     \* the block set of a policy file at another path
    Overrides,      \* arguments of `policy tag override`: [table, sens, cats]
    Classified,     \* Tables -> the tag the classifier gives, or NoTag
    MaxSaves        \* bound: versions of the policy file

Sensitivities == {"public", "internal", "confidential", "pii"}

Tags == [sens : Sensitivities, cats : SUBSET Categories,
         origin : {"none", "heuristic", "operator"}]

\* A ColumnOverride of the file or of the command line.
TagWrites == [table : Tables, sens : Sensitivities, cats : SUBSET Categories]

\* Only the policy commands write an operator's row; a document that does not
\* parse has nothing in it.
ASSUME PolicyAssumption ==
    /\ Floor \subseteq Categories
    /\ \A b \in FlagBlocks : b \subseteq Categories
    /\ OtherBlock \subseteq Categories
    /\ Docs \subseteq [ok : BOOLEAN, block : SUBSET Categories, overrides : Seq(TagWrites)]
    /\ Overrides \subseteq TagWrites
    /\ Classified \in [Tables -> Tags]
    /\ \A t \in Tables : Classified[t].origin # "operator"
    /\ MaxSaves \in Nat

VARIABLES
    saved,          \* every version of the default policy file
    policy,         \* the version in place, 0 when there is no file
    sentinel,       \* schemabrain/.serve_policy_mtime
    serve,          \* startup of each serve process
    tags,           \* column_pii_tags
    indexed,        \* tables in the store
    entities,       \* entities, named by the table they bind
    nodes,          \* graph_nodes of the last projection
    cmd             \* the policy command each terminal is running

fileVars  == <<saved, policy>>
serveVars == <<sentinel, serve>>
storeVars == <<tags, indexed, entities, nodes>>
policyVars == <<fileVars, serveVars, storeVars, cmd>>

NoTag == [sens |-> "public", cats |-> {}, origin |-> "none"]

Protected(tag) == tag.cats \cap Floor # {}

-----------------------------------------------------------------------------
(* The policy file.                                                        *)

\* What the grammar's checks say of a version: keys, version, block, overrides.
WellFormed(v) == saved[v].ok

\* `block:` as every reader resolves it: a missing or malformed file means
\* the catastrophic floor.
ActiveBlock(v) ==
    IF v # 0 /\ WellFormed(v) THEN saved[v].block ELSE Floor

Save(d) ==
    /\ Len(saved) < MaxSaves
    /\ saved' = Append(saved, d)
    /\ policy' = Len(saved')

Restore(v) ==
    /\ v \in 1..Len(saved) \ {policy}
    /\ policy' = v
    /\ UNCHANGED saved

RemoveFile ==
    /\ policy # 0
    /\ policy' = 0
    /\ UNCHANGED saved

FileNext ==
    /\ (\E d \in Docs : Save(d)) \/ (\E v \in 1..MaxSaves : Restore(v)) \/ RemoveFile
    /\ UNCHANGED <<serveVars, storeVars, cmd>>

-----------------------------------------------------------------------------
(* `schemabrain serve`: the block set is resolved, then the sentinel is    *)
(* written, then the source, the engine and the store are opened.  `read`  *)
(* is the version the block set came from and `stat` the version whose     *)
(* mtime goes into the sentinel; what a serve enforces afterwards stays    *)
(* with the sentinel, as a ghost.                                          *)

NoSentinel == [is |-> "none"]
Truncated  == [is |-> "empty"]
Garbled    == [is |-> "garbled"]

Unread == -1

Down == [at |-> "down", path |-> "default", read |-> Unread, stat |-> 0, block |-> {}]

At(s, step) == serve[s].at = step

\* --pii-block given: the file is not read.
BootWithFlag(s, block) ==
    /\ At(s, "down")
    /\ serve' = [serve EXCEPT ![s] = [Down EXCEPT !.at = "flagged", !.block = block]]
    /\ UNCHANGED sentinel

\* No flag.  An empty --policy-path is not read at all, and a file at
\* another path is not the one the dashboard shows.
BootWithPath(s, path) ==
    /\ At(s, "down")
    /\ serve' = [serve EXCEPT ![s] =
          [Down EXCEPT !.path  = IF path = "other" THEN "other" ELSE "default",
                       !.at    = IF path = "default" /\ policy # 0 THEN "exists" ELSE "loaded",
                       !.read  = IF path = "default" /\ policy = 0 THEN 0 ELSE Unread,
                       !.block = IF path = "other" THEN OtherBlock \cup Floor ELSE Floor]]
    /\ UNCHANGED sentinel

\* _try_load_policy_yaml_block after path.exists(): a file removed in
\* between raises FileNotFoundError, which nothing catches.
LoadBlock(s) ==
    /\ At(s, "exists")
    /\ serve' = [serve EXCEPT ![s] =
          IF policy = 0
          THEN Down
          ELSE [@ EXCEPT !.at = "loaded", !.read = policy, !.block = ActiveBlock(policy) \cup Floor]]
    /\ UNCHANGED sentinel

\* _record_serve_policy_mtime: stat, truncate, write; an OSError ends the
\* recording where it stands and serve goes on.
StatPolicy(s) ==
    /\ At(s, "loaded")
    /\ serve' = [serve EXCEPT ![s] =
          [@ EXCEPT !.at = "stated", !.stat = IF serve[s].path = "other" THEN 0 ELSE policy]]
    /\ UNCHANGED sentinel

TruncateSentinel(s) ==
    /\ At(s, "stated")
    /\ serve' = [serve EXCEPT ![s].at = "truncated"]
    /\ sentinel' = Truncated

Payload(s) ==
    [is    |-> "payload",
     path  |-> serve[s].path,
     mtime |-> serve[s].stat,
     block |-> serve[s].block,                      \* ghost: what its writer enforces
     clean |-> serve[s].read = serve[s].stat]       \* ghost: the file did not change between

\* Two serves starting together write the same file from its start: a
\* shorter payload over a longer one leaves the tail of the other.
WriteSentinel(s) ==
    /\ At(s, "truncated")
    /\ serve' = [serve EXCEPT ![s] = [Down EXCEPT !.at = "recorded"]]
    /\ sentinel' \in {Payload(s)} \cup IF sentinel.is \in {"payload", "garbled"}
                                       THEN {Garbled} ELSE {}

RecordFails(s) ==
    /\ serve[s].at \in {"loaded", "stated", "truncated"}
    /\ serve' = [serve EXCEPT ![s] = [Down EXCEPT !.at = "recorded"]]
    /\ UNCHANGED sentinel

DeleteSentinel(s) ==
    /\ At(s, "flagged")
    /\ serve' = [serve EXCEPT ![s] = [Down EXCEPT !.at = "recorded"]]
    /\ sentinel' \in {NoSentinel, sentinel}

\* run_stdio, or one of the exits on the way to it: the sentinel is already
\* there in both cases.
Run(s) ==
    /\ At(s, "recorded")
    /\ \E at \in {"up", "down"} :
          serve' = [serve EXCEPT ![s] = [Down EXCEPT !.at = at]]
    /\ UNCHANGED sentinel

Stop(s) ==
    /\ At(s, "up")
    /\ serve' = [serve EXCEPT ![s] = Down]
    /\ UNCHANGED sentinel

ServeStep(s) ==
    /\ \/ \E b \in FlagBlocks : BootWithFlag(s, b)
       \/ \E p \in {"default", "other", "empty"} : BootWithPath(s, p)
       \/ LoadBlock(s) \/ StatPolicy(s) \/ TruncateSentinel(s) \/ WriteSentinel(s)
       \/ RecordFails(s) \/ DeleteSentinel(s) \/ Run(s) \/ Stop(s)
    /\ UNCHANGED <<fileVars, storeVars, cmd>>

ServeNext == \E s \in Serves : ServeStep(s)

-----------------------------------------------------------------------------
(* `schemabrain policy`.  A command is a list of tag writes; each write    *)
(* first reads the row it replaces and refuses to drop a floor category,   *)
(* and the write itself is a transaction of its own.  Commands of other    *)
(* terminals, and index, come between the two.                             *)

Idle == [op |-> "none"]

Running(p) == cmd[p] # Idle

\* The store call for the next write on the list.  checked and saw (ghost): its guard
\* has read the row, and what it saw.
Begin(p, op, todo, force) ==
    cmd' = [cmd EXCEPT ![p] =
        [op |-> op, todo |-> todo, force |-> force, checked |-> FALSE, saw |-> NoTag]]

\* policy apply: the overrides are parsed once, from the file as it is now.
PolicyApply(p, force) ==
    /\ ~Running(p)
    /\ policy # 0
    /\ WellFormed(policy)
    /\ saved[policy].overrides # <<>>
    /\ Begin(p, "upsert", saved[policy].overrides, force)
    /\ UNCHANGED tags

PolicyTagOverride(p, o, force) ==
    /\ ~Running(p)
    /\ Begin(p, "upsert", <<o>>, force)
    /\ UNCHANGED tags

PolicyTagClear(p, t, force) ==
    /\ ~Running(p)
    /\ Begin(p, "clear", <<[table |-> t, sens |-> "public", cats |-> {}]>>, force)
    /\ UNCHANGED tags

\* Fault: the guard looks at the operator's rows only.
UpsertRefused_operator(tag, cats) ==
    tag.origin = "operator" /\ Protected(tag) /\ cats \cap Floor = {}

\* upsert_column_pii_tag_override: the new tag would drop the row's last
\* floor category.
UpsertRefused(tag, cats) == Protected(tag) /\ cats \cap Floor = {}

\* delete_column_pii_tag_override: the operator's own row carries one.
DeleteRefused(tag) == tag.origin = "operator" /\ Protected(tag)

\* The guard of either; a refusal ends the command.
CheckDowngrade(p) ==
    /\ Running(p)
    /\ ~cmd[p].checked
    /\ LET o       == Head(cmd[p].todo)
           tag     == tags[o.table]
           refused == IF cmd[p].op = "upsert" THEN UpsertRefused(tag, o.cats) ELSE DeleteRefused(tag)
       IN  cmd' = [cmd EXCEPT ![p] =
                      IF refused /\ ~@.force THEN Idle ELSE [@ EXCEPT !.checked = TRUE, !.saw = tag]]
    /\ UNCHANGED tags

\* ColumnOverride
OperatorTag(o) == [sens |-> o.sens, cats |-> o.cats, origin |-> "operator"]

\* The write, and on to the next override.
WriteOverride(p) ==
    /\ Running(p)
    /\ cmd[p].checked
    /\ LET o == Head(cmd[p].todo)
       IN  tags' = [tags EXCEPT ![o.table] =
                      IF cmd[p].op = "upsert" THEN OperatorTag(o)
                      ELSE IF @.origin = "operator" THEN NoTag ELSE @]
    /\ IF Len(cmd[p].todo) = 1
       THEN cmd' = [cmd EXCEPT ![p] = Idle]
       ELSE Begin(p, cmd[p].op, Tail(cmd[p].todo), cmd[p].force)

PolicyNext ==
    /\ \E p \in Terminals :
          \/ \E force \in BOOLEAN :
                \/ PolicyApply(p, force)
                \/ \E o \in Overrides : PolicyTagOverride(p, o, force)
                \/ \E t \in Tables : PolicyTagClear(p, t, force)
          \/ CheckDowngrade(p)
          \/ WriteOverride(p)
    /\ UNCHANGED <<fileVars, serveVars, indexed, entities, nodes>>

-----------------------------------------------------------------------------
(* `schemabrain index` and the curation commands, as far as the dashboard  *)
(* sees them (Indexer.tla and Curation.tla have the detail): a table, its  *)
(* heuristic tags, its entity and the projection are separate              *)
(* transactions, and a dropped table takes entity and node along.          *)

IndexTable(t) ==
    /\ indexed' = indexed \cup {t}
    /\ UNCHANGED <<tags, entities, nodes>>

DropTable(t) ==
    /\ t \in indexed
    /\ indexed' = indexed \ {t}
    /\ entities' = entities \ {t}
    /\ nodes' = nodes \ {t}
    /\ UNCHANGED tags

WriteTags(t) ==
    /\ tags[t].origin # "operator"
    /\ tags' = [tags EXCEPT ![t] = IF t \in indexed THEN Classified[t] ELSE NoTag]
    /\ UNCHANGED <<indexed, entities, nodes>>

BindEntity(t) ==
    /\ t \in indexed
    /\ entities' = entities \cup {t}
    /\ UNCHANGED <<tags, indexed, nodes>>

RebuildGraph ==
    /\ nodes' = entities
    /\ UNCHANGED <<tags, indexed, entities>>

StoreNext ==
    /\ \/ \E t \in Tables : IndexTable(t) \/ DropTable(t) \/ WriteTags(t) \/ BindEntity(t)
       \/ RebuildGraph
    /\ UNCHANGED <<fileVars, serveVars, cmd>>

-----------------------------------------------------------------------------
\* The types, and the foreign keys: a node has an entity, an entity a table.
PolicyTypeOK ==
    /\ saved \in Seq(Docs) /\ Len(saved) <= MaxSaves
    /\ policy \in 0..Len(saved)
    /\ sentinel.is \in {"none", "empty", "garbled", "payload"}
    /\ \A s \in Serves : serve[s].block \subseteq Categories
    /\ tags \in [Tables -> Tags]
    /\ nodes \subseteq entities /\ entities \subseteq indexed /\ indexed \subseteq Tables

\* The write of a command takes away a row its guard never read: another terminal or
\* index replaced the row in between, and what the guard did read was either
\* unprotected or, for a clear, not an operator's row.
Overtaken(p, t) ==
    /\ cmd[p].saw # tags[t]
    /\ Protected(cmd[p].saw) => cmd[p].op = "clear" /\ cmd[p].saw.origin # "operator"

\* No policy command strips a column of its last catastrophic category unless it was
\* forced or overtaken: across an `apply` of several overrides, across a clear of an
\* override that had itself replaced a heuristic row, with other terminals' commands
\* half way through and with `index` re-tagging in between.
FloorSurvivesCommands ==
    [][\A p \in Terminals, t \in Tables :
          cmd'[p] # cmd[p] /\ Protected(tags[t]) /\ ~Protected(tags'[t])
             => cmd[p].force \/ Overtaken(p, t)]_<<tags, cmd>>
=============================================================================
