--------------------------- MODULE SidecarProofs ---------------------------
(***************************************************************************)
(* Proofs about ServePolicy and Sidecar, for any number of serves, tables, *)
(* policy files, rows and any page and poll size.                          *)
(***************************************************************************)
EXTENDS Sidecar, FiniteSetTheorems, SequenceTheorems, TLAPS

(* The inductive invariant: the policy file and its readers. *)

FilesTyped ==
    /\ saved \in Seq(Docs)
    /\ policy \in 0..Len(saved)

\* A version that a serve or a request has met is still what it was.
Enforces(block, v) == v \in 0..Len(saved) /\ block = ActiveBlock(v) \cup Floor

ServeFields == {"at", "path", "read", "stat", "block"}

\* The block set of a serve on the default file is the one of the version it
\* read; a serve that read no version knows that.
ServeOK(r) ==
    /\ DOMAIN r = ServeFields
    /\ r.at \in {"loaded", "stated", "truncated"} /\ r.read # Unread => Enforces(r.block, r.read)
    /\ r.at \in {"stated", "truncated"} => r.stat \in 0..Len(saved)
    /\ r.at = "exists" => r.read = Unread

ServeInv ==
    /\ serve = [s \in Serves |-> serve[s]]
    /\ \A s \in Serves : ServeOK(serve[s])

\* A whole sentinel whose writer read the version it recorded.
Faithful(sent) ==
    sent.is = "payload" /\ sent.clean => Enforces(sent.block, sent.mtime)

ReqFields == {"route", "step", "status", "steady", "block", "cols", "sent", "banner",
              "stale", "names", "drawn", "left", "levels", "tally", "total"}

PolicyViews == {"policy", "overview"}

\* Where the two policy views read the sentinel; they stat the file next.
SentinelStep(route) == IF route = "policy" THEN 4 ELSE 7

\* What a policy view has established so far.
ViewInv(r) ==
    r.route \in PolicyViews /\ r.status = 200 =>
       /\ r.step > 2 /\ r.steady => r.block = ActiveBlock(policy)
       /\ r.step > SentinelStep(r.route) => Faithful(r.sent)
       /\ r.step > SentinelStep(r.route) + 1 /\ r.steady => r.banner = Drifted(r.sent, policy)

ReqInv ==
    \/ req = NoRequest
    \/ /\ DOMAIN req = ReqFields
       /\ req.route \in Routes
       /\ req.step \in Nat \ {0}
       /\ ViewInv(req)

(* The policy commands and the tags they write. *)

CmdFields == {"op", "todo", "force", "checked", "saw"}

\* What the guard let through: the row it saw may lose what the write takes.
GuardHeld(c) ==
    ~c.force => IF c.op = "upsert" THEN ~UpsertRefused(c.saw, Head(c.todo).cats)
                                   ELSE ~DeleteRefused(c.saw)

CommandOK(c) ==
    \/ c = Idle
    \/ /\ DOMAIN c = CmdFields
       /\ c.op \in {"upsert", "clear"}
       /\ c.todo \in Seq(TagWrites) /\ c.todo # <<>>
       /\ c.force \in BOOLEAN /\ c.checked \in BOOLEAN
       /\ c.checked => GuardHeld(c)

CmdInv ==
    /\ tags \in [Tables -> Tags]
    /\ cmd = [p \in Terminals |-> cmd[p]]
    /\ \A p \in Terminals : CommandOK(cmd[p])

(* The stream and the pager. *)

\* s is the run of ids that follows n.
Follows(s, n) == s = [i \in 1..Len(s) |-> n + i] /\ Len(s) \in Nat

StreamFields == {"since", "got", "on", "batch", "wire", "last_seen"}

\* Received, on the wire and fetched are one run of ids after since.
StreamInv ==
    \/ stream = NoStream
    \/ /\ DOMAIN stream = StreamFields
       /\ stream.since \in Nat
       /\ Follows(stream.got, stream.since)
       /\ stream.on =>
             /\ Follows(stream.wire, stream.since + Len(stream.got))
             /\ stream.last_seen = stream.since + Len(stream.got) + Len(stream.wire)
             /\ Follows(stream.batch, stream.last_seen)

LogTyped == log \in Seq([refused : BOOLEAN, anchor : Tables \cup {"none"}])

PagerFields == {"at", "refusals", "after", "offset", "seen", "there"}

\* How many rows of the answer come before row i, newest first.
Before(refusalsOnly, after, i) == Cardinality({j \in Matching(refusalsOnly, after) : j > i})

\* The first offset no page has been asked for yet.
Asked == IF pager.at = "count" THEN pager.offset + PageLimit ELSE pager.offset

PagerInv ==
    \/ pager = NoPager
    \/ /\ DOMAIN pager = PagerFields
       /\ pager.at \in {"select", "count", "done"}
       /\ pager.offset \in Nat
       /\ pager.there \subseteq Matching(pager.refusals, pager.after)
       /\ \A i \in pager.there \ pager.seen :
             /\ Before(pager.refusals, pager.after, i) >= Asked
             /\ pager.at # "done"

PolicyInv == FilesTyped /\ ServeInv /\ Faithful(sentinel) /\ ReqInv
ReaderInv == LogTyped /\ StreamInv /\ PagerInv

IInv == PolicyInv /\ CmdInv /\ ReaderInv

-----------------------------------------------------------------------------
(* The policy file, the serves and the policy views. *)

\* A save adds a version and changes none: what was established of a version
\* stays true of it.
LEMMA SavedKeeps ==
    ASSUME saved \in Seq(Docs),
           saved' = saved \/ \E d \in Docs : saved' = Append(saved, d)
    PROVE  /\ saved' \in Seq(Docs)
           /\ \A v \in 0..Len(saved) : v \in 0..Len(saved') /\ ActiveBlock(v)' = ActiveBlock(v)
           /\ \A b, v : Enforces(b, v) => Enforces(b, v)'
           /\ \A sent : Faithful(sent) => Faithful(sent)'
           /\ \A r : ServeOK(r) => ServeOK(r)'
<1>1. saved' \in Seq(Docs) /\ Len(saved) \in Nat /\ Len(saved') \in Nat /\ Len(saved') >= Len(saved)
  OBVIOUS
<1>2. ASSUME NEW v \in 0..Len(saved)
      PROVE  v \in 0..Len(saved') /\ ActiveBlock(v)' = ActiveBlock(v)
  <2>1. v \in 0..Len(saved')
    BY <1>1
  <2>2. v # 0 => saved'[v] = saved[v]
    BY <1>1
  <2>3. QED
    BY <2>1, <2>2 DEF ActiveBlock, WellFormed
<1>3. ASSUME NEW b, NEW v, Enforces(b, v)
      PROVE  Enforces(b, v)'
  BY <1>2, <1>3 DEF Enforces
<1>4. ASSUME NEW sent, Faithful(sent)
      PROVE  Faithful(sent)'
  BY <1>3, <1>4 DEF Faithful
<1>5. ASSUME NEW r, ServeOK(r)
      PROVE  ServeOK(r)'
  BY <1>1, <1>2, <1>3, <1>5 DEF ServeOK
<1>6. QED
  BY <1>1, <1>2, <1>3, <1>4, <1>5

\* One serve moves.
LEMMA ServeMoves ==
    ASSUME ServeInv, NEW s \in Serves, NEW r,
           serve' = [serve EXCEPT ![s] = r], UNCHANGED saved, ServeOK(r)
    PROVE  ServeInv'
<1>1. \A q : ServeOK(q) => ServeOK(q)'
  BY DEF ServeOK, Enforces, ActiveBlock, WellFormed
<1>2. serve' = [q \in Serves |-> IF q = s THEN r ELSE serve[q]]
  BY DEF ServeInv
<1>3. QED
  BY <1>1, <1>2 DEF ServeInv

LEMMA ServeKeepsPolicy ==
    ASSUME PolicyInv, NEW s \in Serves, ServeStep(s), UNCHANGED req
    PROVE  PolicyInv'
<1>u. /\ UNCHANGED <<saved, policy>>
      /\ \A b, v : Enforces(b, v) => Enforces(b, v)'
      /\ \A sent : Faithful(sent) => Faithful(sent)'
  BY DEF ServeStep, fileVars, Enforces, ActiveBlock, WellFormed, Faithful
<1>1. FilesTyped'
  BY <1>u DEF PolicyInv, FilesTyped
<1>2. ReqInv'
  BY <1>u DEF PolicyInv, ReqInv, ViewInv, ActiveBlock, WellFormed
<1>3. ServeOK(serve[s]) /\ ServeInv /\ Faithful(sentinel) /\ policy \in 0..Len(saved)
  BY DEF PolicyInv, ServeInv, FilesTyped
<1>4. \A at \in {"recorded", "up", "down"} : ServeOK([Down EXCEPT !.at = at])
  BY DEF ServeOK, Down, ServeFields
<1>5. Down.at = "down" /\ ServeOK(Down)
  BY DEF ServeOK, Down, ServeFields
<1>6. ServeInv' /\ Faithful(sentinel)'
  <2>1. ASSUME NEW b \in FlagBlocks, BootWithFlag(s, b) PROVE ServeInv' /\ Faithful(sentinel)'
    <3>1. ServeOK([Down EXCEPT !.at = "flagged", !.block = b])
      BY DEF ServeOK, Down, ServeFields
    <3>2. QED
      BY <1>u, <1>3, <2>1, <3>1, ServeMoves DEF BootWithFlag
  <2>2. ASSUME NEW p \in {"default", "other", "empty"}, BootWithPath(s, p)
        PROVE  ServeInv' /\ Faithful(sentinel)'
    <3> DEFINE r == [Down EXCEPT !.path  = IF p = "other" THEN "other" ELSE "default",
                       !.at    = IF p = "default" /\ policy # 0 THEN "exists" ELSE "loaded",
                       !.read  = IF p = "default" /\ policy = 0 THEN 0 ELSE Unread,
                       !.block = IF p = "other" THEN OtherBlock \cup Floor ELSE Floor]
    <3>1. /\ DOMAIN r = ServeFields
          /\ r.at = IF p = "default" /\ policy # 0 THEN "exists" ELSE "loaded"
          /\ r.read = IF p = "default" /\ policy = 0 THEN 0 ELSE Unread
          /\ r.block = IF p = "other" THEN OtherBlock \cup Floor ELSE Floor
      BY DEF Down, ServeFields
    <3>2. serve' = [serve EXCEPT ![s] = r]
      BY <2>2 DEF BootWithPath
    <3> HIDE DEF r
    <3>3. Enforces(Floor, 0)
      BY DEF PolicyInv, FilesTyped, Enforces, ActiveBlock
    <3>4. ServeOK(r)
      BY <3>1, <3>3 DEF ServeOK
    <3>5. QED
      BY <1>u, <1>3, <2>2, <3>2, <3>4, ServeMoves DEF BootWithPath
  <2>3. ASSUME LoadBlock(s) PROVE ServeInv' /\ Faithful(sentinel)'
    <3> DEFINE r == [serve[s] EXCEPT !.at = "loaded", !.read = policy,
                                     !.block = ActiveBlock(policy) \cup Floor]
    <3>1. /\ DOMAIN r = ServeFields
          /\ r.at = "loaded" /\ r.read = policy /\ r.block = ActiveBlock(policy) \cup Floor
      BY <1>3 DEF ServeOK, ServeFields
    <3>2. serve' = [serve EXCEPT ![s] = IF policy = 0 THEN Down ELSE r]
      BY <2>3 DEF LoadBlock
    <3> HIDE DEF r
    <3>3. ServeOK(r)
      BY <1>3, <3>1 DEF ServeOK, Enforces
    <3>4. QED
      BY <1>u, <1>3, <1>5, <2>3, <3>2, <3>3, ServeMoves DEF LoadBlock
  <2>4. ASSUME StatPolicy(s) PROVE ServeInv' /\ Faithful(sentinel)'
    <3> DEFINE r == [serve[s] EXCEPT !.at = "stated",
                                     !.stat = IF serve[s].path = "other" THEN 0 ELSE policy]
    <3>1. /\ DOMAIN r = ServeFields
          /\ r.at = "stated" /\ r.read = serve[s].read /\ r.block = serve[s].block
          /\ r.stat \in 0..Len(saved)
      BY <1>3 DEF ServeOK, ServeFields
    <3>2. serve' = [serve EXCEPT ![s] = r]
      BY <2>4 DEF StatPolicy
    <3> HIDE DEF r
    <3>3. ServeOK(r)
      BY <1>3, <2>4, <3>1 DEF ServeOK, StatPolicy, At
    <3>4. QED
      BY <1>u, <1>3, <2>4, <3>2, <3>3, ServeMoves DEF StatPolicy
  <2>5. ASSUME TruncateSentinel(s) PROVE ServeInv' /\ Faithful(sentinel)'
    <3> DEFINE r == [serve[s] EXCEPT !.at = "truncated"]
    <3>1. /\ DOMAIN r = ServeFields /\ r.at = "truncated"
          /\ r.read = serve[s].read /\ r.block = serve[s].block /\ r.stat = serve[s].stat
      BY <1>3 DEF ServeOK, ServeFields
    <3>2. serve' = [serve EXCEPT ![s] = r]
      BY <2>5 DEF TruncateSentinel
    <3> HIDE DEF r
    <3>3. ServeOK(r)
      BY <1>3, <2>5, <3>1 DEF ServeOK, TruncateSentinel, At
    <3>4. Faithful(sentinel)'
      BY <2>5 DEF TruncateSentinel, Faithful, Truncated
    <3>5. QED
      BY <1>u, <1>3, <3>2, <3>3, <3>4, ServeMoves
  <2>6. ASSUME WriteSentinel(s) PROVE ServeInv' /\ Faithful(sentinel)'
    <3>1. Faithful(Payload(s))
      <4> DEFINE d == Payload(s)
      <4>1. d.clean = (serve[s].read = serve[s].stat) /\ d.block = serve[s].block
            /\ d.mtime = serve[s].stat
        BY DEF Payload
      <4> HIDE DEF d
      <4>2. serve[s].at = "truncated" /\ serve[s].stat \in 0..Len(saved)
        BY <1>3, <2>6 DEF WriteSentinel, At, ServeOK
      <4>3. serve[s].read = serve[s].stat => Enforces(serve[s].block, serve[s].stat)
        BY <1>3, <4>2 DEF ServeOK, Unread
      <4>4. Faithful(d)
        BY <4>1, <4>3 DEF Faithful
      <4>5. QED
        BY <4>4 DEF d
    <3>2. Faithful(Garbled)
      BY DEF Faithful, Garbled
    <3>3. sentinel' \in {Payload(s), Garbled}
      BY <2>6 DEF WriteSentinel
    <3>4. QED
      BY <1>u, <1>3, <1>4, <2>6, <3>1, <3>2, <3>3, ServeMoves DEF WriteSentinel
  <2>7. CASE RecordFails(s)
    BY <1>u, <1>3, <1>4, <2>7, ServeMoves DEF RecordFails
  <2>8. ASSUME DeleteSentinel(s) PROVE ServeInv' /\ Faithful(sentinel)'
    <3>1. Faithful(NoSentinel)
      BY DEF Faithful, NoSentinel
    <3>2. QED
      BY <1>u, <1>3, <1>4, <2>8, <3>1, ServeMoves DEF DeleteSentinel
  <2>9. CASE Run(s)
    BY <1>u, <1>3, <1>4, <2>9, ServeMoves DEF Run
  <2>10. CASE Stop(s)
    BY <1>u, <1>3, <1>5, <2>10, ServeMoves DEF Stop
  <2>11. QED
    BY <2>1, <2>2, <2>3, <2>4, <2>5, <2>6, <2>7, <2>8, <2>9, <2>10 DEF ServeStep
<1>7. QED
  BY <1>1, <1>2, <1>6 DEF PolicyInv

LEMMA EditKeepsPolicy ==
    ASSUME PolicyInv, EditFile
    PROVE  PolicyInv'
<1>1. saved' = saved \/ \E d \in Docs : saved' = Append(saved, d)
  BY DEF EditFile, FileNext, Save, Restore, RemoveFile
<1>2. saved \in Seq(Docs)
  BY DEF PolicyInv, FilesTyped
<1>3. /\ saved' \in Seq(Docs)
      /\ \A sent : Faithful(sent) => Faithful(sent)'
      /\ \A r : ServeOK(r) => ServeOK(r)'
  BY <1>1, <1>2, SavedKeeps
<1>4. policy' \in 0..Len(saved')
  <2>1. ASSUME NEW d \in Docs, Save(d) PROVE policy' \in 0..Len(saved')
    BY <1>3, <2>1 DEF Save
  <2>2. ASSUME NEW v \in 1..MaxSaves, Restore(v) PROVE policy' \in 0..Len(saved')
    BY <1>3, <2>2 DEF Restore
  <2>3. CASE RemoveFile
    BY <1>3, <2>3 DEF RemoveFile
  <2>4. QED
    BY <2>1, <2>2, <2>3 DEF EditFile, FileNext
<1>5. ServeInv' /\ Faithful(sentinel)'
  BY <1>3 DEF PolicyInv, ServeInv, EditFile, FileNext, serveVars
<1>6. ReqInv'
  <2>1. CASE req = NoRequest
    BY <2>1 DEF EditFile, ReqInv
  <2>2. ASSUME req # NoRequest PROVE ReqInv'
    <3>0. PICK r : r = [req EXCEPT !.steady = FALSE]
      OBVIOUS
    <3>1. DOMAIN req = ReqFields /\ req.route \in Routes /\ req.step \in Nat \ {0} /\ ViewInv(req)
      BY <2>2 DEF PolicyInv, ReqInv
    <3>2. /\ DOMAIN r = ReqFields /\ r.route = req.route /\ r.step = req.step
          /\ r.status = req.status /\ r.sent = req.sent /\ r.steady = FALSE
      BY <3>0, <3>1 DEF ReqFields
    <3>3. req' = r
      BY <2>2, <3>0 DEF EditFile
    <3>4. ViewInv(r)'
      <4>1. r.step > SentinelStep(r.route) /\ r.route \in PolicyViews /\ r.status = 200
               => Faithful(r.sent)
        BY <3>1, <3>2 DEF ViewInv
      <4>2. QED
        BY <1>3, <3>2, <4>1 DEF ViewInv
    <3>5. QED
      BY <3>1, <3>2, <3>3, <3>4 DEF ReqInv, ViewInv
  <2>3. QED
    BY <2>1, <2>2
<1>7. QED
  BY <1>3, <1>4, <1>5, <1>6 DEF PolicyInv, FilesTyped

\* The places of a policy view's program that read the policy.
LEMMA ViewPrograms ==
    ASSUME NEW r \in PolicyViews, NEW i \in Nat \ {0}, i <= Len(Program(r))
    PROVE  /\ (Program(r)[i] = "exists") <=> (i = 1)
           /\ (Program(r)[i] = "parse") <=> (i = 2)
           /\ (Program(r)[i] = "sentinel") <=> (i = SentinelStep(r))
           /\ (Program(r)[i] = "stat") <=> (i = SentinelStep(r) + 1)
           /\ Len(Program(r)) > SentinelStep(r)
<1>1. CASE r = "policy"
  <2>1. Program(r) = PolicyRoute
    BY <1>1 DEF Program
  <2>2. Len(PolicyRoute) = 5
    BY DEF PolicyRoute
  <2>3. i \in {1, 2, 3, 4, 5}
    BY <2>1, <2>2
  <2>4. QED
    BY <1>1, <2>1, <2>2, <2>3 DEF PolicyRoute, SentinelStep
<1>2. CASE r = "overview"
  <2>1. Program(r) = OverviewRoute
    BY <1>2 DEF Program
  <2>2. Len(OverviewRoute) = 9
    BY DEF OverviewRoute
  <2>3. i \in {1, 2, 3, 4, 5, 6, 7, 8, 9}
    BY <2>1, <2>2
  <2>4. QED
    BY <1>2, <2>1, <2>2, <2>3, SMTT(30) DEF OverviewRoute, SentinelStep
<1>3. QED
  BY <1>1, <1>2 DEF PolicyViews

\* A read that is none of the four leaves what the view established alone.
LEMMA OtherRead ==
    ASSUME PolicyInv, req # NoRequest, ~Done, NEW r,
           Program(req.route)[req.step] \notin {"exists", "parse", "sentinel", "stat"},
           req' = r, UNCHANGED <<saved, policy>>, DOMAIN r = ReqFields,
           \/ r.step \in {req.step, req.step + 1} /\ r.status = req.status
           \/ r.status = 500 /\ r.step \in Nat \ {0},
           r.route = req.route, r.steady = req.steady, r.block = req.block, r.sent = req.sent,
           r.banner = req.banner
    PROVE  ReqInv'
<1>1. req.route \in Routes /\ req.step \in Nat \ {0} /\ ViewInv(req)
  BY DEF PolicyInv, ReqInv
<1>2. \A v : ActiveBlock(v)' = ActiveBlock(v)
  BY DEF ActiveBlock, WellFormed
<1>3. \A sent : Faithful(sent) => Faithful(sent)'
  BY DEF Faithful, Enforces, ActiveBlock, WellFormed
<1>4. r.step \in Nat \ {0}
  BY <1>1
<1>5. ASSUME r.route \in PolicyViews, r.status = 200
      PROVE  /\ r.step > 2 => req.step > 2
             /\ r.step > SentinelStep(r.route) => req.step > SentinelStep(r.route)
             /\ r.step > SentinelStep(r.route) + 1 => req.step > SentinelStep(r.route) + 1
  <2>0. req.step <= Len(Program(req.route))
    <3>1. Len(Program(req.route)) \in Nat
      BY <1>5 DEF Program, PolicyRoute, OverviewRoute, PolicyViews
    <3>2. QED
      BY <1>1, <3>1 DEF Done
  <2>1. req.step # 2 /\ req.step # SentinelStep(r.route) /\ req.step # SentinelStep(r.route) + 1
    BY <1>1, <1>5, <2>0, ViewPrograms
  <2>2. SentinelStep(r.route) \in Nat
    BY DEF SentinelStep
  <2>3. QED
    BY <1>1, <1>5, <2>1, <2>2
<1>6. ViewInv(r)'
  BY <1>1, <1>2, <1>3, <1>5 DEF ViewInv
<1>7. QED
  BY <1>1, <1>4, <1>6 DEF ReqInv, ViewInv

LEMMA RequestKeepsPolicy ==
    ASSUME PolicyInv, RequestNext
    PROVE  PolicyInv'
<1>u. /\ UNCHANGED <<saved, policy, sentinel, serve>>
      /\ \A v : ActiveBlock(v)' = ActiveBlock(v)
      /\ \A sent : Faithful(sent) => Faithful(sent)'
      /\ \A q : ServeOK(q) => ServeOK(q)'
  BY DEF RequestNext, policyVars, fileVars, serveVars, ActiveBlock, WellFormed, Faithful, Enforces,
         ServeOK
<1>1. FilesTyped' /\ ServeInv' /\ Faithful(sentinel)'
  BY <1>u DEF PolicyInv, FilesTyped, ServeInv
<1>2. ReqInv'
  <2>r. PICK r : r = req'
    OBVIOUS
  <2>1. ASSUME NEW route \in Routes, Request(route) PROVE ReqInv'
    <3>1. DOMAIN r = ReqFields /\ r.route = route /\ r.step = 1
      BY <2>r, <2>1 DEF Request, ReqFields
    <3>2. ViewInv(r)'
      BY <3>1 DEF ViewInv, SentinelStep
    <3>3. QED
      BY <2>r, <3>1, <3>2 DEF ReqInv, ViewInv
  <2>2. CASE Respond
    BY <2>2 DEF Respond, ReqInv
  <2>3. ASSUME req # NoRequest, ~Done PROVE ReqInv'
    <3>1. /\ DOMAIN req = ReqFields /\ req.route \in Routes /\ req.step \in Nat \ {0}
          /\ ViewInv(req)
      BY <2>3 DEF PolicyInv, ReqInv
    <3>2. Len(Program(req.route)) \in Nat \ {0}
      BY <3>1 DEF Program, Routes, PolicyRoute, PreviewRoute, DriftRoute, OverviewRoute, GraphRoute,
                  EntitiesRoute, PiiMatrixRoute, PolicyShow, PolicyTagList
    <3>3. req.step <= Len(Program(req.route))
      BY <2>3, <3>1, <3>2 DEF Done
    <3>s. SentinelStep(req.route) \in {4, 7}
      BY DEF SentinelStep
    <3> DEFINE Kept == /\ DOMAIN r = ReqFields /\ r.route = req.route /\ r.steady = req.steady
                       /\ r.block = req.block /\ r.sent = req.sent /\ r.banner = req.banner
               Onward == r.step = req.step + 1 /\ r.status = req.status
               Quits == r.status = 500 /\ r.step \in Nat \ {0}
               Other == Program(req.route)[req.step] \notin {"exists", "parse", "sentinel", "stat"}
    <3>4. CASE ReadExists
      <4>1. CASE policy = 0
        <5>1. /\ DOMAIN r = ReqFields /\ r.route = req.route /\ r.step = req.step + 2
              /\ r.block = Floor
          BY <2>r, <3>1, <3>4, <4>1 DEF ReadExists, ReqFields
        <5>2. r.route \in PolicyViews => req.step = 1
          BY <3>1, <3>3, <3>4, <5>1, ViewPrograms DEF ReadExists, Reading
        <5>3. r.route \in PolicyViews => r.block = ActiveBlock(policy) /\ r.step = 3
          BY <4>1, <5>1, <5>2 DEF ActiveBlock
        <5>4. ViewInv(r)'
          BY <1>u, <3>s, <5>1, <5>3 DEF ViewInv
        <5>5. QED
          BY <2>r, <3>1, <5>1, <5>4 DEF ReqInv, ViewInv
      <4>2. CASE policy # 0
        <5>1. DOMAIN r = ReqFields /\ r.route = req.route /\ r.step = req.step + 1
          BY <2>r, <3>1, <3>4, <4>2 DEF ReadExists, Next1, ReqFields
        <5>2. r.route \in PolicyViews => r.step = 2
          BY <3>1, <3>3, <3>4, <5>1, ViewPrograms DEF ReadExists, Reading
        <5>3. ViewInv(r)'
          BY <3>s, <5>1, <5>2 DEF ViewInv
        <5>4. QED
          BY <2>r, <3>1, <5>1, <5>3 DEF ReqInv, ViewInv
      <4>3. QED
        BY <4>1, <4>2
    <3>5. CASE ReadPolicy
      <4>1. CASE policy = 0
        <5>1. /\ DOMAIN r = ReqFields /\ r.route = req.route /\ r.status = 500
              /\ r.step = Len(Program(req.route)) + 1
          BY <2>r, <3>1, <3>5, <4>1 DEF ReadPolicy, Fails, ReqFields
        <5>2. QED
          BY <2>r, <3>1, <3>2, <5>1 DEF ReqInv, ViewInv
      <4>2. CASE policy # 0
        <5>1. /\ DOMAIN r = ReqFields /\ r.route = req.route /\ r.step = req.step + 1
              /\ r.block = ActiveBlock(policy)
          BY <2>r, <3>1, <3>5, <4>2 DEF ReadPolicy, Next1, ReqFields
        <5>2. r.route \in PolicyViews => r.step = 3
          BY <3>1, <3>3, <3>5, <5>1, ViewPrograms DEF ReadPolicy, Reading
        <5>3. ViewInv(r)'
          BY <1>u, <3>s, <5>1, <5>2 DEF ViewInv
        <5>4. QED
          BY <2>r, <3>1, <5>1, <5>3 DEF ReqInv, ViewInv
      <4>3. QED
        BY <4>1, <4>2
    <3>6. CASE ReadSentinel
      <4>1. /\ DOMAIN r = ReqFields /\ r.route = req.route /\ r.step = req.step + 1
            /\ r.block = req.block /\ r.steady = req.steady /\ r.status = req.status
            /\ r.sent = sentinel
        BY <2>r, <3>1, <3>6 DEF ReadSentinel, Next1, ReqFields
      <4>2. r.route \in PolicyViews => r.step = SentinelStep(req.route) + 1
        BY <3>1, <3>3, <3>6, <4>1, ViewPrograms DEF ReadSentinel, Reading
      <4>3. Faithful(r.sent)'
        BY <1>1, <1>u, <4>1
      <4>4. ViewInv(r)'
        BY <1>u, <3>1, <3>s, <4>1, <4>2, <4>3 DEF ViewInv
      <4>5. QED
        BY <2>r, <3>1, <4>1, <4>4 DEF ReqInv, ViewInv
    <3>7. CASE ReadStat
      <4>1. /\ DOMAIN r = ReqFields /\ r.route = req.route /\ r.step = req.step + 1
            /\ r.block = req.block /\ r.steady = req.steady /\ r.status = req.status
            /\ r.sent = req.sent /\ r.banner = Drifted(req.sent, policy)
        BY <2>r, <3>1, <3>7 DEF ReadStat, Next1, ReqFields
      <4>2. r.route \in PolicyViews => r.step = SentinelStep(req.route) + 2
        BY <3>1, <3>3, <3>7, <3>s, <4>1, ViewPrograms DEF ReadStat, Reading
      <4>3. ViewInv(r)'
        BY <1>u, <3>1, <3>s, <4>1, <4>2 DEF ViewInv
      <4>4. QED
        BY <2>r, <3>1, <4>1, <4>3 DEF ReqInv, ViewInv
    <3>8. CASE ReadTags \/ ReadEnriched \/ ReadNodes \/ ReadEntities \/ ReadRefusals
               \/ LevelsRead \/ ReadAudit
      <4>1. Kept /\ Onward
        <5>1. CASE ReadTags BY <2>r, <3>1, <5>1 DEF ReadTags, Next1, ReqFields
        <5>2. CASE ReadEnriched BY <2>r, <3>1, <5>2 DEF ReadEnriched, Next1, ReqFields
        <5>3. CASE ReadNodes BY <2>r, <3>1, <5>3 DEF ReadNodes, Next1, ReqFields
        <5>4. CASE ReadEntities BY <2>r, <3>1, <5>4 DEF ReadEntities, Next1, ReqFields
        <5>5. CASE ReadRefusals BY <2>r, <3>1, <5>5 DEF ReadRefusals, Next1, ReqFields
        <5>6. CASE LevelsRead BY <2>r, <3>1, <5>6 DEF LevelsRead, Next1, ReqFields
        <5>7. CASE ReadAudit BY <2>r, <3>1, <5>7 DEF ReadAudit, Next1, ReqFields
        <5>8. QED BY <3>8, <5>1, <5>2, <5>3, <5>4, <5>5, <5>6, <5>7
      <4>2. Other
        BY <3>8 DEF ReadTags, ReadEnriched, ReadNodes, ReadEntities, ReadRefusals, LevelsRead,
                    ReadAudit, Reading
      <4>3. QED
        BY <1>u, <2>3, <2>r, <4>1, <4>2, OtherRead
    <3>9. CASE ReadLevel
      <4>1. Kept /\ (Quits \/ (r.step = req.step /\ r.status = req.status))
        <5> DEFINE t == CHOOSE t \in req.left : TRUE
                   l == <<t, PiiLevel(t)>>
        <5>1. r = IF t \notin req.names THEN Fails(req)
                  ELSE [req EXCEPT !.left = req.left \ {t}, !.levels = Append(req.levels, l)]
          BY <2>r, <3>9 DEF ReadLevel
        <5> HIDE DEF t, l
        <5>2. QED
          BY <3>1, <3>2, <5>1 DEF Fails, ReqFields
      <4>2. Other
        BY <3>9 DEF ReadLevel, Reading
      <4>3. QED
        BY <1>u, <2>3, <2>r, <4>1, <4>2, OtherRead
    <3>10. QED
      BY <2>1, <2>2, <3>4, <3>5, <3>6, <3>7, <3>8, <3>9 DEF RequestNext
  <2>4. req = NoRequest \/ Done => ReqInv'
    BY <2>1, <2>2 DEF RequestNext, ReadExists, ReadPolicy, ReadTags, ReadSentinel, ReadStat,
       ReadEnriched, ReadNodes, ReadEntities, ReadRefusals, ReadLevel, LevelsRead, ReadAudit, Reading
  <2>5. QED
    BY <2>3, <2>4
<1>3. QED
  BY <1>1, <1>2 DEF PolicyInv

-----------------------------------------------------------------------------
(* The policy commands and index. *)

\* A step of one terminal's command leaves the others' as they are.
LEMMA CommandStep ==
    ASSUME CmdInv, tags' \in [Tables -> Tags], NEW p \in Terminals, NEW c,
           CommandOK(c), cmd' = [cmd EXCEPT ![p] = c]
    PROVE  CmdInv'
<1>1. \A q \in Terminals : cmd'[q] = IF q = p THEN c ELSE cmd[q]
  BY DEF CmdInv
<1>2. cmd' = [q \in Terminals |-> cmd'[q]]
  BY DEF CmdInv
<1>3. ASSUME NEW q \in Terminals PROVE CommandOK(cmd'[q])
  BY <1>1 DEF CmdInv
<1>4. ASSUME NEW d PROVE CommandOK(d) <=> CommandOK(d)'
  BY DEF CommandOK, GuardHeld, UpsertRefused, DeleteRefused, Protected, Idle
<1>5. QED
  BY <1>2, <1>3, <1>4 DEF CmdInv

LEMMA BegunCommand ==
    ASSUME CmdInv, tags' \in [Tables -> Tags], NEW p \in Terminals, NEW op \in {"upsert", "clear"},
           NEW todo \in Seq(TagWrites), todo # <<>>, NEW force \in BOOLEAN,
           Begin(p, op, todo, force)
    PROVE  CmdInv'
<1> DEFINE c == [op |-> op, todo |-> todo, force |-> force, checked |-> FALSE, saw |-> NoTag]
<1>1. CommandOK(c)
  BY DEF CommandOK, CmdFields
<1>2. cmd' = [cmd EXCEPT ![p] = c]
  BY DEF Begin
<1> HIDE DEF c
<1>3. QED
  BY <1>1, <1>2, CommandStep

\* The write on the list that the command is at.
LEMMA AtWrite ==
    ASSUME CmdInv, NEW p \in Terminals, Running(p)
    PROVE  /\ cmd[p].todo \in Seq(TagWrites) /\ cmd[p].todo # <<>> /\ Head(cmd[p].todo) \in TagWrites
           /\ Head(cmd[p].todo).table \in Tables
<1>1. cmd[p].todo \in Seq(TagWrites) /\ cmd[p].todo # <<>>
  BY DEF CmdInv, CommandOK, Running
<1>2. Head(cmd[p].todo) \in TagWrites
  BY <1>1
<1>3. QED
  BY <1>1, <1>2 DEF TagWrites

LEMMA CommandsKeepTags ==
    ASSUME PolicyInv, CmdInv, PolicyNext
    PROVE  CmdInv'
<1>t. tags \in [Tables -> Tags]
  BY DEF CmdInv
<1>1. ASSUME NEW p \in Terminals, NEW force \in BOOLEAN, PolicyApply(p, force) PROVE CmdInv'
  <2>1. saved[policy] \in Docs
    BY <1>1 DEF PolicyInv, FilesTyped, PolicyApply
  <2>2. saved[policy].overrides \in Seq(TagWrites)
    BY <2>1, PolicyAssumption
  <2>3. QED
    BY <1>t, <1>1, <2>2, BegunCommand DEF PolicyApply
<1>2. ASSUME NEW p \in Terminals, NEW force \in BOOLEAN, NEW o \in Overrides,
             PolicyTagOverride(p, o, force)
      PROVE  CmdInv'
  <2>1. <<o>> \in Seq(TagWrites) /\ <<o>> # <<>>
    BY PolicyAssumption
  <2>2. QED
    BY <1>t, <1>2, <2>1, BegunCommand DEF PolicyTagOverride
<1>3. ASSUME NEW p \in Terminals, NEW force \in BOOLEAN, NEW t \in Tables, PolicyTagClear(p, t, force)
      PROVE  CmdInv'
  <2> DEFINE o == [table |-> t, sens |-> "public", cats |-> {}]
  <2>1. o \in TagWrites
    BY DEF TagWrites, Sensitivities
  <2>2. Begin(p, "clear", <<o>>, force)
    BY <1>3 DEF PolicyTagClear
  <2> HIDE DEF o
  <2>3. <<o>> \in Seq(TagWrites) /\ <<o>> # <<>>
    BY <2>1
  <2>4. QED
    BY <1>t, <1>3, <2>2, <2>3, BegunCommand DEF PolicyTagClear
<1>4. ASSUME NEW p \in Terminals, CheckDowngrade(p) PROVE CmdInv'
  <2> DEFINE o == Head(cmd[p].todo)
             refused == IF cmd[p].op = "upsert" THEN UpsertRefused(tags[o.table], o.cats)
                                                ELSE DeleteRefused(tags[o.table])
  <2>1. /\ Running(p) /\ UNCHANGED tags
        /\ cmd' = [cmd EXCEPT ![p] = IF refused /\ ~@.force THEN Idle
                                     ELSE [@ EXCEPT !.checked = TRUE, !.saw = tags[o.table]]]
    BY <1>4 DEF CheckDowngrade
  <2> HIDE DEF refused
  <2>2. PICK c : c = IF refused /\ ~cmd[p].force THEN Idle
                     ELSE [cmd[p] EXCEPT !.checked = TRUE, !.saw = tags[o.table]]
    OBVIOUS
  <2>3. cmd' = [cmd EXCEPT ![p] = c]
    BY <2>1, <2>2
  <2>4. ASSUME refused /\ ~cmd[p].force PROVE CommandOK(c)
    BY <2>2, <2>4 DEF CommandOK
  <2>5. ASSUME ~(refused /\ ~cmd[p].force) PROVE CommandOK(c)
    <3>1. CommandOK(cmd[p]) /\ DOMAIN cmd[p] = CmdFields
      BY <2>1 DEF CmdInv, CommandOK, Running
    <3>2. /\ DOMAIN c = CmdFields /\ c.op = cmd[p].op /\ c.todo = cmd[p].todo
          /\ c.force = cmd[p].force /\ c.checked = TRUE /\ c.saw = tags[o.table]
      BY <2>2, <2>5, <3>1 DEF CmdFields
    <3>3. GuardHeld(c)
      BY <2>5, <3>2 DEF GuardHeld, refused
    <3>4. QED
      BY <2>1, <3>1, <3>2, <3>3 DEF CommandOK, Running
  <2>6. QED
    BY <1>t, <2>1, <2>3, <2>4, <2>5, CommandStep
<1>5. ASSUME NEW p \in Terminals, WriteOverride(p) PROVE CmdInv'
  <2> DEFINE o == Head(cmd[p].todo)
             new == IF cmd[p].op = "upsert" THEN OperatorTag(o)
                    ELSE IF tags[o.table].origin = "operator" THEN NoTag ELSE tags[o.table]
  <2>1. Running(p) /\ tags' = [tags EXCEPT ![o.table] = new]
    BY <1>5 DEF WriteOverride
  <2>2. o \in TagWrites /\ o.table \in Tables /\ cmd[p].todo \in Seq(TagWrites) /\ cmd[p].todo # <<>>
    BY <2>1, AtWrite
  <2>3. new \in Tags
    <3>1. OperatorTag(o) \in Tags
      BY <2>2 DEF OperatorTag, Tags, TagWrites
    <3>2. NoTag \in Tags
      BY DEF NoTag, Tags, Sensitivities
    <3>3. QED
      BY <1>t, <2>2, <3>1, <3>2
  <2> HIDE DEF new
  <2>4. tags' \in [Tables -> Tags]
    BY <1>t, <2>1, <2>3
  <2>5. CASE Len(cmd[p].todo) = 1
    <3>1. cmd' = [cmd EXCEPT ![p] = Idle] /\ CommandOK(Idle)
      BY <1>5, <2>5 DEF WriteOverride, CommandOK
    <3>2. QED
      BY <2>4, <3>1, CommandStep
  <2>6. CASE Len(cmd[p].todo) # 1
    <3>0. Len(cmd[p].todo) \in Nat /\ Len(cmd[p].todo) # 0
      BY <2>2
    <3>1. Tail(cmd[p].todo) \in Seq(TagWrites) /\ Tail(cmd[p].todo) # <<>>
      <4>1. Tail(cmd[p].todo) \in Seq(TagWrites) /\ Len(Tail(cmd[p].todo)) = Len(cmd[p].todo) - 1
        BY <2>2, <3>0
      <4>2. Len(Tail(cmd[p].todo)) # 0
        BY <2>6, <3>0, <4>1
      <4>3. Len(<<>>) = 0
        OBVIOUS
      <4>4. QED
        BY <4>1, <4>2, <4>3
    <3>2. Begin(p, cmd[p].op, Tail(cmd[p].todo), cmd[p].force)
      BY <1>5, <2>6 DEF WriteOverride
    <3>3. cmd[p].op \in {"upsert", "clear"} /\ cmd[p].force \in BOOLEAN
      BY <2>1 DEF CmdInv, CommandOK, Running
    <3>4. QED
      BY <2>4, <3>1, <3>2, <3>3, BegunCommand
  <2>7. QED
    BY <2>5, <2>6
<1>6. QED
  BY <1>1, <1>2, <1>3, <1>4, <1>5 DEF PolicyNext

\* index rewrites heuristic rows only, and only with heuristic rows.
LEMMA IndexKeepsTags ==
    ASSUME CmdInv, UNCHANGED cmd,
           \/ UNCHANGED tags
           \/ \E t \in Tables : WriteTags(t)
    PROVE  CmdInv'
<1>1. tags' \in [Tables -> Tags]
  <2>1. ASSUME NEW t \in Tables, WriteTags(t) PROVE tags' \in [Tables -> Tags]
    <3>1. PICK tag : tag = IF t \in indexed THEN Classified[t] ELSE NoTag
      OBVIOUS
    <3>2. tag \in Tags
      BY <3>1, PolicyAssumption DEF NoTag, Tags, Sensitivities
    <3>3. tags \in [Tables -> Tags] /\ tags' = [tags EXCEPT ![t] = tag]
      BY <2>1, <3>1 DEF WriteTags, CmdInv
    <3>4. QED
      BY <3>2, <3>3
  <2>2. QED
    BY <2>1 DEF CmdInv
<1>2. QED
  BY <1>1 DEF CmdInv, CommandOK, GuardHeld, UpsertRefused, DeleteRefused, Protected, Idle

\* A step of a command that takes a column's last floor category was forced, or it takes
\* a row that replaced the one its guard saw.
LEMMA GuardedWrite ==
    ASSUME CmdInv, [Next]_vars, NEW p \in Terminals, NEW t \in Tables,
           cmd'[p] # cmd[p], Protected(tags[t]), ~Protected(tags'[t])
    PROVE  cmd[p].force \/ Overtaken(p, t)
<1>1. PolicyNext /\ tags' # tags
  BY DEF Next, EditFile, FileNext, Others, ServeNext, ServeStep, StoreNext, AppendRow, RequestNext,
         ProofNext, StreamNext, PagerNext, vars, policyVars, storeVars
<1>2. PICK q \in Terminals : WriteOverride(q)
  BY <1>1 DEF PolicyNext, PolicyApply, PolicyTagOverride, PolicyTagClear, CheckDowngrade
<1>3. q = p
  BY <1>2 DEF WriteOverride, Begin, CmdInv
<1> DEFINE o == Head(cmd[p].todo)
           new == IF cmd[p].op = "upsert" THEN OperatorTag(o)
                  ELSE IF tags[o.table].origin = "operator" THEN NoTag ELSE tags[o.table]
<1>4. Running(p) /\ cmd[p].checked /\ tags' = [tags EXCEPT ![o.table] = new]
  BY <1>2, <1>3 DEF WriteOverride
<1>5. /\ tags \in [Tables -> Tags] /\ o.table \in Tables
      /\ GuardHeld(cmd[p]) /\ cmd[p].op \in {"upsert", "clear"}
  BY <1>4, AtWrite DEF CmdInv, CommandOK, Running
<1>6. t = o.table /\ tags'[t] = new
  BY <1>4, <1>5
<1>7. CASE cmd[p].op = "upsert"
  <2>1. o.cats \cap Floor = {}
    BY <1>6, <1>7 DEF OperatorTag, Protected
  <2>2. ~cmd[p].force => ~Protected(cmd[p].saw)
    BY <1>5, <1>7, <2>1 DEF GuardHeld, UpsertRefused
  <2>3. QED
    BY <2>2 DEF Overtaken
<1>8. CASE cmd[p].op = "clear"
  <2>1. tags[t].origin = "operator"
    BY <1>6, <1>8
  <2>2. ~cmd[p].force => ~DeleteRefused(cmd[p].saw)
    BY <1>5, <1>8 DEF GuardHeld
  <2>3. DeleteRefused(tags[t])
    BY <2>1 DEF DeleteRefused
  <2>4. QED
    BY <1>8, <2>2, <2>3 DEF Overtaken, DeleteRefused
<1>9. QED
  BY <1>5, <1>7, <1>8

-----------------------------------------------------------------------------
(* The stream. *)

LEMMA FollowsEmpty ==
    ASSUME NEW n \in Nat
    PROVE  Follows(<<>>, n)
  BY DEF Follows

LEMMA FollowsAppend ==
    ASSUME NEW n \in Nat, NEW s, Follows(s, n)
    PROVE  /\ Follows(Append(s, n + Len(s) + 1), n)
           /\ Len(Append(s, n + Len(s) + 1)) = Len(s) + 1
<1>1. s \in Seq(Nat)
  BY DEF Follows
<1> DEFINE t == Append(s, n + Len(s) + 1)
<1>2. t \in Seq(Nat) /\ Len(t) = Len(s) + 1
  BY <1>1
<1>3. ASSUME NEW i \in 1..Len(t) PROVE t[i] = n + i
  BY <1>1, <1>2 DEF Follows
<1>4. t = [i \in 1..Len(t) |-> n + i]
  BY <1>2, <1>3
<1>5. QED
  BY <1>1, <1>2, <1>4 DEF Follows

LEMMA FollowsTail ==
    ASSUME NEW n \in Nat, NEW s, Follows(s, n), s # <<>>
    PROVE  /\ Head(s) = n + 1
           /\ Follows(Tail(s), n + 1)
           /\ Len(Tail(s)) = Len(s) - 1 /\ Len(s) >= 1
<1>1. s \in Seq(Nat) /\ Len(s) >= 1
  BY DEF Follows
<1> DEFINE t == Tail(s)
<1>2. t \in Seq(Nat) /\ Len(t) = Len(s) - 1
  BY <1>1
<1>3. ASSUME NEW i \in 1..Len(t) PROVE t[i] = n + 1 + i
  <2>1. t[i] = s[i + 1] /\ i + 1 \in 1..Len(s)
    BY <1>1, <1>2
  <2>2. QED
    BY <2>1 DEF Follows
<1>4. t = [i \in 1..Len(t) |-> n + 1 + i]
  <2> HIDE DEF t
  <2>1. t = [i \in 1..Len(t) |-> t[i]]
    BY <1>2
  <2>2. QED
    BY <1>3, <2>1
<1>5. Head(s) = n + 1
  BY <1>1 DEF Follows
<1>6. QED
  BY <1>1, <1>2, <1>4, <1>5 DEF Follows

LEMMA FollowsNewRows ==
    ASSUME NEW n \in Nat, LogTyped, NewRows(n) # <<>>
    PROVE  Follows(NewRows(n), n)
<1>1. PICK k \in Int : NewRows(n) = [i \in 1..k |-> n + i]
  BY SidecarAssumption, SMTT(40) DEF NewRows, LogTyped
<1>2. k \in Nat
  <2>1. ASSUME k \notin Nat PROVE FALSE
    <3>1. 1..k = {}
      BY <2>1
    <3>2. NewRows(n) = <<>>
      BY <1>1, <3>1
    <3>3. QED
      BY <3>2
  <2>2. QED
    BY <2>1
<1>3. NewRows(n) \in Seq(Nat) /\ Len(NewRows(n)) = k
  BY <1>1, <1>2
<1>4. QED
  BY <1>1, <1>2, <1>3 DEF Follows

LEMMA StreamKeepsRun ==
    ASSUME StreamInv, LogTyped, StreamNext
    PROVE  StreamInv'
<1>r. PICK r : r = stream'
  OBVIOUS
<1>1. ASSUME NEW since \in 0..MaxRows, StreamOpen(since) PROVE StreamInv'
  <2>1. /\ DOMAIN r = StreamFields /\ r.since = since /\ r.got = <<>> /\ r.wire = <<>>
        /\ r.batch = <<>> /\ r.last_seen = since + Len(<<>>)
    BY <1>1, <1>r DEF StreamOpen, Connection, StreamFields
  <2>2. since \in Nat /\ Len(<<>>) = 0
    BY SidecarAssumption
  <2>3. QED
    BY <1>r, <2>1, <2>2, FollowsEmpty DEF StreamInv
<1>2. ASSUME Streaming, StreamPoll \/ StreamYield \/ StreamReceive \/ StreamDrop PROVE StreamInv'
  <2>1. /\ DOMAIN stream = StreamFields /\ stream.on /\ stream.since \in Nat
        /\ Follows(stream.got, stream.since)
        /\ Follows(stream.wire, stream.since + Len(stream.got))
        /\ stream.last_seen = stream.since + Len(stream.got) + Len(stream.wire)
        /\ Follows(stream.batch, stream.last_seen)
    BY <1>2 DEF StreamInv, Streaming
  <2>2. /\ Len(stream.got) \in Nat /\ Len(stream.wire) \in Nat /\ stream.last_seen \in Nat
        /\ stream.since + Len(stream.got) \in Nat
    BY <2>1 DEF Follows
  <2>3. CASE StreamPoll
    <3>1. /\ DOMAIN r = StreamFields /\ r.since = stream.since /\ r.got = stream.got
          /\ r.wire = stream.wire /\ r.last_seen = stream.last_seen
          /\ r.batch = NewRows(stream.last_seen)
      BY <1>r, <2>1, <2>3 DEF StreamPoll, StreamFields
    <3>2. Follows(r.batch, r.last_seen)
      BY <2>2, <2>3, <3>1, FollowsNewRows DEF StreamPoll
    <3>3. QED
      BY <1>r, <2>1, <3>1, <3>2 DEF StreamInv
  <2>4. CASE StreamYield
    <3>1. stream.batch # <<>>
      BY <2>4 DEF StreamYield
    <3>2. /\ DOMAIN r = StreamFields /\ r.since = stream.since /\ r.got = stream.got
          /\ r.wire = Append(stream.wire, Head(stream.batch)) /\ r.last_seen = Head(stream.batch)
          /\ r.batch = Tail(stream.batch)
      BY <1>r, <2>1, <2>4 DEF StreamYield, StreamFields
    <3>3. Head(stream.batch) = stream.last_seen + 1 /\ Follows(r.batch, stream.last_seen + 1)
      BY <2>1, <2>2, <3>1, <3>2, FollowsTail
    <3>4. Head(stream.batch) = (stream.since + Len(stream.got)) + Len(stream.wire) + 1
      BY <2>1, <2>2, <3>3
    <3>5. Follows(r.wire, stream.since + Len(stream.got)) /\ Len(r.wire) = Len(stream.wire) + 1
      BY <2>1, <2>2, <3>2, <3>4, FollowsAppend, SMTT(30)
    <3>6. r.last_seen = r.since + Len(r.got) + Len(r.wire)
      BY <2>1, <2>2, <3>2, <3>4, <3>5
    <3>7. QED
      BY <1>r, <2>1, <3>2, <3>3, <3>5, <3>6 DEF StreamInv
  <2>5. CASE StreamReceive
    <3>1. stream.wire # <<>>
      BY <2>5 DEF StreamReceive
    <3>2. /\ DOMAIN r = StreamFields /\ r.since = stream.since
          /\ r.got = Append(stream.got, Head(stream.wire)) /\ r.wire = Tail(stream.wire)
          /\ r.last_seen = stream.last_seen /\ r.batch = stream.batch
      BY <1>r, <2>1, <2>5 DEF StreamReceive, StreamFields
    <3>3. /\ Head(stream.wire) = stream.since + Len(stream.got) + 1
          /\ Follows(r.wire, stream.since + Len(stream.got) + 1)
          /\ Len(r.wire) = Len(stream.wire) - 1
      BY <2>1, <2>2, <3>1, <3>2, FollowsTail
    <3>g. r.got = Append(stream.got, stream.since + Len(stream.got) + 1)
      BY <3>2, <3>3
    <3>4. Follows(r.got, r.since) /\ Len(r.got) = Len(stream.got) + 1
      <4>1. /\ Follows(Append(stream.got, stream.since + Len(stream.got) + 1), stream.since)
            /\ Len(Append(stream.got, stream.since + Len(stream.got) + 1)) = Len(stream.got) + 1
        BY <2>1, FollowsAppend
      <4>2. r.since = stream.since
        BY <3>2
      <4>3. QED
        BY <3>g, <4>1, <4>2
    <3>5. /\ r.since + Len(r.got) = stream.since + Len(stream.got) + 1
          /\ r.last_seen = r.since + Len(r.got) + Len(r.wire)
      <4>1. r.since + Len(r.got) = stream.since + Len(stream.got) + 1
        BY <2>1, <2>2, <3>2, <3>4
      <4>2. r.last_seen = stream.since + Len(stream.got) + Len(stream.wire)
        BY <2>1, <3>2
      <4>3. QED
        BY <2>1, <2>2, <3>3, <4>1, <4>2
    <3>6. QED
      BY <1>r, <2>1, <3>2, <3>3, <3>4, <3>5 DEF StreamInv
  <2>6. CASE StreamDrop
    <3>1. /\ DOMAIN r = StreamFields /\ r.since = stream.since /\ r.got = stream.got
          /\ r.on = FALSE
      BY <1>r, <2>1, <2>6 DEF StreamDrop, StreamFields
    <3>2. QED
      BY <1>r, <2>1, <3>1 DEF StreamInv
  <2>7. QED
    BY <1>2, <2>3, <2>4, <2>5, <2>6
<1>3. ASSUME StreamReconnect PROVE StreamInv'
  <2>1. stream.since \in Nat /\ Follows(stream.got, stream.since)
    BY <1>3 DEF StreamInv, StreamReconnect
  <2>2. /\ DOMAIN r = StreamFields /\ r.since = stream.since /\ r.got = stream.got
        /\ r.wire = <<>> /\ r.batch = <<>> /\ r.last_seen = stream.since + Len(stream.got)
    BY <1>3, <1>r DEF StreamReconnect, Connection, StreamFields
  <2>3. Len(stream.got) \in Nat /\ Len(<<>>) = 0
    BY <2>1 DEF Follows
  <2>4. r.last_seen \in Nat /\ r.last_seen = r.since + Len(r.got) + Len(r.wire)
    BY <2>1, <2>2, <2>3
  <2>5. QED
    BY <1>r, <2>1, <2>2, <2>4, FollowsEmpty DEF StreamInv
<1>4. QED
  BY <1>1, <1>2, <1>3 DEF StreamNext, StreamPoll, StreamYield, StreamReceive, StreamDrop

-----------------------------------------------------------------------------
(* The pager. *)

LEMMA MatchingFinite ==
    ASSUME LogTyped, NEW b, NEW a, NEW i
    PROVE  LET M == Matching(b, a)
               B == {j \in M : j > i}
           IN  /\ IsFiniteSet(M) /\ M \subseteq Nat /\ B \subseteq M
               /\ IsFiniteSet(B) /\ Before(b, a, i) \in Nat
               /\ Cardinality(M) \in Nat
<1> DEFINE M == Matching(b, a)
           B == {j \in M : j > i}
<1>1. Len(log) \in Nat /\ DOMAIN log = 1..Len(log)
  BY DEF LogTyped
<1>2. IsFiniteSet(1..Len(log))
  BY <1>1, FS_Interval
<1>3. M \subseteq 1..Len(log) /\ B \subseteq M
  BY <1>1 DEF Matching
<1> HIDE DEF M, B
<1>4. IsFiniteSet(M) /\ IsFiniteSet(B)
  BY <1>2, <1>3, FS_Subset
<1>5. Cardinality(M) \in Nat /\ Cardinality(B) \in Nat
  BY <1>4, FS_CardinalityType
<1>6. QED
  BY <1>1, <1>3, <1>4, <1>5 DEF Before, M, B

\* An append loses no matching row and can only push a row further back.
LEMMA MatchingGrows ==
    ASSUME LogTyped, LogTyped', NEW row, log' = Append(log, row), NEW b, NEW a, NEW i
    PROVE  /\ Matching(b, a) \subseteq Matching(b, a)'
           /\ Before(b, a, i)' >= Before(b, a, i)
           /\ Before(b, a, i)' \in Nat /\ Before(b, a, i) \in Nat
<1>1. Len(log) \in Nat /\ DOMAIN log = 1..Len(log) /\ DOMAIN log' = 1..(Len(log) + 1)
  BY DEF LogTyped
<1>2. \A j \in DOMAIN log : log'[j] = log[j]
  BY <1>1 DEF LogTyped
<1>3. Matching(b, a) \subseteq Matching(b, a)'
  BY <1>1, <1>2 DEF Matching
<1> DEFINE B == {j \in Matching(b, a) : j > i}
           C == {j \in Matching(b, a)' : j > i}
<1>4. B \subseteq C
  BY <1>3
<1>5. IsFiniteSet(B) /\ IsFiniteSet(C)
  <2>1. \A q \in {log, log'} : q \in Seq([refused : BOOLEAN, anchor : Tables \cup {"none"}])
    BY DEF LogTyped
  <2>2. IsFiniteSet(1..Len(log)) /\ IsFiniteSet(1..(Len(log) + 1))
    BY <1>1, FS_Interval
  <2>3. B \subseteq 1..Len(log) /\ C \subseteq 1..(Len(log) + 1)
    BY <1>1 DEF Matching
  <2> HIDE DEF B, C
  <2>4. QED
    BY <2>2, <2>3, FS_Subset
<1>6. Before(b, a, i) = Cardinality(B) /\ Before(b, a, i)' = Cardinality(C)
  BY DEF Before
<1> HIDE DEF B, C
<1>7. Cardinality(B) \in Nat /\ Cardinality(C) \in Nat /\ Cardinality(B) <= Cardinality(C)
  BY <1>4, <1>5, FS_Subset, FS_CardinalityType
<1>8. QED
  BY <1>3, <1>6, <1>7

LEMMA AppendKeepsPages ==
    ASSUME LogTyped, LogTyped', PagerInv, UNCHANGED pager, NEW row, log' = Append(log, row)
    PROVE  PagerInv'
<1>1. CASE pager = NoPager
  BY <1>1 DEF PagerInv
<1>2. ASSUME pager # NoPager PROVE PagerInv'
  <2>1. PICK p : p = pager
    OBVIOUS
  <2>2. /\ DOMAIN p = PagerFields /\ p.at \in {"select", "count", "done"} /\ p.offset \in Nat
        /\ p.there \subseteq Matching(p.refusals, p.after)
        /\ \A i \in p.there \ p.seen : Before(p.refusals, p.after, i) >= Asked /\ p.at # "done"
    BY <1>2, <2>1 DEF PagerInv
  <2>3. Asked \in Nat /\ Asked' = Asked
    BY <2>1, <2>2, SidecarAssumption DEF Asked
  <2>4. p.there \subseteq Matching(p.refusals, p.after)'
    BY <2>2, MatchingGrows
  <2>5. ASSUME NEW i \in p.there \ p.seen
        PROVE  Before(p.refusals, p.after, i)' >= Asked'
    <3>1. /\ Before(p.refusals, p.after, i)' >= Before(p.refusals, p.after, i)
          /\ Before(p.refusals, p.after, i)' \in Nat /\ Before(p.refusals, p.after, i) \in Nat
      BY MatchingGrows
    <3>2. QED
      BY <2>2, <2>3, <3>1
  <2>6. pager' = p
    BY <2>1
  <2>7. QED
    BY <2>2, <2>4, <2>5, <2>6 DEF PagerInv
<1>3. QED
  BY <1>1, <1>2

LEMMA PagerKeepsPages ==
    ASSUME LogTyped, PagerInv, PagerNext
    PROVE  PagerInv'
<1>p. PICK p : p = pager
  OBVIOUS
<1>r. PICK r : r = pager'
  OBVIOUS
<1>u. /\ UNCHANGED log
      /\ \A b, a : Matching(b, a)' = Matching(b, a)
      /\ \A b, a, i : Before(b, a, i)' = Before(b, a, i)
  BY DEF PagerNext, Matching, Before
<1>a. ASSUME NEW b \in BOOLEAN, NEW after \in 0..MaxRows, PagerOpen(b, after) PROVE PagerInv'
  <2>1. /\ DOMAIN r = PagerFields /\ r.at = "select" /\ r.offset = 0 /\ r.refusals = b
        /\ r.after = after /\ r.there = Matching(b, after)
    BY <1>a, <1>r DEF PagerOpen, PagerFields
  <2>2. ASSUME NEW i PROVE Before(b, after, i)' >= 0
    <3>1. Before(b, after, i) \in Nat
      BY MatchingFinite
    <3>2. QED
      BY <1>u, <3>1
  <2>3. Asked' = 0
    BY <1>r, <2>1 DEF Asked
  <2>4. QED
    BY <1>r, <1>u, <2>1, <2>2, <2>3 DEF PagerInv
<1>b. ASSUME p.at \in {"select", "count", "done"}, PagerSelect \/ PagerCount PROVE PagerInv'
  <2>0. p # NoPager
    BY <1>b DEF NoPager
  <2>1. /\ DOMAIN p = PagerFields /\ p.offset \in Nat
        /\ p.there \subseteq Matching(p.refusals, p.after)
        /\ \A i \in p.there \ p.seen : Before(p.refusals, p.after, i) >= Asked /\ p.at # "done"
    BY <1>p, <2>0 DEF PagerInv
  <2>l. PageLimit \in Nat \ {0}
    BY SidecarAssumption
  <2>2. CASE PagerSelect
    <3>1. /\ DOMAIN r = PagerFields /\ r.at = "count" /\ r.offset = p.offset
          /\ r.refusals = p.refusals /\ r.after = p.after /\ r.there = p.there
          /\ r.seen = p.seen \cup SelectAuditRows(p.refusals, p.after, p.offset)
      BY <1>p, <1>r, <2>1, <2>2 DEF PagerSelect, PagerFields
    <3>2. Asked = p.offset /\ Asked' = p.offset + PageLimit
      BY <1>p, <1>r, <2>2, <3>1 DEF Asked, PagerSelect
    <3>3. ASSUME NEW i \in r.there \ r.seen PROVE Before(r.refusals, r.after, i) >= Asked'
      <4>1. i \in p.there \ p.seen /\ i \in Matching(p.refusals, p.after)
        BY <2>1, <3>1
      <4>2. Before(p.refusals, p.after, i) \notin p.offset..(p.offset + PageLimit - 1)
        BY <3>1, <4>1 DEF SelectAuditRows, PageOf, Before
      <4>3. Before(p.refusals, p.after, i) \in Nat
        BY MatchingFinite
      <4>4. Before(p.refusals, p.after, i) >= p.offset
        BY <2>1, <3>2, <4>1
      <4>5. QED
        BY <2>1, <2>l, <3>1, <3>2, <4>2, <4>3, <4>4
    <3>4. QED
      BY <1>r, <1>u, <2>1, <3>1, <3>3 DEF PagerInv
  <2>3. CASE PagerCount
    <3> DEFINE total == Cardinality(Matching(p.refusals, p.after))
               next == p.offset + PageLimit
    <3>1. /\ DOMAIN r = PagerFields /\ r.at = (IF next >= total THEN "done" ELSE "select")
          /\ r.offset = next /\ r.refusals = p.refusals /\ r.after = p.after
          /\ r.there = p.there /\ r.seen = p.seen
      BY <1>p, <1>r, <2>1, <2>3 DEF PagerCount, PagerFields
    <3>2. Asked = next /\ Asked' = next
      BY <1>p, <1>r, <2>3, <3>1 DEF Asked, PagerCount
    <3>3. ASSUME NEW i \in r.there \ r.seen PROVE r.at # "done"
      <4> DEFINE M == Matching(p.refusals, p.after)
                 B == {j \in M : j > i}
      <4>1. IsFiniteSet(M) /\ B \subseteq M /\ IsFiniteSet(B) /\ M \subseteq Nat
        BY MatchingFinite
      <4>2. i \in M /\ i \notin B
        <5>1. i \in M
          BY <2>1, <3>1
        <5>2. QED
          BY <4>1, <5>1
      <4>3. Cardinality(B) = Before(p.refusals, p.after, i)
        BY DEF Before
      <4> HIDE DEF M, B
      <4>4. Cardinality(B) < Cardinality(M) /\ Cardinality(B) \in Nat /\ Cardinality(M) \in Nat
        <5>1. Cardinality(B) <= Cardinality(M) /\ (Cardinality(M) = Cardinality(B) => M = B)
          BY <4>1, FS_Subset
        <5>2. Cardinality(B) \in Nat /\ Cardinality(M) \in Nat
          BY <4>1, FS_CardinalityType
        <5>3. M # B
          BY <4>2
        <5>4. QED
          BY <5>1, <5>2, <5>3
      <4>5. Cardinality(B) >= next
        BY <2>1, <3>1, <3>2, <4>3
      <4>6. total = Cardinality(M) /\ next \in Nat
        BY <2>1, <2>l DEF M
      <4> HIDE DEF total, next
      <4>7. ~(next >= total)
        BY <4>4, <4>5, <4>6
      <4>8. QED
        BY <3>1, <4>7 DEF total, next
    <3>4. QED
      BY <1>r, <1>u, <2>1, <2>l, <3>1, <3>2, <3>3 DEF PagerInv
  <2>4. QED
    BY <1>b, <2>2, <2>3
<1>c. CASE PagerClose
  BY <1>c DEF PagerClose, PagerInv
<1>d. QED
  BY <1>a, <1>b, <1>c, <1>p DEF PagerNext, PagerSelect, PagerCount

-----------------------------------------------------------------------------
(* The invariant. *)

LEMMA SidecarInit ==
    ASSUME Init
    PROVE  IInv
<1>1. FilesTyped
  <2>1. \A d \in Docs : <<d>> \in Seq(Docs) /\ Len(<<d>>) = 1
    OBVIOUS
  <2>2. <<>> \in Seq(Docs) /\ Len(<<>>) = 0
    OBVIOUS
  <2>3. saved = <<>> \/ \E d \in Docs : saved = <<d>>
    BY DEF Init
  <2>4. saved \in Seq(Docs) /\ Len(saved) \in {0, 1}
    BY <2>1, <2>2, <2>3
  <2>5. QED
    BY <2>4 DEF Init, FilesTyped
<1>2. ServeInv /\ Faithful(sentinel) /\ ReqInv
  BY DEF Init, ServeInv, ServeOK, Down, ServeFields, Faithful, NoSentinel, ReqInv
<1>3. CmdInv
  BY PolicyAssumption DEF Init, CmdInv, CommandOK
<1>4. ReaderInv
  BY DEF Init, ReaderInv, LogTyped, StreamInv, PagerInv
<1>5. QED
  BY <1>1, <1>2, <1>3, <1>4 DEF IInv, PolicyInv

LEMMA SidecarStep ==
    ASSUME IInv, [Next]_vars
    PROVE  IInv'
<1> USE DEF IInv
<1>1. ASSUME UNCHANGED <<saved, policy, sentinel, serve, req>> PROVE PolicyInv'
  BY <1>1 DEF PolicyInv, FilesTyped, ServeInv, ServeOK, Faithful, Enforces, ActiveBlock, WellFormed,
              ReqInv, ViewInv
<1>2. ASSUME UNCHANGED <<log, stream, pager>> PROVE ReaderInv'
  BY <1>2 DEF ReaderInv, LogTyped, StreamInv, PagerInv, Matching, Before, Asked
<1>3. ASSUME UNCHANGED <<tags, cmd>> PROVE CmdInv'
  BY <1>3, IndexKeepsTags
<1>4. CASE EditFile
  <2>1. UNCHANGED <<tags, cmd, log, stream, pager>>
    BY <1>4 DEF EditFile, FileNext, storeVars
  <2>2. QED
    BY <1>2, <1>3, <1>4, <2>1, EditKeepsPolicy
<1>5. CASE Others
  <2>1. UNCHANGED <<log, req, stream, pager>>
    BY <1>5 DEF Others, readerVars
  <2>2. ASSUME NEW s \in Serves, ServeStep(s) PROVE IInv'
    <3>1. UNCHANGED <<tags, cmd>>
      BY <2>2 DEF ServeStep, storeVars
    <3>2. QED
      BY <1>2, <1>3, <2>1, <2>2, <3>1, ServeKeepsPolicy
  <2>3. CASE PolicyNext
    <3>1. UNCHANGED <<saved, policy, sentinel, serve>>
      BY <2>3 DEF PolicyNext, fileVars, serveVars
    <3>2. QED
      BY <1>1, <1>2, <2>1, <2>3, <3>1, CommandsKeepTags
  <2>4. CASE StoreNext
    <3>1. UNCHANGED <<saved, policy, sentinel, serve, cmd>>
      BY <2>4 DEF StoreNext, fileVars, serveVars
    <3>2. UNCHANGED tags \/ \E t \in Tables : WriteTags(t)
      BY <2>4 DEF StoreNext, IndexTable, DropTable, BindEntity, RebuildGraph
    <3>3. QED
      BY <1>1, <1>2, <2>1, <3>1, <3>2, IndexKeepsTags
  <2>5. QED
    BY <1>5, <2>2, <2>3, <2>4 DEF Others, ServeNext
<1>6. ASSUME NEW refused \in BOOLEAN, NEW anchor \in Tables \cup {"none"},
             AppendRow(refused, anchor)
      PROVE  IInv'
  <2>1. UNCHANGED <<saved, policy, sentinel, serve, req, tags, cmd, stream, pager>>
    BY <1>6 DEF AppendRow, policyVars, fileVars, serveVars, storeVars, readerVars
  <2>2. PICK row \in [refused : BOOLEAN, anchor : Tables \cup {"none"}] : log' = Append(log, row)
    BY <1>6 DEF AppendRow
  <2>3. LogTyped'
    BY <2>2 DEF ReaderInv, LogTyped
  <2>4. StreamInv'
    BY <2>1 DEF ReaderInv, StreamInv
  <2>5. PagerInv'
    BY <2>1, <2>2, <2>3, AppendKeepsPages DEF ReaderInv
  <2>6. QED
    BY <1>1, <1>3, <2>1, <2>3, <2>4, <2>5 DEF ReaderInv
<1>7. CASE RequestNext
  <2>1. UNCHANGED <<tags, cmd, log, stream, pager>>
    BY <1>7 DEF RequestNext, policyVars, storeVars
  <2>2. QED
    BY <1>2, <1>3, <1>7, <2>1, RequestKeepsPolicy
<1>8. CASE ProofNext
  <2>1. UNCHANGED <<saved, policy, sentinel, serve, req, tags, cmd, log, stream, pager>>
    BY <1>8 DEF ProofNext, policyVars, fileVars, serveVars, storeVars
  <2>2. QED
    BY <1>1, <1>2, <1>3, <2>1
<1>9. CASE StreamNext
  <2>1. UNCHANGED <<saved, policy, sentinel, serve, req, tags, cmd, log, pager>>
    BY <1>9 DEF StreamNext, policyVars, fileVars, serveVars, storeVars
  <2>2. StreamInv'
    BY <1>9, StreamKeepsRun DEF ReaderInv
  <2>3. LogTyped' /\ PagerInv'
    BY <2>1 DEF ReaderInv, LogTyped, PagerInv, Matching, Before, Asked
  <2>4. QED
    BY <1>1, <1>3, <2>1, <2>2, <2>3 DEF ReaderInv
<1>10. CASE PagerNext
  <2>1. UNCHANGED <<saved, policy, sentinel, serve, req, tags, cmd, log, stream>>
    BY <1>10 DEF PagerNext, policyVars, fileVars, serveVars, storeVars
  <2>2. PagerInv'
    BY <1>10, PagerKeepsPages DEF ReaderInv
  <2>3. LogTyped' /\ StreamInv'
    BY <2>1 DEF ReaderInv, LogTyped, StreamInv
  <2>4. QED
    BY <1>1, <1>3, <2>1, <2>2, <2>3 DEF ReaderInv
<1>11. CASE UNCHANGED vars
  <2>1. UNCHANGED <<saved, policy, sentinel, serve, req, tags, cmd, log, stream, pager>>
    BY <1>11 DEF vars, policyVars, fileVars, serveVars, storeVars, readerVars
  <2>2. QED
    BY <1>1, <1>2, <1>3, <2>1
<1>12. QED
  BY <1>4, <1>5, <1>6, <1>7, <1>8, <1>9, <1>10, <1>11 DEF Next

\* The dashboard's invariant: what serve's sentinel, a policy view, a policy
\* command, the live feed and a paging client have established holds whatever
\* the operator, serve, index and the log do between two of their steps.
THEOREM DashboardCorrect == Spec => []IInv
<1>1. Init => IInv
  BY SidecarInit
<1>2. IInv /\ [Next]_vars => IInv'
  BY SidecarStep
<1>3. QED
  BY <1>1, <1>2, PTL DEF Spec

\* A policy view or an overview without a restart banner shows the verdicts of
\* the serve whose sentinel it found: for any number of serves starting and
\* dying, and any sequence of saves, removals and restores of the file.
THEOREM DashboardTellsTheTruth == Spec => []VerdictsAreEnforced
<1>1. IInv => VerdictsAreEnforced
  <2>1. SUFFICES ASSUME IInv, Done, req.status = 200, req.route \in PolicyViews, req.steady,
                        ~req.banner, req.sent.is = "payload", req.sent.path = "default",
                        req.sent.clean, NEW t \in DOMAIN req.cols
                 PROVE  Verdict(req.cols[t].cats) # "allowed"
                           <=> req.cols[t].cats \cap req.sent.block # {}
    BY DEF VerdictsAreEnforced, PolicyViews
  <2>2. req.step \in Nat \ {0} /\ ViewInv(req)
    BY <2>1 DEF IInv, PolicyInv, ReqInv, Done
  <2>3. Len(Program(req.route)) \in Nat /\ Len(Program(req.route)) > SentinelStep(req.route)
    BY <2>1 DEF Program, PolicyRoute, OverviewRoute, PolicyViews, SentinelStep
  <2>4. SentinelStep(req.route) \in {4, 7}
    BY DEF SentinelStep
  <2>5. req.step > SentinelStep(req.route) + 1 /\ req.step > SentinelStep(req.route) /\ req.step > 2
    BY <2>1, <2>2, <2>3, <2>4 DEF Done
  <2>6. /\ req.block = ActiveBlock(policy)
        /\ Enforces(req.sent.block, req.sent.mtime)
        /\ ~Drifted(req.sent, policy)
    BY <2>1, <2>2, <2>5 DEF ViewInv, Faithful
  <2>7. policy = req.sent.mtime
    BY <2>1, <2>6 DEF Drifted
  <2>8. req.sent.block = req.block \cup Floor
    BY <2>6, <2>7 DEF Enforces
  <2>9. PICK cats : cats = req.cols[t].cats
    OBVIOUS
  <2>10. cats \cap req.sent.block # {} <=> cats \cap req.block # {} \/ cats \cap Floor # {}
    BY <2>8
  <2>11. Verdict(cats) # "allowed" <=> cats \cap req.block # {} \/ cats \cap Floor # {}
    BY DEF Verdict
  <2>12. QED
    BY <2>9, <2>10, <2>11
<1>2. QED
  BY <1>1, DashboardCorrect, PTL

\* No `policy` command strips a column of its last catastrophic category unless it was
\* forced or another terminal or index replaced the row after its guard had read it, for
\* any number of terminals with commands half way through, any files, overrides and
\* classifier, and with index re-tagging at any moment.
THEOREM FloorIsGuarded == Spec => FloorSurvivesCommands
<1>1. CmdInv /\ [Next]_vars =>
        [\A p \in Terminals, t \in Tables :
           cmd'[p] # cmd[p] /\ Protected(tags[t]) /\ ~Protected(tags'[t])
              => cmd[p].force \/ Overtaken(p, t)]_<<tags, cmd>>
  BY GuardedWrite
<1>2. IInv => CmdInv
  BY DEF IInv
<1>3. QED
  BY <1>1, <1>2, DashboardCorrect, PTL DEF Spec, FloorSurvivesCommands

\* The client of /api/audit/stream holds every id after its since_id once and
\* in order, for any poll limit and any number of lost connections.
THEOREM StreamHasNoGaps == Spec => []StreamIsGapless
<1>1. IInv => StreamIsGapless
  BY DEF IInv, ReaderInv, StreamInv, Follows, StreamIsGapless
<1>2. QED
  BY <1>1, DashboardCorrect, PTL

\* A client that pages by offset to the end has seen every row that matched
\* when it began, for any page size and any rows appended between two pages
\* or between a page and its total.
THEOREM PagingIsComplete == Spec => []PagesMissNothing
<1>1. IInv => PagesMissNothing
  <2>1. NoPager.at # "done"
    BY DEF NoPager
  <2>2. QED
    BY <2>1 DEF IInv, ReaderInv, PagerInv, PagesMissNothing
<1>2. QED
  BY <1>1, DashboardCorrect, PTL

-----------------------------------------------------------------------------
(* Numbers *)

LEMMA LeastNatural ==
    ASSUME NEW S, S \subseteq Nat, S # {}
    PROVE  \E n \in S : \A m \in S : n <= m
<1> DEFINE R == {pair \in Nat \X Nat : pair[1] < pair[2]}
<1>1. IsWellFoundedOn(R, Nat)
  BY NatLessThanWellFounded DEF OpToRel
<1>2. \A x, y \in Nat : <<x, y>> \in R <=> x < y
  OBVIOUS
<1> HIDE DEF R
<1>3. PICK x \in S : \A y \in S : <<y, x>> \notin R
  BY <1>1, WFMin
<1>4. \A y \in S : y \in Nat /\ x \in Nat /\ ~(y < x)
  BY <1>2, <1>3
<1>5. QED
  BY <1>4

\* What holds of 0 and of n + 1 when it holds of n holds up to N.
LEMMA UpTo ==
    ASSUME NEW N \in Nat, NEW S, 0 \in S,
           \A n \in 0 .. N - 1 : n \in S => n + 1 \in S
    PROVE  \A n \in 0 .. N : n \in S
<1> DEFINE Bad == {n \in 0 .. N : n \notin S}
<1>1. SUFFICES ASSUME Bad # {} PROVE FALSE
  OBVIOUS
<1>2. PICK n \in Bad : \A m \in Bad : n <= m
  <2>1. Bad \subseteq Nat
    OBVIOUS
  <2> HIDE DEF Bad
  <2>2. QED
    BY <1>1, <2>1, LeastNatural
<1>3. n # 0 /\ n \in 0 .. N
  BY <1>2
<1>4. n - 1 \in 0 .. N - 1 /\ n - 1 \notin Bad
  BY <1>2, <1>3
<1>5. n - 1 \in S
  BY <1>4
<1>6. QED
  BY <1>2, <1>3, <1>4, <1>5

\* What holds of n when it holds of all below n holds of every number.
LEMMA AllBelow ==
    ASSUME NEW S, \A n \in Nat : (\A m \in 0 .. n - 1 : m \in S) => n \in S
    PROVE  \A n \in Nat : n \in S
<1> DEFINE Bad == {n \in Nat : n \notin S}
<1>1. SUFFICES ASSUME Bad # {} PROVE FALSE
  OBVIOUS
<1>2. PICK n \in Bad : \A m \in Bad : n <= m
  <2>1. Bad \subseteq Nat
    OBVIOUS
  <2> HIDE DEF Bad
  <2>2. QED
    BY <1>1, <2>1, LeastNatural
<1>3. \A m \in 0 .. n - 1 : m \in S
  BY <1>2
<1>4. QED
  BY <1>2, <1>3

-----------------------------------------------------------------------------
(* Merkle: halving *)

LEMMA Halves ==
    ASSUME NEW j \in Nat
    PROVE  /\ j \div 2 \in Nat /\ j % 2 \in {0, 1} /\ j = 2 * (j \div 2) + (j % 2)
           /\ j # 0 => j \div 2 < j
OBVIOUS

\* f is defined up to n: j itself on the base, else c times its value at half of j.
AreHalved(f, n, base, c) ==
    f = [j \in 0..n |-> IF j \in base THEN j ELSE c * f[j \div 2]]

LEMMA HalvedUpTo ==
    ASSUME NEW base, 0 \in base, NEW c, NEW n \in Nat
    PROVE  \E f : AreHalved(f, n, base, c)
<1> DEFINE S == {k \in Nat : \E f : AreHalved(f, k, base, c)}
<1>1. 0 \in S
  <2> DEFINE g == [j \in 0..0 |-> 0]
  <2>1. \A j \in 0..0 : j \in base /\ g[j] = j
    OBVIOUS
  <2>2. AreHalved(g, 0, base, c)
    BY <2>1 DEF AreHalved
  <2>3. QED
    BY <2>2
<1>2. ASSUME NEW k \in 0..n - 1, k \in S PROVE k + 1 \in S
  <2>1. PICK f : AreHalved(f, k, base, c)
    BY <1>2
  <2> DEFINE top == IF k + 1 \in base THEN k + 1 ELSE c * f[(k + 1) \div 2]
             g == [j \in 0..k + 1 |-> IF j = k + 1 THEN top ELSE f[j]]
  <2>2. ASSUME NEW j \in 0..k + 1
        PROVE  g[j] = IF j \in base THEN j ELSE c * g[j \div 2]
    <3>1. j # 0 => j \div 2 \in 0..k
      BY Halves
    <3>2. \A i \in 0..k : g[i] = f[i] /\ f[i] = IF i \in base THEN i ELSE c * f[i \div 2]
      BY <2>1 DEF AreHalved
    <3>3. j = k + 1 => g[j] = IF j \in base THEN j ELSE c * f[j \div 2]
      OBVIOUS
    <3>4. j \notin base => j # 0
      OBVIOUS
    <3>5. j # k + 1 => j \in 0..k
      OBVIOUS
    <3> HIDE DEF g
    <3>6. CASE j = k + 1
      BY <3>1, <3>2, <3>3, <3>4, <3>6
    <3>7. CASE j # k + 1
      BY <3>1, <3>2, <3>4, <3>5, <3>7
    <3>8. QED
      BY <3>6, <3>7
  <2>3. g = [j \in 0..k + 1 |-> g[j]]
    OBVIOUS
  <2> HIDE DEF g
  <2>4. AreHalved(g, k + 1, base, c)
    BY <2>2, <2>3 DEF AreHalved
  <2>5. QED
    BY <2>4
<1> HIDE DEF S
<1>3. n \in S
  BY <1>1, <1>2, UpTo
<1>4. QED
  BY <1>3 DEF S

LEMMA HalvedAgree ==
    ASSUME NEW base, 0 \in base, NEW c, NEW f, NEW g, NEW n \in Nat, NEW m \in Nat,
           AreHalved(f, n, base, c), AreHalved(g, m, base, c), n <= m
    PROVE  f[n] = g[n]
<1> DEFINE S == {k \in Nat : k <= n => f[k] = g[k]}
<1>1. ASSUME NEW k \in Nat, \A i \in 0 .. k - 1 : i \in S PROVE k \in S
  <2>1. SUFFICES ASSUME k <= n PROVE f[k] = g[k]
    OBVIOUS
  <2>2. /\ f[k] = IF k \in base THEN k ELSE c * f[k \div 2]
        /\ g[k] = IF k \in base THEN k ELSE c * g[k \div 2]
    BY <2>1 DEF AreHalved
  <2>3. k # 0 => k \div 2 \in 0 .. k - 1 /\ k \div 2 <= n
    BY <2>1, Halves
  <2>4. k # 0 => f[k \div 2] = g[k \div 2]
    BY <1>1, <2>3
  <2>5. QED
    BY <2>2, <2>4
<1> HIDE DEF S
<1>2. n \in S
  BY <1>1, AllBelow
<1>3. QED
  BY <1>2 DEF S

IsHalved(f, base, c) == f = [j \in Nat |-> IF j \in base THEN j ELSE c * f[j \div 2]]

LEMMA Halved ==
    ASSUME NEW base, 0 \in base, NEW c
    PROVE  \E f : IsHalved(f, base, c)
<1> DEFINE F(n) == CHOOSE f : AreHalved(f, n, base, c)
           h == [j \in Nat |-> F(j)[j]]
<1>1. \A n \in Nat : AreHalved(F(n), n, base, c)
  BY HalvedUpTo
<1>2. ASSUME NEW j \in Nat PROVE h[j] = IF j \in base THEN j ELSE c * h[j \div 2]
  <2>1. AreHalved(F(j), j, base, c)
    BY <1>1
  <2>2. h[j] = F(j)[j]
    OBVIOUS
  <2>3. F(j)[j] = IF j \in base THEN j ELSE c * F(j)[j \div 2]
    <3> HIDE DEF F
    <3>1. QED
      BY <2>1 DEF AreHalved
  <2>4. ASSUME j \notin base PROVE F(j)[j \div 2] = h[j \div 2]
    <3> DEFINE i == j \div 2
    <3>1. i \in Nat /\ i <= j
      BY Halves
    <3>2. AreHalved(F(i), i, base, c) /\ h[i] = F(i)[i]
      BY <1>1, <3>1
    <3> HIDE DEF F, i
    <3>3. F(i)[i] = F(j)[i]
      BY <2>1, <3>1, <3>2, HalvedAgree
    <3>4. QED
      BY <3>2, <3>3 DEF i
  <2>5. QED
    BY <2>2, <2>3, <2>4
<1>3. h = [j \in Nat |-> h[j]]
  OBVIOUS
<1> HIDE DEF h
<1>4. IsHalved(h, base, c)
  BY <1>2, <1>3 DEF IsHalved
<1>5. QED
  BY <1>4


LEMMA HighestBitDef ==
    ASSUME NEW j \in Nat
    PROVE  HighestBit[j] = IF j <= 1 THEN j ELSE 2 * HighestBit[j \div 2]
<1> DEFINE Is(f) == f = [i \in Nat |-> IF i <= 1 THEN i ELSE 2 * f[i \div 2]]
<1>1. \E f : Is(f)
  <2> DEFINE base == {0, 1}
  <2>0. 0 \in base /\ \A i \in Nat : i \in base <=> i <= 1
    OBVIOUS
  <2> HIDE DEF base
  <2>1. PICK f : IsHalved(f, base, 2)
    BY <2>0, Halved
  <2>2. f = [i \in Nat |-> f[i]]
    BY <2>1 DEF IsHalved
  <2>3. \A i \in Nat : f[i] = IF i <= 1 THEN i ELSE 2 * f[i \div 2]
    BY <2>0, <2>1 DEF IsHalved
  <2>5. Is(f)
    BY <2>2, <2>3
  <2>6. QED
    BY <2>5
<1>2. HighestBit = CHOOSE f : Is(f)
  BY DEF HighestBit
<1>3. Is(HighestBit)
  <2> HIDE DEF Is
  <2>1. QED
    BY <1>1, <1>2
<1>4. QED
  BY <1>3

LEMMA CollapsedDef ==
    ASSUME NEW n \in Nat
    PROVE  Collapsed[n] = IF n % 2 = 1 \/ n = 0 THEN n ELSE Collapsed[n \div 2]
<1> DEFINE Is(f) == f = [i \in Nat |-> IF i % 2 = 1 \/ i = 0 THEN i ELSE f[i \div 2]]
           base == {i \in Nat : i % 2 = 1 \/ i = 0}
<1>1. \E f : Is(f)
  <2>b. 0 \in base
    OBVIOUS
  <2>0. \A i \in Nat : i \in base <=> i % 2 = 1 \/ i = 0
    OBVIOUS
  <2> HIDE DEF base
  <2>1. PICK f : IsHalved(f, base, 1)
    BY <2>b, Halved
  <2> DEFINE S == {i \in Nat : f[i] \in Nat}
  <2>2. \A i \in Nat : f[i] = IF i % 2 = 1 \/ i = 0 THEN i ELSE 1 * f[i \div 2]
    BY <2>0, <2>1 DEF IsHalved
  <2>3. \A i \in Nat : i \in S
    <3>1. ASSUME NEW i \in Nat, \A j \in 0 .. i - 1 : j \in S PROVE i \in S
      <4>1. i # 0 => i \div 2 \in 0 .. i - 1
        BY Halves
      <4>2. i # 0 => f[i \div 2] \in Nat
        BY <3>1, <4>1
      <4>3. QED
        BY <2>2, <4>2
    <3> HIDE DEF S
    <3>2. QED
      BY <3>1, AllBelow
  <2>4. \A i \in Nat : f[i] = IF i % 2 = 1 \/ i = 0 THEN i ELSE f[i \div 2]
    <3>1. \A i \in Nat : f[i \div 2] \in Nat
      BY <2>3, Halves
    <3>2. QED
      BY <2>2, <3>1
  <2>5. Is(f)
    <3>1. f = [i \in Nat |-> f[i]]
      BY <2>1 DEF IsHalved
    <3>2. QED
      BY <2>4, <3>1
  <2>6. QED
    BY <2>5
<1>2. Collapsed = CHOOSE f : Is(f)
  BY DEF Collapsed
<1>3. Is(Collapsed)
  <2> HIDE DEF Is
  <2>1. QED
    BY <1>1, <1>2
<1>4. QED
  BY <1>3

\* The split point of a list of two or more is inside it; that of a list of three or
\* more is twice the split point of the list of its pairs.
LEMMA SplitPoint ==
    ASSUME NEW n \in Nat, n >= 2
    PROVE  /\ LargestPowerOfTwoBelow(n) \in 1 .. n - 1
           /\ n >= 3 => LargestPowerOfTwoBelow(n) = 2 * LargestPowerOfTwoBelow((n + 1) \div 2)
<1> DEFINE S == {j \in Nat : j >= 1 => HighestBit[j] \in 1..j}
<1>1. ASSUME NEW j \in Nat, \A i \in 0 .. j - 1 : i \in S PROVE j \in S
  <2>1. HighestBit[j] = IF j <= 1 THEN j ELSE 2 * HighestBit[j \div 2]
    BY HighestBitDef
  <2>2. j >= 2 => /\ j \div 2 \in 0 .. j - 1 /\ j \div 2 >= 1 /\ 2 * (j \div 2) <= j
    BY Halves
  <2>3. j >= 2 => HighestBit[j \div 2] \in 1 .. j \div 2
    BY <1>1, <2>2
  <2>4. QED
    BY <2>1, <2>2, <2>3
<1> HIDE DEF S
<1>2. n - 1 \in S
  BY <1>1, AllBelow
<1>3. n >= 3 => HighestBit[n - 1] = 2 * HighestBit[(n - 1) \div 2]
  BY HighestBitDef
<1>4. (n + 1) \div 2 - 1 = (n - 1) \div 2
  OBVIOUS
<1>5. QED
  BY <1>2, <1>3, <1>4 DEF S, LargestPowerOfTwoBelow


-----------------------------------------------------------------------------
(* Merkle: the two halves of a slice *)

Width(r) == r[2] - r[1] + 1
Left(r) == <<r[1], r[1] + LargestPowerOfTwoBelow(Width(r)) - 1>>
Right(r) == <<r[1] + LargestPowerOfTwoBelow(Width(r)), r[2]>>

\* The slices of w or fewer.
Narrow(n, w) == {r \in Slices(n) : Width(r) <= w}

LEMMA SliceFacts ==
    ASSUME NEW n \in Nat, NEW r \in Slices(n)
    PROVE  /\ r[1] \in 1..n /\ r[2] \in 1..n /\ r[1] <= r[2] /\ r = <<r[1], r[2]>>
           /\ Width(r) \in Nat /\ Width(r) = r[2] - r[1] + 1
           /\ 1 <= Width(r) /\ Width(r) <= n /\ (Width(r) = 1 <=> r[1] = r[2])
BY DEF Slices, Width

LEMMA SliceSplit ==
    ASSUME NEW n \in Nat, NEW r \in Slices(n), r[1] # r[2]
    PROVE  /\ Left(r) \in Slices(n) /\ Right(r) \in Slices(n)
           /\ LargestPowerOfTwoBelow(Width(r)) \in 1 .. Width(r) - 1
           /\ Left(r)[1] = r[1] /\ Left(r)[2] = r[1] + LargestPowerOfTwoBelow(Width(r)) - 1
           /\ Right(r)[1] = r[1] + LargestPowerOfTwoBelow(Width(r)) /\ Right(r)[2] = r[2]
           /\ Width(Left(r)) < Width(r) /\ Width(Right(r)) < Width(r)
<1> DEFINE k == LargestPowerOfTwoBelow(Width(r))
<1>1. Width(r) \in Nat /\ Width(r) >= 2
  BY SliceFacts
<1>2. k \in 1 .. Width(r) - 1
  BY <1>1, SplitPoint
<1>3. Left(r) = <<r[1], r[1] + k - 1>> /\ Right(r) = <<r[1] + k, r[2]>>
  BY DEF Left, Right
<1> HIDE DEF k
<1>4. r[1] \in 1..n /\ r[2] \in 1..n /\ r[1] <= r[2] /\ Width(r) = r[2] - r[1] + 1
  BY SliceFacts
<1>5. /\ Left(r)[1] = r[1] /\ Left(r)[2] = r[1] + k - 1
      /\ Right(r)[1] = r[1] + k /\ Right(r)[2] = r[2]
  BY <1>3
<1>6. Left(r) \in Slices(n) /\ Right(r) \in Slices(n)
  BY <1>2, <1>3, <1>4 DEF Slices
<1>7. Width(Left(r)) < Width(r) /\ Width(Right(r)) < Width(r)
  BY <1>2, <1>4, <1>5 DEF Width
<1>8. QED
  BY <1>2, <1>5, <1>6, <1>7 DEF k

RootOf(f, hashes, r) ==
    IF r[1] = r[2] THEN hashes[r[1]] ELSE NodeHash(f[Left(r)], f[Right(r)])

PathOf(f, m, root, r) ==
    IF r[1] = r[2] THEN <<>>
    ELSE IF m + 1 < r[1] + LargestPowerOfTwoBelow(Width(r))
         THEN Append(f[Left(r)], root[Right(r)])
         ELSE Append(f[Right(r)], root[Left(r)])

AreRoots(f, hashes, n, w) == f = [r \in Narrow(n, w) |-> RootOf(f, hashes, r)]
ArePaths(f, m, root, n, w) == f = [r \in Narrow(n, w) |-> PathOf(f, m, root, r)]

LEMMA NarrowSplit ==
    ASSUME NEW n \in Nat, NEW w \in Nat, NEW r \in Narrow(n, w + 1), r[1] # r[2]
    PROVE  Left(r) \in Narrow(n, w) /\ Right(r) \in Narrow(n, w)
<1>1. r \in Slices(n) /\ Width(r) <= w + 1 /\ Width(r) \in Nat
  BY SliceFacts DEF Narrow
<1>2. /\ Left(r) \in Slices(n) /\ Right(r) \in Slices(n)
      /\ Width(Left(r)) < Width(r) /\ Width(Right(r)) < Width(r)
  BY <1>1, SliceSplit
<1>3. Width(Left(r)) \in Nat /\ Width(Right(r)) \in Nat
  BY <1>2, SliceFacts
<1>4. QED
  BY <1>1, <1>2, <1>3 DEF Narrow

LEMMA NarrowAll ==
    ASSUME NEW n \in Nat
    PROVE  Narrow(n, n) = Slices(n) /\ Narrow(n, 0) = {}
BY SliceFacts DEF Narrow

LEMMA NarrowGrows ==
    ASSUME NEW n \in Nat, NEW w \in Nat
    PROVE  Narrow(n, w) \subseteq Narrow(n, w + 1)
BY SliceFacts DEF Narrow

LEMMA RootsUpTo ==
    ASSUME NEW hashes, NEW n \in Nat
    PROVE  \E f : AreRoots(f, hashes, n, n)
<1> DEFINE S == {w \in Nat : \E f : AreRoots(f, hashes, n, w)}
<1>1. 0 \in S
  <2> DEFINE g == [r \in {} |-> 0]
  <2>1. AreRoots(g, hashes, n, 0)
    BY NarrowAll DEF AreRoots
  <2>2. QED
    BY <2>1
<1>2. ASSUME NEW w \in 0..n - 1, w \in S PROVE w + 1 \in S
  <2>1. PICK f : AreRoots(f, hashes, n, w)
    BY <1>2
  <2> DEFINE g == [r \in Narrow(n, w + 1) |-> RootOf(f, hashes, r)]
  <2>2. \A r \in Narrow(n, w) : g[r] = f[r]
    BY <2>1, NarrowGrows DEF AreRoots
  <2>3. ASSUME NEW r \in Narrow(n, w + 1) PROVE g[r] = RootOf(g, hashes, r)
    <3>1. g[r] = RootOf(f, hashes, r)
      OBVIOUS
    <3> HIDE DEF g
    <3>2. r[1] # r[2] => Left(r) \in Narrow(n, w) /\ Right(r) \in Narrow(n, w)
      BY NarrowSplit
    <3>3. QED
      BY <2>2, <3>1, <3>2 DEF RootOf
  <2>4. g = [r \in Narrow(n, w + 1) |-> g[r]]
    OBVIOUS
  <2> HIDE DEF g
  <2>5. AreRoots(g, hashes, n, w + 1)
    BY <2>3, <2>4 DEF AreRoots
  <2>6. QED
    BY <2>5
<1> HIDE DEF S
<1>3. n \in S
  BY <1>1, <1>2, UpTo
<1>4. QED
  BY <1>3 DEF S

LEMMA PathsUpTo ==
    ASSUME NEW m, NEW root, NEW n \in Nat
    PROVE  \E f : ArePaths(f, m, root, n, n)
<1> DEFINE S == {w \in Nat : \E f : ArePaths(f, m, root, n, w)}
<1>1. 0 \in S
  <2> DEFINE g == [r \in {} |-> 0]
  <2>1. ArePaths(g, m, root, n, 0)
    BY NarrowAll DEF ArePaths
  <2>2. QED
    BY <2>1
<1>2. ASSUME NEW w \in 0..n - 1, w \in S PROVE w + 1 \in S
  <2>1. PICK f : ArePaths(f, m, root, n, w)
    BY <1>2
  <2> DEFINE g == [r \in Narrow(n, w + 1) |-> PathOf(f, m, root, r)]
  <2>2. \A r \in Narrow(n, w) : g[r] = f[r]
    BY <2>1, NarrowGrows DEF ArePaths
  <2>3. ASSUME NEW r \in Narrow(n, w + 1) PROVE g[r] = PathOf(g, m, root, r)
    <3>1. g[r] = PathOf(f, m, root, r)
      OBVIOUS
    <3> HIDE DEF g
    <3>2. r[1] # r[2] => Left(r) \in Narrow(n, w) /\ Right(r) \in Narrow(n, w)
      BY NarrowSplit
    <3>3. QED
      BY <2>2, <3>1, <3>2 DEF PathOf
  <2>4. g = [r \in Narrow(n, w + 1) |-> g[r]]
    OBVIOUS
  <2> HIDE DEF g
  <2>5. ArePaths(g, m, root, n, w + 1)
    BY <2>3, <2>4 DEF ArePaths
  <2>6. QED
    BY <2>5
<1> HIDE DEF S
<1>3. n \in S
  BY <1>1, <1>2, UpTo
<1>4. QED
  BY <1>3 DEF S

\* The root of every slice, as the roots of its two halves.
LEMMA SliceRoot ==
    ASSUME NEW hashes, NEW n \in Nat, NEW r \in Slices(n)
    PROVE  SliceRoots(hashes, n)[r] = RootOf(SliceRoots(hashes, n), hashes, r)
<1> DEFINE Is(f) == f = [s \in Slices(n) |-> RootOf(f, hashes, s)]
<1>1. \E f : Is(f)
  <2>1. PICK f : AreRoots(f, hashes, n, n)
    BY RootsUpTo
  <2>2. Is(f)
    BY <2>1, NarrowAll DEF AreRoots
  <2>3. QED
    BY <2>2
<1>2. SliceRoots(hashes, n) = CHOOSE f : Is(f)
  BY DEF SliceRoots, RootOf, Left, Right, Width
<1>3. Is(SliceRoots(hashes, n))
  <2> HIDE DEF Is
  <2>1. QED
    BY <1>1, <1>2
<1>4. QED
  BY <1>3

SlicePaths(m, hashes, n) ==
    CHOOSE f : f = [r \in Slices(n) |-> PathOf(f, m, SliceRoots(hashes, n), r)]

LEMMA SlicePath ==
    ASSUME NEW m, NEW hashes, NEW n \in Nat, NEW r \in Slices(n)
    PROVE  SlicePaths(m, hashes, n)[r]
              = PathOf(SlicePaths(m, hashes, n), m, SliceRoots(hashes, n), r)
<1> DEFINE root == SliceRoots(hashes, n)
           Is(f) == f = [s \in Slices(n) |-> PathOf(f, m, root, s)]
<1>1. \E f : Is(f)
  <2> HIDE DEF root
  <2>1. PICK f : ArePaths(f, m, root, n, n)
    BY PathsUpTo
  <2>2. Is(f)
    BY <2>1, NarrowAll DEF ArePaths
  <2>3. QED
    BY <2>2
<1>2. SlicePaths(m, hashes, n) = CHOOSE f : Is(f)
  BY DEF SlicePaths
<1>3. Is(SlicePaths(m, hashes, n))
  <2> HIDE DEF Is
  <2>1. QED
    BY <1>1, <1>2
<1>4. QED
  BY <1>3

LEMMA PathIsSlicePath ==
    ASSUME NEW m, NEW hashes
    PROVE  PathFromLeafHashes(m, hashes) = SlicePaths(m, hashes, Len(hashes))[<<1, Len(hashes)>>]
BY DEF PathFromLeafHashes, SlicePaths, PathOf, Left, Right, Width


-----------------------------------------------------------------------------
(* Merkle: a list and the list of its pairs *)

Halving(n) == (n + 1) \div 2

\* Neighbours hashed together; the last of an odd number as it is.
Paired(hashes, n) ==
    [j \in 1..Halving(n) |-> IF 2 * j <= n THEN NodeHash(hashes[2 * j - 1], hashes[2 * j])
                             ELSE hashes[2 * j - 1]]

\* The slices that cut no pair, and where they lie in the list of pairs.
Aligned(n, r) == r[1] % 2 = 1 /\ (r[2] = n \/ r[2] % 2 = 0)
Half(r) == <<Halving(r[1]), Halving(r[2])>>

LEMMA HalvingFacts ==
    ASSUME NEW n \in Nat
    PROVE  /\ Halving(n) \in Nat /\ Halving(n) <= n /\ (n >= 2 => Halving(n) < n)
           /\ (n >= 1 => Halving(n) >= 1) /\ (n >= 2 => n - 1 >= 1) /\ (n >= 3 => Halving(n) >= 2)
           /\ n % 2 = 1 => n = 2 * Halving(n) - 1
           /\ n % 2 = 0 => n = 2 * Halving(n)
BY DEF Halving

LEMMA HalvingOdd ==
    ASSUME NEW a \in Nat, a % 2 = 1, NEW h \in Nat
    PROVE  /\ a = 2 * Halving(a) - 1 /\ Halving(a + 1) = Halving(a)
           /\ Halving(a + 2 * h) = Halving(a) + h /\ Halving(a + 2 * h - 1) = Halving(a) + h - 1
BY DEF Halving

LEMMA HalfSlice ==
    ASSUME NEW n \in Nat, NEW r \in Slices(n), Aligned(n, r)
    PROVE  /\ Half(r) \in Slices(Halving(n)) /\ Width(Half(r)) = Halving(Width(r))
           /\ Half(r)[1] = Halving(r[1]) /\ Half(r)[2] = Halving(r[2])
<1>1. r[1] \in 1..n /\ r[2] \in 1..n /\ r[1] <= r[2] /\ Width(r) = r[2] - r[1] + 1
  BY SliceFacts
<1>2. r[1] % 2 = 1
  BY DEF Aligned
<1>3. Half(r)[1] = Halving(r[1]) /\ Half(r)[2] = Halving(r[2])
  BY DEF Half
<1>4. /\ Halving(r[1]) \in 1..Halving(n) /\ Halving(r[2]) \in 1..Halving(n)
      /\ Halving(r[1]) <= Halving(r[2])
  BY <1>1 DEF Halving
<1>5. Half(r) \in Slices(Halving(n))
  BY <1>4 DEF Half, Slices
<1>6. Halving(r[2]) - Halving(r[1]) + 1 = Halving(Width(r))
  BY <1>1, <1>2 DEF Halving
<1>7. QED
  BY <1>3, <1>5, <1>6 DEF Width

LEMMA HalfSplit ==
    ASSUME NEW n \in Nat, NEW r \in Slices(n), Aligned(n, r), Width(r) >= 3
    PROVE  /\ r[1] # r[2] /\ Half(r)[1] # Half(r)[2]
           /\ Aligned(n, Left(r)) /\ Aligned(n, Right(r)) /\ Left(r)[2] % 2 = 0
           /\ Half(Left(r)) = Left(Half(r)) /\ Half(Right(r)) = Right(Half(r))
           /\ LargestPowerOfTwoBelow(Width(r)) = 2 * LargestPowerOfTwoBelow(Width(Half(r)))
           /\ LargestPowerOfTwoBelow(Width(Half(r))) \in Nat \ {0}
<1> DEFINE k == LargestPowerOfTwoBelow(Width(r))
           h == LargestPowerOfTwoBelow(Width(Half(r)))
<1>1. /\ r[1] \in 1..n /\ r[2] \in 1..n /\ r[1] <= r[2] /\ Width(r) = r[2] - r[1] + 1
      /\ Width(r) \in Nat /\ r[1] # r[2]
  BY SliceFacts
<1>2. /\ Half(r)[1] = Halving(r[1]) /\ Half(r)[2] = Halving(r[2])
      /\ Width(Half(r)) = Halving(Width(r))
  BY HalfSlice
<1>3. k = 2 * h
  BY <1>1, <1>2, SplitPoint DEF Halving
<1>4. Width(Half(r)) \in Nat /\ Width(Half(r)) >= 2
  BY <1>1, <1>2, HalvingFacts
<1>5. h \in Nat \ {0}
  BY <1>4, SplitPoint
<1>6. Left(r) = <<r[1], r[1] + k - 1>> /\ Right(r) = <<r[1] + k, r[2]>>
  BY DEF Left, Right
<1>7. Left(Half(r)) = <<Half(r)[1], Half(r)[1] + h - 1>> /\ Right(Half(r)) = <<Half(r)[1] + h, Half(r)[2]>>
  BY DEF Left, Right
<1> HIDE DEF k, h
<1>8. r[1] % 2 = 1 /\ (r[2] = n \/ r[2] % 2 = 0)
  BY DEF Aligned
<1>9. (r[1] + k) % 2 = 1 /\ (r[1] + k - 1) % 2 = 0
  BY <1>1, <1>3, <1>5, <1>8
<1>10. Aligned(n, Left(r)) /\ Aligned(n, Right(r)) /\ Left(r)[2] % 2 = 0
  BY <1>6, <1>8, <1>9 DEF Aligned
<1>11. Halving(r[1] + k - 1) = Halving(r[1]) + h - 1 /\ Halving(r[1] + k) = Halving(r[1]) + h
  <2>1. r[1] \in Nat /\ h \in Nat
    BY <1>1, <1>5
  <2>2. QED
    BY <1>3, <1>8, <2>1, HalvingOdd
<1>12. Half(Left(r)) = Left(Half(r)) /\ Half(Right(r)) = Right(Half(r))
  BY <1>2, <1>6, <1>7, <1>11 DEF Half
<1>13. Half(r)[1] # Half(r)[2]
  BY <1>1, <1>2, <1>8 DEF Halving
<1>14. QED
  BY <1>1, <1>3, <1>5, <1>10, <1>12, <1>13 DEF k, h

\* A slice of one that cuts no pair is the last of an odd number; one of two is a pair.
LEMMA HalfSmall ==
    ASSUME NEW n \in Nat, NEW r \in Slices(n), Aligned(n, r), Width(r) <= 2
    PROVE  /\ Half(r)[1] = Half(r)[2] /\ Half(r)[1] = Halving(r[1]) /\ r[1] = 2 * Halving(r[1]) - 1
           /\ \/ r[1] = r[2] /\ r[1] = n /\ Width(r) = 1
              \/ r[2] = 2 * Halving(r[1]) /\ r[1] # r[2] /\ Width(r) = 2
                 /\ LargestPowerOfTwoBelow(Width(r)) = 1
                 /\ Left(r) = <<r[1], r[1]>> /\ Right(r) = <<r[2], r[2]>>
<1>1. /\ r[1] \in 1..n /\ r[2] \in 1..n /\ r[1] <= r[2] /\ Width(r) = r[2] - r[1] + 1
  BY SliceFacts
<1>2. r[1] % 2 = 1 /\ (r[2] = n \/ r[2] % 2 = 0)
  BY DEF Aligned
<1>3. r[1] = 2 * Halving(r[1]) - 1
  <2>1. r[1] \in Nat /\ 0 \in Nat
    BY <1>1
  <2>2. QED
    BY <1>2, <2>1, HalvingOdd
<1>4. Half(r)[1] = Halving(r[1]) /\ Half(r)[2] = Halving(r[2])
  BY HalfSlice
<1>5. CASE r[1] = r[2]
  <2>1. r[1] = n
    BY <1>2, <1>5
  <2>2. Width(r) = 1
    BY <1>1, <1>5
  <2>3. QED
    BY <1>3, <1>4, <1>5, <2>1, <2>2
<1>6. CASE r[2] = r[1] + 1
  <2>1. Halving(r[2]) = Halving(r[1])
    BY <1>1, <1>2, <1>6 DEF Halving
  <2>2. Width(r) = 2
    BY <1>1, <1>6
  <2>3. LargestPowerOfTwoBelow(2) = 1
    BY SplitPoint
  <2>4. Left(r) = <<r[1], r[1]>> /\ Right(r) = <<r[2], r[2]>>
    <3>1. Left(r) = <<r[1], r[1] + 1 - 1>> /\ Right(r) = <<r[1] + 1, r[2]>>
      BY <2>2, <2>3 DEF Left, Right
    <3>2. QED
      BY <1>1, <1>6, <3>1
  <2>5. r[2] = 2 * Halving(r[1]) /\ r[1] # r[2]
    <3>1. r[1] \in Nat
      BY <1>1
    <3>2. Halving(r[1]) \in Nat
      BY <3>1, HalvingFacts
    <3>3. QED
      BY <1>3, <1>6, <3>1, <3>2
  <2>6. Half(r)[1] = Half(r)[2]
    BY <1>4, <2>1
  <2>7. LargestPowerOfTwoBelow(Width(r)) = 1
    BY <2>2, <2>3
  <2>8. QED
    BY <1>3, <1>4, <2>2, <2>4, <2>5, <2>6, <2>7
<1>7. r[1] = r[2] \/ r[2] = r[1] + 1
  BY <1>1
<1>8. QED
  BY <1>5, <1>6, <1>7

\* A list of two or more has the root of the list of its pairs.
LEMMA PairedRoots ==
    ASSUME NEW hashes, NEW n \in Nat
    PROVE  \A r \in Slices(n) : Aligned(n, r) =>
              SliceRoots(hashes, n)[r] = SliceRoots(Paired(hashes, n), Halving(n))[Half(r)]
<1> DEFINE P == Paired(hashes, n)
           f == SliceRoots(hashes, n)
           g == SliceRoots(P, Halving(n))
           S == {w \in Nat : \A r \in Slices(n) : Aligned(n, r) /\ Width(r) = w => f[r] = g[Half(r)]}
<1>0. Halving(n) \in Nat
  BY HalvingFacts
<1>1. ASSUME NEW w \in Nat, \A i \in 0 .. w - 1 : i \in S PROVE w \in S
  <2>1. SUFFICES ASSUME NEW r \in Slices(n), Aligned(n, r), Width(r) = w PROVE f[r] = g[Half(r)]
    OBVIOUS
  <2>2. Half(r) \in Slices(Halving(n))
    BY <2>1, HalfSlice
  <2>3. f[r] = RootOf(f, hashes, r) /\ g[Half(r)] = RootOf(g, P, Half(r))
    BY <1>0, <2>2, SliceRoot
  <2>4. CASE w >= 3
    <3>1. Left(r) \in Slices(n) /\ Right(r) \in Slices(n) /\ Width(Left(r)) < w /\ Width(Right(r)) < w
      BY <2>1, <2>4, SliceSplit, HalfSplit
    <3>2. Aligned(n, Left(r)) /\ Aligned(n, Right(r)) /\ r[1] # r[2] /\ Half(r)[1] # Half(r)[2]
      BY <2>1, <2>4, HalfSplit
    <3>3. Width(Left(r)) \in 0 .. w - 1 /\ Width(Right(r)) \in 0 .. w - 1
      BY <3>1, SliceFacts
    <3>4. f[Left(r)] = g[Half(Left(r))] /\ f[Right(r)] = g[Half(Right(r))]
      BY <1>1, <3>1, <3>2, <3>3
    <3>5. Half(Left(r)) = Left(Half(r)) /\ Half(Right(r)) = Right(Half(r))
      BY <2>1, <2>4, HalfSplit
    <3> HIDE DEF f, g
    <3>6. QED
      BY <2>3, <3>2, <3>4, <3>5 DEF RootOf
  <2>5. CASE w <= 2
    <3> DEFINE j == Halving(r[1])
    <3>1. /\ Half(r)[1] = Half(r)[2] /\ Half(r)[1] = j /\ r[1] = 2 * j - 1
          /\ \/ r[1] = r[2] /\ r[1] = n
             \/ /\ r[2] = 2 * j /\ r[1] # r[2]
                /\ Left(r) = <<r[1], r[1]>> /\ Right(r) = <<r[2], r[2]>>
      BY <2>1, <2>5, HalfSmall
    <3>2. j \in 1..Halving(n) /\ j \in Nat /\ r[1] \in 1..n /\ r[2] \in 1..n
      BY <2>2, <3>1, SliceFacts, <1>0
    <3> HIDE DEF j, f, g
    <3>3. g[Half(r)] = P[j]
      BY <2>3, <3>1 DEF RootOf
    <3>4. CASE r[1] = r[2] /\ r[1] = n
      <4>1. f[r] = hashes[2 * j - 1]
        BY <2>3, <3>1, <3>4 DEF RootOf
      <4>2. ~(2 * j <= n)
        BY <3>1, <3>2, <3>4
      <4>3. P[j] = hashes[2 * j - 1]
        BY <3>2, <4>2 DEF Paired
      <4>4. QED
        BY <3>3, <4>1, <4>3
    <3>5. CASE r[2] = 2 * j /\ r[1] # r[2] /\ Left(r) = <<r[1], r[1]>> /\ Right(r) = <<r[2], r[2]>>
      <4>1. <<r[1], r[1]>> \in Slices(n) /\ <<r[2], r[2]>> \in Slices(n)
        BY <3>2 DEF Slices
      <4>2. f[<<r[1], r[1]>>] = hashes[r[1]] /\ f[<<r[2], r[2]>>] = hashes[r[2]]
        BY <4>1, SliceRoot DEF RootOf, f
      <4>3. f[r] = NodeHash(hashes[2 * j - 1], hashes[2 * j])
        BY <2>3, <3>1, <3>5, <4>2 DEF RootOf
      <4>4. P[j] = NodeHash(hashes[2 * j - 1], hashes[2 * j])
        BY <3>2, <3>5 DEF Paired
      <4>5. QED
        BY <3>3, <4>3, <4>4
    <3>6. QED
      BY <3>1, <3>4, <3>5
  <2>6. QED
    BY <2>4, <2>5
<1>2. ASSUME NEW r \in Slices(n), Aligned(n, r) PROVE f[r] = g[Half(r)]
  <2>1. Width(r) \in Nat
    BY SliceFacts
  <2>2. \A w \in Nat : w \in S
    <3> HIDE DEF S
    <3>1. QED
      BY <1>1, AllBelow
  <2>3. Width(r) \in S
    BY <2>1, <2>2
  <2>4. QED
    BY <1>2, <2>3
<1>3. QED
  BY <1>2


-----------------------------------------------------------------------------
(* Merkle: a path and the path in the list of pairs *)

IsList(s) == \E S : s \in Seq(S)

LEMMA ListFacts ==
    /\ IsList(<<>>) /\ Len(<<>>) = 0
    /\ \A s : IsList(s) => Len(s) \in Nat
    /\ \A s, x : IsList(s) => /\ IsList(Append(s, x)) /\ Len(Append(s, x)) = Len(s) + 1
                              /\ Append(s, x)[Len(s) + 1] = x
                              /\ \A i \in 1..Len(s) : Append(s, x)[i] = s[i]
<1>1. IsList(<<>>) /\ Len(<<>>) = 0
  <2>1. <<>> \in Seq({})
    OBVIOUS
  <2>2. QED
    BY <2>1 DEF IsList
<1>2. ASSUME NEW s, IsList(s), NEW x
      PROVE  /\ IsList(Append(s, x)) /\ Len(Append(s, x)) = Len(s) + 1 /\ Len(s) \in Nat
             /\ Append(s, x)[Len(s) + 1] = x
             /\ \A i \in 1..Len(s) : Append(s, x)[i] = s[i]
  <2>1. PICK S : s \in Seq(S)
    BY <1>2 DEF IsList
  <2> DEFINE T == S \cup {x}
  <2>2. s \in Seq(T) /\ x \in T
    BY <2>1
  <2> HIDE DEF T
  <2>3. Append(s, x) \in Seq(T)
    BY <2>2
  <2>4. IsList(Append(s, x))
    BY <2>3 DEF IsList
  <2>5. QED
    BY <2>1, <2>2, <2>4
<1>3. QED
  BY <1>1, <1>2

LEMMA PathsAreLists ==
    ASSUME NEW m, NEW hashes, NEW n \in Nat
    PROVE  \A r \in Slices(n) : IsList(SlicePaths(m, hashes, n)[r])
<1> DEFINE f == SlicePaths(m, hashes, n)
           root == SliceRoots(hashes, n)
           S == {w \in Nat : \A r \in Slices(n) : Width(r) = w => IsList(f[r])}
<1>1. ASSUME NEW w \in Nat, \A i \in 0 .. w - 1 : i \in S PROVE w \in S
  <2>1. SUFFICES ASSUME NEW r \in Slices(n), Width(r) = w PROVE IsList(f[r])
    OBVIOUS
  <2>2. f[r] = PathOf(f, m, root, r)
    BY SlicePath
  <2>3. CASE r[1] = r[2]
    <3> HIDE DEF f
    <3>1. QED
      BY <2>2, <2>3, ListFacts DEF PathOf
  <2>4. CASE r[1] # r[2]
    <3>1. Left(r) \in Slices(n) /\ Right(r) \in Slices(n) /\ Width(Left(r)) < w /\ Width(Right(r)) < w
      BY <2>1, <2>4, SliceSplit
    <3>2. Width(Left(r)) \in 0 .. w - 1 /\ Width(Right(r)) \in 0 .. w - 1
      BY <3>1, SliceFacts
    <3>3. IsList(f[Left(r)]) /\ IsList(f[Right(r)])
      BY <1>1, <3>1, <3>2
    <3> HIDE DEF f, root
    <3>4. QED
      BY <2>2, <2>4, <3>3, ListFacts DEF PathOf
  <2>5. QED
    BY <2>3, <2>4
<1>2. ASSUME NEW r \in Slices(n) PROVE IsList(f[r])
  <2>1. Width(r) \in Nat
    BY SliceFacts
  <2>2. \A w \in Nat : w \in S
    <3> HIDE DEF S
    <3>1. QED
      BY <1>1, AllBelow
  <2>3. QED
    BY <2>1, <2>2
<1>3. QED
  BY <1>2

\* t is x followed by s.
Prefixed(x, s, t) ==
    /\ Len(t) = Len(s) + 1 /\ t[1] = x
    /\ \A i \in 1..Len(s) : t[i + 1] = s[i]

LEMMA PrefixedAppend ==
    ASSUME NEW x, NEW s, NEW t, IsList(s), IsList(t), Prefixed(x, s, t), NEW y
    PROVE  Prefixed(x, Append(s, y), Append(t, y))
<1>1. /\ Len(s) \in Nat /\ Len(Append(s, y)) = Len(s) + 1 /\ Append(s, y)[Len(s) + 1] = y
      /\ \A i \in 1..Len(s) : Append(s, y)[i] = s[i]
  BY ListFacts
<1>2. /\ Len(t) \in Nat /\ Len(Append(t, y)) = Len(t) + 1 /\ Append(t, y)[Len(t) + 1] = y
      /\ \A i \in 1..Len(t) : Append(t, y)[i] = t[i]
  BY ListFacts
<1>3. Len(t) = Len(s) + 1 /\ t[1] = x /\ \A i \in 1..Len(s) : t[i + 1] = s[i]
  BY DEF Prefixed
<1>4. Append(t, y)[1] = x
  BY <1>1, <1>2, <1>3
<1>5. ASSUME NEW i \in 1..Len(s) + 1 PROVE Append(t, y)[i + 1] = Append(s, y)[i]
  <2>1. CASE i = Len(s) + 1
    BY <1>1, <1>2, <1>3, <2>1
  <2>2. CASE i # Len(s) + 1
    <3>1. i \in 1..Len(s) /\ i + 1 \in 1..Len(t)
      BY <1>1, <1>3, <2>2
    <3>2. QED
      BY <1>1, <1>2, <1>3, <3>1
  <2>3. QED
    BY <2>1, <2>2
<1>6. QED
  BY <1>1, <1>2, <1>3, <1>4, <1>5 DEF Prefixed

LEMMA PrefixedOne ==
    ASSUME NEW x
    PROVE  Prefixed(x, <<>>, Append(<<>>, x))
BY ListFacts DEF Prefixed

\* The leaf a pair has beside leaf m, where there is one.
Sibling(hashes, m) == IF m % 2 = 1 THEN hashes[m] ELSE hashes[m + 2]
\* Leaf m is the last of the slice r and has none.
Alone(m, r) == m % 2 = 0 /\ m + 1 = r[2]

\* What the path in the list of pairs says of the path, for a slice that holds leaf m.
Lifted(hashes, n, m, r) ==
    LET a == SlicePaths(m, hashes, n)[r]
        b == SlicePaths(m \div 2, Paired(hashes, n), Halving(n))[Half(r)]
    IN  IF Alone(m, r) THEN a = b ELSE Prefixed(Sibling(hashes, m), b, a)

LEMMA LiftedSmall ==
    ASSUME NEW hashes, NEW n \in Nat, NEW m \in Nat, NEW r \in Slices(n), Aligned(n, r),
           Width(r) <= 2, r[1] <= m + 1, m + 1 <= r[2]
    PROVE  Lifted(hashes, n, m, r)
<1> DEFINE f == SliceRoots(hashes, n)
           P == Paired(hashes, n)
           a == SlicePaths(m, hashes, n)
           b == SlicePaths(m \div 2, P, Halving(n))
           j == Halving(r[1])
<1>1. /\ Half(r)[1] = Half(r)[2] /\ r[1] = 2 * j - 1
      /\ \/ r[1] = r[2] /\ r[1] = n
         \/ /\ r[2] = 2 * j /\ r[1] # r[2] /\ LargestPowerOfTwoBelow(Width(r)) = 1
            /\ Left(r) = <<r[1], r[1]>> /\ Right(r) = <<r[2], r[2]>>
  BY HalfSmall
<1>2. Half(r) \in Slices(Halving(n)) /\ Halving(n) \in Nat
  BY HalfSlice, HalvingFacts
<1>3. b[Half(r)] = <<>>
  <2>1. b[Half(r)] = PathOf(b, m \div 2, SliceRoots(P, Halving(n)), Half(r))
    BY <1>2, SlicePath
  <2> HIDE DEF b
  <2>2. QED
    BY <1>1, <2>1 DEF PathOf
<1>4. a[r] = PathOf(a, m, f, r)
  BY SlicePath
<1>5. r[1] \in Nat /\ r[2] \in Nat /\ j \in Nat /\ r[1] \in 1..n /\ r[2] \in 1..n
  BY SliceFacts, HalvingFacts
<1>6. CASE r[1] = r[2] /\ r[1] = n
  <2>1. Alone(m, r)
    <3> HIDE DEF j
    <3>1. m + 1 = 2 * j - 1 /\ m + 1 = r[2]
      BY <1>1, <1>5, <1>6
    <3>2. m % 2 = 0
      BY <3>1, <1>5
    <3>3. QED
      BY <3>1, <3>2 DEF Alone
  <2>2. a[r] = <<>>
    <3> HIDE DEF a
    <3>1. QED
      BY <1>4, <1>6 DEF PathOf
  <2>3. QED
    BY <1>3, <2>1, <2>2 DEF Lifted
<1>7. CASE /\ r[2] = 2 * j /\ r[1] # r[2] /\ LargestPowerOfTwoBelow(Width(r)) = 1
           /\ Left(r) = <<r[1], r[1]>> /\ Right(r) = <<r[2], r[2]>>
  <2>1. <<r[1], r[1]>> \in Slices(n) /\ <<r[2], r[2]>> \in Slices(n)
    BY <1>5 DEF Slices
  <2>2. f[<<r[1], r[1]>>] = hashes[r[1]] /\ f[<<r[2], r[2]>>] = hashes[r[2]]
    BY <2>1, SliceRoot DEF RootOf
  <2>3. a[<<r[1], r[1]>>] = <<>> /\ a[<<r[2], r[2]>>] = <<>>
    BY <2>1, SlicePath DEF PathOf
  <2> HIDE DEF a, b, f, j
  <2>4. CASE m + 1 = r[1]
    <3>1. m % 2 = 0 /\ ~Alone(m, r) /\ r[2] = m + 2
      BY <1>1, <1>5, <1>7, <2>4 DEF Alone
    <3>2. m + 1 < r[1] + 1
      BY <1>5, <2>4
    <3>3. a[r] = Append(<<>>, hashes[m + 2])
      BY <1>4, <1>7, <2>2, <2>3, <3>1, <3>2 DEF PathOf
    <3>4. Sibling(hashes, m) = hashes[m + 2]
      BY <3>1 DEF Sibling
    <3>5. Prefixed(Sibling(hashes, m), b[Half(r)], a[r])
      BY <1>3, <3>3, <3>4, PrefixedOne
    <3>6. QED
      BY <3>1, <3>5 DEF Lifted, a, b
  <2>5. CASE m + 1 = r[2]
    <3>1. m % 2 = 1 /\ ~Alone(m, r) /\ r[1] = m
      BY <1>1, <1>5, <1>7, <2>5 DEF Alone
    <3>2. ~(m + 1 < r[1] + 1)
      BY <1>5, <3>1
    <3>3. a[r] = Append(<<>>, hashes[m])
      BY <1>4, <1>7, <2>2, <2>3, <3>1, <3>2 DEF PathOf
    <3>4. Sibling(hashes, m) = hashes[m]
      BY <3>1 DEF Sibling
    <3>5. Prefixed(Sibling(hashes, m), b[Half(r)], a[r])
      BY <1>3, <3>3, <3>4, PrefixedOne
    <3>6. QED
      BY <3>1, <3>5 DEF Lifted, a, b
  <2>6. m + 1 = r[1] \/ m + 1 = r[2]
    BY <1>1, <1>5, <1>7
  <2>7. QED
    BY <2>4, <2>5, <2>6
<1>8. QED
  BY <1>1, <1>6, <1>7


LEMMA HalfSide ==
    ASSUME NEW c \in Nat, NEW h \in Nat, NEW m \in Nat
    PROVE  m + 1 < (2 * c - 1) + 2 * h <=> (m \div 2) + 1 < c + h
OBVIOUS

LEMMA LiftedLarge ==
    ASSUME NEW hashes, NEW n \in Nat, NEW m \in Nat, NEW r \in Slices(n), Aligned(n, r),
           Width(r) >= 3, r[1] <= m + 1, m + 1 <= r[2],
           \A s \in {Left(r), Right(r)} :
              s[1] <= m + 1 /\ m + 1 <= s[2] => Lifted(hashes, n, m, s)
    PROVE  Lifted(hashes, n, m, r)
<1> DEFINE f == SliceRoots(hashes, n)
           P == Paired(hashes, n)
           g == SliceRoots(P, Halving(n))
           a == SlicePaths(m, hashes, n)
           b == SlicePaths(m \div 2, P, Halving(n))
           q == Half(r)
           k == LargestPowerOfTwoBelow(Width(r))
           h == LargestPowerOfTwoBelow(Width(q))
<1>1. /\ r[1] # r[2] /\ q[1] # q[2] /\ Aligned(n, Left(r)) /\ Aligned(n, Right(r))
      /\ Left(r)[2] % 2 = 0 /\ Half(Left(r)) = Left(q) /\ Half(Right(r)) = Right(q)
      /\ k = 2 * h /\ h \in Nat \ {0}
  BY HalfSplit
<1>2. /\ Left(r) \in Slices(n) /\ Right(r) \in Slices(n)
      /\ Left(r)[1] = r[1] /\ Left(r)[2] = r[1] + k - 1
      /\ Right(r)[1] = r[1] + k /\ Right(r)[2] = r[2]
  BY <1>1, SliceSplit
<1>3. q \in Slices(Halving(n)) /\ Halving(n) \in Nat /\ q[1] = Halving(r[1])
  BY HalfSlice, HalvingFacts
<1>4. f[Left(r)] = g[Left(q)] /\ f[Right(r)] = g[Right(q)]
  BY <1>1, <1>2, PairedRoots
<1>5. a[r] = PathOf(a, m, f, r) /\ b[q] = PathOf(b, m \div 2, g, q)
  BY <1>3, SlicePath
<1>6. r[1] \in Nat /\ r[2] \in Nat
  BY SliceFacts
<1>7. m + 1 < r[1] + k <=> (m \div 2) + 1 < q[1] + h
  <2>1. r[1] = 2 * q[1] - 1 /\ q[1] \in Nat
    <3>1. r[1] % 2 = 1 /\ 0 \in Nat
      BY DEF Aligned
    <3>2. r[1] = 2 * Halving(r[1]) - 1
      BY <1>6, <3>1, HalvingOdd
    <3>3. Halving(r[1]) \in Nat
      BY <1>6, HalvingFacts
    <3> HIDE DEF q
    <3>4. QED
      BY <1>3, <3>2, <3>3
  <2> HIDE DEF q, h, k
  <2>2. QED
    BY <1>1, <2>1, HalfSide
<1>8. IsList(a[Left(r)]) /\ IsList(a[Right(r)]) /\ IsList(b[Left(q)]) /\ IsList(b[Right(q)])
  <2>1. Left(q) \in Slices(Halving(n)) /\ Right(q) \in Slices(Halving(n))
    BY <1>1, <1>3, SliceSplit
  <2>2. QED
    BY <1>2, <1>3, <2>1, PathsAreLists
<1>9. CASE m + 1 < r[1] + k
  <2>1. a[r] = Append(a[Left(r)], f[Right(r)]) /\ b[q] = Append(b[Left(q)], g[Right(q)])
    <3> HIDE DEF a, b, f, g, q
    <3>1. QED
      BY <1>1, <1>5, <1>7, <1>9 DEF PathOf
  <2>2. Left(r)[1] <= m + 1 /\ m + 1 <= Left(r)[2]
    <3> HIDE DEF k, h
    <3>1. QED
      BY <1>1, <1>2, <1>6, <1>9
  <2>3. Lifted(hashes, n, m, Left(r))
    BY <2>2
  <2>4. ~Alone(m, Left(r))
    BY <1>1 DEF Alone
  <2>5. Prefixed(Sibling(hashes, m), b[Left(q)], a[Left(r)])
    BY <1>1, <2>3, <2>4 DEF Lifted
  <2>6. ~Alone(m, r)
    <3> HIDE DEF k, h
    <3>1. r[1] + k <= r[2]
      BY <1>2, SliceFacts
    <3>2. QED
      BY <1>1, <1>6, <1>9, <3>1 DEF Alone
  <2> HIDE DEF a, b, f, g, q, k, h
  <2>7. Prefixed(Sibling(hashes, m), b[q], a[r])
    BY <1>4, <1>8, <2>1, <2>5, PrefixedAppend
  <2>8. QED
    BY <2>6, <2>7 DEF Lifted, a, b, q
<1>10. CASE ~(m + 1 < r[1] + k)
  <2>1. a[r] = Append(a[Right(r)], f[Left(r)]) /\ b[q] = Append(b[Right(q)], g[Left(q)])
    <3> HIDE DEF a, b, f, g, q
    <3>1. QED
      BY <1>1, <1>5, <1>7, <1>10 DEF PathOf
  <2>2. Right(r)[1] <= m + 1 /\ m + 1 <= Right(r)[2]
    <3> HIDE DEF k, h
    <3>1. QED
      BY <1>1, <1>2, <1>6, <1>10
  <2>3. Lifted(hashes, n, m, Right(r))
    BY <2>2
  <2>4. Alone(m, Right(r)) <=> Alone(m, r)
    BY <1>2 DEF Alone
  <2>5. IF Alone(m, r) THEN a[Right(r)] = b[Right(q)]
        ELSE Prefixed(Sibling(hashes, m), b[Right(q)], a[Right(r)])
    BY <1>1, <2>3, <2>4 DEF Lifted
  <2> HIDE DEF a, b, f, g, q, k, h
  <2>6. CASE Alone(m, r)
    <3>1. a[r] = b[q]
      BY <1>4, <2>1, <2>5, <2>6
    <3>2. QED
      BY <2>6, <3>1 DEF Lifted, a, b, q
  <2>7. CASE ~Alone(m, r)
    <3>1. Prefixed(Sibling(hashes, m), b[q], a[r])
      BY <1>4, <1>8, <2>1, <2>5, <2>7, PrefixedAppend
    <3>2. QED
      BY <2>7, <3>1 DEF Lifted, a, b, q
  <2>8. QED
    BY <2>6, <2>7
<1>11. QED
  BY <1>9, <1>10

LEMMA LiftedPath ==
    ASSUME NEW hashes, NEW n \in Nat, NEW m \in Nat
    PROVE  \A r \in Slices(n) :
              Aligned(n, r) /\ r[1] <= m + 1 /\ m + 1 <= r[2] => Lifted(hashes, n, m, r)
<1> DEFINE Q(r) == Aligned(n, r) /\ r[1] <= m + 1 /\ m + 1 <= r[2]
           S == {w \in Nat : \A r \in Slices(n) : Q(r) /\ Width(r) = w => Lifted(hashes, n, m, r)}
<1>1. ASSUME NEW w \in Nat, \A i \in 0 .. w - 1 : i \in S PROVE w \in S
  <2>1. SUFFICES ASSUME NEW r \in Slices(n), Q(r), Width(r) = w PROVE Lifted(hashes, n, m, r)
    OBVIOUS
  <2>2. CASE w <= 2
    BY <2>1, <2>2, LiftedSmall
  <2>3. CASE w >= 3
    <3>1. r[1] # r[2] /\ Aligned(n, Left(r)) /\ Aligned(n, Right(r))
      BY <2>1, <2>3, HalfSplit
    <3>2. Left(r) \in Slices(n) /\ Right(r) \in Slices(n) /\ Width(Left(r)) < w /\ Width(Right(r)) < w
      BY <2>1, <3>1, SliceSplit
    <3>3. Width(Left(r)) \in 0 .. w - 1 /\ Width(Right(r)) \in 0 .. w - 1
      BY <3>2, SliceFacts
    <3>4. ASSUME NEW s \in {Left(r), Right(r)}, s[1] <= m + 1, m + 1 <= s[2]
          PROVE  Lifted(hashes, n, m, s)
      <4>1. s \in Slices(n) /\ Q(s) /\ Width(s) \in S
        BY <1>1, <3>1, <3>2, <3>3, <3>4
      <4>2. QED
        BY <4>1
    <3>5. QED
      BY <2>1, <2>3, <3>4, LiftedLarge
  <2>4. QED
    BY <2>2, <2>3
<1>2. ASSUME NEW r \in Slices(n), Q(r) PROVE Lifted(hashes, n, m, r)
  <2>1. Width(r) \in Nat
    BY SliceFacts
  <2>2. \A w \in Nat : w \in S
    <3> HIDE DEF S
    <3>1. QED
      BY <1>1, AllBelow
  <2>3. QED
    BY <1>2, <2>1, <2>2
<1>3. QED
  BY <1>2


-----------------------------------------------------------------------------
(* Merkle: the verification walk *)

AreSteps(w, s, path, n) ==
    w = [t \in 0..n |-> IF t = 0 THEN s ELSE VerifyStep(w[t - 1], path[t])]

\* Where the walk over path ends that starts at s.
EndOf(s, path) == (CHOOSE w : AreSteps(w, s, path, Len(path)))[Len(path)]

LEMMA VerifyIsWalk ==
    ASSUME NEW index, NEW size, NEW leaf, NEW path, NEW root
    PROVE  verify_inclusion(index, size, leaf, path, root) <=>
              /\ 0 <= index /\ index < size
              /\ LET end == EndOf([ok |-> TRUE, r |-> leaf, fn |-> index, sn |-> size - 1], path)
                 IN  end.ok /\ end.sn = 0 /\ end.r = root
BY DEF verify_inclusion, EndOf, AreSteps

LEMMA StepsExist ==
    ASSUME NEW s, NEW path, NEW N \in Nat
    PROVE  \E w : AreSteps(w, s, path, N)
<1> DEFINE S == {n \in Nat : \E w : AreSteps(w, s, path, n)}
<1>1. 0 \in S
  <2>1. AreSteps([i \in 0..0 |-> s], s, path, 0)
    BY DEF AreSteps
  <2>2. QED
    BY <2>1
<1>2. ASSUME NEW n \in 0..N - 1, n \in S PROVE n + 1 \in S
  <2>1. PICK f : AreSteps(f, s, path, n)
    BY <1>2
  <2> DEFINE g == [i \in 0..n + 1 |-> IF i = n + 1 THEN VerifyStep(f[n], path[n + 1]) ELSE f[i]]
  <2>2. ASSUME NEW i \in 0..n + 1
        PROVE  g[i] = IF i = 0 THEN s ELSE VerifyStep(g[i - 1], path[i])
    <3>1. CASE i = n + 1
      <4>1. i # 0 /\ i - 1 = n /\ n \in 0..n + 1 /\ n # n + 1
        BY <3>1
      <4>2. g[i - 1] = f[n] /\ g[i] = VerifyStep(f[n], path[i])
        BY <3>1, <4>1
      <4> HIDE DEF g
      <4>3. QED
        BY <4>1, <4>2
    <3>2. CASE i # n + 1
      <4>1. i \in 0..n /\ g[i] = f[i] /\ (i # 0 => i - 1 \in 0..n /\ g[i - 1] = f[i - 1])
        BY <3>2
      <4>2. f[i] = IF i = 0 THEN s ELSE VerifyStep(f[i - 1], path[i])
        BY <2>1, <4>1 DEF AreSteps
      <4> HIDE DEF g
      <4>3. QED
        BY <4>1, <4>2
    <3>3. QED
      BY <3>1, <3>2
  <2>3. g = [i \in 0..n + 1 |-> g[i]]
    OBVIOUS
  <2> HIDE DEF g
  <2>4. AreSteps(g, s, path, n + 1)
    BY <2>2, <2>3 DEF AreSteps
  <2>5. QED
    BY <2>4
<1> HIDE DEF S
<1>3. N \in S
  BY <1>1, <1>2, UpTo
<1>4. QED
  BY <1>3 DEF S

\* The states of the walk, by the number of siblings taken.
Steps(s, path) == CHOOSE w : AreSteps(w, s, path, Len(path))

LEMMA StepFacts ==
    ASSUME NEW s, NEW path, IsList(path)
    PROVE  /\ Len(path) \in Nat /\ Steps(s, path)[0] = s /\ EndOf(s, path) = Steps(s, path)[Len(path)]
           /\ \A t \in 1..Len(path) : Steps(s, path)[t] = VerifyStep(Steps(s, path)[t - 1], path[t])
<1>1. Len(path) \in Nat
  BY ListFacts
<1>2. AreSteps(Steps(s, path), s, path, Len(path))
  BY <1>1, StepsExist DEF Steps
<1>3. EndOf(s, path) = Steps(s, path)[Len(path)]
  BY DEF EndOf, Steps
<1>4. QED
  BY <1>1, <1>2, <1>3 DEF AreSteps

\* The first sibling taken, the rest of the walk is that of the rest of the path.
LEMMA WalkOn ==
    ASSUME NEW s, NEW x, NEW p, NEW path, IsList(p), IsList(path), Prefixed(x, p, path)
    PROVE  EndOf(s, path) = EndOf(VerifyStep(s, x), p)
<1> DEFINE w == Steps(s, path)
           v == Steps(VerifyStep(s, x), p)
           S == {t \in Nat : t <= Len(p) => w[t + 1] = v[t]}
<1>1. /\ Len(path) \in Nat /\ Len(p) \in Nat /\ Len(path) = Len(p) + 1 /\ path[1] = x
      /\ \A i \in 1..Len(p) : path[i + 1] = p[i]
  BY ListFacts DEF Prefixed
<1>2. /\ w[0] = s /\ EndOf(s, path) = w[Len(path)]
      /\ \A t \in 1..Len(path) : w[t] = VerifyStep(w[t - 1], path[t])
  BY StepFacts
<1>3. /\ v[0] = VerifyStep(s, x) /\ EndOf(VerifyStep(s, x), p) = v[Len(p)]
      /\ \A t \in 1..Len(p) : v[t] = VerifyStep(v[t - 1], p[t])
  BY StepFacts
<1> HIDE DEF w, v
<1>4. 0 \in S
  BY <1>1, <1>2, <1>3
<1>5. ASSUME NEW t \in 0 .. Len(p) - 1, t \in S PROVE t + 1 \in S
  <2>1. w[t + 1] = v[t]
    BY <1>1, <1>5
  <2>2. t + 1 \in 1..Len(p) /\ t + 2 \in 1..Len(path) /\ t + 2 - 1 = t + 1 /\ t + 1 - 1 = t
        /\ t + 1 + 1 = t + 2
    BY <1>1
  <2>3. w[t + 2] = VerifyStep(w[t + 1], path[t + 2]) /\ v[t + 1] = VerifyStep(v[t], p[t + 1])
    BY <1>2, <1>3, <2>2
  <2>4. path[t + 2] = p[t + 1]
    BY <1>1, <2>2
  <2>5. w[t + 1 + 1] = v[t + 1]
    BY <2>1, <2>2, <2>3, <2>4
  <2>6. QED
    BY <2>5
<1> HIDE DEF S
<1>6. Len(p) \in S
  <2> DEFINE N == Len(p)
  <2>1. N \in Nat /\ N \in 0..N
    BY <1>1
  <2>2. \A t \in 0 .. N - 1 : t \in S => t + 1 \in S
    BY <1>5
  <2> HIDE DEF N
  <2>3. \A t \in 0..N : t \in S
    BY <1>4, <2>1, <2>2, UpTo
  <2>4. QED
    BY <2>1, <2>3 DEF N
<1>7. QED
  BY <1>1, <1>2, <1>3, <1>6 DEF S

\* Two walks that agree after the first sibling end together.
LEMMA WalksMeet ==
    ASSUME NEW s, NEW u, NEW path, IsList(path), Len(path) # 0,
           VerifyStep(s, path[1]) = VerifyStep(u, path[1])
    PROVE  EndOf(s, path) = EndOf(u, path)
<1> DEFINE w == Steps(s, path)
           v == Steps(u, path)
           S == {t \in Nat : t < Len(path) => w[t + 1] = v[t + 1]}
<1>1. Len(path) \in Nat /\ Len(path) # 0
  BY ListFacts
<1>2. /\ w[0] = s /\ EndOf(s, path) = w[Len(path)]
      /\ \A t \in 1..Len(path) : w[t] = VerifyStep(w[t - 1], path[t])
  BY StepFacts
<1>3. /\ v[0] = u /\ EndOf(u, path) = v[Len(path)]
      /\ \A t \in 1..Len(path) : v[t] = VerifyStep(v[t - 1], path[t])
  BY StepFacts
<1> HIDE DEF w, v
<1>4. 0 \in S
  BY <1>1, <1>2, <1>3
<1>5. ASSUME NEW t \in 0 .. Len(path) - 1 - 1, t \in S PROVE t + 1 \in S
  <2>1. w[t + 1] = v[t + 1]
    BY <1>1, <1>5
  <2>2. t + 2 \in 1..Len(path) /\ t + 2 - 1 = t + 1 /\ t + 1 + 1 = t + 2
    BY <1>1
  <2>3. w[t + 2] = VerifyStep(w[t + 1], path[t + 2]) /\ v[t + 2] = VerifyStep(v[t + 1], path[t + 2])
    BY <1>2, <1>3, <2>2
  <2>4. w[t + 1 + 1] = v[t + 1 + 1]
    BY <2>1, <2>2, <2>3
  <2>5. QED
    BY <2>4
<1> HIDE DEF S
<1>6. Len(path) - 1 \in Nat
  BY <1>1
<1>7. Len(path) - 1 \in S
  <2> DEFINE N == Len(path) - 1
  <2>1. N \in Nat /\ N \in 0..N
    BY <1>6
  <2>2. \A t \in 0 .. N - 1 : t \in S => t + 1 \in S
    BY <1>5
  <2> HIDE DEF N
  <2>3. \A t \in 0..N : t \in S
    BY <1>4, <2>1, <2>2, UpTo
  <2>4. QED
    BY <2>1, <2>3 DEF N
<1>8. QED
  BY <1>1, <1>2, <1>3, <1>7 DEF S


-----------------------------------------------------------------------------
(* Merkle: the walk over the path of a leaf ends at the root *)

From(m, n, x) == [ok |-> TRUE, r |-> x, fn |-> m, sn |-> n - 1]
EndsAt(end, root) == end.ok /\ end.sn = 0 /\ end.r = root

LEMMA StepCases ==
    ASSUME NEW s, NEW y, s.ok = TRUE, s.sn # 0
    PROVE  /\ s.fn % 2 = 1 =>
                VerifyStep(s, y) = [ok |-> TRUE, r |-> NodeHash(y, s.r),
                                    fn |-> s.fn \div 2, sn |-> s.sn \div 2]
           /\ s.fn % 2 # 1 /\ s.fn # s.sn =>
                VerifyStep(s, y) = [ok |-> TRUE, r |-> NodeHash(s.r, y),
                                    fn |-> s.fn \div 2, sn |-> s.sn \div 2]
           /\ s.fn % 2 # 1 /\ s.fn = s.sn =>
                VerifyStep(s, y) = [ok |-> TRUE, r |-> NodeHash(y, s.r),
                                    fn |-> Collapsed[s.fn] \div 2, sn |-> Collapsed[s.sn] \div 2]
<1>1. (s.ok /\ s.sn # 0) = TRUE
  OBVIOUS
<1>2. CASE s.fn % 2 = 1
  BY <1>1, <1>2, Zenon DEF VerifyStep
<1>3. CASE s.fn % 2 # 1 /\ s.fn # s.sn
  BY <1>1, <1>3, Zenon DEF VerifyStep
<1>4. CASE s.fn % 2 # 1 /\ s.fn = s.sn
  BY <1>1, <1>4, Zenon DEF VerifyStep
<1>5. QED
  BY <1>2, <1>3, <1>4

\* A leaf with a sibling climbs to its place in the list of pairs.
LEMMA ClimbPair ==
    ASSUME NEW hashes, NEW n \in Nat, n >= 2, NEW m \in 0 .. n - 1, ~Alone(m, <<1, n>>)
    PROVE  VerifyStep(From(m, n, hashes[m + 1]), Sibling(hashes, m))
              = From(m \div 2, Halving(n), Paired(hashes, n)[m \div 2 + 1])
<1> DEFINE s == From(m, n, hashes[m + 1])
           j == m \div 2 + 1
<1>1. s.ok = TRUE /\ s.r = hashes[m + 1] /\ s.fn = m /\ s.sn = n - 1
  BY DEF From
<1>2. Halving(n) - 1 = (n - 1) \div 2 /\ j \in 1..Halving(n)
  BY DEF Halving
<1>6. s.sn # 0
  BY <1>1
<1>3. CASE m % 2 = 1
  <2>1. VerifyStep(s, Sibling(hashes, m))
          = [ok |-> TRUE, r |-> NodeHash(hashes[m], hashes[m + 1]), fn |-> m \div 2, sn |-> (n - 1) \div 2]
    <3> HIDE DEF s
    <3>1. QED
      BY <1>1, <1>3, <1>6, StepCases DEF Sibling
  <2>2. 2 * j <= n /\ 2 * j = m + 1 /\ 2 * j - 1 = m
    BY <1>3
  <2>3. Paired(hashes, n)[j] = NodeHash(hashes[m], hashes[m + 1])
    BY <1>2, <2>2 DEF Paired
  <2>4. QED
    BY <1>2, <2>1, <2>3 DEF From
<1>4. CASE m % 2 = 0
  <2>1. m # n - 1
    BY <1>4 DEF Alone
  <2>2. VerifyStep(s, Sibling(hashes, m))
          = [ok |-> TRUE, r |-> NodeHash(hashes[m + 1], hashes[m + 2]), fn |-> m \div 2, sn |-> (n - 1) \div 2]
    <3> HIDE DEF s
    <3>1. s.fn % 2 # 1 /\ s.fn # s.sn /\ m % 2 # 1
      BY <1>1, <1>4, <2>1
    <3>2. VerifyStep(s, Sibling(hashes, m))
            = [ok |-> TRUE, r |-> NodeHash(s.r, Sibling(hashes, m)), fn |-> s.fn \div 2, sn |-> s.sn \div 2]
      BY <1>1, <1>6, <3>1, StepCases
    <3>3. Sibling(hashes, m) = hashes[m + 2]
      BY <3>1 DEF Sibling
    <3>4. QED
      BY <1>1, <3>2, <3>3
  <2>3. 2 * j <= n /\ 2 * j = m + 2 /\ 2 * j - 1 = m + 1
    BY <1>4, <2>1
  <2>4. Paired(hashes, n)[j] = NodeHash(hashes[m + 1], hashes[m + 2])
    BY <1>2, <2>3 DEF Paired
  <2>5. QED
    BY <1>2, <2>2, <2>4 DEF From
<1>5. QED
  BY <1>3, <1>4

\* The last of an odd number is its own place in the list of pairs, and its
\* next step is the step from there.
LEMMA ClimbAlone ==
    ASSUME NEW hashes, NEW n \in Nat, n >= 2, NEW m \in 0 .. n - 1, Alone(m, <<1, n>>)
    PROVE  /\ Paired(hashes, n)[m \div 2 + 1] = hashes[m + 1]
           /\ Halving(n) - 1 = m \div 2 /\ m \div 2 # 0
           /\ \A x, y : VerifyStep(From(m, n, x), y) = VerifyStep(From(m \div 2, Halving(n), x), y)
<1> DEFINE h == m \div 2
<1>1. m % 2 = 0 /\ m + 1 = n /\ m \in Nat /\ m # 0
  BY DEF Alone
<1>2. Halving(n) = h + 1 /\ m = 2 * h /\ h \in Nat /\ h # 0
  BY <1>1 DEF Halving
<1>3. Paired(hashes, n)[h + 1] = hashes[m + 1]
  <2>1. h + 1 \in 1..Halving(n) /\ ~(2 * (h + 1) <= n) /\ 2 * (h + 1) - 1 = m + 1
    BY <1>1, <1>2
  <2>2. QED
    BY <2>1 DEF Paired
<1>4. ASSUME NEW x, NEW y
      PROVE  VerifyStep(From(m, n, x), y) = VerifyStep(From(h, Halving(n), x), y)
  <2> DEFINE s == From(m, n, x)
             u == From(h, Halving(n), x)
  <2>1. /\ s.ok = TRUE /\ s.r = x /\ s.fn = m /\ s.sn = m
        /\ u.ok = TRUE /\ u.r = x /\ u.fn = h /\ u.sn = h
    <3> HIDE DEF h
    <3>1. n - 1 = m /\ Halving(n) - 1 = h
      BY <1>1, <1>2
    <3>2. QED
      BY <3>1 DEF From
  <2>2. Collapsed[m] = Collapsed[h]
    BY <1>1, CollapsedDef
  <2>3. VerifyStep(s, y)
          = [ok |-> TRUE, r |-> NodeHash(y, x), fn |-> Collapsed[m] \div 2, sn |-> Collapsed[m] \div 2]
    <3> HIDE DEF s
    <3>1. s.fn % 2 # 1 /\ s.fn = s.sn /\ s.sn # 0
      BY <1>1, <2>1
    <3>2. VerifyStep(s, y) = [ok |-> TRUE, r |-> NodeHash(y, s.r),
                              fn |-> Collapsed[s.fn] \div 2, sn |-> Collapsed[s.sn] \div 2]
      BY <2>1, <3>1, StepCases
    <3>3. QED
      BY <2>1, <3>2
  <2>4. VerifyStep(u, y)
          = [ok |-> TRUE, r |-> NodeHash(y, x), fn |-> Collapsed[h] \div 2, sn |-> Collapsed[h] \div 2]
    <3>1. h % 2 = 1 => Collapsed[h] = h
      BY <1>2, CollapsedDef
    <3>2. h % 2 \in {0, 1}
      BY <1>2
    <3> HIDE DEF h, u
    <3>3. CASE h % 2 = 1
      <4>1. u.fn % 2 = 1 /\ u.sn # 0
        BY <1>2, <2>1, <3>3
      <4>2. VerifyStep(u, y) = [ok |-> TRUE, r |-> NodeHash(y, u.r), fn |-> u.fn \div 2, sn |-> u.sn \div 2]
        BY <2>1, <4>1, StepCases
      <4>3. QED
        BY <2>1, <3>1, <3>3, <4>2
    <3>4. CASE h % 2 # 1
      <4>1. u.fn % 2 # 1 /\ u.fn = u.sn /\ u.sn # 0
        BY <1>2, <2>1, <3>4
      <4>2. VerifyStep(u, y) = [ok |-> TRUE, r |-> NodeHash(y, u.r),
                                fn |-> Collapsed[u.fn] \div 2, sn |-> Collapsed[u.sn] \div 2]
        BY <2>1, <4>1, StepCases
      <4>3. QED
        BY <2>1, <4>2
    <3>5. QED
      BY <3>3, <3>4
  <2>5. QED
    BY <2>2, <2>3, <2>4
<1>5. QED
  BY <1>2, <1>3, <1>4

LEMMA PathLeads ==
    ASSUME NEW n \in Nat, n >= 1
    PROVE  \A hashes : \A m \in 0 .. n - 1 :
              EndsAt(EndOf(From(m, n, hashes[m + 1]), SlicePaths(m, hashes, n)[<<1, n>>]),
                     SliceRoots(hashes, n)[<<1, n>>])
<1> DEFINE Leads(k, hashes, m) ==
              EndsAt(EndOf(From(m, k, hashes[m + 1]), SlicePaths(m, hashes, k)[<<1, k>>]),
                     SliceRoots(hashes, k)[<<1, k>>])
           S == {k \in Nat : k >= 1 => \A hashes : \A m \in 0 .. k - 1 : Leads(k, hashes, m)}
<1>1. ASSUME NEW k \in Nat, \A i \in 0 .. k - 1 : i \in S PROVE k \in S
  <2>1. SUFFICES ASSUME k >= 1, NEW hashes, NEW m \in 0 .. k - 1 PROVE Leads(k, hashes, m)
    OBVIOUS
  <2> DEFINE r == <<1, k>>
             root == SliceRoots(hashes, k)
             a == SlicePaths(m, hashes, k)
             x == hashes[m + 1]
  <2>2. r \in Slices(k) /\ r[1] = 1 /\ r[2] = k /\ Aligned(k, r)
    BY <2>1 DEF Slices, Aligned
  <2>3. IsList(a[r])
    BY <2>2, PathsAreLists
  <2>4. CASE k = 1
    <3>1. m = 0 /\ r[1] = r[2]
      BY <2>2, <2>4
    <3>2. a[r] = PathOf(a, m, root, r) /\ root[r] = RootOf(root, hashes, r)
      BY <2>2, SlicePath, SliceRoot
    <3> HIDE DEF a, root
    <3>3. a[r] = <<>> /\ root[r] = hashes[1]
      BY <2>2, <3>1, <3>2 DEF PathOf, RootOf
    <3>4. EndOf(From(m, k, x), <<>>) = From(m, k, x)
      BY ListFacts, StepFacts
    <3>5. x = hashes[1]
      BY <3>1
    <3>6. EndsAt(From(m, k, x), x)
      BY <2>4 DEF EndsAt, From
    <3> HIDE DEF x
    <3>7. EndsAt(EndOf(From(m, k, x), a[r]), root[r])
      BY <3>3, <3>4, <3>5, <3>6
    <3>8. QED
      BY <3>7 DEF a, root, x
  <2>5. CASE k >= 2
    <3> DEFINE P == Paired(hashes, k)
               h == m \div 2
               l == Halving(k)
               b == SlicePaths(h, P, l)
    <3>1. l \in 0 .. k - 1 /\ l >= 1 /\ h \in 0 .. l - 1 /\ h + 1 = Halving(m + 1) /\ l \in Nat
      BY <2>5 DEF Halving
    <3>2. Leads(l, P, h)
      BY <1>1, <3>1
    <3>3. Half(r) = <<1, l>>
      BY <2>2 DEF Half, Halving
    <3>4. root[r] = SliceRoots(P, l)[<<1, l>>]
      BY <2>2, <3>3, PairedRoots
    <3>5. Lifted(hashes, k, m, r)
      BY <2>2, LiftedPath
    <3>6. IF Alone(m, r) THEN a[r] = b[<<1, l>>] ELSE Prefixed(Sibling(hashes, m), b[<<1, l>>], a[r])
      BY <3>3, <3>5 DEF Lifted
    <3>7. IsList(b[<<1, l>>])
      <4>1. <<1, l>> \in Slices(l)
        BY <3>1 DEF Slices
      <4>2. QED
        BY <3>1, <4>1, PathsAreLists
    <3>8. EndsAt(EndOf(From(h, l, P[h + 1]), b[<<1, l>>]), root[r])
      BY <3>2, <3>4
    <3>9. CASE ~Alone(m, r)
      <4>1. VerifyStep(From(m, k, x), Sibling(hashes, m)) = From(h, l, P[h + 1])
        BY <2>5, <3>9, ClimbPair
      <4> HIDE DEF a, b, root, x, h, l, P, r
      <4>2. EndOf(From(m, k, x), a[r]) = EndOf(From(h, l, P[h + 1]), b[<<1, l>>])
        BY <2>3, <3>6, <3>7, <3>9, <4>1, WalkOn
      <4>3. EndsAt(EndOf(From(m, k, x), a[r]), root[r])
        BY <3>8, <4>2
      <4>4. QED
        BY <4>3 DEF a, root, x, r
    <3>10. CASE Alone(m, r)
      <4>1. P[h + 1] = x /\ l - 1 = h /\ h # 0
        BY <2>5, <3>10, ClimbAlone
      <4>0. \A z, y : VerifyStep(From(m, k, z), y) = VerifyStep(From(h, l, z), y)
        BY <2>5, <3>10, ClimbAlone
      <4>2. \A y : VerifyStep(From(m, k, x), y) = VerifyStep(From(h, l, x), y)
        BY <4>0
      <4> HIDE DEF a, b, root, x, h, l, P, r
      <4>3. EndsAt(EndOf(From(h, l, x), a[r]), root[r])
        BY <3>6, <3>8, <3>10, <4>1
      <4>4. Len(a[r]) # 0
        <5>1. SUFFICES ASSUME Len(a[r]) = 0 PROVE FALSE
          OBVIOUS
        <5>2. EndOf(From(h, l, x), a[r]) = From(h, l, x)
          BY <2>3, <5>1, StepFacts
        <5>3. From(h, l, x).sn = h
          BY <4>1 DEF From
        <5>4. QED
          BY <4>1, <4>3, <5>2, <5>3 DEF EndsAt
      <4>5. EndOf(From(m, k, x), a[r]) = EndOf(From(h, l, x), a[r])
        BY <2>3, <4>2, <4>4, WalksMeet
      <4>6. EndsAt(EndOf(From(m, k, x), a[r]), root[r])
        BY <4>3, <4>5
      <4>7. QED
        BY <4>6 DEF a, root, x, r
    <3>11. QED
      BY <3>9, <3>10
  <2>6. QED
    BY <2>1, <2>4, <2>5
<1> HIDE DEF S
<1>2. n \in S
  BY <1>1, AllBelow
<1>3. QED
  BY <1>2 DEF S


-----------------------------------------------------------------------------
(* Merkle: a path that leads to the root binds its index *)

\* Where a step goes and on which side the sibling stands depends on the position alone.
LEMMA StepFields ==
    ASSUME NEW s, NEW x
    PROVE  /\ VerifyStep(s, x).ok => s.ok /\ s.sn # 0
           /\ \A u, y : u.fn = s.fn /\ u.sn = s.sn =>
                 /\ VerifyStep(u, y).fn = VerifyStep(s, x).fn
                 /\ VerifyStep(u, y).sn = VerifyStep(s, x).sn
                 /\ VerifyStep(u, y).r = VerifyStep(s, x).r => u.r = s.r
<1>1. VerifyStep(s, x).ok => s.ok /\ s.sn # 0
  BY Zenon DEF VerifyStep
<1>2. ASSUME NEW u, NEW y, u.fn = s.fn, u.sn = s.sn
      PROVE  /\ VerifyStep(u, y).fn = VerifyStep(s, x).fn
             /\ VerifyStep(u, y).sn = VerifyStep(s, x).sn
  BY <1>2 DEF VerifyStep
<1>3. ASSUME NEW u, NEW y, u.fn = s.fn, u.sn = s.sn, VerifyStep(u, y).r = VerifyStep(s, x).r
      PROVE  u.r = s.r
  <2> DEFINE right(z) == z.fn % 2 = 1 \/ (~(z.fn % 2 = 1) /\ z.fn = z.sn)
  <2>1. /\ VerifyStep(u, y).r = IF right(u) THEN NodeHash(y, u.r) ELSE NodeHash(u.r, y)
        /\ VerifyStep(s, x).r = IF right(s) THEN NodeHash(x, s.r) ELSE NodeHash(s.r, x)
    BY DEF VerifyStep
  <2>2. right(u) <=> right(s)
    BY <1>3
  <2>3. \A a, b, c, d : NodeHash(a, b) = NodeHash(c, d) => a = c /\ b = d
    BY DEF NodeHash
  <2> HIDE DEF right
  <2>4. CASE right(s)
    <3>1. NodeHash(y, u.r) = NodeHash(x, s.r)
      BY <1>3, <2>1, <2>2, <2>4
    <3>2. QED
      BY <2>3, <3>1
  <2>5. CASE ~right(s)
    <3>1. NodeHash(u.r, y) = NodeHash(s.r, x)
      BY <1>3, <2>1, <2>2, <2>5
    <3>2. QED
      BY <2>3, <3>1
  <2>6. QED
    BY <2>4, <2>5
<1>4. QED
  BY <1>1, <1>2, <1>3

\* A walk that ends well has a level to climb to at every sibling.
LEMMA WalkStaysOk ==
    ASSUME NEW s, NEW p, IsList(p), EndOf(s, p).ok
    PROVE  \A t \in Nat : t < Len(p) => Steps(s, p)[t].ok /\ Steps(s, p)[t].sn # 0
<1> DEFINE w == Steps(s, p)
           N == Len(p)
           S == {k \in Nat : k <= N => w[N - k].ok}
<1>1. N \in Nat /\ EndOf(s, p) = w[N] /\ \A t \in 1..N : w[t] = VerifyStep(w[t - 1], p[t])
  BY StepFacts
<1> HIDE DEF w, N
<1>2. 0 \in S
  BY <1>1
<1>3. ASSUME NEW k \in 0 .. N - 1, k \in S PROVE k + 1 \in S
  <2>1. N - k \in 1..N /\ w[N - k].ok /\ N - k - 1 = N - (k + 1)
    BY <1>1, <1>3
  <2>2. w[N - k] = VerifyStep(w[N - k - 1], p[N - k])
    BY <1>1, <2>1
  <2>3. w[N - (k + 1)].ok
    BY <2>1, <2>2, StepFields
  <2>4. QED
    BY <1>1, <2>3
<1>4. \A k \in 0..N : k \in S
  <2> HIDE DEF S
  <2>1. QED
    BY <1>1, <1>2, <1>3, UpTo
<1>5. ASSUME NEW t \in Nat, t < N PROVE w[t].ok /\ w[t].sn # 0
  <2>1. t + 1 \in 1..N /\ t + 1 - 1 = t /\ N - (t + 1) \in 0..N /\ N - (N - (t + 1)) = t + 1
    BY <1>1, <1>5
  <2>2. w[t + 1].ok
    BY <1>4, <2>1
  <2>3. w[t + 1] = VerifyStep(w[t], p[t + 1])
    BY <1>1, <2>1
  <2>4. QED
    BY <2>2, <2>3, StepFields
<1>6. QED
  BY <1>5 DEF w, N

\* Two walks from one position to one root started from one digest.
LEMMA WalksBind ==
    ASSUME NEW s, NEW u, s.fn = u.fn, s.sn = u.sn,
           NEW p, NEW q, IsList(p), IsList(q), NEW root,
           EndsAt(EndOf(s, p), root), EndsAt(EndOf(u, q), root)
    PROVE  s.r = u.r
<1> DEFINE w == Steps(s, p)
           v == Steps(u, q)
           K == Len(p)
           L == Len(q)
<1>1. /\ K \in Nat /\ w[0] = s /\ EndOf(s, p) = w[K]
      /\ \A t \in 1..K : w[t] = VerifyStep(w[t - 1], p[t])
  BY StepFacts
<1>2. /\ L \in Nat /\ v[0] = u /\ EndOf(u, q) = v[L]
      /\ \A t \in 1..L : v[t] = VerifyStep(v[t - 1], q[t])
  BY StepFacts
<1>3. /\ \A t \in Nat : t < K => w[t].sn # 0
      /\ \A t \in Nat : t < L => v[t].sn # 0
  BY WalkStaysOk DEF EndsAt
<1>4. w[K].sn = 0 /\ v[L].sn = 0 /\ w[K].r = v[L].r
  BY <1>1, <1>2 DEF EndsAt
<1> HIDE DEF w, v, K, L
<1>5. \A t \in 0..K : t <= L => w[t].fn = v[t].fn /\ w[t].sn = v[t].sn
  <2> DEFINE S == {t \in Nat : t <= L => w[t].fn = v[t].fn /\ w[t].sn = v[t].sn}
  <2>1. 0 \in S
    BY <1>1, <1>2
  <2>2. ASSUME NEW t \in 0 .. K - 1, t \in S PROVE t + 1 \in S
    <3>1. SUFFICES ASSUME t + 1 <= L
                   PROVE  w[t + 1].fn = v[t + 1].fn /\ w[t + 1].sn = v[t + 1].sn
      OBVIOUS
    <3>2. t + 1 \in 1..K /\ t + 1 \in 1..L /\ t + 1 - 1 = t /\ t <= L
      BY <1>1, <1>2, <3>1
    <3>3. w[t + 1] = VerifyStep(w[t], p[t + 1]) /\ v[t + 1] = VerifyStep(v[t], q[t + 1])
      BY <1>1, <1>2, <3>2
    <3>4. w[t].fn = v[t].fn /\ w[t].sn = v[t].sn
      BY <2>2, <3>2
    <3>5. QED
      BY <3>3, <3>4, StepFields
  <2> HIDE DEF S
  <2>3. \A t \in 0..K : t \in S
    BY <1>1, <2>1, <2>2, UpTo
  <2>4. QED
    BY <2>3 DEF S
<1>6. K = L
  <2>1. K <= L => v[K].sn = 0
    BY <1>1, <1>4, <1>5
  <2>2. L <= K => w[L].sn = 0
    BY <1>2, <1>4, <1>5
  <2>3. QED
    BY <1>1, <1>2, <1>3, <2>1, <2>2
<1>7. 0 \in {t \in 0..K : w[t].r = v[t].r}
  <2> DEFINE S == {k \in Nat : k <= K => w[K - k].r = v[K - k].r}
  <2>1. 0 \in S
    BY <1>1, <1>4, <1>6
  <2>2. ASSUME NEW k \in 0 .. K - 1, k \in S PROVE k + 1 \in S
    <3>1. /\ K - k \in 1..K /\ K - k - 1 = K - (k + 1) /\ K - k - 1 \in 0..K
          /\ w[K - k].r = v[K - k].r
      BY <1>1, <2>2
    <3>2. /\ w[K - k] = VerifyStep(w[K - k - 1], p[K - k])
          /\ v[K - k] = VerifyStep(v[K - k - 1], q[K - k])
      BY <1>1, <1>2, <1>6, <3>1
    <3>3. w[K - k - 1].fn = v[K - k - 1].fn /\ w[K - k - 1].sn = v[K - k - 1].sn
      BY <1>5, <1>6, <1>1, <3>1
    <3>4. w[K - k - 1].r = v[K - k - 1].r
      BY <3>1, <3>2, <3>3, StepFields
    <3>5. w[K - (k + 1)].r = v[K - (k + 1)].r
      BY <3>1, <3>4
    <3>6. QED
      BY <3>5
  <2> HIDE DEF S
  <2>3. \A k \in 0..K : k \in S
    BY <1>1, <2>1, <2>2, UpTo
  <2>4. K \in S /\ K - K = 0
    BY <1>1, <2>3
  <2>5. QED
    BY <1>1, <2>4 DEF S
<1>8. QED
  BY <1>1, <1>2, <1>7

\* In a tree of distinct leaves, the path of a leaf leads from it to the root at its own
\* index and at no other, for a tree of any size.
THEOREM InclusionIsExact ==
    ASSUME NEW hashes, NEW n \in Nat, n >= 1, NEW m \in 0 .. n - 1,
           Len(hashes) = n, \A j, k \in 1..n : hashes[j] = hashes[k] => j = k, NEW i \in Nat
    PROVE  verify_inclusion(i, n, hashes[m + 1], PathFromLeafHashes(m, hashes),
                            RootFromLeafHashes(hashes)) <=> i = m
<1> DEFINE all == <<1, n>>
           root == SliceRoots(hashes, n)[all]
           path(k) == SlicePaths(k, hashes, n)[all]
<1>1. RootFromLeafHashes(hashes) = root /\ PathFromLeafHashes(m, hashes) = path(m)
  BY PathIsSlicePath DEF RootFromLeafHashes
<1>2. verify_inclusion(i, n, hashes[m + 1], path(m), root) <=>
         0 <= i /\ i < n /\ EndsAt(EndOf(From(i, n, hashes[m + 1]), path(m)), root)
  BY VerifyIsWalk DEF From, EndsAt
<1>3. \A k \in 0 .. n - 1 : EndsAt(EndOf(From(k, n, hashes[k + 1]), path(k)), root) /\ IsList(path(k))
  <2>1. all \in Slices(n)
    BY DEF Slices
  <2>2. QED
    BY <2>1, PathLeads, PathsAreLists
<1>4. ASSUME i < n, EndsAt(EndOf(From(i, n, hashes[m + 1]), path(m)), root) PROVE i = m
  <2>1. EndsAt(EndOf(From(i, n, hashes[i + 1]), path(i)), root) /\ IsList(path(i)) /\ IsList(path(m))
    <3> HIDE DEF path, root
    <3>1. i \in 0 .. n - 1
      BY <1>4
    <3>2. QED
      BY <1>3, <3>1
  <2> DEFINE s == From(i, n, hashes[i + 1])
             u == From(i, n, hashes[m + 1])
  <2>2. s.fn = u.fn /\ s.sn = u.sn /\ s.r = hashes[i + 1] /\ u.r = hashes[m + 1]
    BY DEF From
  <2> HIDE DEF s, u, path, root
  <2>3. EndsAt(EndOf(s, path(i)), root) /\ EndsAt(EndOf(u, path(m)), root)
    BY <1>4, <2>1 DEF s, u
  <2>4. s.r = u.r
    BY <2>1, <2>2, <2>3, WalksBind
  <2>5. hashes[i + 1] = hashes[m + 1] /\ i + 1 \in 1..n /\ m + 1 \in 1..n
    BY <1>4, <2>2, <2>4
  <2>6. i + 1 = m + 1
    BY <2>5
  <2>7. QED
    BY <2>6
<1>5. QED
  <2> HIDE DEF path, root
  <2>1. i = m => i < n /\ EndsAt(EndOf(From(i, n, hashes[m + 1]), path(m)), root)
    BY <1>3
  <2>2. QED
    BY <1>1, <1>2, <1>4, <2>1

-----------------------------------------------------------------------------
(* The inclusion proof of a row *)

\* What the three reads of the route have established.
ProofInv ==
    /\ proof.at \in {"exists", "rank", "done"} => proof.row \in 1..Len(log)
    /\ proof.at = "rank" => proof.leaf_index = proof.row - 1
    /\ ProofVerifies

LEMMA RankOfRow ==
    ASSUME LogTyped, NEW id \in 1..Len(log)
    PROVE  Rank(id) = id - 1
<1>1. {i \in DOMAIN log : i < id} = 1 .. id - 1
  BY DEF LogTyped
<1>2. Cardinality(1 .. id - 1) = id - 1
  BY FS_Interval DEF LogTyped
<1>3. QED
  BY <1>1, <1>2 DEF Rank

LEMMA LeavesAreDistinct ==
    ASSUME LogTyped
    PROVE  LET hashes == LeafHashes(Leaves)
           IN  /\ Len(Leaves) = Len(log) /\ Len(hashes) = Len(log)
               /\ \A j \in 1..Len(log) : hashes[j] = leaf_hash(Leaves[j]) /\ Leaves[j] = <<j, log[j].refused>>
               /\ \A j, k \in 1..Len(log) : hashes[j] = hashes[k] => j = k
<1>1. Len(log) \in Nat /\ DOMAIN log = 1..Len(log)
  BY DEF LogTyped
<1>2. Leaves = [i \in 1..Len(log) |-> <<i, log[i].refused>>]
  BY <1>1 DEF Leaves
<1>3. Len(Leaves) = Len(log) /\ DOMAIN Leaves = 1..Len(log)
  BY <1>1, <1>2
<1>4. LeafHashes(Leaves) = [i \in 1..Len(log) |-> leaf_hash(Leaves[i])]
  BY <1>3 DEF LeafHashes
<1>5. Len(LeafHashes(Leaves)) = Len(log)
  BY <1>1, <1>4
<1>6. \A j \in 1..Len(log) :
         LeafHashes(Leaves)[j] = leaf_hash(Leaves[j]) /\ Leaves[j] = <<j, log[j].refused>>
  BY <1>2, <1>4
<1>7. ASSUME NEW j \in 1..Len(log), NEW k \in 1..Len(log), LeafHashes(Leaves)[j] = LeafHashes(Leaves)[k]
      PROVE  j = k
  <2>1. <<"leaf", <<j, log[j].refused>>>> = <<"leaf", <<k, log[k].refused>>>>
    BY <1>6, <1>7 DEF leaf_hash
  <2>2. QED
    BY <2>1
<1>8. QED
  BY <1>3, <1>5, <1>6, <1>7

\* The reads of the route, and a row appended between two of them.
LEMMA ProofStep ==
    ASSUME IInv, ProofInv, [Next]_vars
    PROVE  ProofInv'
<1>1. LogTyped /\ Len(log) \in Nat
  BY DEF IInv, ReaderInv, LogTyped
<1>2. CASE UNCHANGED <<log, proof>>
  BY <1>2 DEF ProofInv, ProofVerifies, Leaves
<1>3. ASSUME NEW refused \in BOOLEAN, NEW anchor \in Tables \cup {"none"}, AppendRow(refused, anchor)
      PROVE  ProofInv'
  <2>1. proof' = proof /\ log' = Append(log, [refused |-> refused, anchor |-> anchor])
    BY <1>3 DEF AppendRow, readerVars
  <2>2. Len(log') = Len(log) + 1 /\ \A j \in 1..Len(log) : log'[j] = log[j]
    BY <1>1, <2>1 DEF LogTyped
  <2>3. DOMAIN log = 1..Len(log) /\ DOMAIN log' = 1..Len(log) + 1
    BY <1>1, <2>1 DEF LogTyped
  <2>4. ASSUME proof.at = "done" PROVE ProofVerifies'
    <3>1. proof.row \in 1..Len(log) /\ proof.row \in 1..Len(log) + 1
      BY <1>1, <2>4 DEF ProofInv
    <3>2. Leaves[proof.row] = <<proof.row, log[proof.row].refused>>
      BY <2>3, <3>1 DEF Leaves
    <3>3. Leaves'[proof.row] = <<proof.row, log'[proof.row].refused>>
      BY <2>3, <3>1 DEF Leaves
    <3>4. Leaves'[proof.row] = Leaves[proof.row]
      BY <2>2, <3>1, <3>2, <3>3
    <3>5. QED
      BY <2>1, <2>4, <3>4 DEF ProofInv, ProofVerifies
  <2>5. QED
    BY <1>1, <2>1, <2>2, <2>4 DEF ProofInv, ProofVerifies
<1>4. CASE ProofNext
  <2>1. UNCHANGED log
    BY <1>4 DEF ProofNext
  <2>2. ASSUME NEW id \in 1..MaxRows, ProofExists(id) PROVE ProofInv'
    <3>1. proof' = [at |-> "exists", row |-> id] /\ id \in 1..Len(log)
      BY <1>1, <2>2 DEF ProofExists, LogTyped
    <3>2. QED
      BY <2>1, <3>1 DEF ProofInv, ProofVerifies
  <2>3. ASSUME ProofRank PROVE ProofInv'
    <3>1. proof' = [at |-> "rank", row |-> proof.row, leaf_index |-> Rank(proof.row)]
      BY <2>3 DEF ProofRank
    <3>2. proof.row \in 1..Len(log)
      BY <2>3 DEF ProofRank, ProofInv
    <3>3. Rank(proof.row) = proof.row - 1
      BY <1>1, <3>2, RankOfRow
    <3>4. QED
      BY <2>1, <3>1, <3>2, <3>3 DEF ProofInv, ProofVerifies
  <2>4. ASSUME ProofLeaves PROVE ProofInv'
    <3> DEFINE hashes == LeafHashes(Leaves)
               n == Len(log)
               m == proof.leaf_index
    <3>1. proof' = [at |-> "done", row |-> proof.row, leaf_index |-> m, tree_size |-> n,
                    root |-> merkle_root(Leaves), leaf_hash |-> leaf_hash(Leaves[m + 1]),
                    audit_path |-> inclusion_proof(m, Leaves)]
      BY <2>4 DEF ProofLeaves
    <3>2. proof.row \in 1..n /\ m = proof.row - 1
      BY <2>4 DEF ProofLeaves, ProofInv
    <3>3. n \in Nat /\ n >= 1 /\ m \in 0 .. n - 1 /\ m + 1 = proof.row
      BY <1>1, <3>2
    <3>4. /\ Len(hashes) = n /\ \A j, k \in 1..n : hashes[j] = hashes[k] => j = k
          /\ hashes[m + 1] = leaf_hash(Leaves[m + 1])
      BY <1>1, <3>2, <3>3, LeavesAreDistinct
    <3>5. merkle_root(Leaves) = RootFromLeafHashes(hashes) /\ inclusion_proof(m, Leaves) = PathFromLeafHashes(m, hashes)
      BY DEF merkle_root, inclusion_proof
    <3> HIDE DEF hashes, n, m
    <3>6. \A i \in Nat : verify_inclusion(i, n, hashes[m + 1], PathFromLeafHashes(m, hashes),
                                          RootFromLeafHashes(hashes)) <=> i = m
      BY <3>3, <3>4, InclusionIsExact
    <3>7. \A i \in 0..n : i \in Nat
      BY <3>3
    <3>8. Leaves' = Leaves
      BY <2>1 DEF Leaves
    <3>9. /\ proof'.at = "done" /\ proof'.row = proof.row /\ proof'.leaf_index = m /\ proof'.tree_size = n
          /\ proof'.root = RootFromLeafHashes(hashes) /\ proof'.leaf_hash = hashes[m + 1]
          /\ proof'.audit_path = PathFromLeafHashes(m, hashes)
      BY <3>1, <3>4, <3>5
    <3>10. ProofVerifies'
      BY <3>3, <3>4, <3>6, <3>7, <3>8, <3>9 DEF ProofVerifies
    <3>11. proof'.row \in 1..Len(log')
      BY <2>1, <3>2, <3>9 DEF n
    <3>12. QED
      BY <3>9, <3>10, <3>11 DEF ProofInv
  <2>5. ASSUME ProofReturned PROVE ProofInv'
    BY <2>5 DEF ProofReturned, NoProof, ProofInv, ProofVerifies
  <2>6. QED
    BY <1>4, <2>2, <2>3, <2>4, <2>5 DEF ProofNext
<1>5. CASE EditFile \/ Others \/ RequestNext \/ StreamNext \/ PagerNext \/ UNCHANGED vars
  <2>1. UNCHANGED <<log, proof>>
    BY <1>5 DEF EditFile, Others, RequestNext, StreamNext, PagerNext, vars, readerVars
  <2>2. QED
    BY <1>2, <2>1
<1>6. QED
  BY <1>3, <1>4, <1>5 DEF Next

\* A returned inclusion proof proves the row that was asked for, at its place
\* and at no other, for a log of any length and rows appended between any two
\* reads of the route.
THEOREM ProofsVerify == Spec => []ProofVerifies
<1>1. Init => ProofInv
  BY DEF Init, NoProof, ProofInv, ProofVerifies
<1>2. IInv /\ ProofInv /\ [Next]_vars => ProofInv'
  BY ProofStep
<1>3. ProofInv => ProofVerifies
  BY DEF ProofInv
<1>4. QED
  BY <1>1, <1>2, <1>3, DashboardCorrect, PTL DEF Spec
=============================================================================
