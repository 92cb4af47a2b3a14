----------------------------- MODULE EventTail ------------------------------
(***************************************************************************)
(* The JSONL event bus of `serve` (size-based rotation to one `.1` file)   *)
(* and the polling reader of `schemabrain tail`, which share nothing but   *)
(* the file system.                                                        *)
(*                                                                         *)
(* A line is two tokens, its body and its newline, so that a reader can    *)
(* meet a partial line and a short write can leave one behind.  Sizes are  *)
(* counted in tokens.                                                      *)
(***************************************************************************)
EXTENDS Naturals, Sequences, FiniteSets

CONSTANTS
    Writers,     \* serve processes appending to the file
    Inodes,      \* inode numbers of the file system
    None,
    MaxTokens,   \* JsonlEventBus._max_bytes
    MaxEvents,   \* bound: events emitted
    Since,       \* first event recent enough for --since
    ReuseInodes  \* whether a freed inode number may be given to a new file

ASSUME EventTailAssumption ==
    /\ None \notin Inodes /\ MaxTokens \in Nat /\ MaxTokens >= 2
    /\ MaxEvents \in Nat /\ Since \in Nat /\ ReuseInodes \in BOOLEAN

VARIABLES
    active, rotated,     \* inodes behind events.jsonl and events.jsonl.1
    content,             \* tokens of every inode
    used,                \* inodes ever allocated
    nextEvent,
    wpc, wev, wfd,       \* each writer: step of emit, its event, its open file
    rpc, seen,           \* reader: next step, inode it last saw on disk
    fd, offset, buf, current, \* TailReader._fd, _offset, _buf, _current_inode
    delivered,           \* events yielded
    fromFd               \* history: events parsed since fd was opened

writerVars == <<nextEvent, wpc, wev, wfd>>
fileVars == <<active, rotated, content, used>>
readerVars == <<rpc, seen, fd, offset, buf, current, delivered, fromFd>>
tailVars == <<fileVars, writerVars, readerVars>>

Events == 1 .. MaxEvents
Line == 2
Tokens == Events \X {"body", "eol"}

\* Position i ends a line that json.loads accepts: a body that follows the remains
\* of a torn line makes one line that it rejects.
EndsWholeLine(s, i) ==
    /\ s[i][2] = "eol"
    /\ i > 1 /\ s[i - 1] = <<s[i][1], "body">>
    /\ i > 2 => s[i - 2][2] = "eol"

\* The events of the complete, parsable lines of s that are recent enough, in order.
Parse(s, since) ==
    LET upTo[n \in 0 .. Len(s)] ==
            IF n = 0 THEN <<>>
            ELSE IF EndsWholeLine(s, n) /\ s[n][1] >= since
            THEN Append(upTo[n - 1], s[n][1])
            ELSE upTo[n - 1]
    IN  upTo[Len(s)]

\* What follows the last newline of s.
Remainder(s) ==
    LET ends == {i \in 1 .. Len(s) : s[i][2] = "eol"}
        last == IF ends = {} THEN 0 ELSE CHOOSE i \in ends : \A j \in ends : j <= i
    IN  SubSeq(s, last + 1, Len(s))

TailInit ==
    /\ active = None /\ rotated = None /\ used = {}
    /\ content = [i \in Inodes |-> <<>>]
    /\ nextEvent = 1
    /\ wpc = [w \in Writers |-> "idle"]
    /\ wev = [w \in Writers |-> 0] /\ wfd = [w \in Writers |-> None]
    /\ rpc = "start" /\ seen = None
    /\ fd = None /\ offset = 0 /\ buf = <<>> /\ current = None
    /\ delivered = <<>> /\ fromFd = <<>>

-----------------------------------------------------------------------------
(* JsonlEventBus.emit *)

Begin(w) ==
    /\ wpc[w] = "idle" /\ nextEvent <= MaxEvents
    /\ wev' = [wev EXCEPT ![w] = nextEvent]
    /\ nextEvent' = nextEvent + 1
    /\ wpc' = [wpc EXCEPT ![w] = "stat"]
    /\ UNCHANGED <<fileVars, wfd, readerVars>>

\* _rotate_if_needed: stat the active file and compare its size.
StatSize(w) ==
    /\ wpc[w] = "stat"
    /\ LET over == active # None /\ Len(content[active]) + Line > MaxTokens
       IN  wpc' = [wpc EXCEPT ![w] = IF over THEN "rotate" ELSE "append"]
    /\ UNCHANGED <<fileVars, nextEvent, wev, wfd, readerVars>>

\* os.replace(path, path.1): the previous .1 is gone.
Rotate(w) ==
    /\ wpc[w] = "rotate" /\ active # None
    /\ rotated' = active /\ active' = None
    /\ wpc' = [wpc EXCEPT ![w] = "append"]
    /\ UNCHANGED <<content, used, nextEvent, wev, wfd, readerVars>>

\* An inode is free when no name and no open file refers to it.
FreeInodes ==
    LET held == {active, rotated, fd} \cup {wfd[w] : w \in Writers}
    IN  {i \in Inodes : i \notin held /\ (ReuseInodes \/ i \notin used)}

\* _append: open the path, creating the file if it is missing.
AppendOpen(w) ==
    /\ wpc[w] = "append"
    /\ \E i \in (IF active = None THEN FreeInodes ELSE {active}) :
        /\ active' = i /\ used' = used \cup {i}
        /\ content' = IF active = None THEN [content EXCEPT ![i] = <<>>] ELSE content
        /\ wfd' = [wfd EXCEPT ![w] = i]
    /\ wpc' = [wpc EXCEPT ![w] = "write"]
    /\ UNCHANGED <<rotated, nextEvent, wev, readerVars>>

\* os.write to the open file, which another process may have rotated away since; a
\* reader may see the line's bytes before its newline.
WriteBody(w) ==
    /\ wpc[w] = "write"
    /\ \A v \in Writers : wpc[v] = "newline" => wfd[v] # wfd[w]  \* O_APPEND writes are serialised
    /\ content' = [content EXCEPT ![wfd[w]] = Append(@, <<wev[w], "body">>)]
    /\ wpc' = [wpc EXCEPT ![w] = "newline"]
    /\ UNCHANGED <<active, rotated, used, nextEvent, wev, wfd, readerVars>>

WriteNewline(w) ==
    /\ wpc[w] = "newline"
    /\ content' = [content EXCEPT ![wfd[w]] = Append(@, <<wev[w], "eol">>)]
    /\ wpc' = [wpc EXCEPT ![w] = "idle"]
    /\ wfd' = [wfd EXCEPT ![w] = None]
    /\ UNCHANGED <<active, rotated, used, nextEvent, wev, readerVars>>

\* An OSError, or a short write (os.write's result is not looked at), drops the
\* event; after a short write the partial line stays in the file.
EmitFails(w) ==
    /\ wpc[w] # "idle"
    /\ wpc' = [wpc EXCEPT ![w] = "idle"]
    /\ wfd' = [wfd EXCEPT ![w] = None]
    /\ UNCHANGED <<fileVars, nextEvent, wev, readerVars>>

-----------------------------------------------------------------------------
(* TailReader.stream *)

\* _open: stat the path; without a file, sleep and try again.
OpenStat ==
    /\ rpc = "start" /\ active # None
    /\ seen' = active /\ rpc' = "open"
    /\ UNCHANGED <<fileVars, writerVars, fd, offset, buf, current, delivered, fromFd>>

\* The open() of _open and of _handle_rotation_if_needed: offset and buffer
\* restart, and the inode remembered is the one stat saw.
OpenAt(file) ==
    /\ fd' = file /\ offset' = 0 /\ buf' = <<>> /\ current' = seen
    /\ fromFd' = <<>>

Open ==
    /\ rpc = "open"
    /\ IF active = None
         THEN rpc' = "start" /\ UNCHANGED <<fd, offset, buf, current, fromFd>>
         ELSE rpc' = "first" /\ OpenAt(active)
    /\ UNCHANGED <<fileVars, writerVars, seen, delivered>>

\* Fault: the carried-over partial line is counted again in the offset.
ReadNewRecounting(since) ==
    LET fresh == SubSeq(content[fd], offset + 1, Len(content[fd]))
        data == buf \o fresh
    IN  /\ buf' = Remainder(data)
        /\ offset' = offset + Len(data)
        /\ delivered' = delivered \o Parse(data, since)
        /\ fromFd' = fromFd \o Parse(data, 0)

\* _read_new_events: everything from the offset on, whole lines only, the ones
\* recent enough.
ReadNew(since) ==
    LET fresh == SubSeq(content[fd], offset + 1, Len(content[fd]))
        data == buf \o fresh
    IN  /\ buf' = Remainder(data)
        /\ offset' = offset + Len(fresh)
        /\ delivered' = delivered \o Parse(data, since)
        /\ fromFd' = fromFd \o Parse(data, 0)

FirstRead ==
    /\ rpc = "first"
    /\ ReadNew(Since)
    /\ rpc' = "poll"
    /\ UNCHANGED <<fileVars, writerVars, seen, fd, current>>

\* Fault: a changed inode is not noticed.
PollSameFile ==
    /\ rpc = "poll"
    /\ IF active = None
         THEN /\ fd' = None /\ offset' = 0 /\ buf' = <<>> /\ current' = None
              /\ fromFd' = <<>> /\ rpc' = "poll"
         ELSE rpc' = "read" /\ UNCHANGED <<fd, offset, buf, current, fromFd>>
    /\ UNCHANGED <<fileVars, writerVars, seen, delivered>>

\* _handle_rotation_if_needed: one poll looks at the inode behind the path.
Poll ==
    /\ rpc = "poll"
    /\ IF active = None
         THEN \* _close_fd: the file is gone, forget everything
              /\ fd' = None /\ offset' = 0 /\ buf' = <<>> /\ current' = None
              /\ fromFd' = <<>>
              /\ rpc' = "poll" /\ UNCHANGED seen
         ELSE IF active = current
         THEN /\ rpc' = "read"
              /\ UNCHANGED <<seen, fd, offset, buf, current, fromFd>>
         ELSE /\ fd' = None /\ fromFd' = <<>>
              /\ seen' = active /\ rpc' = "reopen"
              /\ UNCHANGED <<offset, buf, current>>
    /\ UNCHANGED <<fileVars, writerVars, delivered>>

Reopen ==
    /\ rpc = "reopen"
    /\ IF active = None
         THEN UNCHANGED <<fd, offset, buf, current, fromFd>>
         ELSE OpenAt(active)
    /\ rpc' = "read"
    /\ UNCHANGED <<fileVars, writerVars, seen, delivered>>

Read ==
    /\ rpc = "read"
    /\ IF fd = None THEN UNCHANGED <<buf, offset, delivered, fromFd>>
                    ELSE ReadNew(0)
    /\ rpc' = "poll"
    /\ UNCHANGED <<fileVars, writerVars, seen, fd, current>>

-----------------------------------------------------------------------------
Emit(w) == Begin(w) \/ StatSize(w) \/ Rotate(w) \/ AppendOpen(w) \/ WriteBody(w)
           \/ WriteNewline(w) \/ EmitFails(w)
Reader == OpenStat \/ Open \/ FirstRead \/ Poll \/ Reopen \/ Read

TailNext == (\E w \in Writers : Emit(w)) \/ Reader

\* The reader's loop never stops polling; nothing obliges a server to emit.
TailSpec == TailInit /\ [][TailNext]_tailVars /\ WF_tailVars(Reader)

-----------------------------------------------------------------------------
(* Properties *)

InodeOrNone == Inodes \cup {None}
EventSeqs == Seq(Events)

\* The file system, the writers' locals and the reader's fields have their types.
TailTypeOK ==
    /\ active \in InodeOrNone /\ rotated \in InodeOrNone /\ used \subseteq Inodes
    /\ content \in [Inodes -> Seq(Tokens)]
    /\ nextEvent \in 1 .. MaxEvents + 1
    /\ wpc \in [Writers -> {"idle", "stat", "rotate", "append", "write", "newline"}]
    /\ wev \in [Writers -> 0 .. MaxEvents] /\ wfd \in [Writers -> InodeOrNone]
    /\ \A w \in Writers : wfd[w] # None <=> wpc[w] \in {"write", "newline"}
    /\ rpc \in {"start", "open", "first", "poll", "reopen", "read"}
    /\ seen \in InodeOrNone /\ fd \in InodeOrNone /\ current \in InodeOrNone
    /\ offset \in Nat /\ buf \in Seq(Tokens)
    /\ delivered \in EventSeqs /\ fromFd \in EventSeqs

\* Whatever the reader's polls cut in half, and whatever a short write tore, what
\* it parsed since it opened its file is what a reader of the same bytes at once
\* would parse: no line lost, repeated or made up at a poll boundary.
PollingLosesNothing ==
    fd # None =>
        /\ offset <= Len(content[fd])
        /\ fromFd = Parse(SubSeq(content[fd], 1, offset), 0)
        /\ buf = Remainder(SubSeq(content[fd], 1, offset))

Stored == IF active = None THEN {} ELSE
    LET events == Parse(content[active], 0) IN {events[k] : k \in 1 .. Len(events)}

Yielded == {delivered[k] : k \in 1 .. Len(delivered)}

\* A recent event that stays in the active file is eventually printed.
ActiveEventsAreDelivered ==
    \A e \in Events : e >= Since => [](e \in Stored => <>(e \in Yielded \/ e \notin Stored))

=============================================================================
