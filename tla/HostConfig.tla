----------------------------- MODULE HostConfig -----------------------------
(***************************************************************************)
(* The two files setup shares with other programs: the MCP host's JSON     *)
(* configuration, of which SchemaBrain owns one entry, and the project's   *)
(* .env, of which it owns one line.  Both are read, changed in memory and  *)
(* renamed into place from a temporary sibling; the configuration is also  *)
(* backed up once.  Every system call is a step, so two processes and an   *)
(* editor meet between any two of them, and a process or the machine can   *)
(* die there.                                                              *)
(*                                                                         *)
(* A configuration is the set of other servers and SchemaBrain's entry;    *)
(* `dict` says whether mcpServers is an object at all.  An entry keeps the *)
(* parts somebody compares: runner, pin, how the URL is passed, store path *)
(* (None: no such argument), blocked categories, environment, other keys.  *)
(***************************************************************************)
EXTENDS Naturals, FiniteSets, TLC

CONSTANTS
    Procs,
    Absent,       \* there is no such file
    Empty,        \* a file of no bytes
    Malformed,    \* somebody saved something that is not JSON
    Torn,         \* part of a content this program was writing
    None,
    Configs,      \* configurations the editor or another program may save
    Envs,         \* .env files the operator may save: a value or None per variable
    EnvTemplate,  \* .env.example, or Absent
    KeyVar,       \* ANTHROPIC_API_KEY
    MaxEdits      \* bound on saves by others

VARIABLES
    file,         \* [config, env -> content on disk]
    durable,      \* the configuration on disk would survive a power loss
    bak,          \* <config>.bak
    io,           \* per process, the file operation it is in
    edits

hostVars == <<file, durable, bak, io, edits>>

NoIo == [at |-> "idle", target |-> "config", what |-> None, yes |-> FALSE,
         read |-> Absent, tmp |-> Absent, synced |-> FALSE, result |-> None]

HostInit ==      \* besides `file`
    /\ durable = TRUE
    /\ bak = Absent
    /\ io = [p \in Procs |-> NoIo]
    /\ edits = 0

-----------------------------------------------------------------------------
(* Reading and comparing an entry *)

Unreadable(c) == c \in {Malformed, Torn, Empty}

schemabrain_entry_in(c) == IF c = Absent \/ ~c.dict THEN None ELSE c.ours

\* Fault: the store path is looked at as part of the other arguments, by name only.
diff_mcp_entry_fields_no_args(old, new) ==
    (IF old.command # new.command THEN {"command"} ELSE {})
    \cup (IF old.env # new.env THEN {"env"} ELSE {})
    \cup (IF old.store # new.store THEN {"args[--store-path]"} ELSE {})

\* The store path is told apart from the other arguments only when both have one.
diff_mcp_entry_fields(old, new) ==
    LET Args(e) == <<e.pin, e.urlflag, e.block>>
        other == Args(old) # Args(new)
        store == old.store # new.store
    IN  (IF old.command # new.command THEN {"command"} ELSE {})
        \cup (IF other \/ (store /\ None \in {old.store, new.store}) THEN {"args"}
              ELSE IF store THEN {"args[--store-path]"} ELSE {})
        \cup (IF old.env # new.env THEN {"env"} ELSE {})

compare_existing_claude_desktop_entry(c, new) ==
    LET old == schemabrain_entry_in(c)
    IN  CASE Unreadable(c) -> "refused"
          [] ~Unreadable(c) /\ old = None -> "new"
          [] ~Unreadable(c) /\ old = new -> "unchanged"
          [] OTHER -> IF diff_mcp_entry_fields(old, new) = {"args[--store-path]"}
                      THEN "differs_store_path_only" ELSE "differs"

\* Fault: the file is written anew around the one entry.
merge_schemabrain_entry_alone(c, new) == [dict |-> TRUE, others |-> {}, ours |-> new]

\* Servers that are not an object are dropped; every other server is kept.
merge_schemabrain_entry(c, new) ==
    [dict |-> TRUE, others |-> IF c = Absent \/ ~c.dict THEN {} ELSE c.others, ours |-> new]

\* The line with the key is replaced in place, or one is added.
persist_key(c, value) ==
    [v \in {KeyVar} \cup (IF c = Absent THEN {} ELSE DOMAIN c) |-> IF v = KeyVar THEN value ELSE c[v]]

\* Whitespace counts as unset, and what the shell exported wins.
load_env_file_into_environ(c, environ) ==
    [v \in DOMAIN environ |->
        IF environ[v] # None \/ c = Absent THEN environ[v]
        ELSE IF v \in DOMAIN c THEN c[v] ELSE None]

-----------------------------------------------------------------------------
(* One read-change-rename of a process *)

Goes(p, r) == io' = [io EXCEPT ![p] = r]
Ends(p, result) == Goes(p, [NoIo EXCEPT !.at = "over", !.result = result])

BeginInstall(p, entry, yes) ==
    Goes(p, [NoIo EXCEPT !.at = "read", !.what = entry, !.yes = yes])

BeginPersist(p, value) ==
    Goes(p, [NoIo EXCEPT !.at = "seed", !.target = "env", !.what = value])

\* A missing .env is first copied from its template, in place.
SeedEnv(p) ==
    /\ io[p].at = "seed"
    /\ file' = IF file.env = Absent THEN [file EXCEPT !.env = EnvTemplate] ELSE file
    /\ Goes(p, [io[p] EXCEPT !.at = "read"])
    /\ UNCHANGED <<durable, bak, edits>>

\* A different entry is not replaced without consent.
install_refused(c, r) ==
    \/ Unreadable(c)
    \/ ~r.yes /\ schemabrain_entry_in(c) \notin {None, r.what}

ReadConfig(p) ==
    /\ io[p].at = "read" /\ io[p].target = "config"
    /\ LET c == file.config
       IN  IF install_refused(c, io[p]) THEN Ends(p, "refused")
           ELSE IF schemabrain_entry_in(c) = io[p].what THEN Ends(p, "unchanged")
           ELSE Goes(p, [io[p] EXCEPT !.at = "reserve", !.read = c])
    /\ UNCHANGED <<file, durable, bak, edits>>

ReadEnv(p) ==
    /\ io[p].at = "read" /\ io[p].target = "env"
    /\ Goes(p, [io[p] EXCEPT !.at = "write", !.read = file.env])
    /\ UNCHANGED <<file, durable, bak, edits>>

\* O_CREAT | O_EXCL: whoever finds a .bak leaves it alone.
ReserveBackup(p) ==
    /\ io[p].at = "reserve"
    /\ LET first == file.config # Absent /\ bak = Absent
       IN  /\ bak' = IF first THEN Empty ELSE bak
           /\ Goes(p, [io[p] EXCEPT !.at = IF first THEN "copy" ELSE "write"])
    /\ UNCHANGED <<file, durable, edits>>

CopyBackup(p) ==
    /\ io[p].at = "copy"
    /\ bak' = file.config
    /\ Goes(p, [io[p] EXCEPT !.at = "write"])
    /\ UNCHANGED <<file, durable, edits>>

Merged(r) ==
    IF r.target = "config" THEN merge_schemabrain_entry(r.read, r.what)
                           ELSE persist_key(r.read, r.what)

WriteTemp(p) ==
    /\ io[p].at = "write"
    /\ Goes(p, [io[p] EXCEPT !.at = "sync", !.tmp = Merged(io[p])])
    /\ UNCHANGED <<file, durable, bak, edits>>

\* Fault: flush() without fsync().
SyncTempNever(p) ==
    /\ io[p].at = "sync"
    /\ Goes(p, [io[p] EXCEPT !.at = "rename"])
    /\ UNCHANGED <<file, durable, bak, edits>>

SyncTemp(p) ==
    /\ io[p].at = "sync"
    /\ Goes(p, [io[p] EXCEPT !.at = "rename", !.synced = TRUE])
    /\ UNCHANGED <<file, durable, bak, edits>>

Rename(p) ==
    /\ io[p].at = "rename"
    /\ file' = [file EXCEPT ![io[p].target] = io[p].tmp]
    /\ durable' = IF io[p].target = "config" THEN io[p].synced ELSE durable
    /\ Ends(p, "written")
    /\ UNCHANGED <<bak, edits>>

\* A full disk: the temporary file is removed and the exception goes on.
WriteRaises(p) ==
    /\ io[p].at \in {"copy", "write", "sync", "rename"}
    /\ Ends(p, "raised")
    /\ UNCHANGED <<file, durable, bak, edits>>

FileStep(p) ==
    \/ SeedEnv(p) \/ ReadConfig(p) \/ ReadEnv(p) \/ ReserveBackup(p) \/ CopyBackup(p)
    \/ WriteTemp(p) \/ SyncTemp(p) \/ Rename(p) \/ WriteRaises(p)

-----------------------------------------------------------------------------
(* The others *)

\* The host application, the operator's editor.
Save ==
    /\ edits < MaxEdits
    /\ edits' = edits + 1
    /\ \/ file' \in {[file EXCEPT !.config = c] : c \in (Configs \cup {Malformed}) \ {file.config}}
       \/ file' \in {[file EXCEPT !.env = c] : c \in Envs \ {file.env}}
    /\ UNCHANGED <<durable, bak, io>>

\* What was renamed before it reached the disk is lost with the machine.
LoseUnsynced ==
    /\ file' = IF durable THEN file ELSE [file EXCEPT !.config = Torn]
    /\ durable' = TRUE

-----------------------------------------------------------------------------
(* Properties *)

\* Contract 2 of config_io.py: whatever dies, the host never finds half a
\* configuration: the file is what somebody saved or a complete merge.
ConfigIsWhole == file.config # Torn

\* Contract 1 of config_io.py, and the .env's: renaming a new content over the one that
\* was read keeps every other server and every other variable.
OthersKept ==
    [][\A p \in Procs :
         io[p].at = "rename" /\ io'[p].result = "written" /\ file[io[p].target] = io[p].read =>
             IF io[p].target = "config"
             THEN file'.config.others =
                     IF file.config = Absent \/ ~file.config.dict THEN {} ELSE file.config.others
             ELSE file.env # Absent => \A v \in DOMAIN file.env \ {KeyVar} : file'.env[v] = file.env[v]]_hostVars
=============================================================================
