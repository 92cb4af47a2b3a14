------------------------------ MODULE MCWizard ------------------------------
(* Instances of Wizard: command lines that differ in one option from a     *)
(* plain `init`, and configurations that differ in one part of the entry.  *)
EXTENDS Wizard

CONSTANTS t1, t2, peer, here, there, url, p1, p2, pasted

Entry(path) == [command |-> "uvx", pin |-> Installed, urlflag |-> "--url-env", store |-> path,
                 block |-> "catastrophic", env |-> url, extra |-> FALSE]

Config(others, ours) == [dict |-> TRUE, others |-> others, ours |-> ours]

MCConfigs == {Config({peer}, [Entry(there) EXCEPT !.urlflag = "--source"])}

Exported(key, value) == [v \in {KeyVar, url} |-> IF v = KeyVar THEN key ELSE value]

Plain == [verb |-> "init", unfit |-> FALSE, url |-> "positional", source |-> "postgres",
          from_dbt |-> "no", skip_index |-> FALSE, omit |-> {}, enrich |-> FALSE,
          environ |-> Exported("key", None), yes |-> FALSE, tty |-> TRUE, host |-> "claude-desktop",
          entry |-> Entry(here), value |-> None]

Session == {
    Plain,
    [Plain EXCEPT !.unfit = TRUE],
    [Plain EXCEPT !.yes = TRUE, !.environ = Exported(None, None), !.host = None],
    [Plain EXCEPT !.from_dbt = "found", !.tty = FALSE],
    [Plain EXCEPT !.from_dbt = "missing"],
    [Plain EXCEPT !.enrich = TRUE, !.environ = Exported(None, None), !.url = "--url-env"],
    [Plain EXCEPT !.source = "other", !.host = None, !.skip_index = TRUE],
    [Plain EXCEPT !.source = "demo", !.url = "none", !.omit = {"metrics"}],
    [Plain EXCEPT !.source = "other", !.entry.block = None],
    [Plain EXCEPT !.verb = "wire", !.source = "demo", !.yes = TRUE],
    [Plain EXCEPT !.verb = "doctor"]}

\* What another terminal does meanwhile.
Meanwhile == {[Plain EXCEPT !.skip_index = TRUE, !.yes = TRUE, !.entry.store = there],
              [Plain EXCEPT !.verb = "key", !.value = pasted]}

MCDetected == {"claude-desktop", "cursor"}
MCMenu == {"claude-code", "manual"}
MCCommands == [p \in {p1, p2} |-> IF p = p1 THEN Session ELSE Meanwhile]

MCEnvs == {[v \in {KeyVar, url} |-> IF v = url THEN "set" ELSE None]}

Machine(config, env, exists, container) ==
    [file |-> [config |-> config, env |-> env], store |-> [exists |-> exists, current |-> ~exists],
     demo |-> [container |-> container, fixture |-> IF container = "absent" THEN "none" ELSE "old"]]

MCMachines == {Machine(Absent, Absent, FALSE, "absent"),
               Machine([dict |-> FALSE, others |-> {}, ours |-> None], Absent, TRUE, "absent"),
               Machine(Config({peer}, None), CHOOSE e \in MCEnvs : TRUE, FALSE, "stopped"),
               Machine(Config({peer}, Entry(there)), Absent, FALSE, "running")}

MCSymmetry == Permutations({t1, t2})
=============================================================================
