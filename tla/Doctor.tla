------------------------------- MODULE Doctor -------------------------------
(***************************************************************************)
(* The checks of `schemabrain doctor`: what each says of the host's        *)
(* configuration, of the store and of the source, and of `doctor --verify` *)
(* on the store.  Checks read on their own; a command runs them in order.  *)
(***************************************************************************)
EXTENDS HostConfig, Sequences

CONSTANTS Installed    \* version of the installed package

\* One check whatever it evaluates: an unreadable file fails it, no entry is `without`.
OnEntry(c, without, verdict) ==
    IF Unreadable(c) THEN "fail"
    ELSE IF schemabrain_entry_in(c) = None THEN without ELSE verdict

check_host_config_present(c) == IF c = Absent THEN "fail" ELSE OnEntry(c, "fail", "pass")

check_host_config_uses_url_env(c) ==
    OnEntry(c, "warn", CASE schemabrain_entry_in(c).urlflag = "--source" -> "fail"
                         [] schemabrain_entry_in(c).urlflag = "--url-env" -> "pass"
                         [] OTHER -> "warn")

\* A runner that is a path has no pin.
check_host_config_version_pin_matches(c) ==
    OnEntry(c, "warn", IF schemabrain_entry_in(c).pin = Installed THEN "pass" ELSE "warn")

check_host_config_store_path_matches(c, expected) ==
    OnEntry(c, "warn", IF schemabrain_entry_in(c).store = expected THEN "pass" ELSE "warn")

host_config_checks(c, expected) ==
    <<check_host_config_present(c), check_host_config_uses_url_env(c),
      check_host_config_version_pin_matches(c), check_host_config_store_path_matches(c, expected)>>

\* Opening the store is the check of its version; `count` is every source's entities.
store_checks(exists, current, count, tables) ==
    IF ~exists THEN <<"warn", "warn", "warn">>
    ELSE <<IF current THEN "pass" ELSE "fail",
           IF current /\ count # {} THEN "pass" ELSE "warn",
           IF tables # {} THEN "pass" ELSE "warn">>

\* Only when a URL was given; the last one, pg_stat_statements, never fails.
source_checks(reachable, postgres) ==
    IF ~reachable THEN <<"fail">> \o (IF postgres THEN <<"fail", "warn">> ELSE <<>>)
    ELSE <<"pass">> \o (IF postgres THEN <<"pass", "warn">> ELSE <<>>)

checks_exit_code(checks) == IF \E i \in DOMAIN checks : checks[i] = "fail" THEN 1 ELSE 0

\* doctor --verify: list, describe and search on the first source the store knows;
\* search and metric are never required.
verified(exists, tables, entities) == exists /\ tables # {} /\ entities # {}
=============================================================================
