---------------------------- MODULE MCDashboard ----------------------------
(***************************************************************************)
(* The dashboard for TLC.  The readers share no state with one another and *)
(* the audit log none with the policy, so each behaviour watches one of    *)
(* them: a policy view with the operator's editor and the serves, the      *)
(* policy commands with index, the store views with index, or one reader   *)
(* of the audit log with the serve that appends to it.                     *)
(***************************************************************************)
EXTENDS Sidecar, TLC

CONSTANTS s1, s2, p1, p2, accounts, contacts

MCServes == {s1, s2}
MCTerminals == {p1, p2}
MCTables == {accounts, contacts}
MCCategories == {"credential", "contact"}
MCFloor == {"credential"}

MCClassified ==
    [t \in MCTables |->
        [sens |-> "pii", origin |-> "heuristic",
         cats |-> IF t = accounts THEN {"credential"} ELSE {"contact"}]]

Safe(t) == [table |-> t, sens |-> "internal", cats |-> {}]

\* A file that blocks contacts and un-tags both columns, and a broken one.
MCDocs ==
    {[ok |-> TRUE, block |-> {"contact"}, overrides |-> <<Safe(contacts), Safe(accounts)>>],
     [ok |-> FALSE, block |-> {}, overrides |-> <<>>]}

MCFlagBlocks == {{}}
MCOtherBlock == {"contact"}
\* One override drops the floor category, and one puts it over each classifier's tag.
MCOverrides == {Safe(accounts)} \cup [table : MCTables, sens : {"pii"}, cats : {{"credential"}}]

VARIABLE watch

MCInit ==
    /\ Init
    /\ watch \in {"policy", "overview", "tags", "store", "proof", "stream", "pages"}

ToLogAndReaders == UNCHANGED <<log, readerVars>>

\* The policy view against two serves and an editor.  A
\* request reads the sentinel once, so a serve's steps during it add no
\* pair of sentinel and file to those it can meet: the serves wait for it,
\* and at most one of them is half way through its startup.
PolicyView ==
    \/ EditFile
    \/ /\ req = NoRequest
       /\ ServeNext /\ ToLogAndReaders
    \/ /\ \E s \in Serves : At(s, "down")
       /\ RequestNext /\ req'.route \in {"policy", "none"}

\* The overview, with its longer program, against one serve and an editor.
OverviewView ==
    \/ EditFile
    \/ ServeStep(s1) /\ ToLogAndReaders
    \/ RequestNext /\ req'.route \in {"overview", "none"}

\* The policy commands of two terminals against index.
TagCommands == (PolicyNext \/ StoreNext) /\ ToLogAndReaders

\* The other views against index, curation and a remove of the policy file.
StoreViews ==
    \/ StoreNext /\ ToLogAndReaders
    \/ EditFile /\ policy' = 0
    \/ RequestNext /\ req'.route \notin {"policy", "overview"}
    \/ log = <<>> /\ \E anchor \in {accounts, "none"} : AppendRow(TRUE, anchor)

Appends == \E refused \in BOOLEAN : AppendRow(refused, "none")

MCNext ==
    /\ UNCHANGED watch
    /\ \/ watch = "policy"   /\ PolicyView
       \/ watch = "overview" /\ OverviewView
       \/ watch = "tags"     /\ TagCommands
       \/ watch = "store"    /\ StoreViews
       \/ watch = "proof"    /\ (Appends \/ ProofNext)
       \/ watch = "stream"   /\ (AppendRow(FALSE, "none") \/ StreamNext)
       \/ watch = "pages"    /\ (Appends \/ PagerNext)

MCSpec == MCInit /\ [][MCNext]_<<vars, watch>>

ProcessSymmetry == Permutations(MCServes) \cup Permutations(MCTerminals)
=============================================================================
