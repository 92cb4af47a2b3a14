------------------------------ MODULE AuditLog ------------------------------
(***************************************************************************)
(* What the audit table promises: a log that only grows, one entry per     *)
(* recorded tool call, together with a head that commits to the whole log. *)
(* The only way to lose an entry is a power failure, which removes a       *)
(* suffix (the store runs WAL with synchronous=NORMAL) and leaves a head   *)
(* that commits to what is left.                                           *)
(***************************************************************************)
EXTENDS Naturals, Sequences

CONSTANT Entries        \* what one audit row can say: <<time, content>>

VARIABLES log, head

vars == <<log, head>>

Init == log = <<>> /\ head = <<>>

\* One audit row becomes durable; its commitment extends the head.
Record(e) ==
    LET canonical == <<Len(log) + 1, e[1], e[2]>>
    IN  /\ log' = Append(log, canonical)
        /\ head' = Append(head, canonical)

\* The machine loses power and the unsynced suffix with it.
LoseSuffix ==
    \E n \in 0 .. Len(log) :
        /\ log' = SubSeq(log, 1, n)
        /\ head' = SubSeq(head, 1, n)

Next == (\E e \in Entries : Record(e)) \/ LoseSuffix

Spec == Init /\ [][Next]_vars
=============================================================================
