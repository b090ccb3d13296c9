-------------------------- MODULE CompletionLedger --------------------------
(***************************************************************************)
(* What the item_completion table promises to its readers (the completion  *)
(* summary, the CSV export, the reminder task): a record per participant   *)
(* and training item that is opened once, never disappears, and afterwards *)
(* changes only in four ways.  It says nothing of requests: every change   *)
(* is one atomic step.  ItemCompletions is the detailed specification.     *)
(***************************************************************************)
EXTENDS Naturals

CONSTANTS
    Users,          \* participants (user_representation rows)
    Items,          \* training items, each within an enrollment
    MaxProgress,    \* progress 1.0, as an integer
    NoRow,          \* the record does not exist
    NoTime          \* completedOn IS NULL

VARIABLES
    rows,           \* rows[<<u, i>>]: the record of u for i, or NoRow
    now             \* the database clock

vars == <<rows, now>>

Keys == Users \X Items

Row == [completed : BOOLEAN,
        progress : 0 .. MaxProgress,
        completedOn : Nat \cup {NoTime}]

Init ==
    /\ rows = [k \in Keys |-> NoRow]
    /\ now = 0

\* One record changes, and it does not disappear.
Changes(k) ==
    /\ rows'[k] \in Row
    /\ rows' = [rows EXCEPT ![k] = rows'[k]]
    /\ UNCHANGED now

\* The date a record had stays, or it is now completed and dated now.
DateFollows(k) ==
    \/ rows'[k].completedOn = rows[k].completedOn
    \/ /\ ~rows[k].completed
       /\ rows'[k].completed
       /\ rows'[k].completedOn = now

\* The record is opened; a dated one is completed, and dated now.
Open(k) ==
    /\ rows[k] = NoRow
    /\ Changes(k)
    /\ \/ rows'[k].completedOn = NoTime
       \/ rows'[k].completed /\ rows'[k].completedOn = now

\* Progress is reported: it never falls; the completion follows the report.
Report(k) ==
    /\ rows[k] # NoRow
    /\ Changes(k)
    /\ rows'[k].progress >= rows[k].progress
    /\ DateFollows(k)

\* Progress is set: it may fall, but a completed record stays completed.
Amend(k) ==
    /\ rows[k] # NoRow
    /\ Changes(k)
    /\ rows[k].completed => rows'[k].completed
    /\ DateFollows(k)

\* An administrator certifies the completion: full progress, dated now.
Certify(k) ==
    /\ rows[k] # NoRow
    /\ Changes(k)
    /\ rows'[k] = [completed |-> TRUE, progress |-> MaxProgress,
                   completedOn |-> now]

Tick ==
    /\ now' = now + 1
    /\ UNCHANGED rows

Next ==
    \/ \E k \in Keys : Open(k) \/ Report(k) \/ Amend(k) \/ Certify(k)
    \/ Tick

Spec == Init /\ [][Next]_vars
=============================================================================
