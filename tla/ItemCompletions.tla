-------------------------- MODULE ItemCompletions ---------------------------
(***************************************************************************)
(* The handlers that write the item_completion table: a participant's      *)
(* POST, PATCH and PUT on /training/items/my-completions (items.service),  *)
(* an administrator's markComplete (training-admin.service), and the       *)
(* INSERT ... ON CONFLICT DO NOTHING of a training token, of the nightly   *)
(* token sync and of the summary's population.                             *)
(*                                                                         *)
(* A request is a process; one SQL statement is one step, since PostgreSQL *)
(* locks the row it writes.  PUT is an UPDATE and, when no row was         *)
(* affected, an INSERT; markComplete is a SELECT and then a write that     *)
(* trusts what the SELECT saw.  Everything else interleaves between them.  *)
(* A request that fails between its statements leaves what it has done.    *)
(***************************************************************************)
EXTENDS Naturals, FiniteSets

CONSTANTS
    Requests,       \* HTTP requests, each served once
    Users,          \* participants (user_representation rows)
    Items,          \* training items, each within an enrollment
    MaxProgress,    \* progress 1.0, as an integer
    MaxTime,        \* bound of the clock
    NoRow,          \* no row in the table
    NoTime,         \* completedOn IS NULL
    NoCall          \* a request that has not arrived

ASSUME ProgressAssumption == MaxProgress \in Nat /\ MaxTime \in Nat
VARIABLES
    rows,           \* rows[<<u, i>>]: the row of u for i, or NoRow
    now,            \* the clock that NOW() and new Date() read
    call,           \* call[r]: what request r asks, NoCall before it arrives
    pc,             \* pc[r]: the statement r executes next
    outcome         \* outcome[r]: what r was answered

vars == <<rows, now, call, pc, outcome>>

-----------------------------------------------------------------------------
Keys == Users \X Items

Row == [completed : BOOLEAN,
        progress : 0 .. MaxProgress,
        completedOn : Nat \cup {NoTime}]

Kinds == {"post", "patch", "put", "mark", "ignore"}

(* key is the row the request names: a PATCH names any row by its id, every *)
(* other participant's request names a row of its own user.                 *)
Call == [kind : Kinds, user : Users, key : Keys,
         completed : BOOLEAN, progress : 0 .. MaxProgress]

ASSUME SentinelAssumption ==
    NoTime \notin Nat /\ NoRow \notin Row /\ NoCall \notin Call

PCs == {"idle", "insert", "force", "manual", "done"}

Outcomes == {"none", "created", "updated", "ignored", "conflict", "failed"}

TypeOK ==
    /\ rows \in [Keys -> Row \cup {NoRow}]
    /\ now \in 0 .. MaxTime
    /\ call \in [Requests -> Call \cup {NoCall}]
    /\ pc \in [Requests -> PCs]
    /\ outcome \in [Requests -> Outcomes]

Init ==
    /\ rows = [k \in Keys |-> NoRow]
    /\ now = 0
    /\ call = [r \in Requests |-> NoCall]
    /\ pc = [r \in Requests |-> "idle"]
    /\ outcome = [r \in Requests |-> "none"]

-----------------------------------------------------------------------------
(* The rows the statements write. *)

\* The column defaults: completed FALSE, progress 0, completedOn NULL.
EmptyRow == [completed |-> FALSE, progress |-> 0, completedOn |-> NoTime]

CompletedRow == [completed |-> TRUE, progress |-> MaxProgress, completedOn |-> now]

\* Mutant: the date moves with every completed report.
StampAlways(row, c) == IF c.completed THEN now ELSE row.completedOn

\* CASE WHEN "completed" = FALSE THEN NOW() ELSE "completedOn" END
StampOnce(row, c) ==
    IF c.completed /\ ~row.completed THEN now ELSE row.completedOn

PatchedRow(row, c) ==
    [completed |-> c.completed,
     progress |-> c.progress,
     completedOn |-> StampOnce(row, c)]

\* Mutant: the last PUT wins.
LastProgress(row, c) == c.progress

\* Mutant: progress adds up.
SummedProgress(row, c) == row.progress + c.progress

\* CASE WHEN "progress" < :progress THEN :progress ELSE "progress" END
MergedProgress(row, c) ==
    IF row.progress < c.progress THEN c.progress ELSE row.progress

\* Mutant: the PUT forgets completedOn.
UndatedRow(row, c) ==
    [completed |-> c.completed,
     progress |-> MergedProgress(row, c),
     completedOn |-> row.completedOn]

PutRow(row, c) ==
    [completed |-> c.completed,
     progress |-> MergedProgress(row, c),
     completedOn |-> StampOnce(row, c)]

\* insertValues carries no completedOn, whatever dto.completed says.
InsertedRow(c) ==
    [completed |-> c.completed, progress |-> c.progress, completedOn |-> NoTime]

-----------------------------------------------------------------------------
(* Steps of a request. *)

Arrives(r, c) ==
    /\ pc[r] = "idle"
    /\ call' = [call EXCEPT ![r] = c]

Answers(r, o) ==
    /\ pc' = [pc EXCEPT ![r] = "done"]
    /\ outcome' = [outcome EXCEPT ![r] = o]

Continues(r, step) ==
    /\ pc' = [pc EXCEPT ![r] = step]
    /\ UNCHANGED outcome

\* An INSERT that the unique (user, enrollment, item) constraint may refuse.
Insert(r, k, row, refused) ==
    \/ /\ rows[k] = NoRow
       /\ rows' = [rows EXCEPT ![k] = row]
       /\ Answers(r, "created")
    \/ /\ rows[k] # NoRow
       /\ Answers(r, refused)
       /\ UNCHANGED rows

\* POST: a new, empty record; a second one is a conflict.
Post(r, u, i) ==
    /\ Arrives(r, [kind |-> "post", user |-> u, key |-> <<u, i>>,
                   completed |-> FALSE, progress |-> 0])
    /\ Insert(r, <<u, i>>, EmptyRow, "conflict")
    /\ UNCHANGED now

\* Training tokens, the token sync and the summary's population.
InsertIgnore(r, u, i) ==
    /\ Arrives(r, [kind |-> "ignore", user |-> u, key |-> <<u, i>>,
                   completed |-> FALSE, progress |-> 0])
    /\ Insert(r, <<u, i>>, EmptyRow, "ignored")
    /\ UNCHANGED now

\* Mutant: the completed criterion is dropped.
UnguardedPatch(c) == rows[c.key] # NoRow /\ c.key[1] = c.user

\* The criteria of PATCH's UPDATE: the caller's own row, and only a completed
\* dto matches a completed row.
PatchMatches(c) ==
    /\ rows[c.key] # NoRow
    /\ c.key[1] = c.user
    /\ ~c.completed => ~rows[c.key].completed

\* PATCH answers alike whether or not a row matched.
Patch(r, u, k, completed, progress) ==
    LET c == [kind |-> "patch", user |-> u, key |-> k,
              completed |-> completed, progress |-> progress]
    IN  /\ Arrives(r, c)
        /\ \/ /\ PatchMatches(c)
              /\ rows' = [rows EXCEPT ![k] = PatchedRow(rows[k], c)]
              /\ Answers(r, "updated")
           \/ /\ ~PatchMatches(c)
              /\ Answers(r, "ignored")
              /\ UNCHANGED rows
        /\ UNCHANGED now

\* PUT's UPDATE; with no row affected, the INSERT is left to do.
PutUpdate(r, u, i, completed, progress) ==
    LET k == <<u, i>>
        c == [kind |-> "put", user |-> u, key |-> k,
              completed |-> completed, progress |-> progress]
    IN  /\ Arrives(r, c)
        /\ \/ /\ rows[k] # NoRow
              /\ rows' = [rows EXCEPT ![k] = PutRow(rows[k], c)]
              /\ Answers(r, "updated")
           \/ /\ rows[k] = NoRow
              /\ Continues(r, "insert")
              /\ UNCHANGED rows
        /\ UNCHANGED now

\* Mutant: no unique constraint, the last INSERT wins.
BlindPutInsert(r) ==
    /\ pc[r] = "insert"
    /\ rows' = [rows EXCEPT ![call[r].key] = InsertedRow(call[r])]
    /\ Answers(r, "created")
    /\ UNCHANGED <<now, call>>

PutInsert(r) ==
    /\ pc[r] = "insert"
    /\ Insert(r, call[r].key, InsertedRow(call[r]), "conflict")
    /\ UNCHANGED <<now, call>>

\* markComplete looks the record up and then writes by what it saw.
MarkSelect(r, u, i) ==
    LET k == <<u, i>>
    IN  /\ Arrives(r, [kind |-> "mark", user |-> u, key |-> k,
                       completed |-> TRUE, progress |-> MaxProgress])
        /\ \/ /\ rows[k] = NoRow
              /\ Continues(r, "manual")
           \/ /\ rows[k] # NoRow
              /\ ~rows[k].completed
              /\ Continues(r, "force")
           \/ /\ rows[k] # NoRow
              /\ rows[k].completed
              /\ Answers(r, "ignored")
        /\ UNCHANGED <<rows, now>>

\* UPDATE by id, whatever the row has become since.
MarkForce(r) ==
    /\ pc[r] = "force"
    /\ rows' = [rows EXCEPT ![call[r].key] = CompletedRow]
    /\ Answers(r, "updated")
    /\ UNCHANGED <<now, call>>

MarkInsert(r) ==
    /\ pc[r] = "manual"
    /\ Insert(r, call[r].key, CompletedRow, "conflict")
    /\ UNCHANGED <<now, call>>

\* The connection or the process is lost before the second statement.
Fail(r) ==
    /\ pc[r] \in {"insert", "force", "manual"}
    /\ Answers(r, "failed")
    /\ UNCHANGED <<rows, now, call>>

Tick ==
    /\ now < MaxTime
    /\ now' = now + 1
    /\ UNCHANGED <<rows, call, pc, outcome>>

Step(r) ==
    \/ \E u \in Users, i \in Items :
          Post(r, u, i) \/ InsertIgnore(r, u, i) \/ MarkSelect(r, u, i)
    \/ \E u \in Users, k \in Keys, completed \in BOOLEAN, p \in 0 .. MaxProgress :
          Patch(r, u, k, completed, p)
    \/ \E u \in Users, i \in Items, completed \in BOOLEAN, p \in 0 .. MaxProgress :
          PutUpdate(r, u, i, completed, p)
    \/ PutInsert(r)
    \/ MarkForce(r)
    \/ MarkInsert(r)
    \/ Fail(r)

Next == Tick \/ \E r \in Requests : Step(r)

Spec == Init /\ [][Next]_vars

-----------------------------------------------------------------------------
(* Properties. *)

Wrote(r) == outcome[r] \in {"created", "updated"}

Concerns(r, k) == call[r] # NoCall /\ call[r].key = k

(* A record has exactly one creator however the INSERTs of POST, PUT,       *)
(* markComplete and a token race: it exists from the moment one request was *)
(* answered "created", and no second request ever is (the unique constraint *)
(* of item-completion.entity.ts).                                           *)
OneCreatorPerRow ==
    \A k \in Keys :
        /\ (rows[k] = NoRow) =
           (\A r \in Requests : outcome[r] = "created" => ~Concerns(r, k))
        /\ \A r, s \in Requests :
              (/\ outcome[r] = "created" /\ Concerns(r, k)
               /\ outcome[s] = "created" /\ Concerns(s, k)) => r = s

(* Progress that a PUT acknowledged is not lost to a PUT that arrives late, *)
(* to a racing INSERT or to an administrator: only a PATCH, which sets what *)
(* it is given, can lower it.                                               *)
AcknowledgedProgressKept ==
    \A r \in Requests :
        (/\ Wrote(r)
         /\ call[r].kind = "put"
         /\ \A s \in Requests : Wrote(s) /\ call[s].kind = "patch"
                                => call[s].key # call[r].key)
        => /\ rows[call[r].key] # NoRow
           /\ rows[call[r].key].progress >= call[r].progress

(* A completion that was acknowledged, by whichever handler, stays: the     *)
(* only request that can withdraw it is a PUT with completed = false.       *)
AcknowledgedCompletionKept ==
    \A r \in Requests :
        (/\ Wrote(r)
         /\ call[r].completed
         /\ \A s \in Requests : Wrote(s) /\ call[s].kind = "put"
                                /\ ~call[s].completed
                                => call[s].key # call[r].key)
        => /\ rows[call[r].key] # NoRow
           /\ rows[call[r].key].completed

(* A completed record without a completion date comes from one place only,  *)
(* the INSERT of a PUT that reports the whole item in its first request.    *)
UndatedOnlyFromPutInsert ==
    \A k \in Keys :
        (rows[k] # NoRow /\ rows[k].completed /\ rows[k].completedOn = NoTime)
        => \E r \in Requests :
              /\ Concerns(r, k)
              /\ call[r].kind = "put"
              /\ call[r].completed
              /\ outcome[r] = "created"

(* A participant's request changes no record but the participant's own, on  *)
(* whatever row id a PATCH names.                                           *)
OwnRowsOnly ==
    [][\A k \in Keys, r \in Requests :
          (rows'[k] # rows[k] /\ pc'[r] # pc[r] /\ call'[r].kind # "mark")
          => call'[r].user = k[1]]_vars

Ledger == INSTANCE CompletionLedger
          WITH Users <- Users, Items <- Items, MaxProgress <- MaxProgress,
               NoRow <- NoRow, NoTime <- NoTime, rows <- rows, now <- now

(* The handlers, with their two-step PUT and markComplete, implement the    *)
(* ledger of atomic changes: a stale first statement never causes a change  *)
(* the ledger does not allow.                                               *)
ImplementsLedger == Ledger!Spec
=============================================================================
