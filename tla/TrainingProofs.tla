--------------------------- MODULE TrainingProofs ----------------------------
(***************************************************************************)
(* What is proved of training: the invariants of ItemCompletions and its   *)
(* implementation of CompletionLedger first, then those of TrainingLinks   *)
(* and TrainingReminders, for any number of people, items, sections,       *)
(* requests and days.                                                      *)
(*                                                                         *)
(* ItemCompletions: all of it rests on StepEffect, what one step of one    *)
(* request may do to the table, the call and the answer; the invariants    *)
(* are then shown to be preserved by whatever has that effect, without     *)
(* looking at the handlers again.                                          *)
(*                                                                         *)
(* TrainingReminders: LinksInv says what is true of tokens and             *)
(* representations, TaskInv(w) what the task of process w knows of the     *)
(* list it is reading, DaysInv(w) what w sent on the days gone by; each is *)
(* preserved by the steps of its own part and stands while the others,     *)
(* and the other processes, move.                                          *)
(***************************************************************************)
EXTENDS ItemCompletions, TrainingReminders, FiniteSetTheorems, TLAPS

\* A pending second statement belongs to the call that left it pending.
Pending(r) ==
    /\ pc[r] = "idle" => outcome[r] = "none"
    /\ pc[r] \in {"insert", "force", "manual"} =>
          /\ call[r] \in Call
          /\ outcome[r] = "none"
    /\ pc[r] = "done" => call[r] \in Call
    /\ pc[r] = "insert" => call[r].kind = "put"
    /\ pc[r] \in {"force", "manual"} =>
          /\ call[r].kind = "mark"
          /\ call[r].completed
          /\ call[r].progress = MaxProgress
    /\ pc[r] = "force" => rows[call[r].key] # NoRow

PendingOK == \A r \in Requests : Pending(r)

\* Whoever wrote a record finds it there: rows are never deleted.
WrittenRowExists ==
    \A r \in Requests : Wrote(r) => pc[r] = "done" /\ rows[call[r].key] # NoRow

IInv == TypeOK /\ PendingOK /\ WrittenRowExists

\* Request r creates its record with what the call asks.
Creates(r) ==
    LET k == call'[r].key
    IN  /\ outcome'[r] = "created"
        /\ rows[k] = NoRow
        /\ rows'[k] \in Row
        /\ rows' = [rows EXCEPT ![k] = rows'[k]]
        /\ rows'[k].progress = call'[r].progress
        /\ rows'[k].completed = call'[r].completed
        /\ rows'[k].completedOn \in {NoTime, now}
        /\ rows'[k].completedOn = now => rows'[k].completed

\* Request r changes its record, within what its kind of call allows.
Updates(r) ==
    LET k == call'[r].key
    IN  /\ outcome'[r] = "updated"
        /\ rows[k] \in Row
        /\ rows'[k] \in Row
        /\ rows' = [rows EXCEPT ![k] = rows'[k]]
        /\ call'[r].completed => rows'[k].completed
        /\ call'[r].kind # "patch" =>
              /\ rows'[k].progress >= rows[k].progress
              /\ rows'[k].progress >= call'[r].progress
        /\ (rows[k].completed /\ ~rows'[k].completed) =>
              call'[r].kind = "put" /\ ~call'[r].completed
        /\ \/ rows'[k].completedOn = rows[k].completedOn
           \/ ~rows[k].completed /\ rows'[k].completed /\ rows'[k].completedOn = now
           \/ rows'[k] = CompletedRow

Leaves(r) ==
    /\ outcome'[r] \notin {"created", "updated"}
    /\ rows' = rows

StepEffect(r) ==
    /\ pc[r] # "done"
    /\ ~Wrote(r)
    /\ call'[r] \in Call
    /\ call' = [call EXCEPT ![r] = call'[r]]
    /\ pc' = [pc EXCEPT ![r] = pc'[r]]
    /\ outcome' = [outcome EXCEPT ![r] = outcome'[r]]
    /\ pc'[r] \in PCs \ {"idle"}
    /\ outcome'[r] \in Outcomes
    /\ outcome'[r] # "none" <=> pc'[r] = "done"
    /\ Pending(r)'
    /\ now' = now
    /\ Creates(r) \/ Updates(r) \/ Leaves(r)

-----------------------------------------------------------------------------
\* What an INSERT does, whichever handler issues it.
LEMMA InsertEffect ==
  ASSUME TypeOK,
         NEW r \in Requests, NEW k \in Keys, NEW row \in Row, NEW refused,
         refused \in {"ignored", "conflict"},
         Insert(r, k, row, refused)
  PROVE  /\ pc' = [pc EXCEPT ![r] = "done"]
         /\ \/ /\ outcome' = [outcome EXCEPT ![r] = "created"]
               /\ rows[k] = NoRow
               /\ rows' = [rows EXCEPT ![k] = row]
            \/ /\ outcome' = [outcome EXCEPT ![r] = refused]
               /\ rows' = rows
  BY DEF Insert, Answers

\* A request that arrives was idle, and its call is on record.
LEMMA ArrivesEffect ==
  ASSUME TypeOK, PendingOK,
         NEW r \in Requests, NEW c \in Call, Arrives(r, c)
  PROVE  /\ pc[r] = "idle" /\ ~Wrote(r)
         /\ call'[r] = c
         /\ call' = [call EXCEPT ![r] = call'[r]]
  BY DEF TypeOK, PendingOK, Pending, Arrives, Wrote

\* The rows the statements write are rows.
LEMMA RowsWritten ==
  ASSUME TypeOK, NEW c \in Call
  PROVE  /\ EmptyRow \in Row
         /\ CompletedRow \in Row
         /\ InsertedRow(c) \in Row
         /\ \A row \in Row : PatchedRow(row, c) \in Row /\ PutRow(row, c) \in Row
BY ProgressAssumption
DEF TypeOK, Row, Call, EmptyRow, CompletedRow, InsertedRow, PatchedRow, PutRow,
    StampOnce, MergedProgress

-----------------------------------------------------------------------------
(* Each handler's statements have StepEffect. *)

\* The clock never reads NULL.
LEMMA NowIsATime == TypeOK => now \in Nat /\ now # NoTime
BY ProgressAssumption, SentinelAssumption DEF TypeOK

\* An INSERT of the row that call c asks for, by POST, PUT or markComplete.
LEMMA InsertStep ==
  ASSUME IInv, NEW r \in Requests, NEW c \in Call, NEW row \in Row, NEW refused,
         refused \in {"ignored", "conflict"},
         pc[r] # "done", ~Wrote(r),
         call'[r] = c, call' = [call EXCEPT ![r] = call'[r]],
         now' = now,
         row.progress = c.progress, row.completed = c.completed,
         row.completedOn = NoTime \/ (row.completedOn = now /\ row.completed),
         Insert(r, c.key, row, refused)
  PROVE  StepEffect(r)
<1>k. c.key \in Keys
  BY DEF Call
<1>1. /\ pc' = [pc EXCEPT ![r] = "done"]
      /\ \/ /\ outcome' = [outcome EXCEPT ![r] = "created"]
            /\ rows[c.key] = NoRow
            /\ rows' = [rows EXCEPT ![c.key] = row]
         \/ /\ outcome' = [outcome EXCEPT ![r] = refused]
            /\ rows' = rows
  BY <1>k, InsertEffect DEF IInv
<1>2. pc'[r] = "done" /\ pc' = [pc EXCEPT ![r] = pc'[r]] /\ pc'[r] \in PCs
  BY <1>1 DEF IInv, TypeOK, PCs
<1>p. Pending(r)'
  BY <1>2 DEF Pending
<1>3. CASE /\ outcome' = [outcome EXCEPT ![r] = "created"]
           /\ rows[c.key] = NoRow
           /\ rows' = [rows EXCEPT ![c.key] = row]
  <2>1. outcome'[r] = "created" /\ outcome' = [outcome EXCEPT ![r] = outcome'[r]]
    BY <1>3 DEF IInv, TypeOK
  <2>2. rows'[c.key] = row
    BY <1>3, <1>k DEF IInv, TypeOK
  <2>3. Creates(r)
    BY <1>3, <2>1, <2>2, NowIsATime DEF Creates, IInv
  <2> QED
    BY <1>2, <1>p, <2>1, <2>3 DEF StepEffect, Outcomes
<1>4. CASE outcome' = [outcome EXCEPT ![r] = refused] /\ rows' = rows
  <2>1. outcome'[r] = refused /\ outcome' = [outcome EXCEPT ![r] = outcome'[r]]
    BY <1>4 DEF IInv, TypeOK
  <2>2. Leaves(r)
    BY <1>4, <2>1 DEF Leaves
  <2> QED
    BY <1>2, <1>p, <2>1, <2>2 DEF StepEffect, Outcomes
<1> QED
  BY <1>1, <1>3, <1>4

LEMMA PostEffect ==
  ASSUME IInv, NEW r \in Requests, NEW u \in Users, NEW i \in Items,
         Post(r, u, i) \/ InsertIgnore(r, u, i)
  PROVE  StepEffect(r)
<1>k. <<u, i>> \in Keys
  BY DEF Keys
<1>1. PICK kind \in {"post", "ignore"}, refused \in {"conflict", "ignored"} :
        /\ Arrives(r, [kind |-> kind, user |-> u, key |-> <<u, i>>,
                       completed |-> FALSE, progress |-> 0])
        /\ Insert(r, <<u, i>>, EmptyRow, refused)
        /\ now' = now
  BY DEF Post, InsertIgnore
<1> DEFINE c == [kind |-> kind, user |-> u, key |-> <<u, i>>,
                 completed |-> FALSE, progress |-> 0]
<1>2. c \in Call
  BY <1>k, ProgressAssumption DEF Call, Kinds
<1>3. /\ pc[r] = "idle" /\ ~Wrote(r)
      /\ call'[r] = c
      /\ call' = [call EXCEPT ![r] = call'[r]]
  BY <1>1, <1>2, ArrivesEffect DEF IInv
<1>4. EmptyRow \in Row
  BY <1>2, RowsWritten DEF IInv
<1>5. /\ EmptyRow.progress = c.progress
      /\ EmptyRow.completed = c.completed
      /\ EmptyRow.completedOn = NoTime
      /\ c.key = <<u, i>>
  BY DEF EmptyRow
<1> HIDE DEF c
<1> QED
  BY <1>1, <1>2, <1>3, <1>4, <1>5, InsertStep

LEMMA PutInsertEffect ==
  ASSUME IInv, NEW r \in Requests, PutInsert(r)
  PROVE  StepEffect(r)
<1>1. /\ pc[r] = "insert" /\ call[r] \in Call /\ ~Wrote(r)
      /\ Insert(r, call[r].key, InsertedRow(call[r]), "conflict")
      /\ now' = now
      /\ call' = call
  BY DEF PutInsert, IInv, PendingOK, Pending, Wrote
<1>2. call'[r] = call[r] /\ call' = [call EXCEPT ![r] = call'[r]]
  BY <1>1 DEF IInv, TypeOK
<1>3. /\ InsertedRow(call[r]) \in Row
      /\ InsertedRow(call[r]).progress = call[r].progress
      /\ InsertedRow(call[r]).completed = call[r].completed
      /\ InsertedRow(call[r]).completedOn = NoTime
  BY <1>1, RowsWritten DEF IInv, InsertedRow
<1> QED
  BY <1>1, <1>2, <1>3, InsertStep

LEMMA MarkInsertEffect ==
  ASSUME IInv, NEW r \in Requests, MarkInsert(r)
  PROVE  StepEffect(r)
<1>1. /\ pc[r] = "manual" /\ call[r] \in Call /\ ~Wrote(r)
      /\ call[r].completed /\ call[r].progress = MaxProgress
      /\ Insert(r, call[r].key, CompletedRow, "conflict")
      /\ now' = now
      /\ call' = call
  BY DEF MarkInsert, IInv, PendingOK, Pending, Wrote
<1>2. call'[r] = call[r] /\ call' = [call EXCEPT ![r] = call'[r]]
  BY <1>1 DEF IInv, TypeOK
<1>3. call[r].completed = TRUE
  BY <1>1 DEF Call
<1>4. /\ CompletedRow \in Row
      /\ CompletedRow.progress = call[r].progress
      /\ CompletedRow.completed = call[r].completed
      /\ CompletedRow.completedOn = now /\ CompletedRow.completed
  BY <1>1, <1>3, RowsWritten DEF IInv, CompletedRow
<1> QED
  BY <1>1, <1>2, <1>4, InsertStep

\* An UPDATE of the record of call c, by PATCH, PUT or markComplete.
LEMMA UpdateStep ==
  ASSUME IInv, NEW r \in Requests, NEW c \in Call, NEW row \in Row,
         pc[r] # "done", ~Wrote(r),
         call'[r] = c, call' = [call EXCEPT ![r] = call'[r]],
         now' = now,
         rows[c.key] # NoRow,
         rows' = [rows EXCEPT ![c.key] = row],
         Answers(r, "updated"),
         c.completed => row.completed,
         c.kind # "patch" => row.progress >= rows[c.key].progress
                             /\ row.progress >= c.progress,
         (rows[c.key].completed /\ ~row.completed) => c.kind = "put" /\ ~c.completed,
         \/ row.completedOn = rows[c.key].completedOn
         \/ ~rows[c.key].completed /\ row.completed /\ row.completedOn = now
         \/ row = CompletedRow
  PROVE  StepEffect(r)
<1>1. c.key \in Keys
  BY DEF Call
<1>2. rows[c.key] \in Row /\ rows'[c.key] = row
  BY <1>1 DEF IInv, TypeOK
<1>3. outcome'[r] = "updated" /\ outcome' = [outcome EXCEPT ![r] = outcome'[r]]
  BY DEF Answers, IInv, TypeOK
<1>4. pc'[r] = "done" /\ pc' = [pc EXCEPT ![r] = pc'[r]]
  BY DEF Answers, IInv, TypeOK
<1>p. Pending(r)'
  BY <1>4 DEF Pending
<1>5. Updates(r)
  BY <1>2, <1>3 DEF Updates
<1> QED
  BY <1>3, <1>4, <1>p, <1>5 DEF StepEffect, Outcomes, PCs

\* A statement that changes no record.
LEMMA LeaveStep ==
  ASSUME IInv, NEW r \in Requests,
         pc[r] # "done", outcome[r] = "none",
         call'[r] \in Call, call' = [call EXCEPT ![r] = call'[r]],
         rows' = rows, now' = now,
         \/ Answers(r, "ignored")
         \/ Answers(r, "failed")
         \/ Continues(r, "insert") /\ call'[r].kind = "put"
         \/ /\ Continues(r, "force") \/ Continues(r, "manual")
            /\ call'[r].kind = "mark"
            /\ call'[r].completed
            /\ call'[r].progress = MaxProgress
            /\ rows[call'[r].key] # NoRow \/ Continues(r, "manual")
  PROVE  StepEffect(r)
<1>1. pc' = [pc EXCEPT ![r] = pc'[r]] /\ outcome' = [outcome EXCEPT ![r] = outcome'[r]]
  BY DEF Answers, Continues, IInv, TypeOK
<1>2. /\ outcome'[r] # "none" <=> pc'[r] = "done"
      /\ outcome'[r] \notin {"created", "updated"}
      /\ outcome'[r] \in Outcomes
      /\ pc'[r] \in PCs \ {"idle"}
  BY DEF Answers, Continues, IInv, TypeOK, Outcomes, PCs
<1>p. Pending(r)'
  BY DEF Answers, Continues, Pending, IInv, TypeOK
<1>3. ~Wrote(r)
  BY DEF Wrote
<1>4. Leaves(r)
  BY <1>2 DEF Leaves
<1> QED
  BY <1>1, <1>2, <1>3, <1>4, <1>p DEF StepEffect

LEMMA PatchEffect ==
  ASSUME IInv, NEW r \in Requests, NEW u \in Users, NEW k \in Keys,
         NEW completed \in BOOLEAN, NEW p \in 0 .. MaxProgress,
         Patch(r, u, k, completed, p)
  PROVE  StepEffect(r)
<1> DEFINE c == [kind |-> "patch", user |-> u, key |-> k,
                 completed |-> completed, progress |-> p]
<1>1. c \in Call /\ c.kind = "patch" /\ c.key = k /\ c.completed = completed
  BY DEF Call, Kinds
<1>2. /\ Arrives(r, c)
      /\ \/ /\ PatchMatches(c)
            /\ rows' = [rows EXCEPT ![k] = PatchedRow(rows[k], c)]
            /\ Answers(r, "updated")
         \/ /\ Answers(r, "ignored")
            /\ rows' = rows
      /\ now' = now
  BY DEF Patch
<1> HIDE DEF c
<1>3. /\ pc[r] = "idle" /\ ~Wrote(r)
      /\ call'[r] = c
      /\ call' = [call EXCEPT ![r] = call'[r]]
  BY <1>1, <1>2, ArrivesEffect DEF IInv
<1>4. outcome[r] = "none"
  BY <1>3 DEF IInv, PendingOK, Pending
<1>5. CASE /\ PatchMatches(c)
           /\ rows' = [rows EXCEPT ![k] = PatchedRow(rows[k], c)]
           /\ Answers(r, "updated")
  <2>1. rows[k] # NoRow /\ (~c.completed => ~rows[k].completed)
    BY <1>1, <1>5 DEF PatchMatches
  <2>2. rows[k] \in Row
    BY <2>1 DEF IInv, TypeOK
  <2>3. PatchedRow(rows[k], c) \in Row
    BY <1>1, <2>2, RowsWritten DEF IInv
  <2>4. /\ PatchedRow(rows[k], c).completed = c.completed
        /\ PatchedRow(rows[k], c).completedOn = StampOnce(rows[k], c)
    BY DEF PatchedRow
  <2>5. \/ PatchedRow(rows[k], c).completedOn = rows[k].completedOn
        \/ /\ ~rows[k].completed
           /\ PatchedRow(rows[k], c).completed
           /\ PatchedRow(rows[k], c).completedOn = now
    BY <2>4 DEF StampOnce
  <2> QED
    BY <1>1, <1>2, <1>3, <1>5, <2>1, <2>3, <2>4, <2>5, UpdateStep
<1>6. CASE Answers(r, "ignored") /\ rows' = rows
  BY <1>1, <1>2, <1>3, <1>4, <1>6, LeaveStep
<1> QED
  BY <1>2, <1>5, <1>6

LEMMA PutUpdateEffect ==
  ASSUME IInv, NEW r \in Requests, NEW u \in Users, NEW i \in Items,
         NEW completed \in BOOLEAN, NEW p \in 0 .. MaxProgress,
         PutUpdate(r, u, i, completed, p)
  PROVE  StepEffect(r)
<1> DEFINE k == <<u, i>>
           c == [kind |-> "put", user |-> u, key |-> k,
                 completed |-> completed, progress |-> p]
<1>1. /\ k \in Keys
      /\ c \in Call
      /\ c.kind = "put" /\ c.key = k /\ c.completed = completed
  BY DEF Call, Kinds, Keys
<1>2. /\ Arrives(r, c)
      /\ \/ /\ rows[k] # NoRow
            /\ rows' = [rows EXCEPT ![k] = PutRow(rows[k], c)]
            /\ Answers(r, "updated")
         \/ /\ Continues(r, "insert")
            /\ rows' = rows
      /\ now' = now
  BY DEF PutUpdate
<1> HIDE DEF c, k
<1>3. /\ pc[r] = "idle" /\ ~Wrote(r)
      /\ call'[r] = c
      /\ call' = [call EXCEPT ![r] = call'[r]]
  BY <1>1, <1>2, ArrivesEffect DEF IInv
<1>4. outcome[r] = "none"
  BY <1>3 DEF IInv, PendingOK, Pending
<1>5. CASE /\ rows[k] # NoRow
           /\ rows' = [rows EXCEPT ![k] = PutRow(rows[k], c)]
           /\ Answers(r, "updated")
  <2>1. rows[k] \in Row
    BY <1>1, <1>5 DEF IInv, TypeOK
  <2>2. PutRow(rows[k], c) \in Row
    BY <1>1, <2>1, RowsWritten DEF IInv
  <2>3. /\ PutRow(rows[k], c).completed = c.completed
        /\ PutRow(rows[k], c).progress = MergedProgress(rows[k], c)
        /\ PutRow(rows[k], c).completedOn = StampOnce(rows[k], c)
    BY DEF PutRow
  <2>4. /\ PutRow(rows[k], c).progress >= rows[k].progress
        /\ PutRow(rows[k], c).progress >= c.progress
    BY <1>1, <2>1, <2>3, ProgressAssumption DEF MergedProgress, Row, Call
  <2>5. \/ PutRow(rows[k], c).completedOn = rows[k].completedOn
        \/ /\ ~rows[k].completed
           /\ PutRow(rows[k], c).completed
           /\ PutRow(rows[k], c).completedOn = now
    BY <2>3 DEF StampOnce
  <2> QED
    BY <1>1, <1>2, <1>3, <1>5, <2>2, <2>3, <2>4, <2>5, UpdateStep
<1>6. CASE Continues(r, "insert") /\ rows' = rows
  BY <1>1, <1>2, <1>3, <1>4, <1>6, LeaveStep
<1> QED
  BY <1>2, <1>5, <1>6

LEMMA MarkSelectEffect ==
  ASSUME IInv, NEW r \in Requests, NEW u \in Users, NEW i \in Items,
         MarkSelect(r, u, i)
  PROVE  StepEffect(r)
<1> DEFINE c == [kind |-> "mark", user |-> u, key |-> <<u, i>>,
                 completed |-> TRUE, progress |-> MaxProgress]
<1>1. c \in Call
  BY ProgressAssumption DEF Call, Kinds, Keys
<1>2. /\ Arrives(r, c)
      /\ \/ Continues(r, "manual")
         \/ Continues(r, "force") /\ rows[c.key] # NoRow
         \/ Answers(r, "ignored")
      /\ rows' = rows /\ now' = now
      /\ c.kind = "mark" /\ c.completed /\ c.progress = MaxProgress
  BY DEF MarkSelect
<1> HIDE DEF c
<1>3. /\ pc[r] = "idle" /\ ~Wrote(r)
      /\ call'[r] = c
      /\ call' = [call EXCEPT ![r] = call'[r]]
  BY <1>1, <1>2, ArrivesEffect DEF IInv
<1>4. outcome[r] = "none"
  BY <1>3 DEF IInv, PendingOK, Pending
<1> QED
  BY <1>1, <1>2, <1>3, <1>4, LeaveStep

LEMMA MarkForceEffect ==
  ASSUME IInv, NEW r \in Requests, MarkForce(r)
  PROVE  StepEffect(r)
<1>1. /\ pc[r] = "force" /\ call[r] \in Call /\ ~Wrote(r)
      /\ call[r].kind = "mark" /\ call[r].completed
      /\ call[r].progress = MaxProgress
      /\ rows[call[r].key] # NoRow
      /\ rows' = [rows EXCEPT ![call[r].key] = CompletedRow]
      /\ Answers(r, "updated")
      /\ now' = now
      /\ call' = call
  BY DEF MarkForce, IInv, PendingOK, Pending, Wrote
<1>2. call'[r] = call[r] /\ call' = [call EXCEPT ![r] = call'[r]]
  BY <1>1 DEF IInv, TypeOK
<1>3. rows[call[r].key] \in Row
  BY <1>1 DEF IInv, TypeOK, Call
<1>4. /\ CompletedRow \in Row
      /\ CompletedRow.completed
      /\ CompletedRow.progress = MaxProgress
      /\ CompletedRow.progress >= rows[call[r].key].progress
      /\ CompletedRow.progress >= call[r].progress
  BY <1>1, <1>3, RowsWritten, ProgressAssumption DEF IInv, CompletedRow, Row
<1> QED
  BY <1>1, <1>2, <1>4, UpdateStep

LEMMA FailEffect ==
  ASSUME IInv, NEW r \in Requests, Fail(r)
  PROVE  StepEffect(r)
<1>1. /\ pc[r] # "done" /\ call[r] \in Call /\ outcome[r] = "none"
      /\ Answers(r, "failed")
      /\ rows' = rows /\ now' = now /\ call' = call
  BY DEF Fail, IInv, PendingOK, Pending
<1>2. call'[r] = call[r] /\ call' = [call EXCEPT ![r] = call'[r]]
  BY <1>1 DEF IInv, TypeOK
<1> QED
  BY <1>1, <1>2, LeaveStep

LEMMA EveryStepHasEffect ==
  ASSUME IInv, NEW r \in Requests, Step(r)
  PROVE  StepEffect(r)
BY PostEffect, PatchEffect, PutUpdateEffect, PutInsertEffect, MarkSelectEffect,
   MarkForceEffect, MarkInsertEffect, FailEffect DEF Step

-----------------------------------------------------------------------------
(* Type correctness, and the invariant the others need. *)

LEMMA InitInductive == Init => IInv
BY ProgressAssumption
DEF Init, IInv, TypeOK, PendingOK, Pending, WrittenRowExists, Wrote, PCs, Outcomes

\* What a step of r leaves as it was, and that it deletes no row.
LEMMA StepFrame ==
  ASSUME IInv, NEW r \in Requests, StepEffect(r)
  PROVE  /\ rows' \in [Keys -> Row \cup {NoRow}]
         /\ \A k \in Keys : rows[k] # NoRow => rows'[k] # NoRow
         /\ \A k \in Keys : k # call'[r].key => rows'[k] = rows[k]
         /\ \A s \in Requests \ {r} :
               call'[s] = call[s] /\ pc'[s] = pc[s] /\ outcome'[s] = outcome[s]
<1>1. call'[r].key \in Keys
  BY DEF StepEffect, Call
<1>2. CASE Creates(r)
  BY <1>1, <1>2, SentinelAssumption DEF Creates, StepEffect, IInv, TypeOK
<1>3. CASE Updates(r)
  BY <1>1, <1>3, SentinelAssumption DEF Updates, StepEffect, IInv, TypeOK
<1>4. CASE Leaves(r)
  BY <1>4 DEF Leaves, StepEffect, IInv, TypeOK
<1> QED
  BY <1>2, <1>3, <1>4 DEF StepEffect

LEMMA StepInductive ==
  ASSUME IInv, NEW r \in Requests, StepEffect(r)
  PROVE  IInv'
<1>1. TypeOK'
  BY StepFrame DEF StepEffect, IInv, TypeOK
<1>2. PendingOK'
  <2> SUFFICES ASSUME NEW s \in Requests PROVE Pending(s)'
    BY DEF PendingOK
  <2>1. CASE s = r
    BY <2>1 DEF StepEffect
  <2>2. CASE s # r
    <3>1. call'[s] = call[s] /\ pc'[s] = pc[s] /\ outcome'[s] = outcome[s]
      BY <2>2, StepFrame
    <3>2. Pending(s)
      BY DEF IInv, PendingOK
    <3>3. pc[s] = "force" => rows'[call[s].key] # NoRow
      BY <3>2, StepFrame DEF Pending, Call
    <3> QED
      BY <3>1, <3>2, <3>3 DEF Pending
  <2> QED
    BY <2>1, <2>2
<1>3. WrittenRowExists'
  <2> SUFFICES ASSUME NEW s \in Requests, Wrote(s)'
               PROVE  pc'[s] = "done" /\ rows'[call'[s].key] # NoRow
    BY DEF WrittenRowExists
  <2>1. CASE s = r
    <3>1. pc'[r] = "done"
      BY <2>1 DEF Wrote, StepEffect
    <3>2. rows'[call'[r].key] \in Row
      BY <2>1 DEF Wrote, StepEffect, Creates, Updates, Leaves
    <3> QED
      BY <2>1, <3>1, <3>2, SentinelAssumption
  <2>2. CASE s # r
    <3>1. call'[s] = call[s] /\ pc'[s] = pc[s] /\ outcome'[s] = outcome[s]
      BY <2>2, StepFrame
    <3>2. pc[s] = "done" /\ rows[call[s].key] # NoRow
      BY <3>1 DEF Wrote, IInv, WrittenRowExists
    <3>3. call[s].key \in Keys
      BY <3>2 DEF IInv, PendingOK, Pending, Call
    <3> QED
      BY <3>1, <3>2, <3>3, StepFrame
  <2> QED
    BY <2>1, <2>2
<1> QED
  BY <1>1, <1>2, <1>3 DEF IInv

LEMMA TickInductive == IInv /\ Tick => IInv'
BY ProgressAssumption
DEF IInv, TypeOK, PendingOK, Pending, WrittenRowExists, Wrote, Tick, Call, Row,
    CompletedRow

LEMMA StutterInductive == IInv /\ UNCHANGED vars => IInv'
BY DEF IInv, TypeOK, PendingOK, Pending, WrittenRowExists, Wrote, vars

LEMMA NextInductive == IInv /\ [Next]_vars => IInv'
BY EveryStepHasEffect, StepInductive, TickInductive, StutterInductive DEF Next

(* The inductive invariant holds in every reachable state. *)
THEOREM Inductive == Spec => []IInv
BY InitInductive, NextInductive, PTL DEF Spec

(* Every variable keeps its type in every reachable state. *)
THEOREM TypeCorrect == Spec => []TypeOK
<1>1. IInv => TypeOK
  BY DEF IInv
<1> QED
  BY <1>1, Inductive, PTL

-----------------------------------------------------------------------------
(* OneCreatorPerRow *)

\* A request that was answered with a write has a call, on a key.
LEMMA WroteHasCall ==
  ASSUME IInv, NEW r \in Requests, Wrote(r)
  PROVE  call[r] \in Call /\ call[r] # NoCall /\ call[r].key \in Keys
BY SentinelAssumption DEF IInv, WrittenRowExists, PendingOK, Pending, Call

LEMMA OneCreatorInit == Init => OneCreatorPerRow
BY SentinelAssumption DEF Init, OneCreatorPerRow

LEMMA OneCreatorStep ==
  ASSUME IInv, IInv', OneCreatorPerRow, NEW r \in Requests, StepEffect(r)
  PROVE  OneCreatorPerRow'
<1> DEFINE Created(s, k) == outcome[s] = "created" /\ Concerns(s, k)
<1>1. call'[r].key \in Keys /\ call'[r] # NoCall
  BY SentinelAssumption DEF StepEffect, Call
<1>2. \A s \in Requests \ {r}, k \in Keys : Created(s, k)' = Created(s, k)
  BY StepFrame DEF Concerns
<1>3. \A k \in Keys : ~Created(r, k)
  BY DEF StepEffect, Wrote
<1>4. \A k \in Keys : Created(r, k)' <=> (outcome'[r] = "created" /\ k = call'[r].key)
  BY <1>1 DEF Concerns
<1>5. CASE Creates(r)
  <2>1. rows[call'[r].key] = NoRow /\ rows'[call'[r].key] # NoRow /\ outcome'[r] = "created"
    BY <1>5, SentinelAssumption DEF Creates
  <2>2. \A s \in Requests : ~Created(s, call'[r].key)
    BY <1>1, <2>1 DEF OneCreatorPerRow
  <2>3. \A k \in Keys : k # call'[r].key => rows'[k] = rows[k]
    BY StepFrame
  <2> SUFFICES ASSUME NEW k \in Keys
               PROVE  /\ (rows'[k] = NoRow) = (\A s \in Requests : ~Created(s, k)')
                      /\ \A s, t \in Requests : Created(s, k)' /\ Created(t, k)' => s = t
    BY DEF OneCreatorPerRow
  <2>4. CASE k = call'[r].key
    BY <1>2, <1>4, <2>1, <2>2, <2>4
  <2>5. CASE k # call'[r].key
    <3>1. rows'[k] = rows[k] /\ ~Created(r, k)'
      BY <1>4, <2>3, <2>5
    <3>2. /\ (rows[k] = NoRow) = (\A s \in Requests : ~Created(s, k))
          /\ \A s, t \in Requests : Created(s, k) /\ Created(t, k) => s = t
      BY DEF OneCreatorPerRow
    <3> QED
      BY <1>2, <1>3, <3>1, <3>2
  <2> QED
    BY <2>4, <2>5
<1>6. CASE Updates(r) \/ Leaves(r)
  <2>1. outcome'[r] # "created"
    BY <1>6 DEF Updates, Leaves
  <2>2. \A s \in Requests, k \in Keys : Created(s, k)' = Created(s, k)
    BY <1>2, <1>3, <1>4, <2>1
  <2>3. \A k \in Keys : (rows'[k] = NoRow) = (rows[k] = NoRow)
    BY <1>6, StepFrame, SentinelAssumption DEF Updates, Leaves
  <2> SUFFICES ASSUME NEW k \in Keys
               PROVE  /\ (rows'[k] = NoRow) = (\A s \in Requests : ~Created(s, k)')
                      /\ \A s, t \in Requests : Created(s, k)' /\ Created(t, k)' => s = t
    BY DEF OneCreatorPerRow
  <2>4. /\ (rows[k] = NoRow) = (\A s \in Requests : ~Created(s, k))
        /\ \A s, t \in Requests : Created(s, k) /\ Created(t, k) => s = t
    BY DEF OneCreatorPerRow
  <2> QED
    BY <2>2, <2>3, <2>4
<1> QED
  BY <1>5, <1>6 DEF StepEffect

LEMMA OneCreatorNext == IInv /\ IInv' /\ OneCreatorPerRow /\ [Next]_vars => OneCreatorPerRow'
<1>1. ASSUME UNCHANGED <<rows, call, outcome>>, OneCreatorPerRow
      PROVE  OneCreatorPerRow'
  BY <1>1 DEF OneCreatorPerRow, Concerns
<1> QED
  BY <1>1, EveryStepHasEffect, OneCreatorStep DEF Next, Tick, vars

(* However the INSERTs race, a record has exactly one creator. *)
THEOREM OneCreator == Spec => []OneCreatorPerRow
BY OneCreatorInit, OneCreatorNext, Inductive, PTL DEF Spec

-----------------------------------------------------------------------------
(* AcknowledgedProgressKept and AcknowledgedCompletionKept *)

\* A step of r leaves the calls and answers of those that have written.
LEMMA WroteFrame ==
  ASSUME IInv, NEW r \in Requests, StepEffect(r)
  PROVE  /\ \A s \in Requests : Wrote(s) => s # r /\ Wrote(s)' /\ call'[s] = call[s]
         /\ \A s \in Requests : s # r /\ Wrote(s)' => Wrote(s)
         /\ Wrote(r)' <=> (Creates(r) \/ Updates(r))
<1>1. \A s \in Requests : Wrote(s) => s # r
  BY DEF StepEffect
<1>2. \A s \in Requests : s # r => call'[s] = call[s] /\ (Wrote(s)' <=> Wrote(s))
  BY StepFrame DEF Wrote
<1>3. Wrote(r)' <=> (Creates(r) \/ Updates(r))
  BY DEF StepEffect, Wrote, Creates, Updates, Leaves
<1> QED
  BY <1>1, <1>2, <1>3

\* A record that exists changes only by an update of a request on it.
LEMMA RecordFrame ==
  ASSUME IInv, NEW r \in Requests, StepEffect(r),
         NEW k \in Keys, rows[k] # NoRow
  PROVE  rows'[k] = rows[k] \/ (k = call'[r].key /\ Updates(r))
<1>1. Creates(r) => k # call'[r].key
  BY DEF Creates
<1>2. k # call'[r].key => rows'[k] = rows[k]
  BY StepFrame
<1>3. Leaves(r) => rows'[k] = rows[k]
  BY DEF Leaves
<1> QED
  BY <1>1, <1>2, <1>3 DEF StepEffect

LEMMA ProgressStep ==
  ASSUME IInv, IInv', AcknowledgedProgressKept, NEW r \in Requests, StepEffect(r)
  PROVE  AcknowledgedProgressKept'
<1> SUFFICES ASSUME NEW s \in Requests,
                    Wrote(s)', call'[s].kind = "put",
                    \A t \in Requests : Wrote(t)' /\ call'[t].kind = "patch"
                                        => call'[t].key # call'[s].key
             PROVE  /\ rows'[call'[s].key] # NoRow
                    /\ rows'[call'[s].key].progress >= call'[s].progress
  BY DEF AcknowledgedProgressKept
<1> DEFINE k == call'[s].key
<1>1. rows'[k] # NoRow
  BY DEF IInv, WrittenRowExists
<1>2. CASE s = r
  <2>1. CASE Creates(r)
    <3>1. call'[r] \in Call /\ rows'[k].progress = call'[r].progress
      BY <1>2, <2>1 DEF Creates, StepEffect
    <3> QED
      BY <1>1, <1>2, <3>1, ProgressAssumption DEF Call
  <2>2. CASE Updates(r)
    BY <1>1, <1>2, <2>2 DEF Updates
  <2> QED
    BY <1>2, <2>1, <2>2, WroteFrame
<1>3. CASE s # r
  <2>1. Wrote(s) /\ call'[s] = call[s] /\ call[s] \in Call /\ k \in Keys
    BY <1>3, WroteFrame, WroteHasCall
  <2>2. \A t \in Requests : Wrote(t) /\ call[t].kind = "patch" => call[t].key # k
    BY <2>1, WroteFrame
  <2>3. rows[k] # NoRow /\ rows[k].progress >= call[s].progress
    BY <2>1, <2>2 DEF AcknowledgedProgressKept
  <2>4. CASE rows'[k] = rows[k]
    BY <1>1, <2>1, <2>3, <2>4
  <2>5. CASE k = call'[r].key /\ Updates(r)
    <3>1. call'[r].kind # "patch"
      BY <2>5, WroteFrame
    <3>2. rows'[k].progress >= rows[k].progress /\ rows'[k] \in Row /\ rows[k] \in Row
      BY <2>5, <3>1 DEF Updates
    <3> QED
      BY <1>1, <2>1, <2>3, <3>2, ProgressAssumption DEF Row, Call
  <2> QED
    BY <2>1, <2>3, <2>4, <2>5, RecordFrame
<1> QED
  BY <1>2, <1>3

LEMMA ProgressNext ==
  IInv /\ IInv' /\ AcknowledgedProgressKept /\ [Next]_vars => AcknowledgedProgressKept'
<1>1. ASSUME UNCHANGED <<rows, call, outcome>>, AcknowledgedProgressKept
      PROVE  AcknowledgedProgressKept'
  BY <1>1 DEF AcknowledgedProgressKept, Wrote
<1> QED
  BY <1>1, EveryStepHasEffect, ProgressStep DEF Next, Tick, vars

(* No late PUT, racing INSERT or certificate lowers acknowledged progress. *)
THEOREM ProgressKept == Spec => []AcknowledgedProgressKept
<1>1. Init => AcknowledgedProgressKept
  BY DEF Init, AcknowledgedProgressKept, Wrote
<1> QED
  BY <1>1, ProgressNext, Inductive, PTL DEF Spec

LEMMA CompletionStep ==
  ASSUME IInv, IInv', AcknowledgedCompletionKept, NEW r \in Requests, StepEffect(r)
  PROVE  AcknowledgedCompletionKept'
<1> SUFFICES ASSUME NEW s \in Requests,
                    Wrote(s)', call'[s].completed,
                    \A t \in Requests :
                       Wrote(t)' /\ call'[t].kind = "put" /\ ~call'[t].completed
                       => call'[t].key # call'[s].key
             PROVE  rows'[call'[s].key] # NoRow /\ rows'[call'[s].key].completed
  BY DEF AcknowledgedCompletionKept
<1> DEFINE k == call'[s].key
<1>1. rows'[k] # NoRow
  BY DEF IInv, WrittenRowExists
<1>2. CASE s = r
  BY <1>1, <1>2, WroteFrame DEF Creates, Updates
<1>3. CASE s # r
  <2>1. Wrote(s) /\ call'[s] = call[s] /\ k \in Keys
    BY <1>3, WroteFrame, WroteHasCall
  <2>2. \A t \in Requests :
          Wrote(t) /\ call[t].kind = "put" /\ ~call[t].completed => call[t].key # k
    BY <2>1, WroteFrame
  <2>3. rows[k] # NoRow /\ rows[k].completed
    BY <2>1, <2>2 DEF AcknowledgedCompletionKept
  <2>4. CASE k = call'[r].key /\ Updates(r)
    <3>1. ~(call'[r].kind = "put" /\ ~call'[r].completed)
      BY <2>4, WroteFrame
    <3> QED
      BY <1>1, <2>3, <2>4, <3>1 DEF Updates
  <2> QED
    BY <1>1, <2>1, <2>3, <2>4, RecordFrame
<1> QED
  BY <1>2, <1>3

LEMMA CompletionNext ==
  IInv /\ IInv' /\ AcknowledgedCompletionKept /\ [Next]_vars => AcknowledgedCompletionKept'
<1>1. ASSUME UNCHANGED <<rows, call, outcome>>, AcknowledgedCompletionKept
      PROVE  AcknowledgedCompletionKept'
  BY <1>1 DEF AcknowledgedCompletionKept, Wrote
<1> QED
  BY <1>1, EveryStepHasEffect, CompletionStep DEF Next, Tick, vars

(* Only a PUT with completed = false withdraws an acknowledged completion. *)
THEOREM CompletionKept == Spec => []AcknowledgedCompletionKept
<1>1. Init => AcknowledgedCompletionKept
  BY DEF Init, AcknowledgedCompletionKept, Wrote
<1> QED
  BY <1>1, CompletionNext, Inductive, PTL DEF Spec

-----------------------------------------------------------------------------
(* ImplementsLedger *)

\* The two modules describe the same rows.
LEMMA SameRows == Ledger!Keys = Keys /\ Ledger!Row = Row
BY DEF Ledger!Keys, Keys, Ledger!Row, Row

\* A step of a request is one change of the ledger, or none.
LEMMA StepRefines ==
  ASSUME IInv, NEW r \in Requests, StepEffect(r)
  PROVE  Ledger!Next \/ UNCHANGED Ledger!vars
<1> DEFINE k == call'[r].key
<1>1. k \in Ledger!Keys
  BY SameRows DEF StepEffect, Call
<1>2. CASE Creates(r)
  <2>1. Ledger!Changes(k)
    BY <1>2, SameRows DEF Ledger!Changes, Creates, StepEffect
  <2>2. Ledger!Open(k)
    BY <1>2, <2>1, NowIsATime DEF Ledger!Open, Creates, IInv
  <2> QED
    BY <1>1, <2>2 DEF Ledger!Next
<1>3. CASE Updates(r)
  <2>1. Ledger!Changes(k) /\ rows[k] # NoRow
    BY <1>3, SameRows, SentinelAssumption DEF Ledger!Changes, Updates, StepEffect
  <2>2. CASE rows'[k] = CompletedRow
    <3>1. Ledger!Certify(k)
      BY <2>1, <2>2 DEF Ledger!Certify, CompletedRow
    <3> QED
      BY <1>1, <3>1 DEF Ledger!Next
  <2>3. CASE rows'[k] # CompletedRow
    <3>1. Ledger!DateFollows(k)
      BY <1>3, <2>3 DEF Updates, Ledger!DateFollows
    <3>2. CASE call'[r].kind = "patch"
      <4>1. rows[k].completed => rows'[k].completed
        BY <1>3, <3>2 DEF Updates
      <4>2. Ledger!Amend(k)
        BY <2>1, <3>1, <4>1 DEF Ledger!Amend
      <4> QED
        BY <1>1, <4>2 DEF Ledger!Next
    <3>3. CASE call'[r].kind # "patch"
      <4>1. Ledger!Report(k)
        BY <1>3, <2>1, <3>1, <3>3 DEF Ledger!Report, Updates
      <4> QED
        BY <1>1, <4>1 DEF Ledger!Next
    <3> QED
      BY <3>2, <3>3
  <2> QED
    BY <2>2, <2>3
<1>4. CASE Leaves(r)
  BY <1>4 DEF Leaves, StepEffect, Ledger!vars
<1> QED
  BY <1>2, <1>3, <1>4 DEF StepEffect

LEMMA NextRefines == IInv /\ [Next]_vars => [Ledger!Next]_(Ledger!vars)
<1>1. IInv /\ Tick => Ledger!Next
  BY DEF Tick, Ledger!Next, Ledger!Tick
<1>2. UNCHANGED vars => UNCHANGED Ledger!vars
  BY DEF vars, Ledger!vars
<1>3. ASSUME IInv, NEW r \in Requests, Step(r)
      PROVE  Ledger!Next \/ UNCHANGED Ledger!vars
  BY <1>3, EveryStepHasEffect, StepRefines
<1> QED
  BY <1>1, <1>2, <1>3 DEF Next

(* The handlers implement the ledger of atomic changes. *)
THEOREM HandlersImplementLedger == Spec => ImplementsLedger
<1>1. Init => Ledger!Init
  BY SameRows DEF Init, Ledger!Init
<1> QED
  BY <1>1, NextRefines, Inductive, PTL DEF Spec, ImplementsLedger, Ledger!Spec

-----------------------------------------------------------------------------
(* OwnRowsOnly and UndatedOnlyFromPutInsert need more of the handlers than  *)
(* StepEffect tells: whose record a write is, and how it is dated.          *)

\* Only a PUT waits for its INSERT, and it names its own user's record.
OwnInsert == \A r \in Requests : pc[r] = "insert" => call[r].user = call[r].key[1]

Undated(row) == row # NoRow /\ row.completed /\ row.completedOn = NoTime

\* A write of r is to its own user's record, and dates it if it is completed, but
\* for the INSERT of a PUT.
Nature(r) ==
    LET k == call'[r].key
    IN  rows'[k] # rows[k] =>
          /\ call'[r].kind # "mark" => call'[r].user = k[1]
          /\ Undated(rows'[k]) =>
                \/ Undated(rows[k])
                \/ /\ call'[r].kind = "put"
                   /\ call'[r].completed
                   /\ outcome'[r] = "created"

\* A call of a participant that arrives is on record.
LEMMA Arrived ==
  ASSUME IInv, NEW r \in Requests, NEW c, Arrives(r, c)
  PROVE  call'[r] = c
BY DEF Arrives, IInv, TypeOK

LEMMA PostNature ==
  ASSUME IInv, NEW r \in Requests, NEW u \in Users, NEW i \in Items,
         Post(r, u, i) \/ InsertIgnore(r, u, i)
  PROVE  Nature(r) /\ pc'[r] = "done"
<1>1. PICK kind \in {"post", "ignore"} :
         /\ Arrives(r, [kind |-> kind, user |-> u, key |-> <<u, i>>,
                        completed |-> FALSE, progress |-> 0])
         /\ rows' \in {rows, [rows EXCEPT ![<<u, i>>] = EmptyRow]}
         /\ pc' = [pc EXCEPT ![r] = "done"]
  BY DEF Post, InsertIgnore, Insert, Answers
<1>2. call'[r] = [kind |-> kind, user |-> u, key |-> <<u, i>>,
                  completed |-> FALSE, progress |-> 0]
  BY <1>1, Arrived
<1>3. <<u, i>> \in Keys
  BY DEF Keys
<1> QED
  BY <1>1, <1>2, <1>3 DEF Nature, Undated, EmptyRow, IInv, TypeOK

LEMMA PatchNature ==
  ASSUME IInv, NEW r \in Requests, NEW u \in Users, NEW k \in Keys,
         NEW completed \in BOOLEAN, NEW p \in 0 .. MaxProgress,
         Patch(r, u, k, completed, p)
  PROVE  Nature(r) /\ pc'[r] = "done"
<1> DEFINE c == [kind |-> "patch", user |-> u, key |-> k,
                 completed |-> completed, progress |-> p]
<1>1. call'[r] = c /\ pc'[r] = "done"
  BY Arrived DEF Patch, Answers, IInv, TypeOK
<1>2. CASE rows' = rows
  BY <1>1, <1>2 DEF Nature
<1>3. CASE PatchMatches(c) /\ rows' = [rows EXCEPT ![k] = PatchedRow(rows[k], c)]
  <2>1. rows'[k] = PatchedRow(rows[k], c) /\ rows[k] # NoRow /\ k[1] = u
    BY <1>3 DEF PatchMatches, IInv, TypeOK
  <2>2. now # NoTime
    BY NowIsATime DEF IInv
  <2>3. Undated(rows'[k]) => Undated(rows[k])
    BY <2>1, <2>2 DEF Undated, PatchedRow, StampOnce
  <2> QED
    BY <1>1, <2>1, <2>3 DEF Nature
<1> QED
  BY <1>2, <1>3 DEF Patch

LEMMA PutNature ==
  ASSUME IInv, NEW r \in Requests, NEW u \in Users, NEW i \in Items,
         NEW completed \in BOOLEAN, NEW p \in 0 .. MaxProgress,
         PutUpdate(r, u, i, completed, p)
  PROVE  Nature(r) /\ call'[r].user = call'[r].key[1]
<1> DEFINE k == <<u, i>>
           c == [kind |-> "put", user |-> u, key |-> k,
                 completed |-> completed, progress |-> p]
<1>1. call'[r] = c
  BY Arrived DEF PutUpdate
<1>2. CASE rows' = rows
  BY <1>1, <1>2 DEF Nature
<1>3. CASE rows[k] # NoRow /\ rows' = [rows EXCEPT ![k] = PutRow(rows[k], c)]
  <2>1. rows'[k] = PutRow(rows[k], c) /\ rows[k] # NoRow
    BY <1>3 DEF Keys, IInv, TypeOK
  <2>2. now # NoTime
    BY NowIsATime DEF IInv
  <2>3. Undated(rows'[k]) => Undated(rows[k])
    BY <2>1, <2>2 DEF Undated, PutRow, StampOnce
  <2> QED
    BY <1>1, <2>1, <2>3 DEF Nature
<1> QED
  BY <1>1, <1>2, <1>3 DEF PutUpdate

LEMMA PutInsertNature ==
  ASSUME IInv, OwnInsert, NEW r \in Requests, PutInsert(r)
  PROVE  Nature(r) /\ pc'[r] = "done"
<1>1. /\ call[r] \in Call /\ call[r].kind = "put" /\ call' = call
      /\ call[r].user = call[r].key[1]
  BY DEF PutInsert, OwnInsert, IInv, PendingOK, Pending
<1>2. pc'[r] = "done"
  BY DEF PutInsert, Insert, Answers, IInv, TypeOK
<1>3. CASE rows' = rows
  BY <1>1, <1>2, <1>3 DEF Nature
<1>4. CASE /\ rows' = [rows EXCEPT ![call[r].key] = InsertedRow(call[r])]
           /\ Answers(r, "created")
  BY <1>1, <1>2, <1>4 DEF Nature, Undated, InsertedRow, Answers, Call, IInv, TypeOK
<1> QED
  BY <1>3, <1>4 DEF PutInsert, Insert

\* markComplete dates what it writes, in whoever's record it is.
LEMMA MarkNature ==
  ASSUME IInv, NEW r \in Requests,
         \/ MarkForce(r) \/ MarkInsert(r) \/ Fail(r)
         \/ \E u \in Users, i \in Items : MarkSelect(r, u, i)
  PROVE  Nature(r) /\ pc'[r] # "insert"
<1>1. pc'[r] # "insert"
  BY DEF MarkForce, MarkInsert, Fail, MarkSelect, Insert, Answers, Continues, IInv, TypeOK
<1>2. CASE rows' = rows
  BY <1>1, <1>2 DEF Nature
<1>3. CASE /\ call' = call /\ call[r] \in Call /\ call[r].kind = "mark"
           /\ rows' = [rows EXCEPT ![call[r].key] = CompletedRow]
  <2>1. now # NoTime
    BY NowIsATime DEF IInv
  <2>2. rows'[call[r].key] = CompletedRow
    BY <1>3 DEF Call, IInv, TypeOK
  <2> QED
    BY <1>1, <1>3, <2>1, <2>2 DEF Nature, Undated, CompletedRow
<1> QED
  BY <1>1, <1>2, <1>3
  DEF MarkForce, MarkInsert, Fail, MarkSelect, Insert, IInv, PendingOK, Pending

LEMMA StepNature ==
  ASSUME IInv, OwnInsert, NEW r \in Requests, Step(r)
  PROVE  Nature(r) /\ OwnInsert'
<1>1. /\ Nature(r)
      /\ pc'[r] = "insert" => call'[r].user = call'[r].key[1]
  BY PostNature, PatchNature, PutNature, PutInsertNature, MarkNature DEF Step
<1>2. \A s \in Requests \ {r} : call'[s] = call[s] /\ pc'[s] = pc[s]
  BY EveryStepHasEffect, StepFrame
<1> QED
  BY <1>1, <1>2 DEF OwnInsert

LEMMA OwnInsertKept == Spec => []OwnInsert
<1>1. Init => OwnInsert
  BY DEF Init, OwnInsert
<1>2. IInv /\ OwnInsert /\ [Next]_vars => OwnInsert'
  BY StepNature DEF Next, Tick, vars, OwnInsert
<1> QED
  BY <1>1, <1>2, Inductive, PTL DEF Spec

(* A participant's request changes no record but the participant's own. *)
THEOREM OwnRows == Spec => OwnRowsOnly
<1>1. ASSUME IInv, OwnInsert, NEW s \in Requests, Step(s),
             NEW k \in Keys, NEW r \in Requests,
             rows'[k] # rows[k], pc'[r] # pc[r], call'[r].kind # "mark"
      PROVE  call'[r].user = k[1]
  <2>1. StepEffect(s) /\ Nature(s)
    BY <1>1, EveryStepHasEffect, StepNature
  <2>2. r = s /\ k = call'[r].key
    BY <1>1, <2>1, StepFrame
  <2> QED
    BY <1>1, <2>1, <2>2 DEF Nature
<1>2. IInv /\ OwnInsert /\ [Next]_vars =>
        [\A k \in Keys, r \in Requests :
          (rows'[k] # rows[k] /\ pc'[r] # pc[r] /\ call'[r].kind # "mark")
          => call'[r].user = k[1]]_vars
  BY <1>1 DEF Next, Tick
<1> QED
  BY <1>2, Inductive, OwnInsertKept, PTL DEF Spec, OwnRowsOnly

LEMMA UndatedStep ==
  ASSUME IInv, OwnInsert, UndatedOnlyFromPutInsert, NEW r \in Requests, Step(r)
  PROVE  UndatedOnlyFromPutInsert'
<1> SUFFICES ASSUME NEW k \in Keys, Undated(rows'[k])
             PROVE  \E s \in Requests :
                      /\ Concerns(s, k)'
                      /\ call'[s].kind = "put"
                      /\ call'[s].completed
                      /\ outcome'[s] = "created"
  BY DEF UndatedOnlyFromPutInsert, Undated
<1>1. StepEffect(r) /\ Nature(r)
  BY EveryStepHasEffect, StepNature
<1>2. CASE Undated(rows[k])
  <2>1. PICK s \in Requests : /\ Concerns(s, k)
                              /\ call[s].kind = "put"
                              /\ call[s].completed
                              /\ outcome[s] = "created"
    BY <1>2 DEF UndatedOnlyFromPutInsert, Undated
  <2>2. s # r
    BY <1>1, <2>1 DEF StepEffect, Wrote
  <2>3. call'[s] = call[s] /\ outcome'[s] = outcome[s]
    BY <1>1, <2>2, StepFrame
  <2> QED
    BY <2>1, <2>3 DEF Concerns
<1>3. CASE ~Undated(rows[k])
  <2>1. rows'[k] # rows[k]
    BY <1>3
  <2>2. k = call'[r].key /\ call'[r] # NoCall
    BY <1>1, <2>1, StepFrame, SentinelAssumption DEF StepEffect
  <2> QED
    BY <1>1, <1>3, <2>1, <2>2 DEF Nature, Concerns
<1> QED
  BY <1>2, <1>3

(* Only the INSERT of a completing PUT leaves a completed record undated. *)
THEOREM UndatedFromPutInsert == Spec => []UndatedOnlyFromPutInsert
<1>1. Init => UndatedOnlyFromPutInsert
  BY DEF Init, UndatedOnlyFromPutInsert
<1>2. IInv /\ OwnInsert /\ UndatedOnlyFromPutInsert /\ [Next]_vars
        => UndatedOnlyFromPutInsert'
  <2>1. UNCHANGED <<rows, call, outcome>> /\ UndatedOnlyFromPutInsert
          => UndatedOnlyFromPutInsert'
    BY DEF UndatedOnlyFromPutInsert, Concerns
  <2> QED
    BY <2>1, UndatedStep DEF Next, Tick, vars
<1> QED
  BY <1>1, <1>2, Inductive, OwnInsertKept, PTL DEF Spec

-----------------------------------------------------------------------------
(* What is true of links, representations and records.                     *)

\* The address of who never changed it is the first one.
HomesOK ==
    /\ mailOf \in [Persons -> Mails]
    /\ \A p \in Persons \ moved : mailOf[p] = HomeMail[p]

TokensOK ==
    \A t \in tokens : t.person \in Persons /\ (t.person \notin moved => t.mail = HomeMail[t.person])

\* A representation is alone at its address, and with its owner.
RepsOK ==
    /\ \A r \in reps :
        /\ r = [id |-> r.id, mail |-> r.mail, owner |-> r.owner]
        /\ r.owner \in Persons \cup {NoOwner}
        /\ r.owner \in Persons \ moved => r.mail = HomeMail[r.owner]
    /\ \A r, s \in reps : r.mail = s.mail => r = s

RequestOK == ~ request.mail => request.links \subseteq unmailed

LinksInv == HomesOK /\ TokensOK /\ RepsOK /\ RequestOK /\ InvitationCarriedOut

-----------------------------------------------------------------------------
(* What is true of the task of process w.                                   *)

Demands == SUBSET (Persons \X CourseItems)

Finishes == SUBSET (Mails \X CourseItems)

Task ==
    [due : SUBSET Reminder, begun : BOOLEAN, calendar : Calendar,
     first : Nat, last : BOOLEAN, page : Seq(Persons), seen : SUBSET Mails,
     finished : Finishes,
     expected : SUBSET Persons, told : SUBSET Persons, again : SUBSET Persons, failed : SUBSET Persons,
     asked : Demands, open : Demands, unsettled : BOOLEAN]

TaskTypes(w) ==
    /\ day \in Nat
    /\ calendar \in Calendar
    /\ roster \in Seq(Persons)
    /\ w \in DOMAIN task /\ task[w] \in Task

DayOf(c, b) == DateOf(c, b.section, b.kind)

\* A reminder that is due is due today.
DatesOK(w) == \A b \in task[w].due : DayOf(task[w].calendar, b) = day

\* One that was sent was due on its day.
HeldOK ==
    /\ running \subseteq Processes
    /\ held \subseteq [reminder : Reminder, day : Nat, calendar : Calendar, by : running]
    /\ \A h \in held : DayOf(h.calendar, h.reminder) = h.day

\* Outside a reminder nobody has been asked for anything.
AtRest(w) ==
    ~ task[w].begun => task[w].page = <<>> /\ ~ task[w].last /\ {task[w].asked, task[w].told, task[w].again} = {{}}

\* Who is asked for what is who has not finished it, as long as nobody moves.
Matched(w) ==
    \A p \in Persons, i \in CourseItems :
        <<p, i>> \in task[w].open <=> <<HomeMail[p], i>> \notin task[w].finished

AskedOK(w) ==
    /\ \A p \in task[w].expected : \E i \in CourseItems : <<p, i>> \in task[w].open
    /\ task[w].begun /\ moved = {} => Matched(w) /\ task[w].asked \subseteq task[w].open

ToldOK(w) ==
    /\ \A p \in task[w].told \ moved : HomeMail[p] \in task[w].seen
    /\ task[w].again \subseteq moved

\* Nothing is left to do for p.
Settled(t, p) == p \in t.told \cup t.failed \/ p \notin t.expected

\* The pages so far hold the list so far, and who is not in the page any more is settled.
PagesOK(w) ==
    task[w].begun /\ ~ task[w].unsettled /\ moved = {} =>
        /\ task[w].expected \subseteq ToSet(roster)
        /\ task[w].last => Len(roster) <= task[w].first
        /\ \A m \in task[w].seen : \E p \in Persons : HomeMail[p] = m /\ Settled(task[w], p)
        /\ \A n \in 1..Len(roster) :
              n <= task[w].first => roster[n] \in ToSet(task[w].page) \/ Settled(task[w], roster[n])

TaskInv(w) == TaskTypes(w) /\ DatesOK(w) /\ AtRest(w) /\ AskedOK(w) /\ ToldOK(w) /\ PagesOK(w)

-----------------------------------------------------------------------------
(* What is true over the days, unless an administrator acts.                *)

Sent(w, b) == \E h \in held : h.reminder = b /\ h.by = w

\* Its day has come, and with it the noon of process w.
Came(w, b) ==
    LET d == DayOf(calendar, b)
    IN  d \in calendar.start..LastDay /\ (d < day \/ (d = day /\ w \notin morning))

DaysInv(w) ==
    w \in running /\ ~ edited =>
        /\ task[w].calendar = calendar /\ (w \in morning => task[w].due = {})
        /\ \A h \in held : h.by = w => h.calendar = calendar
        /\ enabled = ReminderKinds
        /\ open => \A b \in Reminder :
              Came(w, b) => Sent(w, b) \/ <<w, DayOf(calendar, b)>> \in missed
                         \/ (DayOf(calendar, b) = day /\ b \in task[w].due)

DeliveryInv == LinksInv /\ HeldOK /\ \A w \in Processes : TaskInv(w) /\ DaysInv(w)

-----------------------------------------------------------------------------
(* Links: what a step may do to the representations.                        *)

\* Every representation is kept, at its address or at a new one.
RepsKept ==
    /\ vacated \subseteq vacated' /\ records \subseteq records'
    /\ \A r \in reps : \E s \in reps' : s.id = r.id /\ (s.mail = r.mail \/ r.mail \in vacated')

LEMMA WithTokenOK ==
    ASSUME RepsOK, NEW m, reps' = WithToken(m), moved \subseteq moved',
           vacated' = vacated, records \subseteq records'
    PROVE  RepsOK' /\ RepsKept /\ \E r \in reps' : r.mail = m
<1>1. CASE At(m) # {}
  BY <1>1 DEF RepsOK, RepsKept, WithToken, At
<1>2. CASE At(m) = {}
  <2>1. PICK n : n = New(m, NoOwner)
    OBVIOUS
  <2>2. /\ n = [id |-> n.id, mail |-> n.mail, owner |-> n.owner]
        /\ n.mail = m /\ n.owner = NoOwner
    BY <2>1 DEF New
  <2>3. reps' = reps \cup {n} /\ \A r \in reps : r.mail # m
    BY <1>2, <2>1 DEF WithToken, At
  <2> QED
    BY <2>2, <2>3, PersonAssumption DEF RepsOK, RepsKept
<1> QED
  BY <1>1, <1>2

LEMMA LogInOK ==
    ASSUME HomesOK, RepsOK, NEW p \in Persons, LogIn(p), moved' = moved, records \subseteq records'
    PROVE  RepsOK' /\ RepsKept
<1>1. PICK m : m = mailOf[p]
  OBVIOUS
<1>2. m \in Mails /\ (p \notin moved => m = HomeMail[p])
  BY <1>1 DEF HomesOK
<1>3. ASSUME NEW r \in OwnedBy(p), At(m) \subseteq {r},
             reps' = (reps \ {r}) \cup {[r EXCEPT !.mail = m]},
             vacated' = IF r.mail = m THEN vacated ELSE vacated \cup {r.mail}
      PROVE  RepsOK' /\ RepsKept
  <2>1. PICK s : s = [r EXCEPT !.mail = m]
    OBVIOUS
  <2>2. /\ r \in reps /\ r.owner = p
        /\ s = [id |-> s.id, mail |-> s.mail, owner |-> s.owner]
        /\ s.id = r.id /\ s.mail = m /\ s.owner = p
    BY <1>3, <2>1 DEF OwnedBy, RepsOK
  <2>3. reps' = (reps \ {r}) \cup {s} /\ \A t \in reps : t.mail = m => t = r
    BY <1>3, <2>1 DEF At
  <2>4. RepsOK'
    BY <1>2, <2>2, <2>3 DEF RepsOK
  <2>5. RepsKept
    BY <1>3, <2>2, <2>3 DEF RepsKept
  <2> QED
    BY <2>4, <2>5
<1>4. ASSUME At(m) = {}, reps' = reps \cup {New(m, p)}, UNCHANGED vacated
      PROVE  RepsOK' /\ RepsKept
  <2>1. PICK n : n = New(m, p)
    OBVIOUS
  <2>2. /\ n = [id |-> n.id, mail |-> n.mail, owner |-> n.owner]
        /\ n.mail = m /\ n.owner = p
    BY <2>1 DEF New
  <2>3. reps' = reps \cup {n} /\ \A r \in reps : r.mail # m
    BY <1>4, <2>1 DEF At
  <2> QED
    BY <1>2, <1>4, <2>2, <2>3 DEF RepsOK, RepsKept
<1>5. ASSUME NEW r \in At(m), reps' = (reps \ {r}) \cup {[r EXCEPT !.owner = p]}, UNCHANGED vacated
      PROVE  RepsOK' /\ RepsKept
  <2>1. PICK s : s = [r EXCEPT !.owner = p]
    OBVIOUS
  <2>2. /\ r \in reps /\ r.mail = m
        /\ s = [id |-> s.id, mail |-> s.mail, owner |-> s.owner]
        /\ s.id = r.id /\ s.mail = m /\ s.owner = p
    BY <1>5, <2>1 DEF At, RepsOK
  <2>3. reps' = (reps \ {r}) \cup {s}
    BY <1>5, <2>1
  <2>4. RepsOK'
    BY <1>2, <2>2, <2>3 DEF RepsOK
  <2>5. RepsKept
    BY <1>5, <2>2, <2>3 DEF RepsKept
  <2> QED
    BY <2>4, <2>5
<1> QED
  BY <1>1, <1>3, <1>4, <1>5 DEF LogIn

\* A token that is counted stays so, or its address is left.
LEMMA CountedStays ==
    ASSUME NEW t, RepsKept, Counted(t) \/ t.mail \in vacated
    PROVE  (Counted(t) \/ t.mail \in vacated)'
BY DEF Counted, At, RepsKept

LEMMA RegisterOK ==
    ASSUME RepsOK, NEW t, Register(t), moved' = moved, vacated' = vacated
    PROVE  RepsOK' /\ RepsKept /\ Counted(t)'
<1>1. records \subseteq records' /\ reps' = WithToken(t.mail)
  BY DEF Register
<1>2. RepsOK' /\ RepsKept /\ \E r \in reps' : r.mail = t.mail
  BY <1>1, WithTokenOK
<1>3. PICK r \in reps' : r.mail = t.mail
  BY <1>2
<1>4. <<r.id, t.item>> \in records'
  BY <1>3 DEF Register
<1> QED
  BY <1>2, <1>3, <1>4 DEF Counted, At

\* What is left of the promise to the invited when a step forgets no token it still owes.
LEMMA InvitationsStand ==
    ASSUME InvitationCarriedOut, RepsKept,
           \A t \in tokens' : t \in tokens \/ t.type # "training",
           \A t \in request.todo \cup gaps :
                t.type = "training" => t \in (request.todo \cup gaps)' \/ Counted(t)',
           mailed \cup request.links \cup unmailed \subseteq (mailed \cup request.links \cup unmailed)'
    PROVE  InvitationCarriedOut'
<1>1. ASSUME NEW t \in tokens', t.type = "training"
      PROVE  /\ (Counted(t) \/ t \in request.todo \cup gaps \/ t.mail \in vacated)'
             /\ t \in (mailed \cup request.links \cup unmailed)'
  <2>1. /\ Counted(t) \/ t \in request.todo \cup gaps \/ t.mail \in vacated
        /\ t \in mailed \cup request.links \cup unmailed
    BY <1>1 DEF InvitationCarriedOut
  <2>2. CASE Counted(t) \/ t.mail \in vacated
    BY <2>1, <2>2, CountedStays
  <2>3. CASE t \in request.todo \cup gaps
    BY <1>1, <2>1, <2>3
  <2> QED
    BY <2>1, <2>2, <2>3
<1> QED
  BY <1>1 DEF InvitationCarriedOut

\* A step that leaves the representations alone.
LEMMA RepsStand ==
    ASSUME UNCHANGED <<reps, records, vacated>>, RepsOK, moved \subseteq moved'
    PROVE  RepsKept /\ RepsOK'
BY DEF RepsKept, RepsOK

LEMMA MakeTokensOK ==
    ASSUME LinksInv, NEW people \in SUBSET Persons, NEW i, NEW mail \in BOOLEAN,
           MakeTokens({Link(p, i) : p \in people}, mail)
    PROVE  LinksInv'
<1>1. PICK links : links = {Link(p, i) : p \in people}
  OBVIOUS
<1>2. /\ request = NoRequest /\ tokens' = tokens \cup links
      /\ request' = [todo |-> links, links |-> links, mail |-> mail]
      /\ unmailed' = IF mail THEN unmailed ELSE unmailed \cup links
      /\ UNCHANGED <<day, mailOf, reps, records, done, mailed, pending, gaps, vacated, moved>>
  BY <1>1 DEF MakeTokens
<1>3. request.todo = {} /\ request.links = {}
  BY <1>2 DEF NoRequest
<1>4. request'.todo = links /\ request'.links = links /\ request'.mail = mail
  BY <1>2
<1>5. \A t \in links : /\ t.person \in Persons /\ t.mail = mailOf[t.person]
  BY <1>1 DEF Link
<1>6. HomesOK' /\ RepsOK' /\ RepsKept
  BY <1>2, RepsStand DEF LinksInv, HomesOK
<1>7. TokensOK'
  BY <1>2, <1>5 DEF LinksInv, TokensOK, HomesOK
<1>8. RequestOK'
  BY <1>2, <1>4 DEF RequestOK
<1>9. InvitationCarriedOut'
  <2>1. ASSUME NEW t \in tokens', t.type = "training"
        PROVE  /\ (Counted(t) \/ t \in request.todo \cup gaps \/ t.mail \in vacated)'
               /\ t \in (mailed \cup request.links \cup unmailed)'
    <3>1. CASE t \in links
      BY <1>4, <3>1
    <3>2. CASE t \in tokens
      <4>1. /\ Counted(t) \/ t \in gaps \/ t.mail \in vacated
            /\ t \in mailed \cup unmailed
        BY <1>3, <2>1, <3>2 DEF LinksInv, InvitationCarriedOut
      <4>2. Counted(t) \/ t.mail \in vacated => (Counted(t) \/ t.mail \in vacated)'
        BY <1>6, CountedStays
      <4> QED
        BY <1>2, <4>1, <4>2
    <3> QED
      BY <1>2, <2>1, <3>1, <3>2
  <2> QED
    BY <2>1 DEF InvitationCarriedOut
<1> QED
  BY <1>6, <1>7, <1>8, <1>9 DEF LinksInv

LEMMA RegisterRecipientOK ==
    ASSUME LinksInv, NEW t \in request.todo, RegisterRecipient(t)
    PROVE  LinksInv'
<1>1. /\ request' = [request EXCEPT !.todo = @ \ {t}]
      /\ UNCHANGED <<day, mailOf, tokens, done, mailed, pending, unmailed, vacated, moved>>
  BY DEF RegisterRecipient
<1>2. request'.links = request.links /\ request'.mail = request.mail
  BY <1>1
<1>3. \A u \in request.todo : u \in request'.todo \/ u = t
  BY <1>1
<1>4. /\ RepsOK' /\ RepsKept /\ gaps \subseteq gaps' /\ (Counted(t)' \/ t \in gaps')
  <2>1. CASE Register(t) /\ UNCHANGED gaps
    BY <1>1, <2>1, RegisterOK DEF LinksInv
  <2>2. CASE gaps' = gaps \cup {t} /\ UNCHANGED <<reps, records>>
    BY <1>1, <2>2, RepsStand DEF LinksInv
  <2> QED
    BY <2>1, <2>2 DEF RegisterRecipient
<1>5. InvitationCarriedOut'
  <2>1. /\ \A u \in tokens' : u \in tokens
        /\ \A u \in request.todo \cup gaps : u \in (request.todo \cup gaps)' \/ Counted(u)'
        /\ mailed \cup request.links \cup unmailed \subseteq (mailed \cup request.links \cup unmailed)'
    BY <1>1, <1>2, <1>3, <1>4
  <2> QED
    BY <1>4, <2>1, InvitationsStand DEF LinksInv
<1> QED
  BY <1>1, <1>2, <1>4, <1>5 DEF LinksInv, HomesOK, TokensOK, RequestOK

LEMMA SendTrainingLinkEmailsOK ==
    ASSUME LinksInv, SendTrainingLinkEmails
    PROVE  LinksInv'
<1>1. /\ request.todo = {} /\ request' = NoRequest
      /\ UNCHANGED <<day, mailOf, tokens, reps, records, done, pending, gaps, vacated, moved>>
  BY DEF SendTrainingLinkEmails
<1>2. request'.todo = {} /\ request'.links = {}
  BY <1>1 DEF NoRequest
<1>3. mailed \subseteq mailed' /\ unmailed \subseteq unmailed' /\ request.links \subseteq mailed' \cup unmailed'
  BY DEF SendTrainingLinkEmails, LinksInv, RequestOK
<1>4. RepsOK' /\ RepsKept
  BY <1>1, RepsStand DEF LinksInv
<1>5. InvitationCarriedOut'
  <2>1. /\ \A u \in tokens' : u \in tokens
        /\ \A u \in request.todo \cup gaps : u \in (request.todo \cup gaps)'
        /\ mailed \cup request.links \cup unmailed \subseteq (mailed \cup request.links \cup unmailed)'
    BY <1>1, <1>3
  <2> QED
    BY <1>4, <2>1, InvitationsStand DEF LinksInv
<1> QED
  BY <1>1, <1>2, <1>4, <1>5 DEF LinksInv, HomesOK, TokensOK, RequestOK

\* What only adds mails, forgets tokens or makes those of reminders, and starts passes.
LEMMA LinksStand ==
    ASSUME LinksInv, UNCHANGED <<mailOf, reps, records, request, gaps, unmailed, vacated, moved>>,
           mailed \subseteq mailed',
           \A t \in tokens' :
                \/ t \in tokens
                \/ t.type # "training" /\ t.person \in Persons /\ t.mail = mailOf[t.person]
    PROVE  LinksInv'
<1>1. RepsOK' /\ RepsKept
  BY RepsStand DEF LinksInv
<1>2. InvitationCarriedOut'
  BY <1>1, InvitationsStand DEF LinksInv
<1> QED
  BY <1>1, <1>2 DEF LinksInv, HomesOK, TokensOK, RequestOK

LEMMA SyncOneOK ==
    ASSUME LinksInv, NEW t \in pending, SyncOne(t)
    PROVE  LinksInv'
<1>1. UNCHANGED <<day, mailOf, tokens, done, mailed, request, unmailed, vacated, moved>>
  BY DEF SyncOne
<1>2. /\ RepsOK' /\ RepsKept
      /\ \A u \in gaps : u \in gaps' \/ u.type # "training" \/ Counted(u)'
  <2>1. CASE SyncToken(t) /\ gaps' = gaps \ {t}
    <3>1. CASE t.type = "training"
      BY <1>1, <2>1, <3>1, RegisterOK DEF SyncToken, LinksInv
    <3>2. CASE t.type # "training"
      <4>1. reps' = WithToken(t.mail) /\ UNCHANGED records
        BY <2>1, <3>2 DEF SyncToken
      <4>2. RepsOK' /\ RepsKept
        BY <1>1, <4>1, WithTokenOK DEF LinksInv
      <4> QED
        BY <2>1, <3>2, <4>2
    <3> QED
      BY <3>1, <3>2
  <2>2. CASE UNCHANGED <<reps, records, gaps>>
    BY <1>1, <2>2, RepsStand DEF LinksInv
  <2> QED
    BY <2>1, <2>2 DEF SyncOne
<1>3. InvitationCarriedOut'
  <2>1. \A u \in request.todo \cup gaps : u.type = "training" => u \in (request.todo \cup gaps)' \/ Counted(u)'
    BY <1>1, <1>2
  <2> QED
    BY <1>1, <1>2, <2>1, InvitationsStand DEF LinksInv
<1> QED
  BY <1>1, <1>2, <1>3 DEF LinksInv, HomesOK, TokensOK, RequestOK

\* Somebody comes, by account or by link.
LEMMA VisitsOK ==
    ASSUME LinksInv, UNCHANGED <<mailOf, tokens, mailed, request, gaps, unmailed, moved>>, records \subseteq records',
           \/ \E p \in Persons : LogIn(p)
           \/ UNCHANGED vacated /\ \E t \in tokens : reps' = WithToken(t.mail)
    PROVE  LinksInv'
<1>1. RepsOK' /\ RepsKept
  BY LogInOK, WithTokenOK DEF LinksInv
<1>2. InvitationCarriedOut'
  BY <1>1, InvitationsStand DEF LinksInv
<1> QED
  BY <1>1, <1>2 DEF LinksInv, HomesOK, TokensOK, RequestOK

LEMMA ChangeMailOK ==
    ASSUME LinksInv, NEW p \in Persons, NEW m \in Mails, ChangeMail(p, m)
    PROVE  LinksInv'
<1>1. /\ moved' = moved \cup {p} /\ mailOf' = [mailOf EXCEPT ![p] = m]
      /\ UNCHANGED <<day, tokens, reps, records, done, mailed, request, pending, gaps, unmailed, vacated>>
  BY DEF ChangeMail, linkVars
<1>2. RepsOK' /\ RepsKept
  BY <1>1, RepsStand DEF LinksInv
<1>3. HomesOK' /\ TokensOK' /\ RequestOK'
  BY <1>1 DEF LinksInv, HomesOK, TokensOK, RequestOK
<1>4. InvitationCarriedOut'
  BY <1>1, <1>2, InvitationsStand DEF LinksInv
<1> QED
  BY <1>2, <1>3, <1>4 DEF LinksInv

LEMMA LinksStopOK ==
    ASSUME LinksInv, LinksStop, UNCHANGED mailOf
    PROVE  LinksInv'
<1>1. UNCHANGED <<tokens, reps, records, done, mailed, vacated, moved>>
  BY DEF LinksStop
<1>2. RepsOK' /\ RepsKept
  BY <1>1, RepsStand DEF LinksInv
<1>3. /\ gaps \subseteq gaps' /\ unmailed \subseteq unmailed'
      /\ request.todo \subseteq (request.todo \cup gaps)'
      /\ request.links \subseteq (request.links \cup unmailed)'
      /\ request' = request \/ request'.links = {}
  BY DEF LinksStop, NoRequest
<1>4. InvitationCarriedOut'
  BY <1>1, <1>2, <1>3, InvitationsStand DEF LinksInv
<1> QED
  BY <1>1, <1>2, <1>3, <1>4 DEF LinksInv, HomesOK, TokensOK, RequestOK

LEMMA LinksNextOK ==
    ASSUME LinksInv, LinksNext
    PROVE  LinksInv'
<1>1. ASSUME NEW people \in SUBSET Persons, NEW i \in CourseItems,
             \/ \E scope \in SUBSET Units : SendTrainingLinks(people, i, scope)
             \/ PostTrainingToken(people, i)
      PROVE  LinksInv'
  <2>1. PICK mail \in BOOLEAN : MakeTokens({Link(p, i) : p \in people}, mail)
    <3>1. PICK yes \in BOOLEAN, no \in BOOLEAN : yes = TRUE /\ no = FALSE
      OBVIOUS
    <3>2. \/ MakeTokens({Link(p, i) : p \in people}, yes)
          \/ MakeTokens({Link(p, i) : p \in people}, no)
      BY <1>1, <3>1, Zenon DEF SendTrainingLinks, PostTrainingToken
    <3> QED
      BY <3>1, <3>2
  <2> QED
    BY <2>1, MakeTokensOK
<1>2. ASSUME NEW scope, NEW links, ResendTrainingLinks(links, scope)
      PROVE  LinksInv'
  BY <1>2, LinksStand DEF ResendTrainingLinks, ghosts
<1>3. ASSUME NEW t, DeleteTrainingToken(t)
      PROVE  LinksInv'
  BY <1>3, LinksStand DEF DeleteTrainingToken, ghosts
<1>4. ASSUME PostSync
      PROVE  LinksInv'
  BY <1>4, LinksStand DEF PostSync, ghosts
<1>5. ASSUME NEW p \in Persons, Visit(p)
      PROVE  LinksInv'
  BY <1>5, VisitsOK DEF Visit
<1>6. ASSUME NEW p \in Persons, NEW i, Watch(p, i)
      PROVE  LinksInv'
  BY <1>6, VisitsOK DEF Watch, Watched
<1>7. ASSUME NEW t \in tokens, WatchByLink(t)
      PROVE  LinksInv'
  BY <1>7, VisitsOK DEF WatchByLink, Watched, ghosts
<1> QED
  BY <1>1, <1>2, <1>3, <1>4, <1>5, <1>6, <1>7, RegisterRecipientOK, SendTrainingLinkEmailsOK, SyncOneOK,
     ChangeMailOK DEF LinksNext

LEMMA TypeOfReminderToken ==
    ASSUME NEW p \in Persons, NEW items
    PROVE  \A t \in ReminderTokens(p, items) :
              t.type # "training" /\ t.person \in Persons /\ t.mail = mailOf[t.person]
BY DEF ReminderTokens

LEMMA LinksAlways ==
    ASSUME LinksInv, running \subseteq Processes, \A w \in Processes : TaskTypes(w),
           [RemindersNext]_remindersVars
    PROVE  LinksInv'
<1>1. CASE LinksNext
  BY <1>1, LinksNextOK
<1>2. CASE UNCHANGED <<mailOf, linkVars, ghosts>>
  BY <1>2, LinksStand DEF linkVars, ghosts
<1>3. ASSUME NEW w \in running, BeginReminder(w) \/ ReadPage(w) \/ DropEnrollment(w) \/ EndReminder(w)
      PROVE  LinksInv'
  BY <1>3, LinksStand DEF BeginReminder, ReadPage, DropEnrollment, EndReminder, TaskStep, ghosts
<1>4. ASSUME NEW w \in running, Remind(w)
      PROVE  LinksInv'
  <2>1. task[w].page \in Seq(Persons)
    BY <1>4 DEF TaskTypes, Task
  <2>2. PICK p \in Persons : p = Head(task[w].page)
    BY <1>4, <2>1 DEF Remind
  <2>3. /\ \A t \in tokens' : t \in tokens \/ t \in ReminderTokens(p, IncompleteItems(task[w], mailOf[p]))
        /\ UNCHANGED <<mailOf, reps, records, request, gaps, unmailed, vacated, moved, mailed>>
    BY <1>4, <2>2 DEF Remind, TaskStep, ghosts
  <2> QED
    BY <2>3, LinksStand, TypeOfReminderToken
<1>5. ASSUME NEW p \in Persons, NEW i, SendTrainingReminder(p, i)
      PROVE  LinksInv'
  <2>1. /\ \A t \in tokens' : t \in tokens \/ t \in ReminderTokens(p, {i})
        /\ UNCHANGED <<mailOf, reps, records, request, gaps, unmailed, vacated, moved, mailed>>
    BY <1>5 DEF SendTrainingReminder, ghosts
  <2> QED
    BY <2>1, LinksStand, TypeOfReminderToken
<1>6. ASSUME EditEnrollment \/ EditRoster \/ \E w \in running : HandleReminders(w) \/ MissNoon(w)
      PROVE  LinksInv'
  BY <1>2, <1>6 DEF HandleReminders, MissNoon, EditEnrollment, EditRoster, Edit
<1>7. ASSUME NEW w \in running, Stop(w)
      PROVE  LinksInv'
  BY <1>7, LinksStopOK DEF Stop
<1>8. CASE Midnight
  BY <1>8, LinksStand DEF Midnight, ghosts
<1>9. CASE UNCHANGED remindersVars
  BY <1>2, <1>9 DEF remindersVars
<1> QED
  BY <1>1, <1>3, <1>4, <1>5, <1>6, <1>7, <1>8, <1>9 DEF RemindersNext, TaskNext

\* A person's own record and the record at the address of a token of that person.
LEMMA CountedOnceHere ==
    ASSUME LinksInv
    PROVE  CountedOnce
<1>1. ASSUME NEW t \in tokens, NEW r \in reps, NEW s \in reps, r # s,
             r.owner = t.person, s.mail = t.mail, t.person \notin moved
      PROVE  FALSE
  <2>1. t.person \in Persons /\ t.mail = HomeMail[t.person]
    BY <1>1 DEF LinksInv, TokensOK
  <2>2. r.mail = HomeMail[r.owner]
    BY <1>1, <2>1 DEF LinksInv, RepsOK
  <2> QED
    BY <1>1, <2>1, <2>2 DEF LinksInv, RepsOK
<1> QED
  BY <1>1 DEF CountedOnce

-----------------------------------------------------------------------------
(* The dates of a course. *)

\* The naturals are well-founded, as a fact without an operator.
LEMMA LessOnNat ==
    \E R : IsWellFoundedOn(R, Nat) /\ \A x, y \in Nat : y < x => <<y, x>> \in R
<1> DEFINE R == OpToRel(<, Nat)
<1>1. IsWellFoundedOn(R, Nat)
  BY NatLessThanWellFounded
<1>2. \A x, y \in Nat : y < x => <<y, x>> \in R
  BY DEF OpToRel
<1> HIDE DEF R
<1> QED
  BY <1>1, <1>2

LEMMA LeastNatural ==
    ASSUME NEW T, T \subseteq Nat, T # {}
    PROVE  \E x \in T : \A y \in T : x <= y
<1>1. PICK R : IsWellFoundedOn(R, Nat) /\ \A x, y \in Nat : y < x => <<y, x>> \in R
  BY LessOnNat
<1>2. PICK x \in T : \A y \in T : ~(<<y, x>> \in R)
  BY <1>1, WFMin
<1>3. ASSUME NEW y \in T PROVE x <= y
  <2>1. x \in Nat /\ y \in Nat
    OBVIOUS
  <2>2. ~(y < x)
    BY <1>1, <1>2, <2>1
  <2> QED
    BY <2>1, <2>2
<1> QED
  BY <1>3

LEMMA CourseTypes ==
    ASSUME NEW c \in Calendar
    PROVE  /\ Sections \in Nat /\ c.start \in Nat /\ c.weekday \in 0..6
           /\ \A n \in 1..Sections : c.lengths[n] \in Nat
           /\ LastDay \in Nat /\ PageSize \in Nat \ {0}
BY CalendarAssumption DEF Calendar

\* The openings of the first k sections.
Opens(c, k, f) ==
    /\ f \in [1..k -> Nat]
    /\ \A n \in 1..k : f[n] = IF n = 1 THEN c.start ELSE f[n - 1] + c.lengths[n - 1]

\* They can be added up, section by section: none is the first that has no opening.
LEMMA OpeningsExist ==
    ASSUME NEW c \in Calendar, NEW k \in 1..Sections
    PROVE  \E f : Opens(c, k, f)
<1>1. PICK T : T = {n \in 1..Sections : ~ \E f : Opens(c, n, f)}
  OBVIOUS
<1>2. ASSUME T # {}
      PROVE  FALSE
  <2>1. T \subseteq Nat
    BY <1>1, CourseTypes
  <2>2. PICK n \in T : \A m \in T : n <= m
    BY <1>2, <2>1, LeastNatural
  <2>3. n \in 1..Sections /\ Sections \in Nat
    BY <1>1, CourseTypes
  <2>4. CASE n = 1
    <3>1. PICK f : f = [m \in 1..n |-> c.start]
      OBVIOUS
    <3>2. Opens(c, n, f)
      BY <2>4, <3>1, CourseTypes DEF Opens
    <3> QED
      BY <1>1, <3>2
  <2>5. CASE n # 1
    <3>1. n - 1 \in 1..Sections /\ n - 1 \notin T
      BY <2>1, <2>2, <2>3, <2>5
    <3>2. PICK g : Opens(c, n - 1, g)
      BY <1>1, <3>1
    <3>3. PICK f : f = [m \in 1..n |-> IF m = n THEN g[n - 1] + c.lengths[n - 1] ELSE g[m]]
      OBVIOUS
    <3>4. g[n - 1] + c.lengths[n - 1] \in Nat
      BY <2>3, <3>1, <3>2, CourseTypes DEF Opens
    <3>5. \A m \in 1..n : m # n => m \in 1..(n - 1) /\ f[m] = g[m]
      BY <2>3, <3>3
    <3>6. f \in [1..n -> Nat]
      BY <3>2, <3>3, <3>4, <3>5 DEF Opens
    <3>7. ASSUME NEW m \in 1..n
          PROVE  f[m] = IF m = 1 THEN c.start ELSE f[m - 1] + c.lengths[m - 1]
      <4>1. CASE m = n
        <5>1. n - 1 \in 1..n /\ n - 1 # n /\ n \in 1..n
          BY <2>3, <3>1
        <5>2. f[n - 1] = g[n - 1] /\ f[n] = g[n - 1] + c.lengths[n - 1]
          BY <3>3, <3>5, <5>1
        <5> QED
          BY <2>5, <4>1, <5>2
      <4>2. CASE m # n
        <5>1. m \in 1..(n - 1) /\ f[m] = g[m]
          BY <3>5, <4>2
        <5>2. m # 1 => m - 1 \in 1..n /\ m - 1 # n
          BY <2>3, <5>1
        <5>3. m # 1 => f[m - 1] = g[m - 1]
          BY <3>5, <5>2
        <5> QED
          BY <3>2, <5>1, <5>3 DEF Opens
      <4> QED
        BY <4>1, <4>2
    <3>8. Opens(c, n, f)
      BY <3>6, <3>7 DEF Opens
    <3> QED
      BY <1>1, <3>8
  <2> QED
    BY <2>4, <2>5
<1> QED
  BY <1>1, <1>2

LEMMA AvailableType ==
    ASSUME NEW c \in Calendar, NEW s \in 1..Sections
    PROVE  AvailableOn(c, s) \in Nat
<1>1. Sections \in 1..Sections
  BY CourseTypes
<1>2. PICK f : Opens(c, Sections, f)
  BY <1>1, OpeningsExist
<1>3. f = [n \in 1..Sections |-> IF n = 1 THEN c.start ELSE f[n - 1] + c.lengths[n - 1]]
  BY <1>2 DEF Opens
<1>4. PICK g : g = CHOOSE h : h = [n \in 1..Sections |-> IF n = 1 THEN c.start ELSE h[n - 1] + c.lengths[n - 1]]
  OBVIOUS
<1>5. g = [n \in 1..Sections |-> IF n = 1 THEN c.start ELSE g[n - 1] + c.lengths[n - 1]]
  BY <1>3, <1>4
<1>6. AvailableOn(c, s) = g[s]
  BY <1>4 DEF AvailableOn
<1>7. PICK T : T = {n \in 1..Sections : g[n] \notin Nat}
  OBVIOUS
<1>8. ASSUME T # {}
      PROVE  FALSE
  <2>1. T \subseteq Nat
    BY <1>7, CourseTypes
  <2>2. PICK n \in T : \A m \in T : n <= m
    BY <1>8, <2>1, LeastNatural
  <2>3. n \in 1..Sections /\ g[n] \notin Nat
    BY <1>7
  <2>4. n # 1
    BY <1>5, <2>3, CourseTypes
  <2>5. n - 1 \in 1..Sections /\ n - 1 \notin T
    BY <2>1, <2>2, <2>3, <2>4, CourseTypes
  <2>6. g[n - 1] \in Nat /\ c.lengths[n - 1] \in Nat
    BY <1>7, <2>5, CourseTypes
  <2>7. g[n] = g[n - 1] + c.lengths[n - 1]
    BY <1>5, <2>3, <2>4
  <2> QED
    BY <2>3, <2>6, <2>7
<1> QED
  BY <1>6, <1>7, <1>8

\* The first working day from d on.
LEMMA FirstWeekdayFacts ==
    ASSUME NEW c \in Calendar, NEW d \in Nat
    PROVE  /\ FirstWeekday(c, d) \in Nat /\ FirstWeekday(c, d) >= d
           /\ ~ Weekend(c, FirstWeekday(c, d))
           /\ \A e \in Nat : d <= e /\ e < FirstWeekday(c, d) => Weekend(c, e)
<1>1. c.weekday \in 0..6
  BY CourseTypes
<1>2. CASE DayOfWeek(c, d) = 0
  <2>1. FirstWeekday(c, d) = d + 1
    BY <1>2 DEF FirstWeekday
  <2>2. DayOfWeek(c, d + 1) = 1
    <3>1. PICK x \in Nat : x = c.weekday + d
      BY <1>1
    <3>2. x % 7 = 0 /\ c.weekday + (d + 1) = x + 1
      BY <1>1, <1>2, <3>1 DEF DayOfWeek
    <3>3. (x + 1) % 7 = 1
      BY <3>2
    <3> QED
      BY <3>2, <3>3 DEF DayOfWeek
  <2> QED
    BY <1>2, <2>1, <2>2 DEF Weekend
<1>3. CASE DayOfWeek(c, d) = 6
  <2>1. FirstWeekday(c, d) = d + 2
    BY <1>3 DEF FirstWeekday
  <2>2. DayOfWeek(c, d + 1) = 0 /\ DayOfWeek(c, d + 2) = 1
    BY <1>1, <1>3 DEF DayOfWeek
  <2>3. \A e \in Nat : d <= e /\ e < d + 2 => e = d \/ e = d + 1
    OBVIOUS
  <2> QED
    BY <1>3, <2>1, <2>2, <2>3 DEF Weekend
<1>4. CASE DayOfWeek(c, d) \notin {0, 6}
  <2>1. FirstWeekday(c, d) = d
    BY <1>4 DEF FirstWeekday
  <2> QED
    BY <1>4, <2>1 DEF Weekend
<1> QED
  BY <1>2, <1>3, <1>4

\* The day a reminder becomes ripe, before weekends are left out.
Earliest(c, b) ==
    LET half == (LeastOf(28, c.lengths[b.section]) + 1) \div 2
    IN  AvailableOn(c, b.section) + IF b.kind = "initial" THEN 0 ELSE half

LEMMA RipeFrom ==
    ASSUME NEW c \in Calendar, NEW b \in Reminder, NEW h, h.calendar = c, h.reminder = b
    PROVE  /\ Earliest(c, b) \in Nat
           /\ DayOf(c, b) = FirstWeekday(c, Earliest(c, b))
           /\ \A d \in Nat : Ripe(h, d) <=> d >= Earliest(c, b)
<1>1. PICK s \in 1..Sections, kind \in ReminderKinds : s = b.section /\ kind = b.kind
  BY DEF Reminder
<1>2. PICK opening \in Nat : opening = AvailableOn(c, s)
  BY AvailableType
<1>3. PICK length \in Nat : length = LeastOf(28, c.lengths[s])
  BY CourseTypes DEF LeastOf
<1>4. PICK half \in Nat : half = (length + 1) \div 2
  BY <1>3
<1>5. Earliest(c, b) = opening + IF kind = "initial" THEN 0 ELSE half
  BY <1>1, <1>2, <1>3, <1>4 DEF Earliest
<1>6. DayOf(c, b) = FirstWeekday(c, Earliest(c, b))
  BY DEF DayOf, DateOf, Earliest
<1>7. ASSUME NEW d \in Nat
      PROVE  Ripe(h, d) <=> d >= Earliest(c, b)
  <2>1. Ripe(h, d) <=> IF kind = "initial" THEN d >= opening ELSE 2 * (d - opening) >= length
    BY <1>1, <1>2, <1>3 DEF Ripe
  <2>2. 2 * (d - opening) >= length <=> d >= opening + half
    BY <1>4
  <2> QED
    BY <1>5, <2>1, <2>2
<1> QED
  BY <1>5, <1>6, <1>7

LEMMA OnItsDayHere ==
    ASSUME HeldOK
    PROVE  OnItsDay
<1>1. ASSUME NEW h \in held
      PROVE  /\ Ripe(h, h.day) /\ ~ Weekend(h.calendar, h.day)
             /\ \A d \in 0..MaxDay : d < h.day /\ Ripe(h, d) => Weekend(h.calendar, d)
  <2>1. h.calendar \in Calendar /\ h.reminder \in Reminder /\ h.day = DayOf(h.calendar, h.reminder)
    BY <1>1 DEF HeldOK
  <2>2. PICK e \in Nat : e = Earliest(h.calendar, h.reminder)
    BY <2>1, RipeFrom
  <2>3. h.day = FirstWeekday(h.calendar, e) /\ \A d \in Nat : Ripe(h, d) <=> d >= e
    BY <2>1, <2>2, RipeFrom
  <2>4. \A d \in 0..MaxDay : d \in Nat
    BY CalendarAssumption
  <2> QED
    BY <2>1, <2>2, <2>3, <2>4, FirstWeekdayFacts
<1> QED
  BY <1>1 DEF OnItsDay

-----------------------------------------------------------------------------
(* What the steps of the task do to it. *)

LEMMA IdleFacts ==
    ASSUME calendar \in Calendar
    PROVE  /\ Idle \in Task
           /\ Idle.due = {} /\ Idle.begun = FALSE /\ Idle.calendar = calendar
           /\ Idle.first = 0 /\ Idle.last = FALSE /\ Idle.page = <<>> /\ Idle.seen = {}
           /\ Idle.finished = {} /\ Idle.expected = {} /\ Idle.told = {} /\ Idle.again = {}
           /\ Idle.failed = {} /\ Idle.asked = {} /\ Idle.open = {} /\ Idle.unsettled = FALSE
BY DEF Idle, Task, Demands, Finishes

\* Idle with another list of what is due.
Rests(t, due, c) ==
    /\ t.due = due /\ t.calendar = c
    /\ ~ t.begun /\ ~ t.last /\ t.page = <<>>
    /\ t.expected = {} /\ t.told = {} /\ t.again = {} /\ t.asked = {}

LEMMA RestFacts ==
    ASSUME calendar \in Calendar, NEW due \in SUBSET Reminder, NEW c \in Calendar,
           NEW t, t = [Idle EXCEPT !.due = due, !.calendar = c]
    PROVE  t \in Task /\ Rests(t, due, c)
<1>1. Idle \in Task /\ Idle.begun = FALSE /\ Idle.last = FALSE /\ Idle.page = <<>>
      /\ Idle.expected = {} /\ Idle.told = {} /\ Idle.again = {} /\ Idle.asked = {}
  BY IdleFacts
<1>2. t \in Task /\ t.due = due /\ t.calendar = c
  BY <1>1 DEF Task
<1>3. t.begun = Idle.begun /\ t.last = Idle.last /\ t.page = Idle.page
      /\ t.expected = Idle.expected /\ t.told = Idle.told /\ t.again = Idle.again /\ t.asked = Idle.asked
  BY <1>1 DEF Task
<1> QED
  BY <1>1, <1>2, <1>3 DEF Rests

\* The reminder that has just begun.
Begun(t, due, c, finished, todo, expected) ==
    /\ t.due = due /\ t.begun /\ t.calendar = c
    /\ t.finished = finished /\ t.open = todo /\ t.expected = expected
    /\ t.first = 0 /\ ~ t.last /\ t.page = <<>> /\ t.seen = {}
    /\ t.told = {} /\ t.again = {} /\ t.failed = {} /\ t.asked = {}
    /\ ~ t.unsettled

LEMMA BeginFacts ==
    ASSUME calendar \in Calendar, NEW due \in SUBSET Reminder, NEW c \in Calendar,
           NEW finished \in Finishes, NEW todo \in Demands, NEW expected \in SUBSET Persons, NEW yes \in BOOLEAN, yes,
           NEW t, t = [Idle EXCEPT
                !.due = due, !.begun = yes, !.calendar = c,
                !.finished = finished, !.open = todo, !.expected = expected]
    PROVE  t \in Task /\ Begun(t, due, c, finished, todo, expected)
<1>1. /\ Idle \in Task
      /\ Idle.first = 0 /\ Idle.last = FALSE /\ Idle.page = <<>> /\ Idle.seen = {}
      /\ Idle.told = {} /\ Idle.again = {} /\ Idle.failed = {} /\ Idle.asked = {}
      /\ Idle.unsettled = FALSE
  BY IdleFacts
<1>2. t \in Task
  <2>1. PICK u : u = [Idle EXCEPT !.due = due, !.begun = yes, !.calendar = c]
    OBVIOUS
  <2>2. u \in Task
    BY <1>1, <2>1 DEF Task
  <2>3. t = [u EXCEPT !.finished = finished, !.open = todo, !.expected = expected]
    BY <1>1, <2>1 DEF Task
  <2> QED
    BY <2>2, <2>3 DEF Task
<1>3. /\ t.due = due /\ t.begun = yes /\ t.calendar = c
      /\ t.finished = finished /\ t.open = todo /\ t.expected = expected
  BY <1>1 DEF Task
<1>4. /\ t.first = Idle.first /\ t.last = Idle.last /\ t.page = Idle.page /\ t.seen = Idle.seen
      /\ t.told = Idle.told /\ t.again = Idle.again /\ t.failed = Idle.failed
      /\ t.asked = Idle.asked /\ t.unsettled = Idle.unsettled
  BY <1>1 DEF Task
<1> QED
  BY <1>1, <1>2, <1>3, <1>4 DEF Begun

LEMMA ReadPageFacts ==
    ASSUME NEW w \in Processes, TaskTypes(w), ReadPage(w), NEW page,
           page = SubSeq(roster, task[w].first + 1, LeastOf(Len(roster), task[w].first + PageSize))
    PROVE  /\ DOMAIN task' = DOMAIN task
           /\ task'[w] \in Task /\ page \in Seq(Persons)
           /\ task'[w].page = page /\ task'[w].first = task[w].first + PageSize
           /\ task'[w].last <=> Len(page) < PageSize
           /\ task'[w].due = task[w].due /\ task'[w].begun = task[w].begun /\ task'[w].calendar = task[w].calendar
           /\ task'[w].seen = task[w].seen /\ task'[w].finished = task[w].finished /\ task'[w].expected = task[w].expected
           /\ task'[w].told = task[w].told /\ task'[w].again = task[w].again /\ task'[w].failed = task[w].failed
           /\ task'[w].asked = task[w].asked /\ task'[w].open = task[w].open /\ task'[w].unsettled = task[w].unsettled
<1>1. task[w] \in Task /\ roster \in Seq(Persons) /\ PageSize \in Nat
  BY CalendarAssumption DEF TaskTypes
<1>2. PICK first \in Nat, least \in Nat : first = task[w].first + PageSize /\ least = LeastOf(Len(roster), first)
  <2>1. task[w].first \in Nat /\ Len(roster) \in Nat
    BY <1>1 DEF Task
  <2> QED
    BY <1>1, <2>1 DEF LeastOf
<1>3. page \in Seq(Persons)
  <2>1. task[w].first + 1 \in Nat /\ task[w].first + 1 >= 1 /\ least <= Len(roster)
    BY <1>1, <1>2 DEF Task, LeastOf
  <2>2. page = SubSeq(roster, task[w].first + 1, least)
    BY <1>2
  <2> QED
    BY <1>1, <1>2, <2>1, <2>2
<1>4. PICK last \in BOOLEAN : last = (Len(page) < PageSize)
  <2>1. (Len(page) < PageSize) \in BOOLEAN
    BY <1>1, <1>3
  <2> QED
    BY <2>1, Zenon
<1>5. task'[w] = [task[w] EXCEPT !.page = page, !.first = first, !.last = last]
  BY <1>2, <1>4 DEF ReadPage, Becomes, TaskTypes
<1>6. task'[w] \in Task
  BY <1>1, <1>3, <1>5 DEF Task
<1>7. DOMAIN task' = DOMAIN task
  BY DEF ReadPage, Becomes
<1> QED
  BY <1>1, <1>2, <1>3, <1>4, <1>5, <1>6, <1>7 DEF Task

\* What stays of a task t while u sends its reminder.
SameReminder(t, u) ==
    /\ u.due = t.due /\ u.begun = t.begun /\ u.calendar = t.calendar
    /\ u.first = t.first /\ u.last = t.last /\ u.finished = t.finished
    /\ u.expected = t.expected /\ u.open = t.open /\ u.unsettled = t.unsettled

\* And what changes.
Has(u, page, seen, told, again, failed, asked) ==
    /\ u.page = page /\ u.seen = seen
    /\ u.told = told /\ u.again = again /\ u.failed = failed /\ u.asked = asked

LEMMA PassOverFacts ==
    ASSUME NEW t \in Task, NEW page \in Seq(Persons), NEW seen \in SUBSET Mails,
           NEW u, u = [t EXCEPT !.page = page, !.seen = seen]
    PROVE  /\ u \in Task /\ SameReminder(t, u)
           /\ Has(u, page, seen, t.told, t.again, t.failed, t.asked)
<1>1. u \in Task
  BY DEF Task
<1> QED
  BY <1>1 DEF Task, SameReminder, Has

LEMMA TellFacts ==
    ASSUME NEW t \in Task, NEW told \in SUBSET Persons, NEW again \in SUBSET Persons, NEW asked \in Demands,
           NEW u, u = [t EXCEPT !.told = told, !.again = again, !.asked = asked]
    PROVE  /\ u \in Task /\ SameReminder(t, u)
           /\ Has(u, t.page, t.seen, told, again, t.failed, asked)
<1>1. u \in Task
  BY DEF Task
<1> QED
  BY <1>1 DEF Task, SameReminder, Has

LEMMA FailFacts ==
    ASSUME NEW w \in Processes, NEW t \in Task, NEW failed \in SUBSET Persons, NEW u, u = [t EXCEPT !.failed = failed]
    PROVE  /\ u \in Task /\ SameReminder(t, u)
           /\ Has(u, t.page, t.seen, t.told, t.again, failed, t.asked)
<1>1. u \in Task
  BY DEF Task
<1> QED
  BY <1>1 DEF Task, SameReminder, Has

\* The person at the head of the page is passed over, told or failed.
Passed(w, p) ==
    /\ mailOf[p] \in task[w].seen \/ IncompleteItems(task[w], mailOf[p]) = {}
    /\ task'[w].told = task[w].told /\ task'[w].again = task[w].again
    /\ task'[w].failed = task[w].failed /\ task'[w].asked = task[w].asked

Told(w, p) ==
    /\ mailOf[p] \notin task[w].seen
    /\ task'[w].told = task[w].told \cup {p} /\ task'[w].again = task[w].again \cup ({p} \cap task[w].told)
    /\ task'[w].failed = task[w].failed
    /\ task'[w].asked = task[w].asked \cup {p} \X IncompleteItems(task[w], mailOf[p])

Failed(w, p) ==
    /\ task'[w].told = task[w].told /\ task'[w].again = task[w].again
    /\ task'[w].failed = task[w].failed \cup {p} /\ task'[w].asked = task[w].asked

LEMMA RemindFacts ==
    ASSUME NEW w \in Processes, TaskTypes(w), HomesOK, Remind(w), NEW p, p = Head(task[w].page)
    PROVE  /\ p \in Persons /\ mailOf[p] \in Mails
           /\ task[w].page \in Seq(Persons) /\ task[w].page # <<>>
           /\ task'[w] \in Task /\ SameReminder(task[w], task'[w])
           /\ task'[w].page = Tail(task[w].page) /\ task'[w].seen = task[w].seen \cup {mailOf[p]}
           /\ Passed(w, p) \/ Told(w, p) \/ Failed(w, p)
<1>1. task[w] \in Task /\ task[w].page \in Seq(Persons) /\ task[w].page # <<>>
  BY DEF TaskTypes, Task, Remind
<1>2. p \in Persons /\ Tail(task[w].page) \in Seq(Persons)
  BY <1>1
<1>3. PICK m \in Mails : m = mailOf[p]
  BY <1>2 DEF HomesOK
<1>4. PICK items : items = IncompleteItems(task[w], m)
  OBVIOUS
<1>5. PICK next : next = [task[w] EXCEPT !.page = Tail(task[w].page), !.seen = task[w].seen \cup {m}]
  OBVIOUS
<1>6. PICK page \in Seq(Persons), seen \in SUBSET Mails : page = Tail(task[w].page) /\ seen = task[w].seen \cup {m}
  <2>1. task[w].seen \cup {m} \in SUBSET Mails
    BY <1>1 DEF Task
  <2> QED
    BY <1>2, <2>1
<1>7. /\ next \in Task /\ SameReminder(task[w], next)
      /\ Has(next, page, seen, task[w].told, task[w].again, task[w].failed, task[w].asked)
  <2>1. task[w] \in Task /\ next = [task[w] EXCEPT !.page = page, !.seen = seen]
    BY <1>1, <1>5, <1>6
  <2> QED
    BY <1>6, <2>1, PassOverFacts
<1>8. \/ (m \in task[w].seen \/ items = {}) /\ task'[w] = next
      \/ /\ m \notin task[w].seen
         /\ task'[w] = [next EXCEPT !.told = next.told \cup {p}, !.again = next.again \cup ({p} \cap task[w].told),
                                 !.asked = next.asked \cup {p} \X items]
      \/ task'[w] = [next EXCEPT !.failed = next.failed \cup {p}]
  BY <1>3, <1>4, <1>5 DEF Remind, Reminded, Becomes, TaskTypes
<1>9. CASE (m \in task[w].seen \/ items = {}) /\ task'[w] = next
  BY <1>1, <1>2, <1>3, <1>4, <1>6, <1>7, <1>9 DEF Passed, Has
<1>10. CASE /\ m \notin task[w].seen
            /\ task'[w] = [next EXCEPT !.told = next.told \cup {p}, !.again = next.again \cup ({p} \cap task[w].told),
                                    !.asked = next.asked \cup {p} \X items]
  <2>1. next.told \cup {p} \in SUBSET Persons /\ next.again \cup ({p} \cap task[w].told) \in SUBSET Persons
    BY <1>1, <1>2, <1>7 DEF Task, Has
  <2>2. next.asked \cup {p} \X items \in Demands
    BY <1>1, <1>2, <1>4, <1>7 DEF Task, Demands, IncompleteItems, Has
  <2>3. PICK told \in SUBSET Persons, again \in SUBSET Persons, asked \in Demands :
           /\ told = next.told \cup {p} /\ again = next.again \cup ({p} \cap task[w].told)
           /\ asked = next.asked \cup {p} \X items
    BY <2>1, <2>2
  <2>4. task'[w] = [next EXCEPT !.told = told, !.again = again, !.asked = asked]
    BY <1>10, <2>3
  <2>5. /\ task'[w] \in Task /\ SameReminder(next, task'[w])
        /\ Has(task'[w], next.page, next.seen, told, again, next.failed, asked)
    <3>1. PICK u : u = [next EXCEPT !.told = told, !.again = again, !.asked = asked]
      OBVIOUS
    <3>2. next \in Task
      BY <1>7
    <3>3. u \in Task /\ SameReminder(next, u) /\ Has(u, next.page, next.seen, told, again, next.failed, asked)
      BY <3>1, <3>2, TellFacts
    <3> QED
      BY <2>4, <3>1, <3>3
  <2> QED
    BY <1>1, <1>2, <1>3, <1>4, <1>6, <1>7, <1>10, <2>3, <2>5 DEF Told, SameReminder, Has
<1>11. CASE task'[w] = [next EXCEPT !.failed = next.failed \cup {p}]
  <2>1. PICK failed \in SUBSET Persons : failed = next.failed \cup {p}
    BY <1>1, <1>2, <1>7 DEF Task, Has
  <2>2. task'[w] = [next EXCEPT !.failed = failed]
    BY <1>11, <2>1
  <2>3. /\ task'[w] \in Task /\ SameReminder(next, task'[w])
        /\ Has(task'[w], next.page, next.seen, next.told, next.again, failed, next.asked)
    BY <1>7, <2>1, <2>2, FailFacts
  <2> QED
    BY <1>1, <1>2, <1>3, <1>6, <1>7, <2>1, <2>3 DEF Failed, SameReminder, Has
<1> QED
  BY <1>8, <1>9, <1>10, <1>11

LEMMA HandleFacts ==
    ASSUME NEW w \in Processes, TaskTypes(w), HandleReminders(w)
    PROVE  /\ task'[w] \in Task /\ task'[w].calendar = calendar
           /\ task'[w].due = IF open /\ day \in calendar.start..LastDay THEN Due(calendar, day) ELSE {}
           /\ ~ task'[w].begun /\ ~ task'[w].last /\ task'[w].page = <<>>
           /\ task'[w].expected = {} /\ task'[w].told = {} /\ task'[w].again = {} /\ task'[w].asked = {}
<1>1. PICK due : due = IF open /\ day \in calendar.start..LastDay THEN Due(calendar, day) ELSE {}
  OBVIOUS
<1>2. due \in SUBSET Reminder /\ calendar \in Calendar
  BY <1>1 DEF Due, TaskTypes
<1>3. task'[w] = [Idle EXCEPT !.due = due]
  BY <1>1 DEF HandleReminders, Becomes, TaskTypes
<1>4. Idle \in Task /\ Idle.calendar = calendar /\ Idle.begun = FALSE /\ Idle.last = FALSE /\ Idle.page = <<>>
      /\ Idle.expected = {} /\ Idle.told = {} /\ Idle.again = {} /\ Idle.asked = {}
  BY <1>2, IdleFacts
<1>5. task'[w] \in Task
  BY <1>2, <1>3, <1>4 DEF Task
<1> QED
  BY <1>1, <1>3, <1>4, <1>5 DEF Task

LEMMA RosterFacts ==
    ASSUME NEW w \in Processes, TaskTypes(w), EditRoster
    PROVE  /\ roster' \in Seq(Persons) /\ task'[w] \in Task
           /\ task'[w].due = task[w].due /\ task'[w].begun = task[w].begun /\ task'[w].calendar = task[w].calendar
           /\ task'[w].first = task[w].first /\ task'[w].last = task[w].last /\ task'[w].page = task[w].page
           /\ task'[w].seen = task[w].seen /\ task'[w].finished = task[w].finished /\ task'[w].expected = task[w].expected
           /\ task'[w].told = task[w].told /\ task'[w].again = task[w].again /\ task'[w].failed = task[w].failed
           /\ task'[w].asked = task[w].asked /\ task'[w].open = task[w].open /\ task'[w].unsettled = task[w].begun
<1>1. task[w] \in Task /\ roster \in Seq(Persons)
  BY DEF TaskTypes
<1>2. roster' \in Seq(Persons)
  <2>1. ASSUME NEW n \in DOMAIN roster, roster' = RemoveAt(roster, n)
        PROVE  roster' \in Seq(Persons)
    BY <1>1, <2>1 DEF RemoveAt
  <2>2. ASSUME NEW p \in Persons, NEW n \in 1..(Len(roster) + 1), roster' = InsertAt(roster, n, p)
        PROVE  roster' \in Seq(Persons)
    BY <1>1, <2>2 DEF InsertAt
  <2>3. ASSUME NEW n \in DOMAIN roster, NEW k \in DOMAIN roster,
               roster' = InsertAt(RemoveAt(roster, n), k, roster[n])
        PROVE  roster' \in Seq(Persons)
    <3>1. PICK others : others = RemoveAt(roster, n)
      OBVIOUS
    <3>2. others \in Seq(Persons) /\ Len(others) = Len(roster) - 1 /\ roster[n] \in Persons
      <4>1. PICK len \in Nat : len = Len(roster) /\ n \in 1..len
        BY <1>1
      <4>2. PICK front, back : front = SubSeq(roster, 1, n - 1) /\ back = SubSeq(roster, n + 1, len)
        OBVIOUS
      <4>3. /\ front \in Seq(Persons) /\ Len(front) = n - 1
            /\ back \in Seq(Persons) /\ Len(back) = len - n
        BY <1>1, <4>1, <4>2
      <4>4. others = front \o back
        BY <3>1, <4>1, <4>2 DEF RemoveAt
      <4>5. others \in Seq(Persons) /\ Len(others) = len - 1
        BY <4>1, <4>3, <4>4
      <4> QED
        BY <1>1, <4>1, <4>5
    <3>3. k \in 1..(Len(others) + 1)
      BY <1>1, <3>2
    <3>4. InsertAt(others, k, roster[n]) \in Seq(Persons)
      BY <3>2, <3>3 DEF InsertAt
    <3> QED
      BY <2>3, <3>1, <3>4
  <2> QED
    BY <2>1, <2>2, <2>3 DEF EditRoster
<1>3. PICK yes \in BOOLEAN : yes = task[w].begun
  BY <1>1 DEF Task
<1>4. task'[w] = [task[w] EXCEPT !.unsettled = yes]
  BY <1>3 DEF EditRoster
<1>5. task'[w] \in Task
  BY <1>1, <1>3, <1>4 DEF Task
<1> QED
  BY <1>1, <1>2, <1>3, <1>4, <1>5 DEF Task

-----------------------------------------------------------------------------
(* The steps keep what is true of the task. *)

\* Links and people move under the task, which stays as it is.
LEMMA LinksFrame ==
    ASSUME LinksNext
    PROVE  day' = day /\ moved \subseteq moved'
BY DEF LinksNext, SendTrainingLinks, PostTrainingToken, MakeTokens, RegisterRecipient, SendTrainingLinkEmails,
       ResendTrainingLinks, DeleteTrainingToken, PostSync, SyncOne, Visit, Watch, WatchByLink, ChangeMail, ghosts

LEMMA TaskStands ==
    ASSUME NEW w \in Processes, TaskInv(w), moved \subseteq moved', day' \in Nat, day' = day \/ task[w].due = {},
           calendar' \in Calendar, UNCHANGED <<roster, task[w]>>, DOMAIN task' = DOMAIN task
    PROVE  TaskInv(w)'
<1>1. TaskTypes(w)'
  BY DEF TaskInv, TaskTypes
<1>2. DatesOK(w)'
  BY DEF TaskInv, DatesOK
<1>3. AtRest(w)'
  BY DEF TaskInv, AtRest
<1>4. AskedOK(w)'
  BY DEF TaskInv, AskedOK, Matched
<1>5. ToldOK(w)'
  BY DEF TaskInv, ToldOK
<1>6. PagesOK(w)'
  BY DEF TaskInv, PagesOK, Settled
<1> QED
  BY <1>1, <1>2, <1>3, <1>4, <1>5, <1>6 DEF TaskInv

\* The task is between two reminders, or has nothing to do.
LEMMA TaskRests ==
    ASSUME NEW w \in Processes, TaskInv(w), UNCHANGED <<day, calendar, roster>>, DOMAIN task' = DOMAIN task,
           task'[w] \in Task, ~ task'[w].begun, ~ task'[w].last, task'[w].page = <<>>,
           task'[w].expected = {}, task'[w].told = {}, task'[w].again = {}, task'[w].asked = {},
           \A b \in task'[w].due : DayOf(task'[w].calendar, b) = day
    PROVE  TaskInv(w)'
<1>1. TaskTypes(w)'
  BY DEF TaskInv, TaskTypes
<1>2. DatesOK(w)'
  BY DEF DatesOK
<1>3. AtRest(w)'
  BY DEF AtRest
<1>4. AskedOK(w)'
  BY DEF AskedOK
<1>5. ToldOK(w)'
  BY DEF ToldOK
<1>6. PagesOK(w)'
  BY DEF PagesOK
<1> QED
  BY <1>1, <1>2, <1>3, <1>4, <1>5, <1>6 DEF TaskInv

LEMMA HandleOK ==
    ASSUME NEW w \in Processes, TaskInv(w), HandleReminders(w)
    PROVE  TaskInv(w)'
<1>1. UNCHANGED <<day, calendar, roster>> /\ DOMAIN task' = DOMAIN task
  BY DEF HandleReminders, Becomes
<1>2. \A b \in task'[w].due : DayOf(task'[w].calendar, b) = day
  BY HandleFacts DEF TaskInv, Due, DayOf
<1> QED
  BY <1>1, <1>2, HandleFacts, TaskRests DEF TaskInv

LEMMA DropOK ==
    ASSUME NEW w \in Processes, TaskInv(w), Becomes(w, Idle), UNCHANGED <<day, calendar, roster>>
    PROVE  TaskInv(w)'
<1>1. calendar \in Calendar /\ DOMAIN task' = DOMAIN task /\ task'[w] = Idle
  BY DEF TaskInv, TaskTypes, Becomes
<1> QED
  BY <1>1, IdleFacts, TaskRests

\* A reminder ends; the next one is still to begin.
LEMMA EndFacts ==
    ASSUME NEW w \in Processes, TaskTypes(w), EndReminder(w)
    PROVE  \E b \in task[w].due :
              /\ held' = held \cup {[reminder |-> b, day |-> day, calendar |-> task[w].calendar, by |-> w]}
              /\ DOMAIN task' = DOMAIN task
              /\ task'[w] \in Task /\ Rests(task'[w], task[w].due \ {b}, task[w].calendar)
<1>1. PICK b \in task[w].due :
        /\ held' = held \cup {[reminder |-> b, day |-> day, calendar |-> task[w].calendar, by |-> w]}
        /\ Becomes(w, [Idle EXCEPT !.due = task[w].due \ {b}, !.calendar = task[w].calendar])
  BY DEF EndReminder
<1>2. PICK due \in SUBSET Reminder, c \in Calendar : due = task[w].due \ {b} /\ c = task[w].calendar
  BY DEF TaskTypes, Task
<1>3. task'[w] = [Idle EXCEPT !.due = due, !.calendar = c] /\ DOMAIN task' = DOMAIN task
  BY <1>1, <1>2 DEF TaskTypes, Becomes
<1>4. task'[w] \in Task /\ Rests(task'[w], due, c)
  BY <1>2, <1>3, RestFacts DEF TaskTypes
<1> QED
  BY <1>1, <1>2, <1>3, <1>4

LEMMA EndOK ==
    ASSUME NEW w \in Processes, TaskInv(w), EndReminder(w)
    PROVE  TaskInv(w)'
<1>1. PICK b \in task[w].due :
        /\ DOMAIN task' = DOMAIN task
        /\ task'[w] \in Task /\ Rests(task'[w], task[w].due \ {b}, task[w].calendar)
  BY EndFacts DEF TaskInv
<1>2. UNCHANGED <<day, calendar, roster>>
  BY DEF EndReminder, TaskStep
<1>3. \A o \in task'[w].due : DayOf(task'[w].calendar, o) = day
  BY <1>1 DEF TaskInv, DatesOK, Rests
<1> QED
  BY <1>1, <1>2, <1>3, TaskRests DEF Rests

LEMMA EndHeld ==
    ASSUME NEW w \in running, TaskInv(w), HeldOK, EndReminder(w)
    PROVE  HeldOK'
<1>1. PICK b \in task[w].due :
        held' = held \cup {[reminder |-> b, day |-> day, calendar |-> task[w].calendar, by |-> w]}
  BY EndFacts DEF TaskInv, HeldOK
<1>2. /\ b \in Reminder /\ day \in Nat /\ task[w].calendar \in Calendar
      /\ DayOf(task[w].calendar, b) = day
  BY DEF TaskInv, TaskTypes, Task, DatesOK
<1>3. PICK h : h = [reminder |-> b, day |-> day, calendar |-> task[w].calendar, by |-> w]
  OBVIOUS
<1>4. /\ h \in [reminder : Reminder, day : Nat, calendar : Calendar, by : running]
      /\ DayOf(h.calendar, h.reminder) = h.day
  BY <1>2, <1>3
<1>5. running' = running
  BY DEF EndReminder, TaskStep
<1> QED
  BY <1>1, <1>3, <1>4, <1>5 DEF HeldOK

LEMMA EditRosterOK ==
    ASSUME NEW w \in Processes, TaskInv(w), EditRoster
    PROVE  TaskInv(w)'
<1>1. UNCHANGED <<day, calendar, moved>>
  BY DEF EditRoster, Edit, ghosts
<1>2. TaskTypes(w)
  BY DEF TaskInv
<1>3. TaskTypes(w)'
  BY <1>1, <1>2, RosterFacts DEF TaskTypes, EditRoster
<1>4. DatesOK(w)'
  BY <1>1, <1>2, RosterFacts DEF TaskInv, DatesOK
<1>5. AtRest(w)'
  BY <1>1, <1>2, RosterFacts DEF TaskInv, AtRest
<1>6. AskedOK(w)'
  BY <1>1, <1>2, RosterFacts DEF TaskInv, AskedOK, Matched
<1>7. ToldOK(w)'
  BY <1>1, <1>2, RosterFacts DEF TaskInv, ToldOK
<1>8. PagesOK(w)'
  BY <1>1, <1>2, RosterFacts DEF PagesOK
<1> QED
  BY <1>3, <1>4, <1>5, <1>6, <1>7, <1>8 DEF TaskInv

\* As long as nobody moves, what the representation at p's address has done is what p has.
LEMMA ByAddress ==
    ASSUME HomesOK, RepsOK, moved = {}, NEW p \in Persons, NEW i \in CourseItems
    PROVE  i \in Unfinished(p) <=> ~ \E r \in At(HomeMail[p]) : <<r.id, i>> \in done
<1>1. mailOf[p] = HomeMail[p]
  BY DEF HomesOK
<1>2. ASSUME NEW r \in reps
      PROVE  (r.owner = p \/ (r.owner = NoOwner /\ r.mail = mailOf[p])) <=> r.mail = HomeMail[p]
  BY <1>1, PersonAssumption DEF RepsOK
<1> QED
  BY <1>2 DEF Unfinished, At

\* Who has what left to do as the reminder b begins, and who is to be written to.
Reads(b, finished, todo, expected) ==
    LET all == b.kind = "initial"
    IN  /\ todo = {x \in Persons \X CourseItems : all \/ x[2] \in Unfinished(x[1])}
        /\ finished = IF all THEN {}
                      ELSE {x \in Mails \X CourseItems : \E r \in At(x[1]) : <<r.id, x[2]>> \in done}
        /\ expected = {p \in ToSet(roster) : \E i \in CourseItems : <<p, i>> \in todo}

LEMMA BeginReads ==
    ASSUME NEW w \in Processes, TaskTypes(w), BeginReminder(w)
    PROVE  \E b, finished, todo, expected :
              /\ Reads(b, finished, todo, expected)
              /\ task'[w] \in Task /\ Begun(task'[w], task[w].due, task[w].calendar, finished, todo, expected)
<1>1. PICK b \in task[w].due :
        Becomes(w, [Idle EXCEPT
             !.due = task[w].due, !.begun = TRUE, !.calendar = task[w].calendar,
             !.finished = IF b.kind = "initial" THEN {}
                          ELSE {x \in Mails \X CourseItems : \E r \in At(x[1]) : <<r.id, x[2]>> \in done},
             !.open = {x \in Persons \X CourseItems : b.kind = "initial" \/ x[2] \in Unfinished(x[1])},
             !.expected = {p \in ToSet(roster) : \E i \in CourseItems :
                             <<p, i>> \in {x \in Persons \X CourseItems :
                                             b.kind = "initial" \/ x[2] \in Unfinished(x[1])}}])
  BY Zenon DEF BeginReminder
<1>2. PICK due, c, finished, todo, expected, yes :
        /\ due = task[w].due /\ c = task[w].calendar /\ yes = TRUE
        /\ todo = {x \in Persons \X CourseItems : b.kind = "initial" \/ x[2] \in Unfinished(x[1])}
        /\ finished = IF b.kind = "initial" THEN {}
                      ELSE {x \in Mails \X CourseItems : \E r \in At(x[1]) : <<r.id, x[2]>> \in done}
        /\ expected = {p \in ToSet(roster) : \E i \in CourseItems : <<p, i>> \in todo}
  OBVIOUS
<1>3. Becomes(w, [Idle EXCEPT !.due = due, !.begun = yes, !.calendar = c,
                              !.finished = finished, !.open = todo, !.expected = expected])
  BY <1>1, <1>2
<1>4. task'[w] = [Idle EXCEPT !.due = due, !.begun = yes, !.calendar = c,
                              !.finished = finished, !.open = todo, !.expected = expected]
  BY <1>3 DEF Becomes, TaskTypes
<1>5. todo \in Demands /\ finished \in Finishes
  BY <1>2 DEF Demands, Finishes
<1>6. expected \in SUBSET Persons
  BY <1>2 DEF ToSet, TaskTypes
<1>7. due \in SUBSET Reminder /\ c \in Calendar /\ calendar \in Calendar /\ yes \in BOOLEAN /\ yes
  BY <1>2 DEF TaskTypes, Task
<1>8. task'[w] \in Task /\ Begun(task'[w], due, c, finished, todo, expected)
  BY <1>4, <1>5, <1>6, <1>7, BeginFacts
<1>9. Reads(b, finished, todo, expected)
  BY <1>2, Zenon DEF Reads
<1> QED
  BY <1>2, <1>8, <1>9

LEMMA BeginOK ==
    ASSUME NEW w \in Processes, TaskInv(w), HomesOK, RepsOK, BeginReminder(w)
    PROVE  TaskInv(w)'
<1>1. UNCHANGED <<day, mailOf, reps, done, calendar, roster, moved>>
  BY DEF BeginReminder, TaskStep, ghosts
<1>2. PICK b, finished, todo, expected :
        /\ Reads(b, finished, todo, expected)
        /\ task'[w] \in Task /\ Begun(task'[w], task[w].due, task[w].calendar, finished, todo, expected)
  BY BeginReads, Zenon DEF TaskInv
<1>3. PICK all : all = (b.kind = "initial")
  OBVIOUS
<1>4. /\ todo = {x \in Persons \X CourseItems : all \/ x[2] \in Unfinished(x[1])}
      /\ finished = IF all THEN {}
                    ELSE {x \in Mails \X CourseItems : \E r \in At(x[1]) : <<r.id, x[2]>> \in done}
      /\ expected = {p \in ToSet(roster) : \E i \in CourseItems : <<p, i>> \in todo}
  BY <1>2, <1>3, Zenon DEF Reads
<1>5. TaskTypes(w)'
  BY <1>1, <1>2 DEF TaskInv, TaskTypes, BeginReminder, Becomes
<1>6. DatesOK(w)'
  BY <1>1, <1>2, <1>4 DEF TaskInv, DatesOK, Begun
<1>7. AtRest(w)'
  BY <1>2 DEF AtRest, Begun
<1>8. AskedOK(w)'
  <2>1. \A p \in task'[w].expected : \E i \in CourseItems : <<p, i>> \in task'[w].open
    BY <1>2, <1>4 DEF Begun, ToSet, TaskInv, TaskTypes
  <2>2. ASSUME moved = {}, NEW p \in Persons, NEW i \in CourseItems
        PROVE  <<p, i>> \in todo <=> <<HomeMail[p], i>> \notin finished
    <3>1. HomeMail[p] \in Mails
      BY PersonAssumption
    <3>2. CASE all
      BY <1>4, <3>1, <3>2
    <3>3. CASE ~ all
      <4>1. <<p, i>> \in todo <=> i \in Unfinished(p)
        BY <1>4, <3>3
      <4>2. <<HomeMail[p], i>> \in finished <=> \E r \in At(HomeMail[p]) : <<r.id, i>> \in done
        BY <1>4, <3>1, <3>3
      <4> QED
        BY <2>2, <4>1, <4>2, ByAddress
    <3> QED
      BY <3>2, <3>3
  <2> QED
    BY <1>1, <1>2, <2>1, <2>2 DEF AskedOK, Matched, Begun
<1>9. ToldOK(w)'
  BY <1>2 DEF ToldOK, Begun
<1>10. PagesOK(w)'
  BY <1>1, <1>2, <1>4 DEF PagesOK, TaskInv, TaskTypes, Begun
<1> QED
  BY <1>5, <1>6, <1>7, <1>8, <1>9, <1>10 DEF TaskInv

LEMMA ReadPageOK ==
    ASSUME NEW w \in Processes, TaskInv(w), ReadPage(w)
    PROVE  TaskInv(w)'
<1>1. UNCHANGED <<day, calendar, roster, moved>>
  BY DEF ReadPage, TaskStep, ghosts
<1>2. task[w].page = <<>> /\ task[w].begun
  BY DEF ReadPage, NeedsPage
<1>3. PICK page : page = SubSeq(roster, task[w].first + 1, LeastOf(Len(roster), task[w].first + PageSize))
  OBVIOUS
<1>4. /\ DOMAIN task' = DOMAIN task
      /\ task'[w] \in Task /\ page \in Seq(Persons)
      /\ task'[w].page = page /\ task'[w].first = task[w].first + PageSize
      /\ task'[w].last <=> Len(page) < PageSize
      /\ task'[w].due = task[w].due /\ task'[w].begun = task[w].begun /\ task'[w].calendar = task[w].calendar
      /\ task'[w].seen = task[w].seen /\ task'[w].finished = task[w].finished /\ task'[w].expected = task[w].expected
      /\ task'[w].told = task[w].told /\ task'[w].again = task[w].again /\ task'[w].failed = task[w].failed
      /\ task'[w].asked = task[w].asked /\ task'[w].open = task[w].open /\ task'[w].unsettled = task[w].unsettled
  BY <1>3, ReadPageFacts DEF TaskInv
<1>5. TaskTypes(w)'
  BY <1>1, <1>4 DEF TaskInv, TaskTypes
<1>6. DatesOK(w)'
  BY <1>1, <1>4 DEF TaskInv, DatesOK
<1>7. AtRest(w)'
  BY <1>2, <1>4 DEF AtRest
<1>8. AskedOK(w)'
  BY <1>1, <1>4 DEF TaskInv, AskedOK, Matched
<1>9. ToldOK(w)'
  BY <1>1, <1>4 DEF TaskInv, ToldOK
<1>10. PagesOK(w)'
  <2>1. PICK f \in Nat, k \in Nat, len \in Nat : f = task[w].first /\ k = PageSize /\ len = Len(roster) /\ k > 0
    BY CalendarAssumption DEF TaskInv, TaskTypes, Task
  <2>2. PICK e \in Nat : e = LeastOf(len, f + k)
    BY <2>1 DEF LeastOf
  <2>3. \A n \in 1..len : f < n /\ n <= f + k => n - f \in DOMAIN page /\ page[n - f] = roster[n]
    <3>1. roster \in Seq(Persons) /\ page = SubSeq(roster, f + 1, e)
      BY <1>3, <2>1, <2>2 DEF TaskInv, TaskTypes
    <3>2. e <= len /\ \A n \in 1..len : n <= f + k => n <= e
      BY <2>1, <2>2 DEF LeastOf
    <3>3. ASSUME NEW n \in 1..len, f < n, n <= f + k
          PROVE  n - f \in DOMAIN page /\ page[n - f] = roster[n]
      <4>1. n <= e /\ f + 1 <= e
        BY <2>1, <3>2, <3>3
      <4>2. Len(page) = e - f /\ page \in Seq(Persons)
        BY <2>1, <3>1, <3>2, <4>1
      <4>3. n - f \in 1..(e - f)
        BY <2>1, <3>3, <4>1
      <4>4. PICK i \in 1..(e - f), a \in Nat : i = n - f /\ a = f + 1
        BY <2>1, <4>3
      <4>5. page = SubSeq(roster, a, e) /\ i \in 1..(e - a + 1) /\ a + i - 1 = n
        <5>1. page = SubSeq(roster, a, e)
          BY <3>1, <4>4
        <5>2. e - a + 1 = e - f
          BY <4>4
        <5>3. a + i - 1 = n
          BY <4>4
        <5> QED
          BY <4>4, <5>1, <5>2, <5>3
      <4>6. page[i] = roster[a + i - 1]
        BY <3>1, <4>5
      <4> QED
        BY <4>2, <4>3, <4>4, <4>5, <4>6
    <3> QED
      BY <3>3
  <2>4. Len(page) < k => len <= f + k
    <3>1. roster \in Seq(Persons) /\ page = SubSeq(roster, f + 1, e)
      BY <1>3, <2>1, <2>2 DEF TaskInv, TaskTypes
    <3>2. e <= len /\ (~(len <= f + k) => e = f + k)
      BY <2>1, <2>2 DEF LeastOf
    <3>3. e = f + k => f + 1 <= e /\ e - (f + 1) + 1 = k
      BY <2>1
    <3>4. f + 1 <= e => Len(page) = e - (f + 1) + 1
      BY <2>1, <3>1, <3>2
    <3> QED
      BY <2>1, <3>2, <3>3, <3>4
  <2>5. ASSUME ~ task[w].unsettled, moved = {}
        PROVE  /\ task[w].expected \subseteq ToSet(roster)
               /\ \A m \in task[w].seen : \E p \in Persons : HomeMail[p] = m /\ Settled(task[w], p)
               /\ \A n \in 1..len : n <= f => Settled(task[w], roster[n])
    BY <1>2, <2>1, <2>5 DEF TaskInv, PagesOK, ToSet
  <2>6. \A p : Settled(task[w], p) => Settled(task'[w], p)
    BY <1>4 DEF Settled
  <2>7. ASSUME ~ task[w].unsettled, moved = {}, NEW n \in 1..len, n <= f + k
        PROVE  roster[n] \in ToSet(page) \/ Settled(task[w], roster[n])
    <3>1. CASE n <= f
      BY <2>5, <2>7, <3>1
    <3>2. CASE ~(n <= f)
      BY <2>1, <2>3, <2>7, <3>2 DEF ToSet
    <3> QED
      BY <3>1, <3>2
  <2> QED
    BY <1>1, <1>4, <2>1, <2>4, <2>5, <2>6, <2>7 DEF PagesOK, Settled
<1> QED
  BY <1>5, <1>6, <1>7, <1>8, <1>9, <1>10 DEF TaskInv

LEMMA RemindOK ==
    ASSUME NEW w \in Processes, TaskInv(w), HomesOK, Remind(w)
    PROVE  TaskInv(w)'
<1>1. UNCHANGED <<day, mailOf, calendar, roster, moved>>
  BY DEF Remind, TaskStep, ghosts
<1>2. PICK p, m : p = Head(task[w].page) /\ m = mailOf[p]
  OBVIOUS
<1>3. /\ p \in Persons /\ m \in Mails
      /\ task[w].page \in Seq(Persons) /\ task[w].page # <<>>
      /\ task'[w] \in Task /\ SameReminder(task[w], task'[w])
      /\ task'[w].page = Tail(task[w].page) /\ task'[w].seen = task[w].seen \cup {m}
      /\ Passed(w, p) \/ Told(w, p) \/ Failed(w, p)
  BY <1>2, RemindFacts DEF TaskInv
<1>4. task[w].begun /\ (p \notin moved => m = HomeMail[p])
  BY <1>2, <1>3 DEF TaskInv, AtRest, HomesOK
<1>5. TaskTypes(w)'
  <2>1. DOMAIN task' = DOMAIN task
    BY DEF Remind, Becomes
  <2> QED
    BY <1>1, <1>3, <2>1 DEF TaskInv, TaskTypes
<1>6. DatesOK(w)'
  BY <1>1, <1>3 DEF TaskInv, DatesOK, SameReminder
<1>7. AtRest(w)'
  BY <1>3, <1>4 DEF AtRest, SameReminder
<1>8. AskedOK(w)'
  <2>1. \A q \in task'[w].expected : \E i \in CourseItems : <<q, i>> \in task'[w].open
    BY <1>3 DEF TaskInv, AskedOK, SameReminder
  <2>2. ASSUME moved = {}
        PROVE  Matched(w)' /\ task'[w].asked \subseteq task'[w].open
    <3>1. Matched(w) /\ task[w].asked \subseteq task[w].open
      BY <1>4, <2>2 DEF TaskInv, AskedOK
    <3>2. Matched(w)'
      BY <1>3, <3>1 DEF Matched, SameReminder
    <3>3. \A i \in IncompleteItems(task[w], m) : <<p, i>> \in task[w].open
      BY <1>3, <1>4, <2>2, <3>1 DEF Matched, IncompleteItems
    <3>4. \A x \in task'[w].asked : x \in task[w].asked \/ x \in {p} \X IncompleteItems(task[w], m)
      BY <1>2, <1>3 DEF Passed, Told, Failed
    <3>5. task'[w].open = task[w].open
      BY <1>3 DEF SameReminder
    <3> QED
      BY <3>1, <3>2, <3>3, <3>4, <3>5
  <2> QED
    BY <1>1, <2>1, <2>2 DEF AskedOK
<1>9. ToldOK(w)'
  BY <1>1, <1>2, <1>3, <1>4 DEF TaskInv, ToldOK, Passed, Told, Failed
<1>10. PagesOK(w)'
  <2>0. \A q : Settled(task[w], q) => Settled(task'[w], q)
    BY <1>3 DEF Settled, SameReminder, Passed, Told, Failed
  <2>1. ASSUME ~ task[w].unsettled, moved = {}
        PROVE  Settled(task'[w], p)
    <3>2. CASE Told(w, p) \/ Failed(w, p)
      BY <3>2 DEF Told, Failed, Settled
    <3>3. CASE m \in task[w].seen
      <4>1. PICK q \in Persons : HomeMail[q] = m /\ Settled(task[w], q)
        BY <1>4, <2>1, <3>3 DEF TaskInv, PagesOK
      <4>2. q = p
        BY <1>3, <1>4, <2>1, <4>1, PersonAssumption
      <4> QED
        BY <2>0, <4>1, <4>2
    <3>4. CASE IncompleteItems(task[w], m) = {}
      <4>1. \A i \in CourseItems : <<p, i>> \notin task[w].open
        BY <1>3, <1>4, <2>1, <3>4 DEF TaskInv, AskedOK, Matched, IncompleteItems
      <4>2. p \notin task[w].expected
        BY <4>1 DEF TaskInv, AskedOK
      <4> QED
        BY <2>0, <4>2 DEF Settled
    <3> QED
      BY <1>2, <1>3, <3>2, <3>3, <3>4 DEF Passed
  <2>2. \A q \in ToSet(task[w].page) : q = p \/ q \in ToSet(Tail(task[w].page))
    <3>1. \A n \in DOMAIN task[w].page :
             n = 1 \/ (n - 1 \in DOMAIN Tail(task[w].page) /\ Tail(task[w].page)[n - 1] = task[w].page[n])
      BY <1>3
    <3>2. p = task[w].page[1]
      BY <1>2, <1>3
    <3> QED
      BY <3>1, <3>2 DEF ToSet
  <2>3. ASSUME ~ task[w].unsettled, moved = {}
        PROVE  /\ task[w].expected \subseteq ToSet(roster)
               /\ task[w].last => Len(roster) <= task[w].first
               /\ \A a \in task[w].seen \cup {m} : \E q \in Persons : HomeMail[q] = a /\ Settled(task'[w], q)
               /\ \A n \in 1..Len(roster) :
                     n <= task[w].first => roster[n] \in ToSet(Tail(task[w].page)) \/ Settled(task'[w], roster[n])
    <3>1. PagesOK(w)
      BY DEF TaskInv
    <3> QED
      BY <1>3, <1>4, <2>0, <2>1, <2>2, <2>3, <3>1 DEF PagesOK
  <2> QED
    BY <1>1, <1>3, <2>3 DEF PagesOK, SameReminder, Settled
<1> QED
  BY <1>5, <1>6, <1>7, <1>8, <1>9, <1>10 DEF TaskInv

\* What a process does changes the task of no other.
LEMMA OthersStand ==
    ASSUME NEW w \in Processes, TaskNext(w)
    PROVE  /\ UNCHANGED <<day, calendar, open, enabled, running, roster, edited, moved>>
           /\ morning' \in {morning, morning \ {w}} /\ missed' \in {missed, missed \cup {<<w, day>>}}
           /\ held \subseteq held' /\ (EndReminder(w) \/ held' = held)
           /\ DOMAIN task' = DOMAIN task
           /\ \A v \in DOMAIN task : v # w => task'[v] = task[v]
<1>1. \E t : Becomes(w, t)
       \/ task' = task
  BY DEF TaskNext, HandleReminders, MissNoon, BeginReminder, ReadPage, DropEnrollment, Remind, EndReminder, Stop
<1>2. /\ DOMAIN task' = DOMAIN task
      /\ \A v \in DOMAIN task : v # w => task'[v] = task[v]
  BY <1>1 DEF Becomes
<1> QED
  BY <1>2 DEF TaskNext, HandleReminders, MissNoon, BeginReminder, ReadPage, DropEnrollment, Remind, EndReminder, Stop,
     TaskStep, LinksStop, ghosts

LEMMA TaskNextOK ==
    ASSUME NEW w \in Processes, TaskInv(w), HomesOK, RepsOK, TaskNext(w)
    PROVE  TaskInv(w)'
<1>1. CASE MissNoon(w)
  BY <1>1, TaskStands DEF MissNoon, ghosts, TaskInv, TaskTypes
<1>2. CASE DropEnrollment(w)
  BY <1>2, DropOK DEF DropEnrollment, TaskStep
<1>3. CASE Stop(w)
  BY <1>3, DropOK DEF Stop
<1> QED
  BY <1>1, <1>2, <1>3, HandleOK, BeginOK, ReadPageOK, RemindOK, EndOK DEF TaskNext

LEMMA TaskAlways ==
    ASSUME NEW w \in Processes, LinksInv, TaskInv(w), running \subseteq Processes, [RemindersNext]_remindersVars
    PROVE  TaskInv(w)'
<1>1. day \in Nat /\ calendar \in Calendar /\ w \in DOMAIN task /\ HomesOK /\ RepsOK
  BY DEF TaskInv, TaskTypes, LinksInv
<1>2. CASE LinksNext /\ UNCHANGED taskVars
  BY <1>1, <1>2, LinksFrame, TaskStands DEF taskVars
<1>3. ASSUME NEW v \in running, TaskNext(v)
      PROVE  TaskInv(w)'
  <2>1. CASE v = w
    BY <1>1, <1>3, <2>1, TaskNextOK
  <2>2. CASE v # w
    BY <1>1, <1>3, <2>2, OthersStand, TaskStands
  <2> QED
    BY <2>1, <2>2
<1>4. ASSUME NEW p, NEW i, SendTrainingReminder(p, i)
      PROVE  TaskInv(w)'
  BY <1>1, <1>4, TaskStands DEF SendTrainingReminder, ghosts
<1>5. CASE EditEnrollment
  <2>1. calendar' \in Calendar
    BY <1>1, <1>5 DEF EditEnrollment, Calendar
  <2> QED
    BY <1>1, <1>5, <2>1, TaskStands DEF EditEnrollment, Edit, ghosts
<1>6. CASE Midnight
  BY <1>1, <1>6, TaskStands DEF Midnight, ghosts
<1>7. CASE UNCHANGED remindersVars
  BY <1>1, <1>7, TaskStands DEF remindersVars, taskVars, ghosts
<1> QED
  BY <1>2, <1>3, <1>4, <1>5, <1>6, <1>7, EditRosterOK DEF RemindersNext

LEMMA HeldAlways ==
    ASSUME HeldOK, \A w \in Processes : TaskInv(w), [RemindersNext]_remindersVars
    PROVE  HeldOK'
<1>1. ASSUME UNCHANGED <<running, held>>
      PROVE  HeldOK'
  BY <1>1 DEF HeldOK
<1>2. ASSUME NEW w \in running, TaskNext(w)
      PROVE  HeldOK'
  <2>1. w \in Processes
    BY DEF HeldOK
  <2> QED
    BY <1>1, <1>2, <2>1, EndHeld, OthersStand
<1> QED
  BY <1>1, <1>2 DEF RemindersNext, SendTrainingReminder, EditEnrollment, EditRoster, Edit, Midnight,
     remindersVars, taskVars

-----------------------------------------------------------------------------
(* The steps keep what is true over the days. *)

LEMMA DaysStand ==
    ASSUME NEW w \in Processes, DaysInv(w), UNCHANGED <<day, calendar, open, enabled, running, edited>>,
           w \in morning' <=> w \in morning, missed \subseteq missed',
           held \subseteq held', \A h \in held' : h \in held \/ h.by # w,
           task'[w].due = task[w].due, task'[w].calendar = task[w].calendar
    PROVE  DaysInv(w)'
<1>1. \A b : Came(w, b)' <=> Came(w, b)
  BY DEF Came
<1>2. \A b : Sent(w, b) => Sent(w, b)'
  BY DEF Sent
<1> QED
  BY <1>1, <1>2 DEF DaysInv

LEMMA MissNoonDays ==
    ASSUME NEW w \in Processes, TaskTypes(w), DaysInv(w), MissNoon(w)
    PROVE  DaysInv(w)'
<1>1. /\ UNCHANGED <<day, calendar, open, enabled, running, edited, held, task>>
      /\ missed' = missed \cup {<<w, day>>} /\ w \in morning /\ w \notin morning'
  BY DEF MissNoon
<1>2. \A b : Came(w, b)' => Came(w, b) \/ DayOf(calendar, b) = day
  BY <1>1 DEF Came
<1>3. \A b : Sent(w, b)' <=> Sent(w, b)
  BY <1>1 DEF Sent
<1> QED
  BY <1>1, <1>2, <1>3 DEF DaysInv

LEMMA HandleDays ==
    ASSUME NEW w \in Processes, TaskTypes(w), DaysInv(w), HandleReminders(w)
    PROVE  DaysInv(w)'
<1>1. /\ UNCHANGED <<day, calendar, open, enabled, running, edited, held, missed>>
      /\ w \in morning /\ w \notin morning'
  BY DEF HandleReminders
<1>2. /\ task'[w].calendar = calendar
      /\ task'[w].due = IF open /\ day \in calendar.start..LastDay THEN Due(calendar, day) ELSE {}
  BY HandleFacts
<1>3. \A b : Came(w, b)' => DayOf(calendar, b) \in calendar.start..LastDay /\ (Came(w, b) \/ DayOf(calendar, b) = day)
  BY <1>1 DEF Came
<1>4. \A b : Sent(w, b)' <=> Sent(w, b)
  BY <1>1 DEF Sent
<1>5. ASSUME w \in running, ~ edited, open, NEW b \in Reminder, DayOf(calendar, b) = day, day \in calendar.start..LastDay
      PROVE  b \in task'[w].due
  BY <1>2, <1>5 DEF DaysInv, Due, Reminder, DayOf
<1>6. ASSUME w \in running, ~ edited, open, NEW b \in Reminder, Came(w, b)'
      PROVE  \/ Sent(w, b) \/ <<w, DayOf(calendar, b)>> \in missed
             \/ DayOf(calendar, b) = day /\ b \in task'[w].due
  <2>1. CASE Came(w, b)
    BY <1>1, <1>3, <1>5, <1>6, <2>1 DEF DaysInv
  <2>2. CASE DayOf(calendar, b) = day
    BY <1>3, <1>5, <1>6, <2>2
  <2> QED
    BY <1>3, <1>6, <2>1, <2>2
<1> QED
  BY <1>1, <1>2, <1>4, <1>6 DEF DaysInv

\* What was due is dropped on a day that counts as missed.
LEMMA DropDays ==
    ASSUME NEW w \in Processes, TaskTypes(w), DaysInv(w), Becomes(w, Idle),
           UNCHANGED <<day, calendar, morning, open, enabled, running, edited, held>>,
           missed \subseteq missed', task[w].due # {} => <<w, day>> \in missed'
    PROVE  DaysInv(w)'
<1>1. task'[w].due = {} /\ task'[w].calendar = calendar
  BY IdleFacts DEF TaskTypes, Becomes
<1>2. \A b : Came(w, b)' <=> Came(w, b)
  BY DEF Came
<1>3. \A b : Sent(w, b)' <=> Sent(w, b)
  BY DEF Sent
<1> QED
  BY <1>1, <1>2, <1>3 DEF DaysInv

LEMMA EndDays ==
    ASSUME NEW w \in Processes, TaskTypes(w), DaysInv(w), EndReminder(w)
    PROVE  DaysInv(w)'
<1>1. UNCHANGED <<day, calendar, morning, open, enabled, running, edited, missed>>
  BY DEF EndReminder, TaskStep
<1>2. PICK b \in task[w].due :
        /\ held' = held \cup {[reminder |-> b, day |-> day, calendar |-> task[w].calendar, by |-> w]}
        /\ Rests(task'[w], task[w].due \ {b}, task[w].calendar)
  BY EndFacts
<1>3. PICK h : h = [reminder |-> b, day |-> day, calendar |-> task[w].calendar, by |-> w]
  OBVIOUS
<1>4. held' = held \cup {h} /\ h.reminder = b /\ h.calendar = task[w].calendar /\ h.by = w
  BY <1>2, <1>3
<1>5. \A o : Came(w, o)' <=> Came(w, o)
  BY <1>1 DEF Came
<1>6. \A o : Sent(w, o)' <=> Sent(w, o) \/ o = b
  BY <1>4 DEF Sent
<1> QED
  BY <1>1, <1>2, <1>4, <1>5, <1>6 DEF DaysInv, Rests

LEMMA MidnightDays ==
    ASSUME NEW w \in Processes, TaskTypes(w), DaysInv(w), Midnight
    PROVE  DaysInv(w)'
<1>1. /\ UNCHANGED <<calendar, open, enabled, running, task, edited, held, missed>>
      /\ w \notin morning /\ morning' = running /\ task[w].due = {} /\ day' = day + 1
  BY DEF Midnight
<1>2. ASSUME w \in running, NEW b, Came(w, b)'
      PROVE  Came(w, b)
  <2>1. PICK d, s : d = DayOf(calendar, b) /\ s = calendar.start
    OBVIOUS
  <2>2. d \in s..LastDay /\ d < day + 1
    BY <1>1, <1>2, <2>1 DEF Came
  <2>3. day \in Nat /\ s \in Nat /\ LastDay \in Nat
    BY <2>1, CourseTypes DEF TaskTypes
  <2>4. d < day \/ d = day
    BY <2>2, <2>3
  <2> QED
    BY <1>1, <2>1, <2>2, <2>4 DEF Came
<1>3. \A b : Sent(w, b)' <=> Sent(w, b)
  BY <1>1 DEF Sent
<1> QED
  BY <1>1, <1>2, <1>3 DEF DaysInv

LEMMA TaskNextDays ==
    ASSUME NEW w \in Processes, TaskInv(w), HomesOK, DaysInv(w), TaskNext(w)
    PROVE  DaysInv(w)'
<1>1. TaskTypes(w)
  BY DEF TaskInv
<1>2. CASE BeginReminder(w)
  <2>1. task'[w].due = task[w].due /\ task'[w].calendar = task[w].calendar
    BY <1>1, <1>2, BeginReads, Zenon DEF Begun
  <2> QED
    BY <1>2, <2>1, DaysStand DEF BeginReminder, TaskStep
<1>3. CASE ReadPage(w)
  <2>1. task'[w].due = task[w].due /\ task'[w].calendar = task[w].calendar
    BY <1>1, <1>3, ReadPageFacts
  <2> QED
    BY <1>3, <2>1, DaysStand DEF ReadPage, TaskStep
<1>4. CASE Remind(w)
  <2>1. task'[w].due = task[w].due /\ task'[w].calendar = task[w].calendar
    BY <1>1, <1>4, RemindFacts DEF SameReminder
  <2> QED
    BY <1>4, <2>1, DaysStand DEF Remind, TaskStep
<1>5. CASE DropEnrollment(w)
  BY <1>1, <1>5, DropDays DEF DropEnrollment, TaskStep
<1>6. CASE Stop(w)
  BY <1>1, <1>6, DropDays DEF Stop
<1> QED
  BY <1>1, <1>2, <1>3, <1>4, <1>5, <1>6, HandleDays, MissNoonDays, EndDays DEF TaskNext

LEMMA DaysAlways ==
    ASSUME NEW w \in Processes, LinksInv, HeldOK, \A v \in Processes : TaskInv(v), DaysInv(w),
           [RemindersNext]_remindersVars
    PROVE  DaysInv(w)'
<1>1. TaskInv(w) /\ TaskTypes(w) /\ HomesOK /\ w \in DOMAIN task
  BY DEF TaskInv, TaskTypes, LinksInv
<1>2. CASE LinksNext /\ UNCHANGED taskVars
  BY <1>2, LinksFrame, DaysStand DEF taskVars
<1>3. ASSUME NEW p, NEW i, SendTrainingReminder(p, i)
      PROVE  DaysInv(w)'
  BY <1>3, DaysStand DEF SendTrainingReminder
<1>4. ASSUME NEW v \in running, TaskNext(v)
      PROVE  DaysInv(w)'
  <2>1. CASE v = w
    BY <1>1, <1>4, <2>1, TaskNextDays
  <2>2. CASE v # w
    <3>1. v \in Processes /\ TaskTypes(v)
      BY DEF HeldOK, TaskInv
    <3>2. \A h \in held' : h \in held \/ h.by # w
      <4>1. CASE held' = held
        BY <4>1
      <4>2. CASE EndReminder(v)
        <5>1. PICK b \in task[v].due :
                held' = held \cup {[reminder |-> b, day |-> day, calendar |-> task[v].calendar, by |-> v]}
          BY <3>1, <4>2, EndFacts
        <5>2. PICK g : g = [reminder |-> b, day |-> day, calendar |-> task[v].calendar, by |-> v]
          OBVIOUS
        <5>3. held' = held \cup {g} /\ g.by = v
          BY <5>1, <5>2
        <5> QED
          BY <2>2, <5>3
      <4> QED
        BY <1>4, <3>1, <4>1, <4>2, OthersStand
    <3>3. /\ UNCHANGED <<day, calendar, open, enabled, running, edited>>
          /\ w \in morning' <=> w \in morning
          /\ missed \subseteq missed' /\ held \subseteq held' /\ task'[w] = task[w]
      BY <1>1, <1>4, <2>2, <3>1, OthersStand
    <3> QED
      BY <3>2, <3>3, DaysStand
  <2> QED
    BY <2>1, <2>2
<1>5. CASE EditEnrollment \/ EditRoster
  BY <1>5 DEF EditEnrollment, EditRoster, Edit, DaysInv
<1>6. CASE UNCHANGED remindersVars
  BY <1>6, DaysStand DEF remindersVars, taskVars
<1> QED
  BY <1>1, <1>2, <1>3, <1>4, <1>5, <1>6, MidnightDays DEF RemindersNext

-----------------------------------------------------------------------------

LEMMA AtFirst ==
    ASSUME RemindersInit
    PROVE  DeliveryInv
<1>1. LinksInv
  <2>1. /\ mailOf = HomeMail /\ tokens = {} /\ reps = {} /\ moved = {} /\ request = NoRequest
    BY DEF RemindersInit, LinksInit
  <2>2. HomesOK /\ TokensOK /\ RepsOK /\ InvitationCarriedOut
    BY <2>1, PersonAssumption DEF HomesOK, TokensOK, RepsOK, InvitationCarriedOut
  <2>3. RequestOK
    BY <2>1 DEF RequestOK, NoRequest
  <2> QED
    BY <2>2, <2>3 DEF LinksInv
<1>2. /\ day = 0 /\ calendar \in Calendar /\ roster = Participants
      /\ running \subseteq Processes /\ morning = running
      /\ task = [w \in Processes |-> Idle] /\ held = {} /\ enabled = ReminderKinds
  BY DEF RemindersInit, LinksInit
<1>3. HeldOK
  BY <1>2 DEF HeldOK
<1>4. ASSUME NEW w \in Processes
      PROVE  TaskInv(w) /\ DaysInv(w)
  <2>1. task[w] = Idle /\ w \in DOMAIN task
    BY <1>2
  <2>2. TaskTypes(w)
    BY <1>2, <2>1, IdleFacts, CalendarAssumption DEF TaskTypes
  <2>3. TaskInv(w)
    BY <1>2, <2>1, <2>2, IdleFacts DEF TaskInv, DatesOK, AtRest, AskedOK, ToldOK, PagesOK
  <2>4. ASSUME w \in running, NEW b, Came(w, b)
        PROVE  FALSE
    <3>1. PICK d, s : d = DayOf(calendar, b) /\ s = calendar.start
      OBVIOUS
    <3>2. d \in s..LastDay /\ d < 0
      BY <1>2, <2>4, <3>1 DEF Came
    <3>3. s \in Nat /\ LastDay \in Nat
      BY <1>2, <3>1, CourseTypes
    <3> QED
      BY <3>2, <3>3
  <2>5. DaysInv(w)
    BY <1>2, <2>1, <2>4, IdleFacts DEF DaysInv
  <2> QED
    BY <2>3, <2>5
<1> QED
  BY <1>1, <1>3, <1>4 DEF DeliveryInv

(* The inductive invariant of links and reminders holds all along. *)
THEOREM DeliveryAlways == RemindersSpec => []DeliveryInv
<1>1. RemindersInit => DeliveryInv
  BY AtFirst
<1>2. DeliveryInv /\ [RemindersNext]_remindersVars => DeliveryInv'
  <2>1. SUFFICES ASSUME DeliveryInv, [RemindersNext]_remindersVars
                 PROVE  DeliveryInv'
    OBVIOUS
  <2>2. /\ LinksInv /\ HeldOK /\ running \subseteq Processes
        /\ \A w \in Processes : TaskInv(w) /\ TaskTypes(w) /\ DaysInv(w)
    BY <2>1 DEF DeliveryInv, HeldOK, TaskInv
  <2>3. LinksInv' /\ HeldOK'
    BY <2>1, <2>2, LinksAlways, HeldAlways
  <2>4. \A w \in Processes : TaskInv(w)' /\ DaysInv(w)'
    BY <2>1, <2>2, TaskAlways, DaysAlways
  <2> QED
    BY <2>3, <2>4 DEF DeliveryInv
<1> QED
  BY <1>1, <1>2, PTL DEF RemindersSpec

LEMMA EachOnceHere ==
    ASSUME NEW w \in Processes, TaskInv(w)
    PROVE  EachOnce(task[w])
<1>1. ASSUME ListRead(task[w]), NEW p \in task[w].expected, ~ task[w].unsettled, moved = {}
      PROVE  p \in task[w].told \cup task[w].failed
  <2>1. /\ p \in ToSet(roster) /\ Len(roster) <= task[w].first
        /\ \A n \in 1..Len(roster) : n <= task[w].first => roster[n] \in ToSet(<<>>) \/ Settled(task[w], roster[n])
    BY <1>1 DEF TaskInv, PagesOK, ListRead
  <2>2. task[w].first \in Nat /\ roster \in Seq(Persons)
    BY DEF TaskInv, TaskTypes, Task
  <2>3. PICK n \in 1..Len(roster) : roster[n] = p
    BY <2>1, <2>2 DEF ToSet
  <2>4. n <= task[w].first
    BY <2>1, <2>2, <2>3
  <2>5. Settled(task[w], p)
    BY <2>1, <2>3, <2>4 DEF ToSet
  <2> QED
    BY <1>1, <2>5 DEF Settled
<1>2. task[w].again \subseteq moved
  BY DEF TaskInv, ToldOK
<1> QED
  BY <1>1, <1>2 DEF EachOnce

LEMMA OncePerProcessHere ==
    ASSUME HeldOK, \A w \in Processes : TaskInv(w) /\ DaysInv(w)
    PROVE  OncePerProcess
<1>1. \A w \in running : EachOnce(task[w])
  BY EachOnceHere DEF HeldOK
<1>2. ASSUME ~ edited, open, NEW s \in 1..Sections, NEW k \in ReminderKinds,
             NEW b, b = [section |-> s, kind |-> k], Owed(b),
             NEW w \in running, w \notin {h.by : h \in {g \in held : g.reminder = b}}
      PROVE  <<w, DateOf(calendar, s, k)>> \in missed
  <2>1. b \in Reminder /\ DayOf(calendar, b) = DateOf(calendar, s, k)
    BY <1>2 DEF Reminder, DayOf
  <2>2. Came(w, b)
    BY <1>2 DEF Owed, Came, DayOf
  <2>3. TaskTypes(w) /\ DaysInv(w)
    BY DEF HeldOK, TaskInv
  <2>4. DayOf(calendar, b) # day
    <3>1. PICK d, c : d = DayOf(calendar, b) /\ c = calendar.start
      OBVIOUS
    <3>2. d \in c..LastDay /\ d < day
      BY <1>2, <3>1 DEF Owed, DayOf
    <3>3. day \in Nat /\ c \in Nat /\ LastDay \in Nat
      BY <2>3, <3>1, CourseTypes DEF TaskTypes
    <3> QED
      BY <3>1, <3>2, <3>3
  <2>5. ~ Sent(w, b)
    BY <1>2 DEF Sent
  <2> QED
    BY <1>2, <2>1, <2>2, <2>3, <2>4, <2>5 DEF DaysInv
<1>3. ASSUME ~ edited, NEW g \in held, NEW h \in held, g.reminder = h.reminder, g.by = h.by
      PROVE  g = h
  <2>1. PICK w \in running : w = g.by /\ w \in Processes
    BY DEF HeldOK
  <2>2. g.calendar = h.calendar
    BY <1>3, <2>1 DEF DaysInv
  <2>3. g.day = h.day
    BY <1>3, <2>2 DEF HeldOK
  <2> QED
    BY <1>3, <2>2, <2>3 DEF HeldOK
<1> QED
  BY <1>1, <1>2, <1>3 DEF OncePerProcess

LEMMA FollowupHere ==
    ASSUME HeldOK, \A w \in Processes : TaskInv(w)
    PROVE  FollowupOnlyToUnfinished
BY DEF HeldOK, TaskInv, AskedOK, AtRest, FollowupOnlyToUnfinished

(* Every training link that was made is registered or will be, and mailed but
   for the named reasons. *)
THEOREM LinksCarriedOut == RemindersSpec => []InvitationCarriedOut
<1>1. DeliveryInv => InvitationCarriedOut
  BY DEF DeliveryInv, LinksInv
<1> QED
  BY <1>1, DeliveryAlways, PTL

(* Nobody who kept the address is counted twice for an item. *)
THEOREM NobodyCountedTwice == RemindersSpec => []CountedOnce
<1>1. DeliveryInv => CountedOnce
  BY CountedOnceHere DEF DeliveryInv
<1> QED
  BY <1>1, DeliveryAlways, PTL

(* Every reminder goes out on the first working day from which it is ripe. *)
THEOREM EveryReminderOnItsDay == RemindersSpec => []OnItsDay
<1>1. DeliveryInv => OnItsDay
  BY OnItsDayHere DEF DeliveryInv
<1> QED
  BY <1>1, DeliveryAlways, PTL

(* Each process writes to everybody on its list once, and sends each reminder on
   one day, so that everybody hears of it as often as processes came to it. *)
THEOREM EachProcessRemindsOnce == RemindersSpec => []OncePerProcess
<1>1. DeliveryInv => OncePerProcess
  BY OncePerProcessHere DEF DeliveryInv
<1> QED
  BY <1>1, DeliveryAlways, PTL

(* Unless addresses change, a follow-up names only what is not finished. *)
THEOREM NobodyAskedForMore == RemindersSpec => []FollowupOnlyToUnfinished
<1>1. DeliveryInv => FollowupOnlyToUnfinished
  BY FollowupHere DEF DeliveryInv
<1> QED
  BY <1>1, DeliveryAlways, PTL

=============================================================================
