------------------------- MODULE ParticipantsProofs -------------------------
(***************************************************************************)
(* Who is known, and who is counted: the invariants of UserRepresentations *)
(* for any number of calls, people and addresses, and that of              *)
(* SummaryPopulation for any number of users, members and summaries.       *)
(*                                                                         *)
(* UserRepresentations.  StepEffect says what one statement of one call    *)
(* may do: to the table it inserts a row, takes one over, moves one or     *)
(* leaves it; to the answer it adds one of three.  The invariants follow   *)
(* from two facts it gives: the calls on record only grow, and a row       *)
(* changes its owner only by a user who carries its email.                 *)
(*                                                                         *)
(* SummaryPopulation.  PopulationInv says what a population under way owes *)
(* to every participant (Owed) and what may still put right a participant  *)
(* that a populated summary lacks (MissOK).  Keycloak's pages are numbers  *)
(* of users before a user, so most of the work is about how such a number  *)
(* moves when users come and go.                                           *)
(***************************************************************************)
EXTENDS UserRepresentations, SummaryPopulation, FiniteSetTheorems, TLAPS

-----------------------------------------------------------------------------
(* UserRepresentations. *)


\* A call is on record from its first statement, answered by its last.
Progress(r) ==
    /\ pc[r] = "idle" <=> call[r] = NoCall
    /\ pc[r] = "done" <=> outcome[r] # "none"

ProgressOK == \A r \in Requests : Progress(r)

\* Ids are drawn from the sequence.
IdsDrawn == \A a \in Addresses : rows[a] # NoRow => rows[a].id < nextId

\* The owner of a row carried its email.
OwnersCarried ==
    \A a \in Addresses :
        (rows[a] # NoRow /\ rows[a].idpId # NoIdp) => Carried(rows[a].idpId, a)

\* A refused call is a Keycloak user's, and found its row under another email.
RefusedCarried ==
    \A r \in Requests :
        outcome[r] = "conflict" =>
            /\ IsIdp(r)
            /\ \E m \in Emails : m # Mailbox(r) /\ Carried(call[r].idpId, m)

\* The row a Keycloak user was given is still its own, unless contested.
FoundKept(r) ==
    \/ Contested(call[r].idpId)
    \/ \E a \in Owned(call[r].idpId) : rows[a].id = found[r]

\* The row a Keycloak user was given belongs to it or to someone who took it.
FoundOwned(r) ==
    \A a \in Addresses :
        (rows[a] # NoRow /\ rows[a].id = found[r]) =>
            /\ rows[a].idpId # NoIdp
            /\ rows[a].idpId # call[r].idpId => Contested(rows[a].idpId)

\* The row a token was given is still the row of its mailbox, unless vacated.
MailboxKept(r) ==
    \/ Vacated(Mailbox(r))
    \/ rows[Mailbox(r)] # NoRow /\ rows[Mailbox(r)].id = found[r]

Given(r) == outcome[r] = "found"

GivenOK ==
    \A r \in Requests : Given(r) =>
        /\ found[r] \in Nat /\ found[r] < nextId
        /\ IsIdp(r) => FoundKept(r) /\ FoundOwned(r)
        /\ IsToken(r) => MailboxKept(r)

IInv ==
    /\ TypeOK
    /\ ProgressOK
    /\ ProfileOfOwner
    /\ IdsDrawn
    /\ OwnersCarried
    /\ RefusedCarried
    /\ GivenOK

-----------------------------------------------------------------------------
(* The effect of a statement. *)

\* call c inserts its row.
Inserts(c) ==
    /\ rows[EmailOf(c)] = NoRow
    /\ c.idpId # NoIdp => Owned(c.idpId) = {}
    /\ rows' = [rows EXCEPT ![EmailOf(c)] = InsertedRow(c)]
    /\ nextId' = nextId + 1

\* call c takes over the row with its email, or renews its own.
Takes(c) ==
    /\ c.idpId # NoIdp
    /\ rows[EmailOf(c)] # NoRow
    /\ Owned(c.idpId) \subseteq {EmailOf(c)}
    /\ rows' = [rows EXCEPT ![EmailOf(c)] = TakenRow(rows[EmailOf(c)], c)]
    /\ nextId' = nextId

\* call c moves its user's row to its email.
Moves(c) ==
    /\ c.idpId # NoIdp
    /\ rows[EmailOf(c)] = NoRow
    /\ \E d \in Owned(c.idpId) :
          /\ d # EmailOf(c)
          /\ rows' = [rows EXCEPT ![d] = NoRow,
                                  ![EmailOf(c)] = TakenRow(rows[d], c)]
    /\ nextId' = nextId

Leaves == rows' = rows /\ nextId' = nextId

RowEffect(c) == Inserts(c) \/ Takes(c) \/ Moves(c) \/ Leaves

Answer(r) ==
    \/ outcome'[r] \in {"none", "notfound"}
    \/ /\ outcome'[r] = "conflict"
       /\ call'[r].idpId # NoIdp
       /\ \E m \in Owned(call'[r].idpId) : m # EmailOf(call'[r])
       /\ Leaves
    \/ /\ outcome'[r] = "found"
       /\ \E a \in Sought(call'[r]) : found'[r] = rows[a].id
       /\ Leaves

StepEffect(r) ==
    /\ call'[r] \in Call
    /\ call[r] # NoCall => call'[r] = call[r]
    /\ call' = [call EXCEPT ![r] = call'[r]]
    /\ pc' = [pc EXCEPT ![r] = pc'[r]]
    /\ outcome' = [outcome EXCEPT ![r] = outcome'[r]]
    /\ found' = [found EXCEPT ![r] = found'[r]]
    /\ pc'[r] \in PCs \ {"idle"}
    /\ outcome'[r] \in Outcomes
    /\ found'[r] \in Nat \cup {NoId}
    /\ outcome[r] = "none"
    /\ outcome'[r] # "none" <=> pc'[r] = "done"
    /\ RowEffect(call'[r])
    /\ call'[r].idpId = NoIdp => Leaves \/ Inserts(call'[r])
    /\ Answer(r)

-----------------------------------------------------------------------------
(* Facts about emails and owners. *)

LEMMA EmailFacts ==
  ASSUME NEW c \in Call
  PROVE  EmailOf(c) \in Addresses /\ EmailOf(c) \in Emails
BY NormalizedAssumption DEF Call, EmailOf, Emails

\* A row with an email that is not normalized does not exist.
LEMMA OwnedFacts ==
  ASSUME TypeOK, NEW i \in Idps, NEW a \in Owned(i)
  PROVE  a \in Addresses /\ a \in Emails /\ rows[a] \in Row /\ rows[a].idpId = i
BY DEF TypeOK, Owned

\* None owns two rows.
LEMMA OwnedUnique ==
  ASSUME TypeOK, ProfileOfOwner, NEW i \in Idps, NEW a \in Owned(i)
  PROVE  Owned(i) = {a}
BY SentinelAssumption DEF Owned, ProfileOfOwner

LEMMA RowsWritten ==
  ASSUME TypeOK, NEW c \in Call
  PROVE  /\ InsertedRow(c) \in Row
         /\ InsertedRow(c).id = nextId
         /\ InsertedRow(c).idpId = c.idpId
         /\ InsertedRow(c).profile = c.idpId
         /\ \A row \in Row : TakenRow(row, c) \in Row
         /\ \A row \in Row : TakenRow(row, c).id = row.id
         /\ \A row \in Row : TakenRow(row, c).idpId = c.idpId
         /\ \A row \in Row : TakenRow(row, c).profile = c.idpId
BY DEF TypeOK, Row, Call, InsertedRow, TakenRow

-----------------------------------------------------------------------------
(* Each statement has StepEffect. *)

LEMMA IdpUpdateEffect ==
  ASSUME IInv, NEW r \in Requests, NEW i \in Idps, NEW a \in Addresses,
         IdpUpdate(r, i, a)
  PROVE  StepEffect(r)
<1> DEFINE c == [idpId |-> i, address |-> a]
<1>0. /\ c \in Call /\ c.idpId = i /\ i # NoIdp
      /\ TypeOK /\ ProgressOK /\ ProfileOfOwner
  BY SentinelAssumption DEF Call, IInv
<1>1. /\ pc[r] = "idle" /\ call[r] = NoCall /\ outcome[r] = "none"
      /\ call' = [call EXCEPT ![r] = c] /\ call'[r] = c
  BY <1>0 DEF IdpUpdate, TypeOK, ProgressOK, Progress
<1>2. EmailOf(c) \in Addresses
  BY <1>0, EmailFacts
<1>3. CASE Continues(r, "insert") /\ UNCHANGED <<rows, nextId>>
  BY <1>0, <1>1, <1>3 DEF StepEffect, Continues, TypeOK, PCs, Outcomes,
     RowEffect, Leaves, Answer
<1>4. ASSUME NEW e \in Owned(i),
             e # EmailOf(c) => rows[EmailOf(c)] = NoRow,
             rows' = [rows EXCEPT ![e] = NoRow,
                                  ![EmailOf(c)] = TakenRow(rows[e], c)],
             Continues(r, "select"),
             UNCHANGED nextId
      PROVE  StepEffect(r)
  <2>1. Owned(i) = {e} /\ e \in Addresses /\ rows[e] # NoRow
    BY <1>0, <1>4, OwnedUnique DEF Owned
  <2>2. CASE e = EmailOf(c)
    <3>1. rows' = [rows EXCEPT ![EmailOf(c)] = TakenRow(rows[EmailOf(c)], c)]
      BY <1>0, <1>4, <2>1, <2>2 DEF TypeOK
    <3>2. Takes(c)
      BY <1>0, <1>4, <2>1, <2>2, <3>1 DEF Takes
    <3> QED
      BY <1>0, <1>1, <1>4, <3>2 DEF StepEffect, Continues, TypeOK, PCs, Outcomes,
         RowEffect, Answer
  <2>3. CASE e # EmailOf(c)
    <3>1. Moves(c)
      BY <1>0, <1>4, <2>1, <2>3 DEF Moves
    <3> QED
      BY <1>0, <1>1, <1>4, <3>1 DEF StepEffect, Continues, TypeOK, PCs, Outcomes,
         RowEffect, Answer
  <2> QED
    BY <2>2, <2>3
<1>5. ASSUME NEW e \in Owned(i), e # EmailOf(c), Conflicts(r)
      PROVE  StepEffect(r)
  BY <1>0, <1>1, <1>5 DEF StepEffect, Conflicts, Ends, TypeOK, PCs, Outcomes,
     RowEffect, Leaves, Answer
<1> QED
  BY <1>3, <1>4, <1>5 DEF IdpUpdate

LEMMA TokenUpdateEffect ==
  ASSUME IInv, NEW r \in Requests, NEW a \in Addresses, TokenUpdate(r, a)
  PROVE  StepEffect(r)
<1> DEFINE c == [idpId |-> NoIdp, address |-> a]
<1>0. c \in Call /\ c.idpId = NoIdp /\ TypeOK /\ ProgressOK
  BY DEF Call, IInv
<1>1. /\ pc[r] = "idle" /\ call[r] = NoCall /\ outcome[r] = "none"
      /\ call' = [call EXCEPT ![r] = c] /\ call'[r] = c
  BY <1>0 DEF TokenUpdate, TypeOK, ProgressOK, Progress
<1>2. Leaves
  BY <1>0, EmailFacts DEF TokenUpdate, TokenRow, Leaves, TypeOK
<1>3. \E step \in {"insert", "select"} : Continues(r, step)
  BY DEF TokenUpdate
<1> QED
  BY <1>0, <1>1, <1>2, <1>3 DEF StepEffect, Continues, TypeOK, PCs, Outcomes,
     RowEffect, Answer

\* A call with a statement left to execute is on record.
LEMMA Underway ==
  ASSUME IInv, NEW r \in Requests, pc[r] \in {"insert", "select"}
  PROVE  call[r] \in Call /\ call[r] # NoCall /\ outcome[r] = "none"
BY DEF IInv, TypeOK, ProgressOK, Progress

LEMMA IdpInsertEffect ==
  ASSUME IInv, NEW r \in Requests, IdpInsert(r)
  PROVE  StepEffect(r)
<1> DEFINE c == call[r]
<1>0. TypeOK /\ c \in Call /\ outcome[r] = "none" /\ call' = call
  BY Underway DEF IdpInsert, IInv
<1>1. CASE /\ Owned(c.idpId) \subseteq {EmailOf(c)}
           /\ rows[EmailOf(c)] = NoRow
           /\ rows' = [rows EXCEPT ![EmailOf(c)] = InsertedRow(c)]
           /\ nextId' = nextId + 1
           /\ Continues(r, "select")
  <2>1. Inserts(c)
    BY <1>1 DEF Inserts, Owned
  <2> QED
    BY <1>0, <1>1, <2>1 DEF StepEffect, Continues, TypeOK, PCs, Outcomes,
       RowEffect, Answer
<1>2. CASE /\ Owned(c.idpId) \subseteq {EmailOf(c)}
           /\ rows[EmailOf(c)] # NoRow
           /\ rows' = [rows EXCEPT ![EmailOf(c)] = TakenRow(rows[EmailOf(c)], c)]
           /\ Continues(r, "select")
           /\ UNCHANGED nextId
  <2>1. Takes(c) /\ c.idpId # NoIdp
    BY <1>2 DEF Takes, IdpInsert
  <2> QED
    BY <1>0, <1>2, <2>1 DEF StepEffect, Continues, TypeOK, PCs, Outcomes,
       RowEffect, Answer
<1>3. CASE ~ Owned(c.idpId) \subseteq {EmailOf(c)} /\ Conflicts(r)
  <2>1. \E m \in Owned(c.idpId) : m # EmailOf(c)
    BY <1>3
  <2>2. c.idpId # NoIdp
    BY DEF IdpInsert
  <2> QED
    BY <1>0, <1>3, <2>1, <2>2 DEF StepEffect, Conflicts, Ends, TypeOK, PCs,
       Outcomes, RowEffect, Leaves, Answer
<1> QED
  BY <1>1, <1>2, <1>3 DEF IdpInsert

LEMMA TokenInsertEffect ==
  ASSUME IInv, NEW r \in Requests, TokenInsert(r)
  PROVE  StepEffect(r)
<1> DEFINE c == call[r]
<1>0. TypeOK /\ c \in Call /\ outcome[r] = "none" /\ call' = call
  BY Underway DEF TokenInsert, IInv
<1>1. c.idpId = NoIdp /\ (Inserts(c) \/ Leaves)
  BY DEF TokenInsert, Inserts, Leaves
<1> QED
  BY <1>0, <1>1 DEF TokenInsert, StepEffect, Continues, TypeOK, PCs, Outcomes,
     RowEffect, Answer

LEMMA SelectEffect ==
  ASSUME IInv, NEW r \in Requests, Select(r)
  PROVE  StepEffect(r)
<1> DEFINE c == call[r]
<1>0. TypeOK /\ c \in Call /\ outcome[r] = "none" /\ call' = call /\ Leaves
  BY Underway DEF Select, IInv, Leaves
<1>1. CASE Ends(r, "notfound", NoId)
  BY <1>0, <1>1 DEF StepEffect, Ends, TypeOK, PCs, Outcomes, RowEffect, Answer
<1>2. ASSUME NEW a \in Sought(c), Ends(r, "found", rows[a].id)
      PROVE  StepEffect(r)
  <2>1. rows[a] \in Row
    BY <1>0, EmailFacts DEF TypeOK, Sought, Owned
  <2>2. rows[a].id \in Nat
    BY <2>1 DEF Row
  <2> QED
    BY <1>0, <1>2, <2>2 DEF StepEffect, Ends, TypeOK, PCs, Outcomes, RowEffect, Answer
<1> QED
  BY <1>1, <1>2 DEF Select

LEMMA EveryStepHasEffect ==
  ASSUME IInv, NEW r \in Requests, Step(r)
  PROVE  StepEffect(r)
BY IdpUpdateEffect, TokenUpdateEffect, IdpInsertEffect, TokenInsertEffect,
   SelectEffect DEF Step

-----------------------------------------------------------------------------
(* What a step leaves of the calls on record. *)

\* The step's own call joins the record; no other call changes.
LEMMA CallsGrow ==
  ASSUME TypeOK, ProgressOK, NEW r \in Requests, StepEffect(r)
  PROVE  /\ \A s \in Requests : call[s] # NoCall => call'[s] = call[s]
         /\ \A s \in Requests \ {r} : /\ call'[s] = call[s]
                                      /\ pc'[s] = pc[s]
                                      /\ outcome'[s] = outcome[s]
                                      /\ found'[s] = found[s]
         /\ call'[r] # NoCall
BY SentinelAssumption DEF StepEffect, TypeOK

LEMMA CarriedGrows ==
  ASSUME TypeOK, ProgressOK, NEW r \in Requests, StepEffect(r)
  PROVE  /\ \A i, m : Carried(i, m) => Carried(i, m)'
         /\ \A i : Contested(i) => Contested(i)'
         /\ \A m : Vacated(m) => Vacated(m)'
<1>0. \A s \in Requests : call[s] # NoCall => call'[s] = call[s]
  BY CallsGrow
<1>1. \A s \in Requests : IsIdp(s) => IsIdp(s)' /\ Mailbox(s)' = Mailbox(s)
  BY <1>0 DEF IsIdp, Mailbox
<1>2. ASSUME NEW i, NEW m, Carried(i, m)
      PROVE  Carried(i, m)'
  BY <1>0, <1>1, <1>2 DEF Carried, IsIdp
<1>3. ASSUME NEW i, Contested(i)
      PROVE  Contested(i)'
  <2>1. PICK s \in Requests :
           IsIdp(s) /\ call[s].idpId # i /\ Carried(i, Mailbox(s))
    BY <1>3 DEF Contested
  <2>2. IsIdp(s)' /\ Mailbox(s)' = Mailbox(s) /\ call'[s] = call[s]
    BY <1>0, <1>1, <2>1 DEF IsIdp
  <2>3. Carried(i, Mailbox(s))'
    BY <1>2, <2>1, <2>2 DEF Carried
  <2> QED
    BY <2>1, <2>2, <2>3 DEF Contested
<1>4. ASSUME NEW m, Vacated(m)
      PROVE  Vacated(m)'
  <2>1. PICK s \in Requests :
           IsIdp(s) /\ Mailbox(s) # m /\ Carried(call[s].idpId, m)
    BY <1>4 DEF Vacated
  <2>2. IsIdp(s)' /\ Mailbox(s)' = Mailbox(s) /\ call'[s] = call[s]
    BY <1>0, <1>1, <2>1 DEF IsIdp
  <2>3. Carried(call[s].idpId, m)'
    BY <1>2, <2>1, <2>2 DEF Carried
  <2> QED
    BY <2>1, <2>2, <2>3 DEF Vacated
<1> QED
  BY <1>2, <1>3, <1>4

\* The call that steps carried its mailbox.
LEMMA StepCarries ==
  ASSUME TypeOK, ProgressOK, NEW r \in Requests, StepEffect(r)
  PROVE  /\ Mailbox(r)' = EmailOf(call'[r])
         /\ call'[r].idpId # NoIdp =>
               IsIdp(r)' /\ Carried(call[r].idpId, Mailbox(r))'
<1>1. call'[r] # NoCall
  BY CallsGrow
<1>2. Mailbox(r)' = EmailOf(call'[r])
  BY DEF Mailbox, EmailOf
<1>3. ASSUME call'[r].idpId # NoIdp
      PROVE  IsIdp(r)'
  BY <1>1, <1>3 DEF IsIdp
<1> QED
  BY <1>2, <1>3 DEF Carried

-----------------------------------------------------------------------------
(* The conjuncts of the inductive invariant are preserved. *)

\* A row with a new owner is inserted, or its email is carried by the new
\* owner; a row that left its email was moved by its owner.
LEMMA RowsAfter ==
  ASSUME IInv, NEW r \in Requests, StepEffect(r), NEW a \in Addresses
  PROVE  LET c == call'[r]
             e == EmailOf(c)
         IN  \/ rows'[a] = rows[a]
             \/ /\ a = e /\ rows[a] = NoRow
                /\ rows'[a] = InsertedRow(c)
                /\ c.idpId # NoIdp => Owned(c.idpId) = {}
                /\ nextId' = nextId + 1
             \/ /\ a = e /\ rows[a] # NoRow /\ c.idpId # NoIdp
                /\ rows'[a] = TakenRow(rows[a], c)
                /\ Owned(c.idpId) \subseteq {e}
                /\ nextId' = nextId
             \/ /\ a = e /\ rows[a] = NoRow /\ c.idpId # NoIdp
                /\ nextId' = nextId
                /\ \E d \in Owned(c.idpId) :
                      /\ d # e
                      /\ rows'[a] = TakenRow(rows[d], c)
                      /\ rows'[d] = NoRow
             \/ /\ a # e /\ c.idpId # NoIdp /\ a \in Owned(c.idpId)
                /\ rows'[a] = NoRow
                /\ rows'[e] = TakenRow(rows[a], c)
                /\ nextId' = nextId
<1> DEFINE c == call'[r]
           e == EmailOf(c)
<1>0. e \in Addresses /\ TypeOK
  BY EmailFacts DEF StepEffect, IInv
<1>1. CASE Inserts(c)
  BY <1>0, <1>1 DEF Inserts, TypeOK
<1>2. CASE Takes(c)
  BY <1>0, <1>2 DEF Takes, TypeOK
<1>3. CASE Moves(c)
  <2>1. PICK d \in Owned(c.idpId) :
          /\ d # e
          /\ rows' = [rows EXCEPT ![d] = NoRow, ![e] = TakenRow(rows[d], c)]
    BY <1>3 DEF Moves
  <2>2. d \in Addresses
    BY DEF Owned
  <2> QED
    BY <1>0, <1>3, <2>1, <2>2 DEF Moves, TypeOK
<1>4. CASE Leaves
  BY <1>4 DEF Leaves
<1> QED
  BY <1>1, <1>2, <1>3, <1>4 DEF StepEffect, RowEffect

\* The rows after a step, in short.
LEMMA RowShape ==
  ASSUME IInv, NEW r \in Requests, StepEffect(r), NEW a \in Addresses,
         rows'[a] # NoRow
  PROVE  \/ rows'[a] = rows[a] /\ rows[a] \in Row
         \/ /\ a = EmailOf(call'[r])
            /\ rows'[a].idpId = call'[r].idpId
            /\ rows'[a].profile = call'[r].idpId
            /\ \/ rows'[a].id = nextId /\ nextId' = nextId + 1
               \/ \E d \in Addresses : rows[d] \in Row /\ rows'[a].id = rows[d].id
<1> DEFINE c == call'[r]
           e == EmailOf(c)
<1>0. /\ TypeOK /\ c \in Call
      /\ \A d \in Addresses : rows[d] # NoRow => rows[d] \in Row
      /\ \A d \in Owned(c.idpId) : d \in Addresses /\ rows[d] \in Row
  BY DEF IInv, TypeOK, StepEffect, Owned
<1>1. CASE rows'[a] = rows[a]
  BY <1>0, <1>1
<1>2. CASE a = e /\ rows'[a] = InsertedRow(c) /\ nextId' = nextId + 1
  BY <1>0, <1>2, RowsWritten
<1>3. ASSUME NEW d \in Addresses, rows[d] \in Row, a = e,
             rows'[a] = TakenRow(rows[d], c)
      PROVE  /\ a = e /\ rows'[a].idpId = c.idpId /\ rows'[a].profile = c.idpId
             /\ rows'[a].id = rows[d].id
  BY <1>0, <1>3, RowsWritten
<1>4. CASE a = e /\ rows[a] # NoRow /\ rows'[a] = TakenRow(rows[a], c)
  BY <1>0, <1>3, <1>4
<1>5. CASE a = e /\ \E d \in Owned(c.idpId) : rows'[a] = TakenRow(rows[d], c)
  BY <1>0, <1>3, <1>5
<1> QED
  BY <1>1, <1>2, <1>4, <1>5, RowsAfter

LEMMA TypeStep ==
  ASSUME IInv, NEW r \in Requests, StepEffect(r)
  PROVE  TypeOK'
<1> DEFINE c == call'[r]
           e == EmailOf(c)
<1>0. /\ TypeOK /\ c \in Call /\ e \in Addresses /\ e \in Emails
      /\ InsertedRow(c) \in Row
      /\ \A row \in Row : TakenRow(row, c) \in Row
      /\ \A d \in Owned(c.idpId) : d \in Addresses /\ rows[d] \in Row
  BY EmailFacts, RowsWritten DEF StepEffect, IInv, TypeOK, Owned
<1>1. rows' \in [Addresses -> Row \cup {NoRow}] /\ nextId' \in Nat
  BY <1>0 DEF StepEffect, RowEffect, Inserts, Takes, Moves, Leaves, TypeOK
<1>2. \A a \in Addresses : rows'[a] # NoRow => a \in Emails
  BY <1>0, RowsAfter DEF TypeOK
<1> QED
  BY <1>0, <1>1, <1>2 DEF StepEffect, TypeOK, Emails

LEMMA ProgressStep ==
  ASSUME IInv, NEW r \in Requests, StepEffect(r)
  PROVE  ProgressOK'
<1>1. TypeOK /\ ProgressOK
  BY DEF IInv
<1> QED
  BY <1>1, CallsGrow DEF StepEffect, ProgressOK, Progress

LEMMA IdsStep ==
  ASSUME IInv, NEW r \in Requests, StepEffect(r)
  PROVE  IdsDrawn' /\ nextId' \in Nat /\ nextId' >= nextId
<1>0. /\ TypeOK /\ IdsDrawn /\ nextId \in Nat
      /\ \A a \in Addresses : rows[a] # NoRow => rows[a] \in Row
      /\ nextId' \in {nextId, nextId + 1}
  BY DEF IInv, TypeOK, StepEffect, RowEffect, Inserts, Takes, Moves, Leaves
<1>1. ASSUME NEW a \in Addresses, rows'[a] # NoRow
      PROVE  rows'[a].id < nextId'
  <2>1. CASE rows'[a] = rows[a] /\ rows[a] \in Row
    BY <1>0, <1>1, <2>1 DEF IdsDrawn, Row
  <2>2. CASE rows'[a].id = nextId /\ nextId' = nextId + 1
    BY <1>0, <2>2
  <2>3. ASSUME NEW d \in Addresses, rows[d] \in Row, rows'[a].id = rows[d].id
        PROVE  rows'[a].id < nextId'
    BY <1>0, <2>3, SentinelAssumption DEF IdsDrawn, Row
  <2> QED
    BY <1>1, <2>1, <2>2, <2>3, RowShape
<1> QED
  BY <1>0, <1>1 DEF IdsDrawn

LEMMA ProfileStep ==
  ASSUME IInv, NEW r \in Requests, StepEffect(r)
  PROVE  ProfileOfOwner'
<1> DEFINE c == call'[r]
           e == EmailOf(c)
<1>0. /\ TypeOK /\ IdsDrawn /\ ProfileOfOwner
      /\ \A a \in Addresses : rows[a] # NoRow => rows[a] \in Row
      /\ e \in Addresses
      /\ c.idpId # NoIdp => c.idpId \in Idps
  BY EmailFacts DEF IInv, TypeOK, StepEffect, Call
<1>1. ASSUME NEW a \in Addresses, rows'[a] # NoRow
      PROVE  rows'[a].profile = rows'[a].idpId
  BY <1>0, <1>1, RowShape DEF ProfileOfOwner
\* One row per owner: the two rows cannot both be the step's.
<1>2. ASSUME NEW a \in Addresses, NEW b \in Addresses,
             rows'[a] # NoRow, rows'[b] # NoRow, a # b, b # e
      PROVE  /\ rows'[a].id # rows'[b].id
             /\ rows'[a].idpId = rows'[b].idpId => rows'[a].idpId = NoIdp
  <2>1. rows'[b] = rows[b] /\ rows[b] # NoRow /\ rows[b] \in Row
    BY <1>0, <1>2, RowsAfter
  <2>2. CASE rows'[a] = rows[a]
    BY <1>0, <1>2, <2>1, <2>2 DEF ProfileOfOwner
  <2>3. CASE /\ rows'[a] = InsertedRow(c)
             /\ c.idpId # NoIdp => Owned(c.idpId) = {}
    BY <1>0, <2>1, <2>3 DEF InsertedRow, IdsDrawn, Owned, Row, TypeOK
  <2>4. CASE /\ a = e /\ rows[a] # NoRow /\ c.idpId # NoIdp
             /\ rows'[a] = TakenRow(rows[a], c)
             /\ Owned(c.idpId) \subseteq {e}
    BY <1>0, <1>2, <2>1, <2>4 DEF TakenRow, Owned, ProfileOfOwner
  <2>5. CASE /\ a = e /\ c.idpId # NoIdp
             /\ \E d \in Owned(c.idpId) :
                   /\ d # e
                   /\ rows'[a] = TakenRow(rows[d], c)
                   /\ rows'[d] = NoRow
    <3>1. PICK d \in Owned(c.idpId) :
            d # e /\ rows'[a] = TakenRow(rows[d], c) /\ rows'[d] = NoRow
      BY <2>5
    <3>2. d # b /\ d \in Addresses /\ rows[d] # NoRow /\ rows[d].idpId = c.idpId
      BY <1>2, <3>1 DEF Owned
    <3> QED
      BY <1>0, <2>1, <2>5, <3>1, <3>2 DEF TakenRow, ProfileOfOwner
  <2> QED
    BY <1>2, <2>2, <2>3, <2>4, <2>5, RowsAfter
<1> QED
  BY <1>1, <1>2 DEF ProfileOfOwner

LEMMA OwnersStep ==
  ASSUME IInv, NEW r \in Requests, StepEffect(r)
  PROVE  OwnersCarried'
<1> DEFINE c == call'[r]
           e == EmailOf(c)
<1>0. TypeOK /\ ProgressOK /\ OwnersCarried
  BY DEF IInv
<1>1. SUFFICES ASSUME NEW a \in Addresses, rows'[a] # NoRow, rows'[a].idpId # NoIdp
               PROVE  Carried(rows[a].idpId, a)'
  BY DEF OwnersCarried
<1>2. CASE rows'[a] = rows[a]
  <2>1. Carried(rows[a].idpId, a)
    BY <1>0, <1>1, <1>2 DEF OwnersCarried
  <2> DEFINE i == rows[a].idpId
  <2>2. \E s \in Requests : call[s] # NoCall /\ call[s].idpId # NoIdp
                            /\ call[s].idpId = i /\ Normalized[call[s].address] = a
    BY <2>1 DEF Carried, IsIdp, Mailbox
  <2>3. \E s \in Requests : call'[s] # NoCall /\ call'[s].idpId # NoIdp
                            /\ call'[s].idpId = i /\ Normalized[call'[s].address] = a
    BY <1>0, <2>2, CallsGrow
  <2> QED
    BY <1>2, <2>3 DEF Carried, IsIdp, Mailbox
<1>3. CASE a = e /\ rows'[a].idpId = c.idpId
  BY <1>0, <1>1, <1>3, StepCarries
<1> QED
  BY <1>1, <1>2, <1>3, RowShape

LEMMA RefusedStep ==
  ASSUME IInv, NEW r \in Requests, StepEffect(r)
  PROVE  RefusedCarried'
<1>0. TypeOK /\ ProgressOK /\ OwnersCarried /\ RefusedCarried
  BY DEF IInv
<1>1. ASSUME NEW s \in Requests, s # r, outcome'[s] = "conflict"
      PROVE  IsIdp(s)' /\ \E m \in Emails : (m # Mailbox(s) /\ Carried(call[s].idpId, m))'
  <2>1. outcome[s] = "conflict" /\ call'[s] = call[s]
    BY <1>0, <1>1, CallsGrow
  <2>2. PICK m \in Emails : m # Mailbox(s) /\ Carried(call[s].idpId, m)
    BY <1>0, <2>1 DEF RefusedCarried
  <2>3. IsIdp(s)' /\ Mailbox(s)' = Mailbox(s)
    BY <1>0, <2>1 DEF RefusedCarried, IsIdp, Mailbox
  <2>4. Carried(call[s].idpId, m)'
    BY <1>0, <2>1, <2>2, CarriedGrows DEF Carried
  <2> QED
    BY <2>2, <2>3, <2>4
<1>2. ASSUME outcome'[r] = "conflict"
      PROVE  IsIdp(r)' /\ \E m \in Emails : (m # Mailbox(r) /\ Carried(call[r].idpId, m))'
  <2>1. /\ call'[r].idpId # NoIdp /\ Leaves
        /\ \E m \in Owned(call'[r].idpId) : m # EmailOf(call'[r])
    BY <1>2 DEF StepEffect, Answer
  <2>2. PICK m \in Owned(call'[r].idpId) : m # EmailOf(call'[r])
    BY <2>1
  <2>3. /\ m \in Addresses /\ m \in Emails
        /\ rows[m] # NoRow /\ rows[m].idpId = call'[r].idpId
    BY <1>0 DEF Owned, TypeOK
  <2>4. OwnersCarried'
    BY OwnersStep
  <2>5. Carried(call[r].idpId, m)'
    BY <2>1, <2>3, <2>4 DEF OwnersCarried, Leaves, Carried
  <2> QED
    BY <1>0, <2>1, <2>2, <2>3, <2>5, StepCarries
<1> QED
  BY <1>1, <1>2 DEF RefusedCarried

\* What was given stays as GivenOK says, whoever steps next: a call that was
\* answered before the step.
LEMMA FoundKeptStep ==
  ASSUME IInv, NEW r \in Requests, StepEffect(r),
         NEW s \in Requests, call'[s] = call[s], found'[s] = found[s],
         IsIdp(s), FoundKept(s)
  PROVE  FoundKept(s)'
<1>c. PICK c \in Call : c = call'[r]
  BY DEF StepEffect
<1>i. PICK i \in Idps : i = call[s].idpId
  BY DEF IInv, TypeOK, IsIdp, Call
<1> DEFINE e == EmailOf(c)
<1>0. /\ TypeOK /\ ProgressOK /\ ProfileOfOwner /\ OwnersCarried
      /\ i # NoIdp /\ e \in Addresses
  BY EmailFacts, SentinelAssumption DEF IInv
<1>1. CASE Contested(i)
  <2>1. Contested(i)'
    BY <1>0, <1>1, CarriedGrows
  <2> QED
    BY <1>i, <2>1 DEF FoundKept
<1>2. CASE ~Contested(i)
  <2>1. PICK a \in Owned(i) : rows[a].id = found[s]
    BY <1>i, <1>2 DEF FoundKept
  <2>2. a \in Addresses /\ rows[a] \in Row /\ rows[a] # NoRow /\ rows[a].idpId = i
    BY <1>0, <2>1, OwnedFacts DEF Owned
  <2>3. CASE rows'[a] = rows[a]
    BY <1>i, <2>1, <2>2, <2>3 DEF FoundKept, Owned
  <2>4. CASE a = e /\ c.idpId # NoIdp /\ rows'[a] = TakenRow(rows[a], c)
    <3>1. CASE c.idpId = i
      <4>1. rows'[a].id = found[s] /\ rows'[a].idpId = i /\ rows'[a] # NoRow
        BY <1>0, <2>1, <2>2, <2>4, <3>1, RowsWritten, SentinelAssumption
      <4> QED
        BY <1>i, <2>2, <4>1 DEF FoundKept, Owned
    <3>2. CASE c.idpId # i
      \* Another user takes the row over: it carries an email that i carried.
      <4>1. Carried(i, e)
        BY <1>0, <2>2, <2>4 DEF OwnersCarried
      <4>2. Carried(i, e)'
        BY <1>0, <4>1, CarriedGrows
      <4>3. IsIdp(r)' /\ Mailbox(r)' = e
        BY <1>0, <1>c, <2>4, StepCarries
      <4>4. Contested(i)'
        BY <1>c, <3>2, <4>2, <4>3 DEF Contested
      <4> QED
        BY <1>i, <4>4 DEF FoundKept
    <3> QED
      BY <3>1, <3>2
  <2>5. CASE /\ c.idpId # NoIdp /\ a \in Owned(c.idpId)
             /\ rows'[e] = TakenRow(rows[a], c)
    <3>1. c.idpId = i
      BY <2>2, <2>5 DEF Owned
    <3>2. rows'[e].id = found[s] /\ rows'[e].idpId = i /\ rows'[e] # NoRow
      BY <1>0, <2>1, <2>2, <2>5, <3>1, RowsWritten, SentinelAssumption
    <3> QED
      BY <1>i, <1>0, <3>2 DEF FoundKept, Owned
  <2> QED
    BY <1>c, <2>2, <2>3, <2>4, <2>5, RowsAfter
<1> QED
  BY <1>1, <1>2

LEMMA FoundOwnedStep ==
  ASSUME IInv, NEW r \in Requests, StepEffect(r),
         NEW s \in Requests, call'[s] = call[s], found'[s] = found[s],
         found[s] \in Nat, found[s] < nextId,
         IsIdp(s), FoundOwned(s)
  PROVE  FoundOwned(s)'
<1> DEFINE c == call'[r]
           e == EmailOf(c)
<1>0. /\ TypeOK /\ ProgressOK /\ ProfileOfOwner /\ OwnersCarried
      /\ c \in Call /\ e \in Addresses
  BY EmailFacts DEF IInv, TypeOK, StepEffect
<1>1. SUFFICES ASSUME NEW a \in Addresses, rows'[a] # NoRow, rows'[a].id = found[s]
               PROVE  /\ rows'[a].idpId # NoIdp
                      /\ rows'[a].idpId # call[s].idpId => Contested(rows[a].idpId)'
  BY DEF FoundOwned, Contested, Carried
\* The row at d with this id, before the step.
<1>2. ASSUME NEW d \in Addresses, rows[d] # NoRow, rows[d].id = found[s]
      PROVE  /\ rows[d].idpId # NoIdp
             /\ rows[d].idpId # call[s].idpId => Contested(rows[d].idpId)
  BY <1>2 DEF FoundOwned
<1>3. ASSUME NEW j, Contested(j), rows'[a].idpId = j
      PROVE  Contested(rows[a].idpId)'
  <2>1. Contested(j)'
    BY <1>0, <1>3, CarriedGrows
  <2> QED
    BY <1>3, <2>1 DEF Contested, Carried
<1>4. CASE rows'[a] = rows[a]
  BY <1>1, <1>2, <1>3, <1>4
<1>5. CASE a = e /\ rows'[a] = InsertedRow(c)
  BY <1>0, <1>1, <1>5, RowsWritten DEF TypeOK
<1>6. CASE a = e /\ rows[a] # NoRow /\ c.idpId # NoIdp /\ rows'[a] = TakenRow(rows[a], c)
  <2>1. rows[a] \in Row /\ rows[a].id = found[s] /\ rows'[a].idpId = c.idpId
    BY <1>0, <1>1, <1>6, RowsWritten DEF TypeOK
  <2>2. CASE rows[a].idpId = c.idpId
    BY <1>2, <1>3, <1>6, <2>1, <2>2
  <2>3. CASE rows[a].idpId # c.idpId
    \* c takes the row over from its owner p, who carried its email.
    <3> DEFINE p == rows[a].idpId
    <3>1. p # NoIdp /\ Carried(p, e)
      BY <1>0, <1>2, <1>6, <2>1 DEF OwnersCarried
    <3>2. PICK t \in Requests : IsIdp(t) /\ call[t].idpId = p /\ Mailbox(t) = e
      BY <3>1 DEF Carried
    <3>3. call'[t] = call[t] /\ IsIdp(t)' /\ Mailbox(t)' = e
      BY <1>0, <3>2, CallsGrow DEF IsIdp, Mailbox
    <3>4. Carried(call[r].idpId, Mailbox(r))' /\ Mailbox(r)' = e
      BY <1>0, <1>6, StepCarries
    <3>5. call'[t].idpId # rows'[a].idpId /\ rows'[a].idpId = call'[r].idpId
      BY <2>1, <2>3, <3>2, <3>3
    <3>6. Carried(rows[a].idpId, Mailbox(t))'
      BY <3>3, <3>4, <3>5 DEF Carried
    <3>7. Contested(rows[a].idpId)'
      BY <3>3, <3>5, <3>6 DEF Contested
    <3> QED
      BY <1>6, <2>1, <3>7
  <2> QED
    BY <2>2, <2>3
<1>7. ASSUME NEW d \in Owned(c.idpId), a = e, c.idpId # NoIdp,
             rows'[a] = TakenRow(rows[d], c)
      PROVE  /\ rows'[a].idpId # NoIdp
             /\ rows'[a].idpId # call[s].idpId => Contested(rows[a].idpId)'
  <2>1. /\ d \in Addresses /\ rows[d] # NoRow /\ rows[d] \in Row
        /\ rows[d].idpId = c.idpId
    BY <1>0 DEF Owned, TypeOK
  <2>2. rows[d].id = found[s] /\ rows'[a].idpId = c.idpId
    BY <1>0, <1>1, <1>7, <2>1, RowsWritten
  <2> QED
    BY <1>2, <1>3, <2>1, <2>2
<1> QED
  BY <1>1, <1>4, <1>5, <1>6, <1>7, RowsAfter

LEMMA MailboxKeptStep ==
  ASSUME IInv, NEW r \in Requests, StepEffect(r),
         NEW s \in Requests, call'[s] = call[s], found'[s] = found[s],
         IsToken(s), MailboxKept(s)
  PROVE  MailboxKept(s)'
<1>c. PICK c \in Call : c = call'[r]
  BY DEF StepEffect
<1>m. PICK m \in Addresses : m = Mailbox(s)
  BY NormalizedAssumption DEF IInv, TypeOK, IsToken, Mailbox, Call
<1> DEFINE e == EmailOf(c)
<1>0. /\ TypeOK /\ ProgressOK /\ ProfileOfOwner /\ OwnersCarried
      /\ e \in Addresses /\ Mailbox(s)' = m
  BY <1>m, EmailFacts DEF IInv, Mailbox
<1>1. CASE Vacated(m)
  <2>1. Vacated(m)'
    BY <1>0, <1>1, CarriedGrows
  <2> QED
    BY <1>0, <2>1 DEF MailboxKept
<1>2. CASE rows[m] # NoRow /\ rows[m].id = found[s]
  <2>1. CASE rows'[m] = rows[m]
    BY <1>0, <1>2, <2>1 DEF MailboxKept
  <2>2. CASE m = e /\ rows'[m] = TakenRow(rows[m], c)
    <3>1. rows'[m].id = found[s] /\ rows'[m] # NoRow
      BY <1>0, <1>2, <2>2, RowsWritten, SentinelAssumption DEF TypeOK
    <3> QED
      BY <1>0, <3>1 DEF MailboxKept
  <2>3. CASE m # e /\ c.idpId # NoIdp /\ m \in Owned(c.idpId)
    \* The owner carried m and now carries e: it vacates m.
    <3>1. Carried(c.idpId, m)
      BY <1>0, <2>3 DEF Owned, OwnersCarried
    <3>2. Carried(c.idpId, m)'
      BY <1>0, <3>1, CarriedGrows
    <3>3. IsIdp(r)' /\ Mailbox(r)' = e
      BY <1>0, <1>c, <2>3, StepCarries
    <3>4. Vacated(m)'
      BY <1>c, <2>3, <3>2, <3>3 DEF Vacated, IsIdp
    <3> QED
      BY <1>0, <3>4 DEF MailboxKept
  <2> QED
    BY <1>0, <1>2, <2>1, <2>2, <2>3, <1>c, RowsAfter
<1> QED
  BY <1>m, <1>1, <1>2 DEF MailboxKept

\* What the step itself gives: the row it has just read.
LEMMA JustGiven ==
  ASSUME IInv, NEW r \in Requests, StepEffect(r), outcome'[r] = "found"
  PROVE  /\ found'[r] \in Nat /\ found'[r] < nextId'
         /\ IsIdp(r)' => FoundKept(r)' /\ FoundOwned(r)'
         /\ IsToken(r)' => MailboxKept(r)'
<1>c. PICK c \in Call : c = call'[r]
  BY DEF StepEffect
<1>0. TypeOK /\ ProgressOK /\ ProfileOfOwner /\ IdsDrawn /\ EmailOf(c) \in Addresses
  BY EmailFacts DEF IInv
<1>1. PICK a \in Sought(c) : found'[r] = rows[a].id
  BY <1>c DEF StepEffect, Answer
<1>2. rows' = rows /\ nextId' = nextId
  BY DEF StepEffect, Answer, Leaves
<1>3. a \in Addresses /\ rows[a] # NoRow /\ rows[a] \in Row
  BY <1>0, <1>1 DEF Sought, Owned, TypeOK
<1>4. found'[r] \in Nat /\ found'[r] < nextId'
  BY <1>0, <1>1, <1>2, <1>3 DEF IdsDrawn, Row
<1>5. ASSUME IsIdp(r)'
      PROVE  FoundKept(r)' /\ FoundOwned(r)'
  <2>1. c.idpId # NoIdp /\ rows[a].idpId = c.idpId
    BY <1>1, <1>5, <1>c DEF IsIdp, Sought, Owned
  <2>2. FoundKept(r)'
    BY <1>1, <1>2, <1>3, <1>c, <2>1 DEF FoundKept, Owned
  <2>3. \A b \in Addresses : (rows[b] # NoRow /\ rows[b].id = found'[r]) => b = a
    BY <1>0, <1>1, <1>3 DEF ProfileOfOwner
  <2>4. FoundOwned(r)'
    BY <1>2, <1>c, <2>1, <2>3 DEF FoundOwned
  <2> QED
    BY <2>2, <2>4
<1>6. ASSUME IsToken(r)'
      PROVE  MailboxKept(r)'
  <2>1. c.idpId = NoIdp /\ Mailbox(r)' = EmailOf(c)
    BY <1>6, <1>c DEF IsToken, Mailbox, EmailOf
  <2>2. a = EmailOf(c)
    BY <1>1, <2>1 DEF Sought
  <2> QED
    BY <1>1, <1>2, <1>3, <2>1, <2>2 DEF MailboxKept
<1> QED
  BY <1>4, <1>5, <1>6

LEMMA GivenStep ==
  ASSUME IInv, NEW r \in Requests, StepEffect(r)
  PROVE  GivenOK'
<1>0. TypeOK /\ ProgressOK /\ GivenOK
  BY DEF IInv
<1>1. ASSUME NEW s \in Requests, s # r, Given(s)'
      PROVE  /\ found'[s] \in Nat /\ found'[s] < nextId'
             /\ IsIdp(s)' => FoundKept(s)' /\ FoundOwned(s)'
             /\ IsToken(s)' => MailboxKept(s)'
  <2>1. Given(s) /\ call'[s] = call[s] /\ found'[s] = found[s]
    BY <1>0, <1>1, CallsGrow DEF Given
  <2>2. IsIdp(s)' = IsIdp(s) /\ IsToken(s)' = IsToken(s)
    BY <2>1 DEF IsIdp, IsToken
  <2>3. found[s] \in Nat /\ found[s] < nextId /\ nextId' \in Nat /\ nextId' >= nextId
    BY <1>0, <2>1, IdsStep DEF GivenOK
  <2>4. ASSUME IsIdp(s)
        PROVE  FoundKept(s)' /\ FoundOwned(s)'
    BY <1>0, <2>1, <2>3, <2>4, FoundKeptStep, FoundOwnedStep DEF GivenOK
  <2>5. ASSUME IsToken(s)
        PROVE  MailboxKept(s)'
    BY <1>0, <2>1, <2>5, MailboxKeptStep DEF GivenOK
  <2>6. nextId \in Nat
    BY <1>0 DEF TypeOK
  <2> QED
    BY <2>1, <2>2, <2>3, <2>4, <2>5, <2>6
<1>2. ASSUME Given(r)'
      PROVE  /\ found'[r] \in Nat /\ found'[r] < nextId'
             /\ IsIdp(r)' => FoundKept(r)' /\ FoundOwned(r)'
             /\ IsToken(r)' => MailboxKept(r)'
  BY <1>2, JustGiven DEF Given
<1> QED
  BY <1>1, <1>2 DEF GivenOK

-----------------------------------------------------------------------------
(* The inductive invariant. *)

LEMMA InitInductive == Init => IInv
BY SentinelAssumption, NormalizedAssumption
DEF Init, IInv, TypeOK, PCs, Outcomes, ProgressOK, Progress, ProfileOfOwner,
    IdsDrawn, OwnersCarried, RefusedCarried, GivenOK, Given

LEMMA StutterInductive == IInv /\ UNCHANGED vars => IInv'
<1> SUFFICES ASSUME IInv, UNCHANGED vars
             PROVE  IInv'
  OBVIOUS
<1>1. TypeOK' /\ ProgressOK'
  BY DEF IInv, vars, TypeOK, ProgressOK, Progress
<1>2. ProfileOfOwner' /\ IdsDrawn'
  BY DEF IInv, vars, ProfileOfOwner, IdsDrawn
<1>3. OwnersCarried' /\ RefusedCarried'
  BY DEF IInv, vars, OwnersCarried, RefusedCarried, Carried, IsIdp, Mailbox
<1>4. GivenOK'
  BY DEF IInv, vars, GivenOK, Given, FoundKept, FoundOwned, MailboxKept, Owned,
     Contested, Vacated, Carried, IsIdp, IsToken, Mailbox
<1> QED
  BY <1>1, <1>2, <1>3, <1>4 DEF IInv

LEMMA NextInductive == IInv /\ [Next]_vars => IInv'
<1>1. ASSUME IInv, NEW r \in Requests, Step(r)
      PROVE  IInv'
  BY <1>1, EveryStepHasEffect, TypeStep, ProgressStep, ProfileStep, IdsStep,
     OwnersStep, RefusedStep, GivenStep DEF IInv
<1> QED
  BY <1>1, StutterInductive DEF Next

(* The inductive invariant holds in every reachable state. *)
THEOREM Inductive == Spec => []IInv
BY InitInductive, NextInductive, PTL DEF Spec

(* Every email in the table is normalized, whatever callers spell. *)
THEOREM TypeCorrect == Spec => []TypeOK
<1>1. IInv => TypeOK
  BY DEF IInv
<1> QED
  BY <1>1, Inductive, PTL

(* A takeover of a row is complete and leaves its new owner one row. *)
THEOREM Owners == Spec => []ProfileOfOwner
<1>1. IInv => ProfileOfOwner
  BY DEF IInv
<1> QED
  BY <1>1, Inductive, PTL

(* A Keycloak user with one mailbox is never refused. *)
THEOREM SteadyUsersServed == Spec => []SteadyUserNeverRefused
<1>1. IInv => SteadyUserNeverRefused
  BY DEF IInv, RefusedCarried, SteadyUserNeverRefused
<1> QED
  BY <1>1, Inductive, PTL

(* A Keycloak user keeps its row unless its mailbox is contested. *)
THEOREM IdentitiesStable == Spec => []StableIdentity
<1>1. ASSUME IInv
      PROVE  StableIdentity
  <2> SUFFICES ASSUME NEW r \in Requests, NEW s \in Requests,
                      IsIdp(r), IsIdp(s), call[r].idpId = call[s].idpId,
                      Given(r), Given(s), found[r] # found[s],
                      ~Contested(call[r].idpId)
               PROVE  FALSE
    BY DEF StableIdentity, Given
  <2>1. call[r].idpId \in Idps /\ TypeOK /\ ProfileOfOwner
    BY <1>1 DEF IInv, TypeOK, IsIdp, Call
  <2>2. PICK a \in Owned(call[r].idpId) : rows[a].id = found[r]
    BY <1>1 DEF IInv, GivenOK, FoundKept
  <2>3. PICK b \in Owned(call[r].idpId) : rows[b].id = found[s]
    BY <1>1 DEF IInv, GivenOK, FoundKept
  <2>4. a = b
    BY <2>1, OwnedUnique
  <2> QED
    BY <2>2, <2>3, <2>4
<1> QED
  BY <1>1, Inductive, PTL

(* Tokens for a mailbox are given one row unless a user vacated it. *)
THEOREM MailboxesStable == Spec => []StableMailbox
<1>1. IInv => StableMailbox
  BY DEF IInv, GivenOK, Given, MailboxKept, StableMailbox
<1> QED
  BY <1>1, Inductive, PTL

(* Keycloak users are given each other's rows only if both are contested. *)
THEOREM IdentitiesSeparate == Spec => []SeparateIdentities
<1>1. ASSUME IInv, NEW r \in Requests, NEW s \in Requests,
             IsIdp(r), IsIdp(s), call[r].idpId # call[s].idpId,
             Given(r), Given(s), found[r] = found[s]
      PROVE  Contested(call[r].idpId)
  <2>1. CASE \E a \in Owned(call[r].idpId) : rows[a].id = found[r]
    <3>1. PICK a \in Owned(call[r].idpId) : rows[a].id = found[r]
      BY <2>1
    <3>2. a \in Addresses /\ rows[a] # NoRow /\ rows[a].idpId = call[r].idpId
      BY DEF Owned
    <3>3. FoundOwned(s)
      BY <1>1 DEF IInv, GivenOK
    <3> QED
      BY <1>1, <3>1, <3>2, <3>3 DEF FoundOwned
  <2>2. FoundKept(r)
    BY <1>1 DEF IInv, GivenOK
  <2> QED
    BY <2>1, <2>2 DEF FoundKept
<1>2. IInv => SeparateIdentities
  BY <1>1 DEF SeparateIdentities, Given
<1> QED
  BY <1>2, Inductive, PTL

(* A token leaves the owner and the profile of existing rows alone. *)
THEOREM TokensOverwriteNothing == Spec => TokenNeverOverwrites
<1>1. ASSUME IInv, NEW s \in Requests, Step(s),
             NEW r \in Requests, NEW e \in Addresses,
             pc'[r] # pc[r], call'[r].idpId = NoIdp, rows[e] # NoRow
      PROVE  rows'[e] = rows[e]
  <2>1. StepEffect(s) /\ TypeOK
    BY <1>1, EveryStepHasEffect DEF IInv
  <2>2. r = s
    BY <1>1, <2>1 DEF StepEffect, TypeOK
  <2>3. Leaves \/ Inserts(call'[r])
    BY <1>1, <2>1, <2>2 DEF StepEffect
  <2> QED
    BY <1>1, <2>1, <2>3 DEF Leaves, Inserts, TypeOK
<1>2. IInv /\ [Next]_vars =>
         [\A r \in Requests : \A e \in Addresses :
             (/\ pc'[r] # pc[r]
              /\ call'[r].idpId = NoIdp
              /\ rows[e] # NoRow) => rows'[e] = rows[e]]_vars
  BY <1>1 DEF Next
<1> QED
  BY <1>2, Inductive, PTL DEF Spec, TokenNeverOverwrites

-----------------------------------------------------------------------------
(* SummaryPopulation: the inductive invariant. *)

\* What population s owes u: it has put u on its batch, has u's page before it, or
\* will see the created event of u look at the set too early.
Owed(s, u) ==
    \/ <<u, summary[s].member>> \in excused
    \/ u \in summary[s].batch
    \/ summary[s].pc = "page" /\ Position(u) >= summary[s].first
    \/ u \in summary[s].late /\ creating[u] \in {"assign", "scan"}

RunOK(s, u) ==
    Running(s) /\ role[u] = "participant" /\ summary[s].member \notin records[u] => Owed(s, u)

\* Whom a populated member lacks is excused, or has a created event that is to look at
\* the set or is about to drop the member.
MissOK(u, p) ==
    Missed(u, p) => \/ <<u, p>> \in excused
                    \/ creating[u] \in {"assign", "scan"}
                    \/ creating[u] = "drop" /\ p \in dropping[u]

Uncreated == \A u \in Users : creating[u] = "no" => role[u] = "absent" /\ ~joining[u]

Named == \A s \in Summaries : IF Running(s) THEN summary[s].member \in Members
                              ELSE summary[s].batch = {}

PopulationInv ==
    /\ PopulationTypeOK
    /\ Uncreated
    /\ Named
    /\ \A s \in Summaries, u \in Users : RunOK(s, u)
    /\ \A u \in Users, p \in Members : MissOK(u, p)

-----------------------------------------------------------------------------
(* Positions in a set of users that places order. *)

LEMMA LessOnNat ==
    \E R : IsWellFoundedOn(R, Nat) /\ \A x, y \in Nat : y < x => <<y, x>> \in R
<1> DEFINE R == OpToRel(<, Nat)
<1>1. IsWellFoundedOn(R, Nat)
  BY NatLessThanWellFounded
<1>2. \A x, y \in Nat : y < x => <<y, x>> \in R
  BY DEF OpToRel
<1> HIDE DEF R
<1> QED
  BY <1>1, <1>2

LEMMA LeastNatural ==
    ASSUME NEW T, T \subseteq Nat, T # {}
    PROVE  \E x \in T : \A y \in T : x <= y
<1>1. PICK R : IsWellFoundedOn(R, Nat) /\ \A x, y \in Nat : y < x => <<y, x>> \in R
  BY LessOnNat
<1>2. PICK x \in T : \A y \in T : ~(<<y, x>> \in R)
  BY <1>1, WFMin
<1>3. ASSUME NEW y \in T PROVE x <= y
  <2>1. x \in Nat /\ y \in Nat
    OBVIOUS
  <2>2. ~(y < x)
    BY <1>1, <1>2, <2>1
  <2> QED
    BY <2>1, <2>2
<1> QED
  BY <1>3

Placed ==
    /\ place \in [Users -> Places]
    /\ \A u, v \in Users : place[u] = place[v] => u = v

Before(A, u) == {v \in A : place[v] < place[u]}

LEMMA FiniteUsers ==
    ASSUME NEW A \in SUBSET Users
    PROVE  IsFiniteSet(A)
BY BoundAssumption, FS_Subset

LEMMA PlaceType ==
    ASSUME Placed, NEW u \in Users
    PROVE  place[u] \in Nat
BY BoundAssumption DEF Placed

LEMMA FiniteBefore ==
    ASSUME NEW A \in SUBSET Users, NEW u
    PROVE  IsFiniteSet(Before(A, u)) /\ Rank(A, place, u) \in Nat /\ Before(A, u) \in SUBSET A
<1>1. IsFiniteSet(Before(A, u)) /\ Before(A, u) \in SUBSET A
  BY FiniteUsers, FS_Subset DEF Before
<1>2. Rank(A, place, u) = Cardinality(Before(A, u))
  BY DEF Rank, Before
<1> QED
  BY <1>1, <1>2, FS_CardinalityType

\* More users before u put it further back.
LEMMA RankGrows ==
    ASSUME NEW A \in SUBSET Users, NEW B \in SUBSET A, NEW u
    PROVE  Rank(B, place, u) <= Rank(A, place, u)
<1>1. Before(B, u) \in SUBSET Before(A, u)
  BY DEF Before
<1> QED
  BY <1>1, FiniteBefore, FS_Subset DEF Rank, Before

LEMMA RankIncreases ==
    ASSUME Placed, NEW A \in SUBSET Users, NEW u \in A, NEW v \in A, place[u] < place[v]
    PROVE  Rank(A, place, u) < Rank(A, place, v)
<1>1. place[u] \in Nat /\ place[v] \in Nat /\ \A w \in A : place[w] \in Nat
  BY PlaceType
<1>2. Before(A, u) \in SUBSET Before(A, v)
  <2>1. ASSUME NEW w \in A, place[w] < place[u] PROVE place[w] < place[v]
    <3>1. place[w] \in Nat
      BY <1>1
    <3> QED
      BY <1>1, <2>1, <3>1
  <2> QED
    BY <2>1 DEF Before
<1>3. u \in Before(A, v) /\ u \notin Before(A, u)
  BY <1>1 DEF Before
<1>4. Rank(A, place, u) <= Rank(A, place, v) /\ Rank(A, place, u) # Rank(A, place, v)
  <2>1. Rank(A, place, u) = Cardinality(Before(A, u)) /\ Rank(A, place, v) = Cardinality(Before(A, v))
    BY DEF Rank, Before
  <2> QED
    BY <1>2, <1>3, <2>1, FiniteBefore, FS_Subset
<1> QED
  BY <1>4, FiniteBefore

\* Without u, those behind it move up by one.
LEMMA RankWithout ==
    ASSUME NEW A \in SUBSET Users, NEW u \in A, NEW v \in Users
    PROVE  Rank(A \ {u}, place, v) = IF place[u] < place[v] THEN Rank(A, place, v) - 1
                                    ELSE Rank(A, place, v)
<1>1. Before(A \ {u}, v) = Before(A, v) \ {u}
  BY DEF Before
<1>2. u \in Before(A, v) <=> place[u] < place[v]
  BY DEF Before
<1>3. IsFiniteSet(Before(A, v))
  BY FiniteBefore
<1>4. Cardinality(Before(A, v) \ {u}) = IF place[u] < place[v] THEN Cardinality(Before(A, v)) - 1
                                        ELSE Cardinality(Before(A, v))
  BY <1>2, <1>3, FS_RemoveElement
<1>5. /\ Rank(A \ {u}, place, v) = Cardinality(Before(A \ {u}, v))
      /\ Rank(A, place, v) = Cardinality(Before(A, v))
  BY DEF Rank, Before
<1> QED
  BY <1>1, <1>4, <1>5

\* A page that is not full is the last.
LEMMA LastPage ==
    ASSUME Placed, NEW A \in SUBSET Users, NEW first \in Nat, NEW n \in Nat,
           Cardinality({u \in A : Rank(A, place, u) \in first .. first + n - 1}) < n
    PROVE  \A u \in A : Rank(A, place, u) < first + n
<1> DEFINE page == {u \in A : Rank(A, place, u) \in first .. first + n - 1}
           after == {u \in A : ~(Rank(A, place, u) < first + n)}
<1>1. SUFFICES ASSUME after # {} PROVE FALSE
  OBVIOUS
<1>2. IsFiniteSet(A) /\ \A u \in A : place[u] \in Nat /\ Rank(A, place, u) \in Nat
  BY FiniteUsers, FiniteBefore, PlaceType
<1>3. PICK v \in after : \A w \in after : place[v] <= place[w]
  <2> DEFINE T == {place[w] : w \in after}
  <2>1. T \subseteq Nat /\ T # {}
    BY <1>1, <1>2
  <2>2. PICK x \in T : \A y \in T : x <= y
    BY <2>1, LeastNatural
  <2> QED
    BY <2>2
<1> DEFINE early == {u \in Before(A, v) : Rank(A, place, u) < first}
           middle == Before(A, v) \ early
<1>4. v \in A /\ place[v] \in Nat /\ Rank(A, place, v) \in Nat /\ first + n <= Rank(A, place, v)
  BY <1>2
<1>5. middle \in SUBSET page
  <2> SUFFICES ASSUME NEW u \in middle PROVE u \in page
    OBVIOUS
  <2>1. u \in A /\ place[u] \in Nat /\ place[u] < place[v] /\ ~(Rank(A, place, u) < first)
    BY <1>2 DEF Before
  <2>2. Rank(A, place, u) < first + n
    BY <1>3, <1>4, <2>1
  <2> QED
    BY <1>2, <2>1, <2>2
<1>6. IsFiniteSet(early) /\ Cardinality(early) <= first
  <2> DEFINE f == [u \in early |-> Rank(A, place, u)]
             numbers == 0 .. first - 1
  <2>1. IsFiniteSet(numbers) /\ Cardinality(numbers) = first
    <3>1. first - 1 \in Int /\ 0 \in Int
      OBVIOUS
    <3>2. IsFiniteSet(numbers) /\ Cardinality(numbers) = IF 0 > first - 1 THEN 0 ELSE first - 1 - 0 + 1
      BY <3>1, FS_Interval
    <3> QED
      BY <3>2
  <2>2. early \subseteq A
    BY DEF Before
  <2>3. f \in [early -> numbers]
    <3>1. ASSUME NEW u \in early PROVE Rank(A, place, u) \in numbers
      <4>1. Rank(A, place, u) \in Nat /\ Rank(A, place, u) < first
        BY <1>2, <2>2
      <4> QED
        BY <4>1
    <3> QED
      BY <3>1
  <2>4. ASSUME NEW u \in early, NEW w \in early, f[u] = f[w] PROVE u = w
    <3>1. place[u] \in Nat /\ place[w] \in Nat /\ u \in A /\ w \in A
      BY <1>2, <2>2
    <3>2. Rank(A, place, u) = Rank(A, place, w)
      BY <2>4
    <3>3. ~(place[u] < place[w]) /\ ~(place[w] < place[u])
      BY <1>2, <3>1, <3>2, RankIncreases
    <3> QED
      BY <3>1, <3>3 DEF Placed
  <2>5. f \in Injection(early, numbers)
    BY <2>3, <2>4 DEF Injection, IsInjective
  <2> HIDE DEF f, numbers, early
  <2> QED
    BY <2>1, <2>5, FS_Injection
<1>7. IsFiniteSet(Before(A, v)) /\ Cardinality(Before(A, v)) = Rank(A, place, v)
  BY FiniteBefore DEF Rank, Before
<1>8. Cardinality(middle) = Rank(A, place, v) - Cardinality(Before(A, v) \cap early)
  BY <1>7, FS_Difference
<1>9. Before(A, v) \cap early = early
  OBVIOUS
<1>10. IsFiniteSet(page) /\ Cardinality(middle) <= Cardinality(page)
  <2>1. IsFiniteSet(page)
    BY <1>2, FS_Subset
  <2> HIDE DEF page, middle
  <2> QED
    BY <1>5, <2>1, FS_Subset
<1>11. Cardinality(early) \in Nat /\ Cardinality(page) \in Nat /\ Cardinality(page) < n
  BY <1>6, <1>10, FS_CardinalityType
<1>12. Cardinality(middle) = Rank(A, place, v) - Cardinality(early)
  BY <1>8, <1>9
<1> HIDE DEF early, middle, page
<1> QED
  BY <1>4, <1>6, <1>10, <1>11, <1>12
-----------------------------------------------------------------------------
(* What a step has to keep. *)

LEMMA PositionType ==
    ASSUME NEW u
    PROVE  Position(u) \in Nat /\ Present \in SUBSET Users
<1>1. Present \in SUBSET Users
  BY DEF Present
<1> QED
  BY <1>1, FiniteBefore DEF Position

LEMMA RunKept ==
    ASSUME NEW s, NEW u, RunOK(s, u),
           Running(s)' => /\ Running(s) /\ summary'[s].member = summary[s].member
                          /\ summary'[s].pc = summary[s].pc /\ summary'[s].first = summary[s].first
                          /\ summary[s].batch \subseteq summary'[s].batch
                          /\ summary[s].late \subseteq summary'[s].late,
           role'[u] = "participant" => role[u] = "participant",
           records[u] \subseteq records'[u], excused \subseteq excused',
           creating[u] \in {"assign", "scan"} => creating'[u] \in {"assign", "scan"},
           summary[s].pc = "page" /\ Position(u) >= summary[s].first =>
               \/ Position(u)' >= summary[s].first
               \/ <<u, summary[s].member>> \in excused'
    PROVE  RunOK(s, u)'
BY DEF RunOK, Owed

LEMMA MissKept ==
    ASSUME NEW u, NEW p, MissOK(u, p),
           role'[u] = "participant" => role[u] = "participant",
           p \in populated' => p \in populated,
           records[u] \subseteq records'[u], excused \subseteq excused',
           creating'[u] = creating[u], dropping'[u] = dropping[u]
    PROVE  MissOK(u, p)'
BY DEF MissOK, Missed

\* Excuses are pairs of a user and a member, and stay.
LEMMA Excused ==
    ASSUME PopulationTypeOK, NEW pairs, pairs \subseteq Users \X Members, Excuse(pairs)
    PROVE  /\ excused' \in SUBSET (Users \X Members) /\ excused \subseteq excused'
           /\ \A u, p : <<u, p>> \in pairs /\ p \notin records[u] => <<u, p>> \in excused'
BY DEF PopulationTypeOK, Excuse

LEMMA MissableType ==
    ASSUME PopulationInv, NEW u \in Users
    PROVE  /\ Missable(u) \subseteq Users \X Members
           /\ \A p \in populated : <<u, p>> \in Missable(u)
           /\ \A s \in Summaries : Running(s) => <<u, summary[s].member>> \in Missable(u)
<1>1. populated \subseteq Members
  BY DEF PopulationInv, PopulationTypeOK
<1> QED
  BY <1>1 DEF Missable, PopulationInv, Named

LEMMA PositionKept ==
    ASSUME NEW u, UNCHANGED <<role, place>>
    PROVE  Position(u)' = Position(u)
BY DEF Position, Present, Rank

\* Nobody moves up when users are added or stay.
LEMMA PositionBehind ==
    ASSUME NEW u, Present \subseteq Present', Present' \in SUBSET Users, UNCHANGED place
    PROVE  Position(u) \in Nat /\ Position(u)' \in Nat /\ Position(u) <= Position(u)'
<1>1. PICK A : A = Present
  OBVIOUS
<1>2. PICK B : B = Present'
  OBVIOUS
<1>3. A \in SUBSET B /\ B \in SUBSET Users
  BY <1>1, <1>2
<1>4. Position(u) = Rank(A, place, u) /\ Position(u)' = Rank(B, place, u)
  BY <1>1, <1>2 DEF Position, Rank
<1> QED
  BY <1>3, <1>4, RankGrows, FiniteBefore

\* A step that touches neither who is there nor the summaries: what is owed stays owed.
LEMMA RunsKept ==
    ASSUME PopulationInv, UNCHANGED <<role, place, summary>>, excused \subseteq excused',
           \A u \in Users : records[u] \subseteq records'[u],
           \A u \in Users : creating[u] \in {"assign", "scan"} => creating'[u] \in {"assign", "scan"}
    PROVE  \A s \in Summaries, u \in Users : RunOK(s, u)'
<1> SUFFICES ASSUME NEW s \in Summaries, NEW u \in Users PROVE RunOK(s, u)'
  OBVIOUS
<1>1. RunOK(s, u) /\ (Running(s)' <=> Running(s))
  BY DEF PopulationInv, Running
<1> QED
  BY <1>1, PositionKept, RunKept

-----------------------------------------------------------------------------
(* Administrators. *)

LEMMA CreateUserStep ==
    ASSUME PopulationInv, NEW u \in Users, NEW canAccessTraining \in BOOLEAN,
           CreateUser(u, canAccessTraining)
    PROVE  PopulationInv'
<1>1. /\ creating[u] = "no" /\ role[u] = "absent"
      /\ role' = [role EXCEPT ![u] = "plain"]
      /\ creating' = [creating EXCEPT ![u] = IF canAccessTraining THEN "assign" ELSE "scan"]
      /\ UNCHANGED <<place, joining, dropping, populated, records, summary, excused, changes>>
  BY DEF CreateUser, Creates, PopulationInv, Uncreated
<1>2. PopulationTypeOK'
  BY <1>1 DEF PopulationInv, PopulationTypeOK, Roles
<1>3. Uncreated'
  BY <1>1 DEF PopulationInv, PopulationTypeOK, Uncreated
<1>4. ASSUME NEW s \in Summaries, NEW v \in Users PROVE RunOK(s, v)'
  <2>1. Present \subseteq Present' /\ Present' \in SUBSET Users
    BY <1>1 DEF Present, PopulationInv, PopulationTypeOK
  <2>2. CASE v = u
    BY <1>1, <2>2 DEF RunOK, PopulationInv, PopulationTypeOK
  <2>3. CASE v # u
    <3>1. RunOK(s, v) /\ summary[s].first \in Nat /\ (Running(s)' <=> Running(s))
      BY <1>1 DEF PopulationInv, PopulationTypeOK, Summary, Running
    <3>2. role'[v] = role[v] /\ creating'[v] = creating[v]
      BY <1>1, <2>3 DEF PopulationInv, PopulationTypeOK
    <3>3. Position(v) >= summary[s].first => Position(v)' >= summary[s].first
      BY <1>1, <2>1, <3>1, PositionBehind
    <3> QED
      BY <1>1, <3>1, <3>2, <3>3, RunKept
  <2> QED
    BY <2>2, <2>3
<1>5. ASSUME NEW v \in Users, NEW p \in Members PROVE MissOK(v, p)'
  BY <1>1 DEF MissOK, Missed, PopulationInv, PopulationTypeOK
<1>6. Named'
  BY <1>1 DEF PopulationInv, Named, Running
<1> QED
  BY <1>2, <1>3, <1>4, <1>5, <1>6 DEF PopulationInv

LEMMA AssignStep ==
    ASSUME PopulationInv, NEW u \in Users, Assign(u)
    PROVE  PopulationInv'
<1>1. /\ creating[u] = "assign" /\ joining' = [joining EXCEPT ![u] = TRUE]
      /\ creating' = [creating EXCEPT ![u] = "scan"]
      /\ UNCHANGED <<role, place, dropping, populated, records, summary, excused, changes>>
  BY DEF Assign, Creates
<1>2. PopulationTypeOK'
  BY <1>1 DEF PopulationInv, PopulationTypeOK
<1>3. Uncreated'
  BY <1>1 DEF PopulationInv, PopulationTypeOK, Uncreated
<1>4. \A s \in Summaries, v \in Users : RunOK(s, v)'
  BY <1>1, RunsKept DEF PopulationInv, PopulationTypeOK
<1>5. ASSUME NEW v \in Users, NEW p \in Members PROVE MissOK(v, p)'
  BY <1>1 DEF MissOK, Missed, PopulationInv, PopulationTypeOK
<1>6. Named'
  BY <1>1 DEF PopulationInv, Named, Running
<1> QED
  BY <1>2, <1>3, <1>4, <1>5, <1>6 DEF PopulationInv

\* A user who becomes a participant: excused of what runs and what has run, or its
\* created event is still to look.
LEMMA ParticipatesStep ==
    ASSUME PopulationInv, NEW u \in Users, role[u] # "absent", Participates(u),
           Excuse(IF creating[u] \in {"drop", "done"} THEN Missable(u) ELSE {}),
           joining' \in [Users -> BOOLEAN], \A v \in Users : joining'[v] => joining[v],
           changes' \in 0 .. MaxChanges,
           UNCHANGED <<place, creating, dropping, populated, records>>
    PROVE  PopulationInv'
<1> USE DEF PopulationInv
<1>1. role' = [role EXCEPT ![u] = "participant"] /\ creating[u] # "no"
  BY DEF Participates, Uncreated
<1>2. ASSUME NEW s \in Summaries
      PROVE  /\ summary'[s].pc = summary[s].pc /\ summary'[s].member = summary[s].member
             /\ summary'[s].first = summary[s].first /\ summary'[s].batch = summary[s].batch
             /\ summary[s].late \subseteq summary'[s].late
             /\ Running(s) => u \in summary'[s].late
             /\ Running(s)' <=> Running(s)
             /\ summary'[s] \in Summary
  <2>1. summary[s] \in Summary
    BY DEF PopulationTypeOK
  <2>2. summary'[s] = IF Running(s) THEN [summary[s] EXCEPT !.late = @ \cup {u}] ELSE summary[s]
    BY DEF Participates
  <2>3. CASE Running(s)
    BY <2>1, <2>2, <2>3 DEF Running, Summary
  <2>4. CASE ~Running(s)
    BY <2>1, <2>2, <2>4 DEF Running
  <2> QED
    BY <2>3, <2>4
<1>3. /\ excused' \in SUBSET (Users \X Members) /\ excused \subseteq excused'
      /\ creating[u] \in {"drop", "done"} =>
            \A q : <<u, q>> \in Missable(u) /\ q \notin records[u] => <<u, q>> \in excused'
  BY Excused, MissableType
<1>4. PopulationTypeOK'
  <2>1. summary' \in [Summaries -> Summary]
    BY <1>2 DEF Participates
  <2> QED
    BY <1>1, <1>3, <2>1 DEF PopulationTypeOK, Roles
<1>5. Uncreated'
  BY <1>1 DEF PopulationTypeOK, Uncreated
<1>6. Named'
  BY <1>2 DEF Named
<1>7. Present' = Present
  BY <1>1 DEF Present, PopulationTypeOK
<1>8. ASSUME NEW s \in Summaries, NEW v \in Users PROVE RunOK(s, v)'
  <2>1. CASE v # u
    <3>1. role'[v] = role[v] /\ RunOK(s, v)
      BY <1>1, <2>1 DEF PopulationTypeOK
    <3>2. Position(v)' = Position(v)
      BY <1>7 DEF Position, Rank
    <3> QED
      BY <1>2, <1>3, <3>1, <3>2, RunKept
  <2>2. CASE v = u
    <3>1. CASE creating[u] \in {"assign", "scan"}
      BY <1>2, <2>2, <3>1 DEF RunOK, Owed
    <3>2. CASE creating[u] \in {"drop", "done"}
      BY <1>2, <1>3, <2>2, <3>2, MissableType DEF RunOK, Owed
    <3> QED
      BY <1>1, <3>1, <3>2 DEF PopulationTypeOK
  <2> QED
    BY <2>1, <2>2
<1>9. ASSUME NEW v \in Users, NEW p \in Members PROVE MissOK(v, p)'
  <2>1. CASE v # u
    <3>1. role'[v] = role[v] /\ MissOK(v, p)
      BY <1>1, <2>1 DEF PopulationTypeOK
    <3> QED
      BY <1>3, <3>1, MissKept
  <2>2. CASE v = u
    <3>1. CASE creating[u] \in {"assign", "scan"}
      BY <2>2, <3>1 DEF MissOK
    <3>2. CASE creating[u] \in {"drop", "done"}
      BY <1>3, <2>2, <3>2, MissableType DEF MissOK, Missed
    <3> QED
      BY <1>1, <3>1, <3>2 DEF PopulationTypeOK
  <2> QED
    BY <2>1, <2>2
<1> QED
  BY <1>4, <1>5, <1>6, <1>8, <1>9

LEMMA JoinStep ==
    ASSUME PopulationInv, NEW u \in Users, Join(u)
    PROVE  PopulationInv'
<1>1. /\ joining' = [joining EXCEPT ![u] = FALSE] /\ changes' \in 0 .. MaxChanges
      /\ UNCHANGED <<place, creating, dropping, populated, records, changes>>
  BY DEF Join, PopulationInv, PopulationTypeOK
<1>2. joining' \in [Users -> BOOLEAN] /\ \A v \in Users : joining'[v] => joining[v]
  BY <1>1 DEF PopulationInv, PopulationTypeOK
<1>3. CASE /\ role[u] # "absent" /\ Participates(u)
           /\ Excuse(IF creating[u] \in {"drop", "done"} THEN Missable(u) ELSE {})
  BY <1>1, <1>2, <1>3, ParticipatesStep
<1>4. CASE UNCHANGED <<role, summary, excused>>
  <2>1. PopulationTypeOK'
    BY <1>1, <1>2, <1>4 DEF PopulationInv, PopulationTypeOK
  <2>2. Uncreated'
    BY <1>1, <1>2, <1>4 DEF PopulationInv, Uncreated
  <2>3. Named'
    BY <1>4 DEF PopulationInv, Named, Running
  <2>4. \A s \in Summaries, v \in Users : RunOK(s, v)'
    BY <1>1, <1>4, RunsKept
  <2>5. \A v \in Users, p \in Members : MissOK(v, p)'
    BY <1>1, <1>4 DEF PopulationInv, MissOK, Missed
  <2> QED
    BY <2>1, <2>2, <2>3, <2>4, <2>5 DEF PopulationInv
<1> QED
  BY <1>3, <1>4 DEF Join

LEMMA ChangesType ==
    ASSUME PopulationTypeOK, Changes
    PROVE  changes' \in 0 .. MaxChanges
BY BoundAssumption DEF PopulationTypeOK, Changes

LEMMA GrantStep ==
    ASSUME PopulationInv, NEW u \in Users, Grant(u)
    PROVE  PopulationInv'
<1>1. /\ joining' \in [Users -> BOOLEAN] /\ \A v \in Users : joining'[v] => joining[v]
      /\ changes' \in 0 .. MaxChanges
  BY ChangesType DEF Grant, PopulationInv, PopulationTypeOK
<1>2. role[u] # "absent" /\ UNCHANGED <<place, creating, dropping, populated, records>>
  BY DEF Grant
<1> QED
  BY <1>1, <1>2, ParticipatesStep DEF Grant

LEMMA ScanStep ==
    ASSUME PopulationInv, NEW u \in Users, Scan(u)
    PROVE  PopulationInv'
<1> USE DEF PopulationInv
<1> DEFINE pairs == {<<u, summary[s].member>> : s \in {t \in Summaries :
                        Running(t) /\ u \in summary[t].late}}
<1>1. /\ creating[u] = "scan" /\ dropping' = [dropping EXCEPT ![u] = populated]
      /\ creating' = [creating EXCEPT ![u] = "drop"]
      /\ UNCHANGED <<role, place, joining, populated, records, summary, changes>>
  BY DEF Scan, Creates
<1>2. /\ excused' \in SUBSET (Users \X Members) /\ excused \subseteq excused'
      /\ \A q : <<u, q>> \in pairs /\ q \notin records[u] => <<u, q>> \in excused'
  <2>1. pairs \subseteq Users \X Members
    BY DEF Named
  <2>2. Excuse(pairs)
    BY DEF Scan
  <2> QED
    BY <2>1, <2>2, Excused
<1>3. PopulationTypeOK'
  BY <1>1, <1>2 DEF PopulationTypeOK
<1>4. Uncreated'
  BY <1>1 DEF PopulationTypeOK, Uncreated
<1>5. Named'
  BY <1>1 DEF Named, Running
<1>6. ASSUME NEW s \in Summaries, NEW v \in Users PROVE RunOK(s, v)'
  <2>1. RunOK(s, v) /\ (Running(s)' <=> Running(s)) /\ Position(v)' = Position(v)
    BY <1>1, PositionKept DEF Running
  <2>2. CASE v # u
    <3>1. creating'[v] = creating[v]
      BY <1>1, <2>2 DEF PopulationTypeOK
    <3> QED
      BY <1>1, <1>2, <2>1, <3>1, RunKept
  <2>3. CASE v = u
    <3>1. Running(s) /\ u \in summary[s].late => <<u, summary[s].member>> \in pairs
      OBVIOUS
    <3> QED
      BY <1>1, <1>2, <2>1, <2>3, <3>1 DEF RunOK, Owed
  <2> QED
    BY <2>2, <2>3
<1>7. ASSUME NEW v \in Users, NEW p \in Members PROVE MissOK(v, p)'
  <2>1. CASE v # u
    <3>1. creating'[v] = creating[v] /\ dropping'[v] = dropping[v] /\ MissOK(v, p)
      BY <1>1, <2>1 DEF PopulationTypeOK
    <3> QED
      BY <1>1, <1>2, <3>1, MissKept
  <2>2. CASE v = u
    BY <1>1, <2>2 DEF PopulationTypeOK, MissOK, Missed
  <2> QED
    BY <2>1, <2>2
<1> QED
  BY <1>3, <1>4, <1>5, <1>6, <1>7

LEMMA DropStep ==
    ASSUME PopulationInv, NEW u \in Users, Drop(u)
    PROVE  PopulationInv'
<1> USE DEF PopulationInv
<1>1. /\ creating[u] = "drop" /\ dropping' = [dropping EXCEPT ![u] = {}]
      /\ creating' = [creating EXCEPT ![u] = "done"]
      /\ populated' = populated \ dropping[u]
      /\ UNCHANGED <<role, place, joining, records, summary, excused, changes>>
  BY DEF Drop, Creates
<1>2. PopulationTypeOK'
  BY <1>1 DEF PopulationTypeOK
<1>3. Uncreated'
  BY <1>1 DEF PopulationTypeOK, Uncreated
<1>4. Named'
  BY <1>1 DEF Named, Running
<1>5. \A s \in Summaries, v \in Users : RunOK(s, v)'
  BY <1>1, RunsKept DEF PopulationTypeOK
<1>6. ASSUME NEW v \in Users, NEW p \in Members PROVE MissOK(v, p)'
  <2>1. CASE v # u
    <3>1. creating'[v] = creating[v] /\ dropping'[v] = dropping[v] /\ MissOK(v, p)
      BY <1>1, <2>1 DEF PopulationTypeOK
    <3> QED
      BY <1>1, <3>1, MissKept
  <2>2. CASE v = u
    BY <1>1, <2>2 DEF PopulationTypeOK, MissOK, Missed
  <2> QED
    BY <2>1, <2>2
<1> QED
  BY <1>2, <1>3, <1>4, <1>5, <1>6

LEMMA CreateFailsStep ==
    ASSUME PopulationInv, NEW u \in Users, CreateFails(u)
    PROVE  PopulationInv'
<1> USE DEF PopulationInv
<1>1. /\ creating[u] # "no" /\ dropping' = [dropping EXCEPT ![u] = {}]
      /\ creating' = [creating EXCEPT ![u] = "done"]
      /\ UNCHANGED <<role, place, joining, populated, records, summary, changes>>
  BY DEF CreateFails, Creates
<1>2. /\ excused' \in SUBSET (Users \X Members) /\ excused \subseteq excused'
      /\ \A q : <<u, q>> \in Missable(u) /\ q \notin records[u] => <<u, q>> \in excused'
  BY Excused, MissableType DEF CreateFails
<1>3. PopulationTypeOK'
  BY <1>1, <1>2 DEF PopulationTypeOK
<1>4. Uncreated'
  BY <1>1 DEF PopulationTypeOK, Uncreated
<1>5. Named'
  BY <1>1 DEF Named, Running
<1>6. ASSUME NEW s \in Summaries, NEW v \in Users PROVE RunOK(s, v)'
  <2>1. RunOK(s, v) /\ (Running(s)' <=> Running(s)) /\ Position(v)' = Position(v)
    BY <1>1, PositionKept DEF Running
  <2>2. CASE v # u
    <3>1. creating'[v] = creating[v]
      BY <1>1, <2>2 DEF PopulationTypeOK
    <3> QED
      BY <1>1, <1>2, <2>1, <3>1, RunKept
  <2>3. CASE v = u
    BY <1>1, <1>2, <2>1, <2>3, MissableType DEF RunOK, Owed
  <2> QED
    BY <2>2, <2>3
<1>7. ASSUME NEW v \in Users, NEW p \in Members PROVE MissOK(v, p)'
  <2>1. CASE v # u
    <3>1. creating'[v] = creating[v] /\ dropping'[v] = dropping[v] /\ MissOK(v, p)
      BY <1>1, <2>1 DEF PopulationTypeOK
    <3> QED
      BY <1>1, <1>2, <3>1, MissKept
  <2>2. CASE v = u
    BY <1>1, <1>2, <2>2, MissableType DEF MissOK, Missed
  <2> QED
    BY <2>1, <2>2
<1> QED
  BY <1>3, <1>4, <1>5, <1>6, <1>7

LEMMA RevokeStep ==
    ASSUME PopulationInv, NEW u \in Users, Revoke(u)
    PROVE  PopulationInv'
<1> USE DEF PopulationInv
<1>1. /\ role[u] = "participant" /\ role' = [role EXCEPT ![u] = "plain"]
      /\ changes' \in 0 .. MaxChanges
      /\ UNCHANGED <<place, creating, joining, dropping, populated, records, summary, excused>>
  BY ChangesType DEF Revoke
<1>2. PopulationTypeOK'
  BY <1>1 DEF PopulationTypeOK, Roles
<1>3. Uncreated'
  BY <1>1 DEF PopulationTypeOK, Uncreated
<1>4. Named'
  BY <1>1 DEF Named, Running
<1>5. Present' = Present
  BY <1>1 DEF PopulationTypeOK, Present
<1>6. \A v \in Users : role'[v] = "participant" => role[v] = "participant"
  BY <1>1 DEF PopulationTypeOK
<1>7. ASSUME NEW s \in Summaries, NEW v \in Users PROVE RunOK(s, v)'
  <2>1. RunOK(s, v) /\ (Running(s)' <=> Running(s)) /\ Position(v)' = Position(v)
    BY <1>1, <1>5 DEF Running, Position, Rank
  <2> QED
    BY <1>1, <1>6, <2>1, RunKept
<1>8. \A v \in Users, p \in Members : MissOK(v, p)'
  BY <1>1, <1>6, MissKept
<1> QED
  BY <1>2, <1>3, <1>4, <1>7, <1>8

\* Whoever a rename moves from a page not read yet onto one that was is excused.
LEMMA RenameStep ==
    ASSUME PopulationInv, NEW u \in Users, NEW p \in Places, Rename(u, p)
    PROVE  PopulationInv'
<1> USE DEF PopulationInv
<1>1. PICK order : order = [place EXCEPT ![u] = p]
  OBVIOUS
<1> DEFINE moved == {x \in Present \X Summaries :
                         /\ summary[x[2]].pc = "page"
                         /\ Position(x[1]) >= summary[x[2]].first
                         /\ Rank(Present, order, x[1]) < summary[x[2]].first}
           pairs == {<<q[1], summary[q[2]].member>> : q \in moved}
<1>2. /\ place' = order /\ changes' \in 0 .. MaxChanges
      /\ \A v \in Users : place[v] # p
      /\ UNCHANGED <<role, creating, joining, dropping, populated, records, summary>>
  BY <1>1, ChangesType DEF Rename
<1>3. /\ excused' \in SUBSET (Users \X Members) /\ excused \subseteq excused'
      /\ \A v, q : <<v, q>> \in pairs /\ q \notin records[v] => <<v, q>> \in excused'
  <2>1. \A q \in moved : q[1] \in Users /\ summary[q[2]].member \in Members
    <3> SUFFICES ASSUME NEW v \in Present, NEW s \in Summaries, summary[s].pc = "page"
                 PROVE  v \in Users /\ summary[s].member \in Members
      OBVIOUS
    <3> QED
      BY DEF Named, Running, Present
  <2>3. pairs \subseteq Users \X Members
    <3> HIDE DEF moved
    <3> QED
      BY <2>1
  <2>2. Excuse(pairs)
    BY <1>1 DEF Rename
  <2> QED
    BY <2>2, <2>3, Excused
<1>4. PopulationTypeOK'
  <2>1. place' \in [Users -> Places] /\ \A v, w \in Users : place'[v] = place'[w] => v = w
    BY <1>1, <1>2 DEF PopulationTypeOK
  <2> QED
    BY <1>2, <1>3, <2>1 DEF PopulationTypeOK
<1>5. Uncreated'
  BY <1>2 DEF Uncreated
<1>6. Named'
  BY <1>2 DEF Named, Running
<1>7. ASSUME NEW s \in Summaries, NEW v \in Users PROVE RunOK(s, v)'
  <2>1. RunOK(s, v) /\ (Running(s)' <=> Running(s))
    BY <1>2 DEF Running
  <2>2. SUFFICES ASSUME Running(s), role[v] = "participant", summary[s].member \notin records[v]
                 PROVE  Owed(s, v)'
    BY <1>2, <2>1 DEF RunOK
  <2>3. CASE summary[s].pc = "page" /\ Position(v) >= summary[s].first
    <3>1. Position(v)' = Rank(Present, order, v) /\ Position(v)' \in Nat
      <4>1. PICK A, B : A = Present /\ B = {w \in A : order[w] < order[v]}
        OBVIOUS
      <4>2. IsFiniteSet(A) /\ B \in SUBSET A
        BY <4>1, FiniteUsers DEF Present
      <4>3. Cardinality(B) \in Nat
        BY <4>2, FS_Subset, FS_CardinalityType
      <4>4. Rank(Present, order, v) = Cardinality(B)
        BY <4>1 DEF Rank
      <4>5. Position(v)' = Rank(Present, order, v)
        BY <1>2 DEF Position, Rank, Present
      <4> QED
        BY <4>3, <4>4, <4>5
    <3>2. CASE Position(v)' >= summary[s].first
      BY <1>2, <2>3, <3>2 DEF Owed
    <3>3. CASE ~(Position(v)' >= summary[s].first)
      <4>1. summary[s].first \in Nat /\ v \in Present
        BY <2>2 DEF PopulationTypeOK, Summary, Present
      <4>2. Rank(Present, order, v) < summary[s].first
        BY <3>1, <3>3, <4>1
      <4>3. <<v, s>> \in moved
        BY <2>3, <4>1, <4>2
      <4>4. <<v, summary[s].member>> \in pairs
        BY <4>3
      <4> QED
        BY <1>2, <1>3, <2>2, <4>4 DEF Owed
    <3> QED
      BY <3>2, <3>3
  <2>4. CASE ~(summary[s].pc = "page" /\ Position(v) >= summary[s].first)
    BY <1>2, <1>3, <2>1, <2>2, <2>4 DEF RunOK, Owed
  <2> QED
    BY <2>3, <2>4
<1>8. \A v \in Users, q \in Members : MissOK(v, q)'
  BY <1>2, <1>3, MissKept
<1> QED
  BY <1>4, <1>5, <1>6, <1>7, <1>8

\* Who was next on a page not read yet, and moved onto one that was, is excused.
LEMMA DeleteStep ==
    ASSUME PopulationInv, NEW u \in Users, Delete(u)
    PROVE  PopulationInv'
<1> USE DEF PopulationInv
<1> DEFINE moved == {p \in Present \X Summaries :
                         /\ summary[p[2]].pc = "page"
                         /\ Position(u) < summary[p[2]].first
                         /\ Position(p[1]) = summary[p[2]].first}
           pairs == {<<q[1], summary[q[2]].member>> : q \in moved}
<1>1. /\ role[u] # "absent" /\ role' = [role EXCEPT ![u] = "absent"]
      /\ changes' \in 0 .. MaxChanges
      /\ UNCHANGED <<place, creating, joining, dropping, populated, records, summary>>
  BY ChangesType DEF Delete
<1>2. /\ excused' \in SUBSET (Users \X Members) /\ excused \subseteq excused'
      /\ \A v, q : <<v, q>> \in pairs /\ q \notin records[v] => <<v, q>> \in excused'
  <2>1. pairs \subseteq Users \X Members
    BY DEF Named, Running, Present
  <2>2. Excuse(pairs)
    BY DEF Delete
  <2> QED
    BY <2>1, <2>2, Excused
<1>3. PopulationTypeOK'
  BY <1>1, <1>2 DEF PopulationTypeOK, Roles
<1>4. Uncreated'
  BY <1>1 DEF PopulationTypeOK, Uncreated
<1>5. Named'
  BY <1>1 DEF Named, Running
<1>6. \A v \in Users : role'[v] = "participant" => role[v] = "participant" /\ v # u
  BY <1>1 DEF PopulationTypeOK
<1>7. ASSUME NEW v \in Users, v # u, role[v] # "absent"
      PROVE  /\ Position(v) \in Nat /\ Position(u) \in Nat /\ Position(v)' \in Nat
             /\ Position(v)' = IF place[u] < place[v] THEN Position(v) - 1 ELSE Position(v)
             /\ place[u] < place[v] => Position(u) < Position(v)
  <2>1. PICK A : A = Present
    OBVIOUS
  <2>2. A \in SUBSET Users /\ u \in A /\ v \in A
    BY <1>1, <1>7, <2>1 DEF Present
  <2>3. Present' = A \ {u}
    BY <1>1, <2>1 DEF Present, PopulationTypeOK
  <2>4. Position(u) = Rank(A, place, u) /\ Position(v) = Rank(A, place, v) /\ Position(v)' = Rank(A \ {u}, place, v)
    BY <1>1, <2>1, <2>3 DEF Position, Rank
  <2>5. Rank(A, place, u) \in Nat /\ Rank(A, place, v) \in Nat /\ Rank(A \ {u}, place, v) \in Nat
    BY <2>2, FiniteBefore
  <2> QED
    BY <2>2, <2>4, <2>5, RankWithout, RankIncreases DEF PopulationTypeOK, Placed
<1>8. ASSUME NEW s \in Summaries, NEW v \in Users PROVE RunOK(s, v)'
  <2>1. SUFFICES ASSUME role'[v] = "participant" PROVE RunOK(s, v)'
    BY DEF RunOK
  <2>2. RunOK(s, v) /\ (Running(s)' <=> Running(s)) /\ summary[s].first \in Nat
    BY <1>1 DEF Running, PopulationTypeOK, Summary
  <2>3. role[v] = "participant" /\ v # u /\ v \in Present
    BY <1>6, <2>1 DEF Present
  <2>4. ASSUME summary[s].pc = "page", Position(v) >= summary[s].first
        PROVE  Position(v)' >= summary[s].first \/ <<v, summary[s].member>> \in pairs
    <3>1. CASE Position(v)' >= summary[s].first
      BY <3>1
    <3>2. CASE ~(Position(v)' >= summary[s].first)
      <4>1. place[u] < place[v] /\ Position(v) = summary[s].first /\ Position(u) < summary[s].first
        BY <1>7, <2>2, <2>3, <2>4, <3>2
      <4>2. <<v, s>> \in moved
        BY <2>3, <2>4, <4>1
      <4> QED
        BY <4>2
    <3> QED
      BY <3>1, <3>2
  <2> HIDE DEF pairs
  <2>5. CASE summary[s].member \in records[v]
    BY <1>1, <2>5 DEF RunOK
  <2>6. CASE summary[s].member \notin records[v]
    BY <1>1, <1>2, <2>2, <2>3, <2>4, <2>6, RunKept
  <2> QED
    BY <2>5, <2>6
<1>9. \A v \in Users, p \in Members : MissOK(v, p)'
  BY <1>1, <1>2, <1>6, MissKept
<1> QED
  BY <1>3, <1>4, <1>5, <1>8, <1>9

-----------------------------------------------------------------------------
(* Summaries. *)

\* A step of the request s alone: what it owes afterwards is all there is to show.
LEMMA RequestStep ==
    ASSUME PopulationInv, NEW s \in Summaries, NEW request \in Summary,
           summary' = [summary EXCEPT ![s] = request],
           excused \subseteq excused', excused' \in SUBSET (Users \X Members),
           UNCHANGED <<keycloak, populated, records>>,
           IF Running(s)' THEN summary'[s].member \in Members ELSE summary'[s].batch = {},
           \A u \in Users : RunOK(s, u)'
    PROVE  PopulationInv'
<1> USE DEF PopulationInv
<1>1. /\ UNCHANGED <<role, place, creating, joining, dropping, changes>> /\ UNCHANGED <<populated, records>>
      /\ \A t \in Summaries : t # s => summary'[t] = summary[t]
  BY DEF keycloak, PopulationTypeOK
<1>2. PopulationTypeOK'
  BY <1>1 DEF PopulationTypeOK
<1>3. Uncreated'
  BY <1>1 DEF Uncreated
<1>4. Named'
  BY <1>1 DEF Named, Running
<1>5. ASSUME NEW t \in Summaries, NEW u \in Users PROVE RunOK(t, u)'
  <2>1. CASE t = s
    BY <2>1
  <2>2. CASE t # s
    <3>1. RunOK(t, u) /\ (Running(t)' <=> Running(t)) /\ Position(u)' = Position(u)
      BY <1>1, <2>2, PositionKept DEF Running
    <3> QED
      BY <1>1, <2>2, <3>1, RunKept
  <2> QED
    BY <2>1, <2>2
<1>6. \A u \in Users, p \in Members : MissOK(u, p)'
  BY <1>1, MissKept
<1> QED
  BY <1>2, <1>3, <1>4, <1>5, <1>6

LEMMA RequestType ==
    ASSUME NEW at \in {"idle", "page", "finish", "done"}, NEW p \in Members \cup {NoMember}
    PROVE  /\ Request(at, p) \in Summary
           /\ Request(at, p).pc = at /\ Request(at, p).member = p /\ Request(at, p).first = 0
           /\ Request(at, p).batch = {}
BY DEF Request, Summary

LEMMA BeginStep ==
    ASSUME PopulationInv, NEW s \in Summaries, NEW p \in Members \cup {NoMember}, Begin(s, p)
    PROVE  PopulationInv'
<1> DEFINE request == IF p \in populated \cup {NoMember} THEN Request("done", NoMember)
                      ELSE Request("page", p)
<1>1. /\ summary' = [summary EXCEPT ![s] = request]
      /\ UNCHANGED <<keycloak, populated, records, excused>>
  BY DEF Begin
<1>2. request \in Summary /\ request.first = 0 /\ request.pc \in {"done", "page"} /\ request.batch = {}
      /\ (request.pc = "page" => request.member \in Members)
  BY RequestType
<1>3. PICK r : r = request
  OBVIOUS
<1> HIDE DEF request
<1>4. summary'[s] = r
  BY <1>1, <1>3 DEF PopulationInv, PopulationTypeOK
<1>5. ASSUME NEW u \in Users PROVE RunOK(s, u)'
  <2>1. Position(u)' \in Nat
    BY <1>1, PositionKept, PositionType DEF keycloak
  <2> QED
    BY <1>2, <1>3, <1>4, <2>1 DEF RunOK, Owed, Running
<1>6. IF Running(s)' THEN summary'[s].member \in Members ELSE summary'[s].batch = {}
  BY <1>2, <1>3, <1>4 DEF Running
<1> QED
  BY <1>1, <1>2, <1>3, <1>5, <1>6, RequestStep DEF PopulationInv, PopulationTypeOK

LEMMA PageStep ==
    ASSUME PopulationInv, NEW s \in Summaries, Page(s)
    PROVE  PopulationInv'
<1>1. PICK first, A, page :
         /\ first = summary[s].first /\ A = Present
         /\ page = {u \in A : Position(u) \in first .. first + PageSize - 1}
  OBVIOUS
<1> DEFINE full == ~(Cardinality(page) < PageSize)
<1>2. PICK next : next = (IF full THEN "page" ELSE "finish") /\ next \in {"page", "finish"}
  OBVIOUS
<1>3. PICK request : request = [summary[s] EXCEPT
              !.pc = next,
              !.first = first + PageSize,
              !.batch = @ \cup {u \in page : role[u] = "participant"}]
  OBVIOUS
<1>4. /\ summary[s].pc = "page" /\ UNCHANGED <<keycloak, populated, records, excused>>
      /\ summary' = [summary EXCEPT ![s] = request]
  BY <1>1, <1>2, <1>3 DEF Page
<1>5. summary[s] \in Summary /\ first \in Nat /\ PageSize \in Nat /\ A \in SUBSET Users
  BY <1>1, BoundAssumption DEF PopulationInv, PopulationTypeOK, Summary, Present
<1>6. /\ request.member = summary[s].member /\ request.late = summary[s].late
      /\ request.batch = summary[s].batch \cup {u \in page : role[u] = "participant"}
      /\ request.pc = next /\ request.first = first + PageSize
      /\ request \in Summary
  <2>1. summary[s].batch \cup {u \in page : role[u] = "participant"} \in SUBSET Users
    BY <1>1, <1>5 DEF Summary
  <2>2. first + PageSize \in Nat
    BY <1>5
  <2> HIDE DEF full
  <2> QED
    BY <1>2, <1>3, <1>5, <2>1, <2>2 DEF Summary
<1>7. summary'[s] = request
  BY <1>4 DEF PopulationInv, PopulationTypeOK
<1>8. ASSUME NEW u \in Users PROVE RunOK(s, u)'
  <2>1. SUFFICES ASSUME role[u] = "participant", summary[s].member \notin records[u]
                 PROVE  \/ Owed(s, u)' \/ ~Running(s)'
    BY <1>4, <1>6, <1>7 DEF RunOK, keycloak
  <2>2. Owed(s, u) /\ Position(u) \in Nat /\ Position(u)' = Position(u)
    BY <1>4, <2>1, PositionType, PositionKept DEF PopulationInv, RunOK, Running, keycloak
  <2>3. CASE Position(u) >= first
    <3>1. u \in A /\ Position(u) = Rank(A, place, u)
      BY <1>1, <2>1 DEF Present, Position
    <3>2. CASE Position(u) < first + PageSize
      <4>1. u \in page
        BY <1>1, <1>5, <2>2, <2>3, <3>1, <3>2
      <4> QED
        BY <1>6, <1>7, <2>1, <4>1 DEF Owed
    <3>3. CASE ~(Position(u) < first + PageSize)
      <4>1. page = {v \in A : Rank(A, place, v) \in first .. first + PageSize - 1}
        BY <1>1 DEF Position
      <4>2. full
        BY <1>5, <3>1, <3>3, <4>1, LastPage DEF PopulationInv, PopulationTypeOK, Placed
      <4> QED
        BY <1>2, <1>5, <1>6, <1>7, <2>2, <3>3, <4>2 DEF Owed
    <3> QED
      BY <3>2, <3>3
  <2>4. CASE ~(Position(u) >= first)
    BY <1>1, <1>4, <1>6, <1>7, <2>2, <2>4 DEF Owed, keycloak
  <2> QED
    BY <2>3, <2>4
<1>9. Running(s)' /\ summary'[s].member \in Members
  BY <1>2, <1>4, <1>6, <1>7 DEF PopulationInv, Named, Running
<1> QED
  BY <1>4, <1>6, <1>8, <1>9, RequestStep DEF PopulationInv, PopulationTypeOK

\* The record takes the place of the excuse.
LEMMA InsertStep ==
    ASSUME PopulationInv, NEW s \in Summaries, NEW u \in Users, Insert(s, u)
    PROVE  PopulationInv'
<1> USE DEF PopulationInv
<1>1. PICK p, request :
         p = summary[s].member /\ request = [summary[s] EXCEPT !.batch = @ \ {u}]
  OBVIOUS
<1>2. /\ u \in summary[s].batch /\ records' = [records EXCEPT ![u] = @ \cup {p}]
      /\ excused' = excused \ {<<u, p>>}
      /\ summary' = [summary EXCEPT ![s] = request]
      /\ UNCHANGED <<role, place, creating, joining, dropping, changes>> /\ UNCHANGED populated
  BY <1>1 DEF Insert, keycloak
<1>3. /\ request \in Summary /\ request.pc = summary[s].pc /\ request.member = p
      /\ request.first = summary[s].first /\ request.late = summary[s].late
      /\ request.batch = summary[s].batch \ {u}
  <2>1. summary[s] \in Summary
    BY DEF PopulationTypeOK
  <2> QED
    BY <1>1, <2>1 DEF Summary
<1>4. summary'[s] = request /\ \A t \in Summaries : t # s => summary'[t] = summary[t]
  BY <1>2 DEF PopulationTypeOK
<1>5. Running(s) /\ p \in Members
  BY <1>1, <1>2 DEF Named
<1>6. /\ records' \in [Users -> SUBSET Members] /\ \A v \in Users : records[v] \subseteq records'[v]
      /\ p \in records'[u]
  BY <1>2, <1>5 DEF PopulationTypeOK
<1>7. PopulationTypeOK'
  <2>1. summary' \in [Summaries -> Summary]
    BY <1>2, <1>3 DEF PopulationTypeOK
  <2> QED
    BY <1>2, <1>6, <2>1 DEF PopulationTypeOK
<1>8. Uncreated'
  BY <1>2 DEF Uncreated
<1>9. Named'
  <2>1. \A t \in Summaries : Running(t)' <=> Running(t)
    BY <1>3, <1>4 DEF Running
  <2> QED
    BY <1>1, <1>3, <1>4, <1>5, <2>1 DEF Named
<1>10. ASSUME NEW t \in Summaries, NEW v \in Users PROVE RunOK(t, v)'
  <2>1. /\ summary'[t].pc = summary[t].pc /\ summary'[t].member = summary[t].member
        /\ summary'[t].first = summary[t].first /\ summary'[t].late = summary[t].late
        /\ Running(t)' <=> Running(t)
    BY <1>1, <1>3, <1>4 DEF Running
  <2>2. Position(v)' = Position(v) /\ RunOK(t, v)
    BY <1>2, PositionKept
  <2>3. CASE v = u /\ summary[t].member = p
    BY <1>6, <2>1, <2>3 DEF RunOK
  <2>4. CASE ~(v = u /\ summary[t].member = p)
    <3>1. <<v, summary[t].member>> \in excused => <<v, summary[t].member>> \in excused'
      BY <1>2, <2>4
    <3>2. v \in summary[t].batch => v \in summary'[t].batch
      BY <1>1, <1>3, <1>4, <2>4
    <3> QED
      BY <1>2, <1>6, <2>1, <2>2, <3>1, <3>2 DEF RunOK, Owed
  <2> QED
    BY <2>3, <2>4
<1>11. ASSUME NEW v \in Users, NEW q \in Members PROVE MissOK(v, q)'
  <2>1. CASE v = u /\ q = p
    BY <1>6, <2>1 DEF MissOK, Missed
  <2>2. CASE ~(v = u /\ q = p)
    <3>1. <<v, q>> \in excused => <<v, q>> \in excused'
      BY <1>2, <2>2
    <3> QED
      BY <1>2, <1>6, <3>1 DEF MissOK, Missed
  <2> QED
    BY <2>1, <2>2
<1> QED
  BY <1>7, <1>8, <1>9, <1>10, <1>11

LEMMA PopulateFailsStep ==
    ASSUME PopulationInv, NEW s \in Summaries, PopulateFails(s)
    PROVE  PopulationInv'
<1> DEFINE pairs == {<<u, summary[s].member>> : u \in Users}
<1>1. PICK request : request = [summary[s] EXCEPT !.pc = "finish", !.batch = {}]
  OBVIOUS
<1>2. /\ Running(s) /\ UNCHANGED <<keycloak, populated, records>>
      /\ summary' = [summary EXCEPT ![s] = request]
  BY <1>1 DEF PopulateFails
<1>3. /\ request \in Summary /\ request.member = summary[s].member /\ request.pc = "finish"
  <2>1. summary[s] \in Summary
    BY DEF PopulationInv, PopulationTypeOK
  <2> QED
    BY <1>1, <2>1 DEF Summary
<1>4. summary'[s] = request
  BY <1>2 DEF PopulationInv, PopulationTypeOK
<1>5. summary[s].member \in Members
  BY <1>2 DEF PopulationInv, Named
<1>6. /\ excused' \in SUBSET (Users \X Members) /\ excused \subseteq excused'
      /\ \A u \in Users : summary[s].member \notin records[u] => <<u, summary[s].member>> \in excused'
  <2>1. pairs \subseteq Users \X Members
    BY <1>5
  <2>2. Excuse(pairs)
    BY DEF PopulateFails
  <2>3. \A u, p : <<u, p>> \in pairs /\ p \notin records[u] => <<u, p>> \in excused'
    BY <2>1, <2>2, Excused DEF PopulationInv
  <2> QED
    BY <2>1, <2>2, <2>3, Excused DEF PopulationInv
<1>7. \A u \in Users : RunOK(s, u)'
  BY <1>2, <1>3, <1>4, <1>6 DEF RunOK, Owed
<1>8. Running(s)' /\ summary'[s].member \in Members
  BY <1>3, <1>4, <1>5 DEF Running
<1> QED
  BY <1>2, <1>3, <1>6, <1>7, <1>8, RequestStep

\* What an ended population still owes is excused, or a created event is to drop it.
LEMMA AddStep ==
    ASSUME PopulationInv, NEW s \in Summaries, Add(s)
    PROVE  PopulationInv'
<1> USE DEF PopulationInv
<1>1. PICK p, request : p = summary[s].member /\ request = Request("done", NoMember)
  OBVIOUS
<1>2. /\ summary[s].pc = "finish" /\ summary[s].batch = {} /\ populated' = populated \cup {p}
      /\ summary' = [summary EXCEPT ![s] = request]
      /\ UNCHANGED <<role, place, creating, joining, dropping, changes>> /\ UNCHANGED <<records, excused>>
  BY <1>1 DEF Add, keycloak
<1>3. request \in Summary /\ request.pc = "done" /\ request.batch = {}
  BY <1>1, RequestType
<1>4. p \in Members
  BY <1>1, <1>2 DEF Named, Running
<1>5. summary'[s] = request /\ \A t \in Summaries : t # s => summary'[t] = summary[t]
  BY <1>2 DEF PopulationTypeOK
<1>6. PopulationTypeOK'
  BY <1>2, <1>3, <1>4 DEF PopulationTypeOK
<1>7. Uncreated'
  BY <1>2 DEF Uncreated
<1>8. Named'
  BY <1>3, <1>5 DEF Named, Running
<1>9. ASSUME NEW t \in Summaries, NEW v \in Users PROVE RunOK(t, v)'
  <2>1. CASE t = s
    BY <1>3, <1>5, <2>1 DEF RunOK, Running
  <2>2. CASE t # s
    <3>1. RunOK(t, v) /\ (Running(t)' <=> Running(t)) /\ Position(v)' = Position(v)
      BY <1>2, <1>5, <2>2, PositionKept DEF Running
    <3> QED
      BY <1>2, <1>5, <2>2, <3>1, RunKept
  <2> QED
    BY <2>1, <2>2
<1>10. ASSUME NEW v \in Users, NEW q \in Members PROVE MissOK(v, q)'
  <2>1. CASE q = p
    <3>1. RunOK(s, v) /\ Running(s)
      BY <1>2 DEF Running
    <3> QED
      BY <1>1, <1>2, <2>1, <3>1 DEF RunOK, Owed, MissOK, Missed
  <2>2. CASE q # p
    BY <1>2, <2>2, MissKept
  <2> QED
    BY <2>1, <2>2
<1> QED
  BY <1>6, <1>7, <1>8, <1>9, <1>10

LEMMA CrashStep ==
    ASSUME PopulationInv, NEW s \in Summaries, Crash(s)
    PROVE  PopulationInv'
<1>1. PICK request : request = Request("done", NoMember)
  OBVIOUS
<1>2. /\ summary' = [summary EXCEPT ![s] = request]
      /\ UNCHANGED <<keycloak, populated, records, excused>>
  BY <1>1 DEF Crash
<1>3. request \in Summary /\ request.pc = "done" /\ request.batch = {}
  BY <1>1, RequestType
<1>4. summary'[s] = request
  BY <1>2 DEF PopulationInv, PopulationTypeOK
<1>5. ~Running(s)' /\ summary'[s].batch = {}
  BY <1>3, <1>4 DEF Running
<1>6. \A u \in Users : RunOK(s, u)'
  BY <1>5 DEF RunOK
<1> QED
  BY <1>2, <1>3, <1>5, <1>6, RequestStep DEF PopulationInv, PopulationTypeOK

-----------------------------------------------------------------------------
(* Every step. *)

LEMMA PopulationInitially == PopulationInit => PopulationInv
<1> SUFFICES ASSUME PopulationInit PROVE PopulationInv
  OBVIOUS
<1>1. Request("idle", NoMember) \in Summary /\ Request("idle", NoMember).pc = "idle"
      /\ Request("idle", NoMember).batch = {}
  BY RequestType
<1>2. \A s \in Summaries : summary[s] = Request("idle", NoMember)
  BY DEF PopulationInit
<1>3. PopulationTypeOK
  BY <1>1, BoundAssumption DEF PopulationInit, PopulationTypeOK, Roles
<1>4. Uncreated /\ \A s \in Summaries : ~Running(s) /\ summary[s].batch = {}
  BY <1>1, <1>2 DEF PopulationInit, Uncreated, Running
<1>5. \A u \in Users, p \in Members : MissOK(u, p)
  BY DEF PopulationInit, MissOK, Missed
<1> QED
  BY <1>3, <1>4, <1>5 DEF PopulationInv, Named, RunOK

LEMMA PopulationInductive == PopulationInv /\ [PopulationNext]_populationVars => PopulationInv'
<1> SUFFICES ASSUME PopulationInv, [PopulationNext]_populationVars PROVE PopulationInv'
  OBVIOUS
<1>1. CASE UNCHANGED populationVars
  <2>1. /\ UNCHANGED <<role, place, creating, joining, dropping, populated, records, summary, changes>>
        /\ UNCHANGED excused
    BY <1>1 DEF populationVars
  <2>2. PopulationTypeOK' /\ Uncreated' /\ Named'
    BY <2>1 DEF PopulationInv, PopulationTypeOK, Uncreated, Named, Running
  <2>3. \A s \in Summaries, u \in Users : RunOK(s, u)'
    BY <2>1, RunsKept
  <2>4. \A u \in Users, p \in Members : MissOK(u, p)'
    BY <2>1, MissKept DEF PopulationInv
  <2> QED
    BY <2>2, <2>3, <2>4 DEF PopulationInv
<1>2. ASSUME NEW u \in Users,
             \/ \E canAccessTraining \in BOOLEAN : CreateUser(u, canAccessTraining)
             \/ Assign(u) \/ Join(u) \/ Scan(u) \/ Drop(u) \/ CreateFails(u)
             \/ Grant(u) \/ Revoke(u) \/ Delete(u)
             \/ \E p \in Places : Rename(u, p)
      PROVE  PopulationInv'
  BY <1>2, CreateUserStep, AssignStep, JoinStep, ScanStep, DropStep, CreateFailsStep,
     GrantStep, RevokeStep, DeleteStep, RenameStep
<1>3. ASSUME NEW s \in Summaries,
             \/ \E p \in Members \cup {NoMember} : Begin(s, p)
             \/ \E u \in Users : Insert(s, u)
             \/ Page(s) \/ PopulateFails(s) \/ Add(s) \/ Crash(s)
      PROVE  PopulationInv'
  BY <1>3, BeginStep, InsertStep, PageStep, PopulateFailsStep, AddStep, CrashStep
<1> QED
  BY <1>1, <1>2, <1>3 DEF PopulationNext

(* Whoever takes part and is missing from a populated summary is missing only until its *)
(* created event is handled, or for a reason the history names.                         *)
THEOREM MissedForAReason == PopulationSpec => []MissedOnlyForAReason
<1>1. PopulationInv => MissedOnlyForAReason
  BY DEF PopulationInv, MissOK, MissedOnlyForAReason
<1> QED
  BY <1>1, PopulationInitially, PopulationInductive, PTL DEF PopulationSpec

=============================================================================
