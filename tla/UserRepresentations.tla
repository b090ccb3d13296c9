------------------------ MODULE UserRepresentations -------------------------
(***************************************************************************)
(* UsersService.updateRepresentation: the local row of a person, found or  *)
(* made whenever a request needs its author, a training token is created,  *)
(* the token sync runs or the completion summary populates its records.    *)
(* A person comes from the identity provider (idpId is the Keycloak id) or *)
(* from a training token (idpId is null, the email is all there is).       *)
(*                                                                         *)
(* A call is three SQL statements, each one step: UPDATE; when it affected *)
(* no row, INSERT ... ON CONFLICT; SELECT.  The unit lookup before them    *)
(* only reads, and its result is part of the profile.                      *)
(***************************************************************************)
EXTENDS Naturals

CONSTANTS
    Requests,       \* calls of updateRepresentation
    Idps,           \* Keycloak user ids
    Addresses,      \* email addresses as callers spell them
    Normalized,     \* Normalized[a]: a trimmed and in lower case
    NoRow,          \* no row with this email
    NoIdp,          \* idpId IS NULL
    NoCall,         \* a call that was not made yet
    NoId            \* no row was returned

ASSUME NormalizedAssumption ==
    /\ Normalized \in [Addresses -> Addresses]
    /\ \A a \in Addresses : Normalized[Normalized[a]] = Normalized[a]

VARIABLES
    rows,           \* rows[a]: the row whose unique email is a, or NoRow
    nextId,         \* the id the next INSERT draws
    call,           \* call[r]: the StatelessUser of call r
    pc,             \* pc[r]: the statement r executes next
    outcome,        \* outcome[r]: how r ended
    found           \* found[r]: the id of the row r returned

vars == <<rows, nextId, call, pc, outcome, found>>

-----------------------------------------------------------------------------
Emails == {Normalized[a] : a \in Addresses}

\* profile names the source of the row's name, picture, unit and organization:
\* a Keycloak user, or NoIdp for a token.
Row == [id : Nat, idpId : Idps \cup {NoIdp}, profile : Idps \cup {NoIdp}]

Call == [idpId : Idps \cup {NoIdp}, address : Addresses]

ASSUME SentinelAssumption ==
    /\ NoRow \notin Row
    /\ NoCall \notin Call
    /\ NoIdp \notin Idps
    /\ NoId \notin Nat

PCs == {"idle", "insert", "select", "done"}

Outcomes == {"none", "found", "conflict", "notfound"}

TypeOK ==
    /\ rows \in [Addresses -> Row \cup {NoRow}]
    /\ \A a \in Addresses : rows[a] # NoRow => a \in Emails
    /\ nextId \in Nat
    /\ call \in [Requests -> Call \cup {NoCall}]
    /\ pc \in [Requests -> PCs]
    /\ outcome \in [Requests -> Outcomes]
    /\ found \in [Requests -> Nat \cup {NoId}]

Init ==
    /\ rows = [a \in Addresses |-> NoRow]
    /\ nextId = 0
    /\ call = [r \in Requests |-> NoCall]
    /\ pc = [r \in Requests |-> "idle"]
    /\ outcome = [r \in Requests |-> "none"]
    /\ found = [r \in Requests |-> NoId]

-----------------------------------------------------------------------------
\* Mutant: the email is used as the caller spells it.
RawEmail(c) == c.address

\* user.email.trim().toLowerCase()
EmailOf(c) == Normalized[c.address]

\* Mutant: "idpId IS NULL OR idpId = :idpId".
LooselyOwned(i) ==
    {e \in Addresses : rows[e] # NoRow /\ rows[e].idpId \in {i, NoIdp}}

\* The emails of the rows that idp user i owns: WHERE idpId = :idpId.
Owned(i) == {e \in Addresses : rows[e] # NoRow /\ rows[e].idpId = i}

\* Mutant: a token overwrites the sensitive fields, as an idp user does.
OverwrittenRow(row, c) == [row EXCEPT !.profile = c.idpId]

\* The columns a token's UPDATE sets: the email, which the row already has.
TokenRow(row, c) == row

\* Mutant: the conflicting row gets a new owner but keeps its profile.
HalfTakenRow(row, c) == [row EXCEPT !.idpId = c.idpId]

\* Mutant: the conflicting row gets a new id as well.
RenumberedRow(row, c) == [id |-> nextId, idpId |-> c.idpId, profile |-> c.idpId]

\* ON CONFLICT (email) DO UPDATE of every column but the id.
TakenRow(row, c) == [id |-> row.id, idpId |-> c.idpId, profile |-> c.idpId]

InsertedRow(c) == [id |-> nextId, idpId |-> c.idpId, profile |-> c.idpId]

Continues(r, step) ==
    /\ pc' = [pc EXCEPT ![r] = step]
    /\ UNCHANGED <<outcome, found>>

Ends(r, o, id) ==
    /\ pc' = [pc EXCEPT ![r] = "done"]
    /\ outcome' = [outcome EXCEPT ![r] = o]
    /\ found' = [found EXCEPT ![r] = id]

\* The unique constraint on idpId or on email refuses the statement.
Conflicts(r) == Ends(r, "conflict", NoId) /\ UNCHANGED <<rows, nextId>>

\* UPDATE ... SET email and the sensitive fields WHERE idpId = :idpId.  The row
\* moves to the email the identity provider now gives, unless it is taken.
IdpUpdate(r, i, a) ==
    LET c == [idpId |-> i, address |-> a]
    IN  /\ pc[r] = "idle"
        /\ call' = [call EXCEPT ![r] = c]
        /\ \/ /\ Owned(i) = {}
              /\ Continues(r, "insert")
              /\ UNCHANGED <<rows, nextId>>
           \/ \E e \in Owned(i) :
                /\ e # EmailOf(c) => rows[EmailOf(c)] = NoRow
                /\ rows' = [rows EXCEPT ![e] = NoRow,
                                        ![EmailOf(c)] = TakenRow(rows[e], c)]
                /\ Continues(r, "select")
                /\ UNCHANGED nextId
           \/ \E e \in Owned(i) :
                /\ e # EmailOf(c)
                /\ rows[EmailOf(c)] # NoRow
                /\ Conflicts(r)

\* UPDATE ... SET email WHERE email = :email
TokenUpdate(r, a) ==
    LET c == [idpId |-> NoIdp, address |-> a]
        e == EmailOf(c)
    IN  /\ pc[r] = "idle"
        /\ call' = [call EXCEPT ![r] = c]
        /\ UNCHANGED nextId
        /\ \/ /\ rows[e] = NoRow
              /\ Continues(r, "insert")
              /\ UNCHANGED rows
           \/ /\ rows[e] # NoRow
              /\ rows' = [rows EXCEPT ![e] = TokenRow(rows[e], c)]
              /\ Continues(r, "select")

\* Mutant: an INSERT without the ON CONFLICT clause.
PlainIdpInsert(r) ==
    LET c == call[r]
        e == EmailOf(c)
    IN  /\ pc[r] = "insert"
        /\ c.idpId # NoIdp
        /\ UNCHANGED call
        /\ \/ /\ Owned(c.idpId) = {}
              /\ rows[e] = NoRow
              /\ rows' = [rows EXCEPT ![e] = InsertedRow(c)]
              /\ nextId' = nextId + 1
              /\ Continues(r, "select")
           \/ /\ Owned(c.idpId) # {} \/ rows[e] # NoRow
              /\ Conflicts(r)

\* INSERT ... ON CONFLICT (email) DO UPDATE, which the unique idpId may refuse:
\* its owner may have been inserted since, under another email.
IdpInsert(r) ==
    LET c == call[r]
        e == EmailOf(c)
    IN  /\ pc[r] = "insert"
        /\ c.idpId # NoIdp
        /\ UNCHANGED call
        /\ \/ /\ Owned(c.idpId) \subseteq {e}
              /\ rows[e] = NoRow
              /\ rows' = [rows EXCEPT ![e] = InsertedRow(c)]
              /\ nextId' = nextId + 1
              /\ Continues(r, "select")
           \/ /\ Owned(c.idpId) \subseteq {e}
              /\ rows[e] # NoRow
              /\ rows' = [rows EXCEPT ![e] = TakenRow(rows[e], c)]
              /\ Continues(r, "select")
              /\ UNCHANGED nextId
           \/ /\ ~ Owned(c.idpId) \subseteq {e}
              /\ Conflicts(r)

\* INSERT ... ON CONFLICT DO NOTHING
TokenInsert(r) ==
    LET c == call[r]
        e == EmailOf(c)
    IN  /\ pc[r] = "insert"
        /\ c.idpId = NoIdp
        /\ Continues(r, "select")
        /\ UNCHANGED call
        /\ \/ /\ rows[e] = NoRow
              /\ rows' = [rows EXCEPT ![e] = InsertedRow(c)]
              /\ nextId' = nextId + 1
           \/ /\ rows[e] # NoRow
              /\ UNCHANGED <<rows, nextId>>

\* The rows findOneByOrFail looks for: by idpId, or by email for a token.
Sought(c) ==
    IF c.idpId # NoIdp THEN Owned(c.idpId)
    ELSE {e \in {EmailOf(c)} : rows[e] # NoRow}

\* findOneByOrFail: the row may be someone else's by now.
Select(r) ==
    /\ pc[r] = "select"
    /\ UNCHANGED <<rows, nextId, call>>
    /\ \/ /\ Sought(call[r]) = {}
          /\ Ends(r, "notfound", NoId)
       \/ \E e \in Sought(call[r]) : Ends(r, "found", rows[e].id)

Step(r) ==
    \/ \E i \in Idps, a \in Addresses : IdpUpdate(r, i, a)
    \/ \E a \in Addresses : TokenUpdate(r, a)
    \/ IdpInsert(r)
    \/ TokenInsert(r)
    \/ Select(r)

Next == \E r \in Requests : Step(r)

Spec == Init /\ [][Next]_vars

-----------------------------------------------------------------------------
(* Properties. *)

IsIdp(r) == call[r] # NoCall /\ call[r].idpId # NoIdp
IsToken(r) == call[r] # NoCall /\ call[r].idpId = NoIdp
Mailbox(r) == Normalized[call[r].address]

\* Keycloak user i carried mailbox m in some call.
Carried(i, m) == \E s \in Requests : IsIdp(s) /\ call[s].idpId = i /\ Mailbox(s) = m

\* Another Keycloak user carried a mailbox that i carried.
Contested(i) ==
    \E s \in Requests :
       IsIdp(s) /\ call[s].idpId # i /\ Carried(i, Mailbox(s))

\* A Keycloak user that carried m carried another mailbox too.
Vacated(m) ==
    \E s \in Requests : IsIdp(s) /\ Mailbox(s) # m /\ Carried(call[s].idpId, m)

(* The sensitive fields of a row are those of the Keycloak user that owns   *)
(* it, or of a token when none does; no user owns two rows and no two rows  *)
(* share an id.  A takeover of a row by its email is complete.              *)
ProfileOfOwner ==
    /\ \A e \in Addresses : rows[e] # NoRow => rows[e].profile = rows[e].idpId
    /\ \A e, f \in Addresses :
          (rows[e] # NoRow /\ rows[f] # NoRow /\ e # f)
          => /\ rows[e].id # rows[f].id
             /\ rows[e].idpId = rows[f].idpId => rows[e].idpId = NoIdp

(* "Be careful not to overwrite values with nulls when the incoming user    *)
(* object isn't an IDP user": whatever a token's statements meet, they      *)
(* leave the owner and the sensitive fields of every existing row alone.    *)
TokenNeverOverwrites ==
    [][\A r \in Requests : \A e \in Addresses :
          (/\ pc'[r] # pc[r]
           /\ call'[r].idpId = NoIdp
           /\ rows[e] # NoRow) => rows'[e] = rows[e]]_vars

(* A Keycloak user who always carries the same mailbox is never refused:    *)
(* however its first calls race each other, tokens for the mailbox and      *)
(* users that took it over, neither UPDATE nor INSERT can conflict.         *)
SteadyUserNeverRefused ==
    \A r \in Requests :
        outcome[r] = "conflict" =>
            \E m \in Emails : m # Mailbox(r) /\ Carried(call[r].idpId, m)

(* Two calls for one Keycloak user return the same row id, so its records   *)
(* stay with it, unless another user carried one of its mailboxes.          *)
StableIdentity ==
    \A r, s \in Requests :
        (/\ IsIdp(r) /\ IsIdp(s)
         /\ call[r].idpId = call[s].idpId
         /\ outcome[r] = "found" /\ outcome[s] = "found"
         /\ found[r] # found[s])
        => Contested(call[r].idpId)

(* Two tokens for one mailbox, however each spells it, return the same row  *)
(* id, unless a Keycloak user with that mailbox carried another as well.    *)
StableMailbox ==
    \A r, s \in Requests :
        (/\ IsToken(r) /\ IsToken(s)
         /\ Mailbox(r) = Mailbox(s)
         /\ outcome[r] = "found" /\ outcome[s] = "found"
         /\ found[r] # found[s])
        => Vacated(Mailbox(r))

(* Two Keycloak users are never given the same row, so that neither writes  *)
(* records as the other, unless each carried a mailbox of someone else.     *)
SeparateIdentities ==
    \A r, s \in Requests :
        (/\ IsIdp(r) /\ IsIdp(s)
         /\ call[r].idpId # call[s].idpId
         /\ outcome[r] = "found" /\ outcome[s] = "found"
         /\ found[r] = found[s])
        => Contested(call[r].idpId) /\ Contested(call[s].idpId)
=============================================================================
