---------------------------- MODULE TrainingLinks ----------------------------
(***************************************************************************)
(* Opaque tokens for people who need not log in: TrainingAdminService      *)
(* invites people by a training link, UsersService registers a person and  *)
(* an empty completion record for every token, and the nightly             *)
(* synchronisation does so again for the tokens that lost it.              *)
(*                                                                         *)
(* A token carries a copy of the person's e-mail address.  Representations *)
(* are found by the Keycloak id for who logs in and by e-mail for tokens,  *)
(* and completion records belong to a representation.  updateRepresentation*)
(* is one step here; UserRepresentations has its statements.               *)
(***************************************************************************)
EXTENDS Naturals, FiniteSets

CONSTANTS
    Persons,        \* Keycloak users
    Mails,          \* e-mail addresses, normalised
    HomeMail,       \* HomeMail[p]: the address p has at first
    CourseItems,    \* training items of the one enrollment
    Units, UnitOf,  \* UnitOf[p]: the unit an invitation names for p
    LinkDays,       \* a training link is good for this many days (90)
    ReminderDays,   \* and the link of a reminder for this many (30)
    NoOwner,        \* the idpId of a representation that a token made
    Scenarios       \* bounds: records of whether reminders are sent (open), how
                    \* often links are asked for (invitations), people come
                    \* (visits), addresses change (moves), calls and processes
                    \* fail (faults) and administrators act otherwise (edits)

ASSUME PersonAssumption ==
    /\ NoOwner \notin Persons
    /\ HomeMail \in [Persons -> Mails]
    /\ UnitOf \in [Persons -> Units]
    /\ \A p, q \in Persons : HomeMail[p] = HomeMail[q] => p = q

ASSUME BoundAssumption ==
    /\ {LinkDays, ReminderDays} \subseteq Nat
    /\ Scenarios \subseteq 
          [open : BOOLEAN, invitations : Nat, visits : Nat, moves : Nat, faults : Nat,
           edits : Nat]

VARIABLES
    day,        \* days since the model began
    mailOf,     \* mailOf[p]: the address of p in Keycloak
    tokens,     \* the table opaque_token
    reps,       \* the table user_representation
    records,    \* the table item_completion: <<representation, item>>
    done,       \* the completed ones
    mailed,     \* training links handed to the notifications queue
    request,    \* the request that makes training links
    pending,    \* tokens the synchronisation still has to visit
    scenario,   \* what may still happen
    gaps,       \* history: tokens that were not registered, for a known reason
    unmailed,   \* history: links not mailed, for a known reason
    vacated,    \* history: addresses some representation has left
    moved       \* history: people whose address changed

linkVars == <<tokens, reps, records, done, mailed, request, pending>>
ghosts == <<gaps, unmailed, vacated, moved>>

-----------------------------------------------------------------------------
Types == {"training", "training-reminder"}

\* One record stands for all tokens of these columns.
Token == [person : Persons, mail : Mails, type : Types, item : CourseItems, expires : Nat]

Representation == [id : Mails \X Nat, mail : Mails, owner : Persons \cup {NoOwner}]

NoRequest == [todo |-> {}, links |-> {}, mail |-> FALSE]

LinksTypeOK ==
    /\ day \in Nat
    /\ mailOf \in [Persons -> Mails]
    /\ tokens \in SUBSET Token
    /\ \A r \in reps : r \in Representation
    /\ records \subseteq {r.id : r \in reps} \X CourseItems
    /\ done \subseteq records
    /\ mailed \cup pending \cup gaps \cup unmailed \subseteq Token
    /\ request.todo \subseteq request.links /\ request.links \subseteq Token
    /\ vacated \subseteq Mails /\ moved \subseteq Persons

\* Nobody has logged in yet.
LinksInit ==
    /\ day = 0
    /\ mailOf = HomeMail
    /\ tokens = {} /\ reps = {} /\ records = {} /\ done = {} /\ mailed = {} /\ pending = {}
    /\ request = NoRequest
    /\ scenario \in Scenarios
    /\ gaps = {} /\ unmailed = {} /\ vacated = {} /\ moved = {}

Spend(budget) ==
    /\ scenario[budget] > 0
    /\ scenario' = [scenario EXCEPT ![budget] = @ - 1]

-----------------------------------------------------------------------------
(* updateRepresentation *)

At(m) == {r \in reps : r.mail = m}
OwnedBy(p) == {r \in reps : r.owner = p}
\* Ids are unique, and say at which address the row was inserted first.
New(m, owner) ==
    [id |-> <<m, Cardinality({r \in reps : r.id[1] = m})>>, mail |-> m, owner |-> owner]

\* Mutant: a token's INSERT takes no notice of the row that has the address.
WithDuplicate(m) == reps \cup {New(m, NoOwner)}

\* For a token: the row with the address, inserted if there is none.
WithToken(m) == IF At(m) # {} THEN reps ELSE reps \cup {New(m, NoOwner)}

\* For a Keycloak user: the row of the Keycloak id takes the new address, or
\* the row of the address takes the Keycloak id.  While another row has the
\* address, the UPDATE violates its unique constraint: the login is refused.
LogIn(p) ==
    \/ \E r \in OwnedBy(p) :
          /\ At(mailOf[p]) \subseteq {r}
          /\ reps' = (reps \ {r}) \cup {[r EXCEPT !.mail = mailOf[p]]}
          /\ vacated' = IF r.mail = mailOf[p] THEN vacated ELSE vacated \cup {r.mail}
    \/ /\ OwnedBy(p) = {}
       /\ \/ /\ At(mailOf[p]) = {}
             /\ reps' = reps \cup {New(mailOf[p], p)}
             /\ UNCHANGED vacated
          \/ \E r \in At(mailOf[p]) :
                /\ reps' = (reps \ {r}) \cup {[r EXCEPT !.owner = p]}
                /\ UNCHANGED vacated

\* updateRepresentation for a token, then INSERT ... ON CONFLICT DO NOTHING.
Register(t) ==
    /\ reps' = WithToken(t.mail)
    /\ records' = records \cup {<<r.id, t.item>> : r \in {s \in reps' : s.mail = t.mail}}

-----------------------------------------------------------------------------
(* UsersService.createTrainingToken *)

Link(p, i) ==
    [person |-> p, mail |-> mailOf[p], type |-> "training", item |-> i,
     expires |-> day + LinkDays]

\* All tokens of a request are validated and saved together.
MakeTokens(links, mail) ==
    /\ request = NoRequest
    /\ Spend("invitations")
    /\ tokens' = tokens \cup links
    /\ request' = [todo |-> links, links |-> links, mail |-> mail]
    /\ unmailed' = IF mail THEN unmailed ELSE unmailed \cup links
    /\ UNCHANGED <<day, mailOf, reps, records, done, mailed, pending,
                   gaps, vacated, moved>>

\* sendTrainingLinks: one unit that the administrator may not see refuses the
\* whole request.
SendTrainingLinks(people, i, scope) ==
    /\ \A p \in people : UnitOf[p] \in scope
    /\ MakeTokens({Link(p, i) : p \in people}, TRUE)

\* POST /users/training-token checks no unit and sends nothing.
PostTrainingToken(people, i) == MakeTokens({Link(p, i) : p \in people}, FALSE)

\* Promise.allSettled: the people of the request are registered in parallel,
\* and one that fails is logged.
RegisterRecipient(t) ==
    /\ t \in request.todo
    /\ request' = [request EXCEPT !.todo = @ \ {t}]
    /\ \/ /\ Register(t)
          /\ UNCHANGED <<scenario, gaps>>
       \/ /\ Spend("faults")
          /\ gaps' = gaps \cup {t}
          /\ UNCHANGED <<reps, records>>
    /\ UNCHANGED <<day, mailOf, tokens, done, mailed, pending, unmailed,
                   vacated, moved>>

\* sendTrainingLinkEmails: one addBulk that nobody awaits.
SendTrainingLinkEmails ==
    /\ request # NoRequest
    /\ request.todo = {}
    /\ request' = NoRequest
    /\ \/ /\ request.mail
          /\ mailed' = mailed \cup request.links
          /\ UNCHANGED <<scenario, unmailed>>
       \/ /\ ~ request.mail
          /\ UNCHANGED <<mailed, scenario, unmailed>>
       \/ /\ request.mail
          /\ Spend("faults")
          /\ unmailed' = unmailed \cup request.links
          /\ UNCHANGED mailed
    /\ UNCHANGED <<day, mailOf, tokens, reps, records, done, pending,
                   gaps, vacated, moved>>

\* resendTrainingLinks asks neither when a link expires nor whether it was used.
ResendTrainingLinks(links, scope) ==
    /\ links \subseteq {t \in tokens : t.type = "training" /\ UnitOf[t.person] \in scope}
    /\ Spend("edits")
    /\ mailed' = mailed \cup links
    /\ UNCHANGED <<day, mailOf, tokens, reps, records, done, request, pending, ghosts>>

DeleteTrainingToken(t) ==
    /\ t \in tokens
    /\ Spend("edits")
    /\ tokens' = tokens \ {t}
    /\ UNCHANGED <<day, mailOf, reps, records, done, mailed, request, pending, ghosts>>

-----------------------------------------------------------------------------
(* UsersService.syncMissingLocalUsersFromOpaqueTokens *)

\* The join is on externalId, which updateRepresentation never writes: every
\* token is taken for one whose person is missing, expired ones included.
BeginSync == pending' = tokens

\* An administrator may run it at any time, not only the task at midnight.
PostSync ==
    /\ pending = {}
    /\ tokens # {}
    /\ Spend("edits")
    /\ BeginSync
    /\ UNCHANGED <<day, mailOf, tokens, reps, records, done, mailed, request, ghosts>>

\* Mutant: the record is left to whoever made the token.
SyncRepresentation(t) ==
    /\ reps' = WithToken(t.mail)
    /\ UNCHANGED records

\* What the loop does with one token.
SyncToken(t) ==
    IF t.type = "training" THEN Register(t)
    ELSE /\ reps' = WithToken(t.mail)
         /\ UNCHANGED records

\* The tokens come in no order.  The first error ends the loop.
SyncOne(t) ==
    /\ t \in pending
    /\ \/ /\ SyncToken(t)
          /\ pending' = pending \ {t}
          /\ gaps' = gaps \ {t}
          /\ UNCHANGED scenario
       \/ /\ Spend("faults")
          /\ pending' = {}
          /\ UNCHANGED <<reps, records, gaps>>
    /\ UNCHANGED <<day, mailOf, tokens, done, mailed, request, unmailed,
                   vacated, moved>>

-----------------------------------------------------------------------------
(* The participants, by what ItemCompletions shows of them. *)

Watched(r, i) ==
    /\ records' = records \cup {<<r.id, i>>}
    /\ done' = done \cup {<<r.id, i>>}

\* Any request of a Keycloak user finds or makes the representation.
Visit(p) ==
    /\ Spend("visits")
    /\ LogIn(p)
    /\ UNCHANGED <<day, mailOf, tokens, records, done, mailed, request, pending,
                   gaps, unmailed, moved>>

Watch(p, i) ==
    /\ Spend("visits")
    /\ LogIn(p)
    /\ \E r \in reps' : r.owner = p /\ Watched(r, i)
    /\ UNCHANGED <<day, mailOf, tokens, mailed, request, pending, gaps, unmailed,
                   moved>>

\* validate() refuses a token from the moment it expires.
WatchByLink(t) ==
    /\ t \in tokens
    /\ day < t.expires
    /\ Spend("visits")
    /\ reps' = WithToken(t.mail)
    /\ \E r \in reps' : r.mail = t.mail /\ Watched(r, t.item)
    /\ UNCHANGED <<day, mailOf, tokens, mailed, request, pending, ghosts>>

\* Somebody's address changes in Keycloak, perhaps to one that was another's.
ChangeMail(p, m) ==
    /\ Spend("moves")
    /\ \A q \in Persons : mailOf[q] # m
    /\ moved' = moved \cup {p}
    /\ mailOf' = [mailOf EXCEPT ![p] = m]
    /\ UNCHANGED <<day, linkVars, gaps, unmailed, vacated>>

\* A process stops: the request and the synchronisation are gone, if they were its own.
LinksStop ==
    /\ \/ /\ gaps' = gaps \cup request.todo
          /\ unmailed' = unmailed \cup request.links
          /\ request' = NoRequest
       \/ UNCHANGED <<gaps, unmailed, request>>
    /\ pending' \in {{}, pending}
    /\ UNCHANGED <<tokens, reps, records, done, mailed, vacated, moved>>

LinksNext ==
    \/ \E people \in SUBSET Persons \ {{}}, i \in CourseItems :
          \/ \E scope \in SUBSET Units : SendTrainingLinks(people, i, scope)
          \/ PostTrainingToken(people, i)
    \/ \E t \in request.todo : RegisterRecipient(t)
    \/ SendTrainingLinkEmails
    \/ \E scope \in SUBSET Units :
          \E links \in SUBSET tokens : ResendTrainingLinks(links, scope)
    \/ \E t \in tokens : DeleteTrainingToken(t)
    \/ PostSync
    \/ \E t \in pending : SyncOne(t)
    \/ \E p \in Persons : Visit(p)
    \/ \E p \in Persons, i \in CourseItems : Watch(p, i)
    \/ \E t \in tokens : WatchByLink(t)
    \/ \E p \in Persons, m \in Mails : ChangeMail(p, m)

-----------------------------------------------------------------------------
(* Properties. *)

Counted(t) == \E r \in At(t.mail) : <<r.id, t.item>> \in records

(* Whoever was invited is counted and told: the person of every training    *)
(* link has a completion record and was sent the link, unless the request   *)
(* is still at it, a call failed or the process stopped before it, nobody   *)
(* asked for mail, or the record has moved to another address since.  What  *)
(* the request left undone, a synchronisation makes up for.                 *)
InvitationCarriedOut ==
    \A t \in tokens :
        t.type = "training" =>
            /\ \/ Counted(t)
               \/ t \in request.todo \cup gaps
               \/ t.mail \in vacated
            /\ t \in mailed \cup request.links \cup unmailed

(* Nobody is counted twice for an item: of two records for it, one kept by  *)
(* a person's account and one by an address that a token of that person     *)
(* carries, the second appears only when the person changed the address, as *)
(* the nightly synchronisation brings the old one back.                     *)
CountedOnce ==
    \A t \in tokens : \A r, s \in reps :
        (/\ r # s
         /\ r.owner = t.person /\ s.mail = t.mail
         /\ {<<r.id, t.item>>, <<s.id, t.item>>} \subseteq records)
        => t.person \in moved
=============================================================================
