------------------------------ MODULE Requests ------------------------------
(***************************************************************************)
(* Requests on their way through the API: the guards, then the handler, in *)
(* steps that end where the code awaits.  The handlers of notes and of     *)
(* enrollments are modelled; what another handler does is not looked at,   *)
(* only who gets that far.                                                 *)
(***************************************************************************)
EXTENDS Routes

CONSTANTS
    Clients,        \* each has one request under way at a time
    Sessions        \* Sessions[s]: the clients and the asks of a behaviour of kind s

CONSTANTS
    NoteIds, Submissions, Units, NoNote,
    Enrollments, Orgs, Slugs, Courses, Dates, Today, InitialSlugs, Undated, NoRow, NoOrg

ASSUME SlugAssumption ==
    /\ InitialSlugs \in [Orgs -> Slugs]
    /\ \A o, p \in Orgs : InitialSlugs[o] = InitialSlugs[p] => o = p

Asks == UNION {Sessions[s].asks : s \in DOMAIN Sessions}

(* An ask is [route, bearer, claims, about]: about is a pair of a           *)
(* submission and a note, or of an organization and an enrollment.          *)
ASSUME AsksAssumption ==
    \A ask \in Asks :
        /\ ask.route \in AllRoutes
        /\ ask.claims \in [sub : STRING, permissions : SUBSET STRING,
                           organization : Slugs \cup {None}, unit : STRING,
                           path : STRING, peers : SUBSET STRING]
        /\ ask.route.handler \in {"addNote", "editNote", "removeNote"} => ask.about[2] \in NoteIds
        /\ ask.route.handler = "createEnrollment" => ask.about[1] \in Orgs

ASSUME DatesAssumption == Dates \subseteq Nat

VARIABLES
    session,        \* the kind of this behaviour
    request,        \* request[c]: the request of client c
    notes, submitted, strayed, stayed,
    rows, slugOf, idBySlug, renamed

N == INSTANCE Notes

E == INSTANCE Enrollments

notesVars == <<notes, submitted, strayed, stayed>>

enrollmentsVars == <<rows, slugOf, idBySlug, renamed>>

vars == <<session, request, notesVars, enrollmentsVars>>

-----------------------------------------------------------------------------
Pcs == {"idle", "handler", "statement", "select", "fill", "query"}

Idle == [pc |-> "idle"]

\* org is what getValidOrganizationId has found.
Served(pc, ask, org) == [pc |-> pc, ask |-> ask, org |-> org]

User(c) == Caller(request[c].ask.bearer, request[c].ask.claims)

Handler(c) == request[c].ask.route.handler

First(c) == request[c].ask.about[1]

Second(c) == request[c].ask.about[2]

Walks == {"getLatestEnrollments", "getRelativeEnrollment", "getPreviousEnrollment", "getNextEnrollment"}

At(c, pc, controllers) ==
    /\ request[c].pc = pc
    /\ request[c].ask.route.controller \in controllers

NoteControllers == {"tips", "assessments", "violent-incident-reports"}

AboutNotes(c) == Handler(c) \in {"addNote", "editNote", "removeNote"}

\* Slugs that some request looks up, or has looked up and not asked with yet.
Busy == {User(c).organization : c \in {d \in Clients : request[d].pc \in {"select", "fill", "query"}}}

-----------------------------------------------------------------------------
Init ==
    /\ session \in DOMAIN Sessions
    /\ request = [c \in Clients |-> Idle]
    /\ N!NotesInit
    /\ E!EnrollmentsInit

Go(c, pc, org) == request' = [request EXCEPT ![c] = Served(pc, request[c].ask, org)]

Answer(c) == request' = [request EXCEPT ![c] = Idle]

(* A request that a guard refuses is answered and changes nothing. *)
Passing ==
    [s \in DOMAIN Sessions |->
        {ask \in Sessions[s].asks : Admitted(ask.route, ask.bearer, ask.claims)}]

Ask(c, ask) ==
    /\ c \in Sessions[session].clients
    /\ request[c].pc = "idle"
    /\ request' = [request EXCEPT ![c] = Served("handler", ask, NoOrg)]
    /\ UNCHANGED <<session, notesVars, enrollmentsVars>>

-----------------------------------------------------------------------------
(* Notes: whether the submission is found, then the statement. *)

LookForSubmission(c) ==
    /\ At(c, "handler", NoteControllers) /\ AboutNotes(c)
    /\ IF N!Found(Handler(c), User(c), First(c))
       THEN Go(c, "statement", NoOrg) /\ UNCHANGED notesVars
       ELSE /\ Answer(c)
            /\ IF Handler(c) = "removeNote" THEN N!RemoveNothing(User(c), First(c), Second(c))
               ELSE UNCHANGED notesVars
    /\ UNCHANGED <<session, enrollmentsVars>>

StateNote(c) ==
    /\ At(c, "statement", NoteControllers)
    /\ \/ Handler(c) = "addNote" /\ N!AddNote(User(c), First(c))
       \/ Handler(c) = "editNote" /\ N!EditNote(User(c), First(c), Second(c))
       \/ Handler(c) = "removeNote" /\ N!RemoveNote(User(c), First(c), Second(c))
    /\ Answer(c)
    /\ UNCHANGED <<session, enrollmentsVars>>

RemoveSubmission(c) ==
    /\ At(c, "handler", NoteControllers) /\ Handler(c) = "remove"
    /\ N!RemoveSubmission(First(c))
    /\ Answer(c)
    /\ UNCHANGED <<session, enrollmentsVars>>

-----------------------------------------------------------------------------
(* Enrollments: which organization, then the query. *)

ValidateOrganizationId(c) ==
    /\ At(c, "handler", {"enrollments"}) /\ Handler(c) \in Walks
    /\ LET user == User(c)
       IN  \/ E!AsksForAny(user) /\ Go(c, "query", First(c))
           \/ ~E!AsksForAny(user) /\ E!Cached(user) # NoOrg /\ Go(c, "query", E!Cached(user))
           \/ ~E!AsksForAny(user) /\ E!Cached(user) = NoOrg
              /\ IF user.organization = None THEN Answer(c) ELSE Go(c, "select", NoOrg)
    /\ UNCHANGED <<session, notesVars, enrollmentsVars>>

SelectOrganization(c) ==
    /\ request[c].pc = "select"
    /\ LET org == E!LookUp(User(c).organization)
       IN  IF org = NoOrg THEN Answer(c) ELSE Go(c, "fill", org)
    /\ UNCHANGED <<session, notesVars, enrollmentsVars>>

FillCache(c) ==
    /\ request[c].pc = "fill"
    /\ E!CacheId(User(c).organization, request[c].org)
    /\ Go(c, "query", request[c].org)
    /\ UNCHANGED <<session, notesVars>>

\* What the query returns is a function of the rows: E!QueriesAgree.
Query(c) ==
    /\ request[c].pc = "query"
    /\ Answer(c)
    /\ UNCHANGED <<session, notesVars, enrollmentsVars>>

ChangeEnrollments(c) ==
    /\ At(c, "handler", {"enrollments"})
    /\ \/ Handler(c) = "createEnrollment"
          /\ \E course \in Courses, start \in Dates, visible \in BOOLEAN :
                E!CreateEnrollment(Second(c), [org |-> First(c), course |-> course,
                                               start |-> start, visible |-> visible])
       \/ Handler(c) = "updateEnrollment"
          /\ \E start \in Dates \cup {Undated}, visible \in BOOLEAN :
                E!UpdateEnrollment(User(c), Second(c), start, visible)
       \/ Handler(c) = "removeEnrollment" /\ E!RemoveEnrollment(Second(c))
    /\ Answer(c)
    /\ UNCHANGED <<session, notesVars>>

(* Any other handler: it reads, or what it does is not looked at here.      *)
Elsewhere(route) ==
    /\ route.controller \in NoteControllers =>
            route.handler \notin {"addNote", "editNote", "removeNote", "remove"}
    /\ route.controller = "enrollments" =>
            route.handler \in {"getEnrollments", "findOneEnrollment"}

Handle(c) ==
    /\ request[c].pc = "handler"
    /\ Elsewhere(request[c].ask.route)
    /\ Answer(c)
    /\ UNCHANGED <<session, notesVars, enrollmentsVars>>

OrganizationsChange ==
    /\ \E ask \in Passing[session] : ask.route.handler = "getNextEnrollment"
    /\ \/ \E slug \in Slugs : E!Expire(slug, Busy)
       \/ \E org \in Orgs, slug \in Slugs : E!Rename(org, slug, Busy)
    /\ UNCHANGED <<session, request, notesVars>>

Next ==
    \/ \E c \in Clients :
        \/ \E ask \in Passing[session] : Ask(c, ask)
        \/ LookForSubmission(c) \/ StateNote(c) \/ RemoveSubmission(c)
        \/ ValidateOrganizationId(c) \/ SelectOrganization(c) \/ FillCache(c) \/ Query(c)
        \/ ChangeEnrollments(c) \/ Handle(c)
    \/ OrganizationsChange

Spec == Init /\ [][Next]_vars

-----------------------------------------------------------------------------
TypeOK ==
    /\ session \in DOMAIN Sessions
    /\ \A c \in Clients : request[c].pc \in Pcs
    /\ N!NotesTypeOK
    /\ E!EnrollmentsTypeOK

Reached(c) == request[c].pc = "handler"

(* A caller who is no administrator and was given no permission to write    *)
(* reaches no handler that changes a row, a GET that inserts rows included, *)
(* unless the route is public, or adds a note to a tip: any member may      *)
(* create tips, and the checker takes a POST below a tip for a creation.    *)
(* The one GET that is not public and inserts rows, the summary of          *)
(* completions, is open to those who may read the statistics of trainings   *)
(* (EntityAbilityChecker, PoliciesGuard, CaslAbilityFactory).               *)
ChangesArePermitted ==
    \A c \in Clients :
        Reached(c) /\ Changes(request[c].ask.route) =>
            \/ request[c].ask.route.public
            \/ request[c].ask.route.controller = "tips" /\ Handler(c) = "addNote"
            \/ User(c).permissions \cap ({"level:admin"} \cup WritePermissions) # {}
            \/ Handler(c) = "getItemCompletionsSummary" /\ "read:training-stats" \in User(c).permissions

(* A query runs on the organization that has the slug of the caller's       *)
(* token, unless the caller is a global administrator, or the slug changed  *)
(* hands while it was looked up or in the cache: nothing that renames an    *)
(* organization drops the entry (OrganizationsService.getValidOrganizationId). *)
AsksOwnOrganization ==
    \A c \in Clients :
        request[c].pc = "query" =>
            \/ E!AsksForAny(User(c))
            \/ slugOf[request[c].org] = User(c).organization
            \/ User(c).organization \in renamed

(* A note stays on the submission it was written on, for as long as its     *)
(* author wants it there (see Notes for the exceptions).                    *)
NotesStay == N!NotesStay

(* Latest, relative, previous and next enrollment agree on one order of the *)
(* enrollments, whatever their dates (see Enrollments).                     *)
QueriesAgree == E!QueriesAgree
=============================================================================
