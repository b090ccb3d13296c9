---------------------------- MODULE Enrollments ----------------------------
(***************************************************************************)
(* The enrollments of organizations in courses, and the queries by which a *)
(* client walks through them.  A query is about the organization that      *)
(* getValidOrganizationId finds: the one asked for when the caller is a    *)
(* global administrator, else the caller's own, whose id is looked up by   *)
(* the slug of the token, in a cache that keeps it for a day.              *)
(***************************************************************************)
EXTENDS Access

CONSTANTS
    Enrollments,    \* ids of enrollments
    Orgs,           \* ids of organizations
    Slugs,          \* slugs of organizations
    Courses,
    Dates,          \* a set of naturals
    Today,
    InitialSlugs,   \* InitialSlugs[o]: the slug organization o is created with
    Undated,        \* startDate is null
    NoRow,          \* no row with this id
    NoOrg           \* no organization

VARIABLES
    rows,           \* rows[e]: the enrollment e, or NoRow
    slugOf,         \* slugOf[o]: the slug of organization o
    idBySlug,       \* the cache organizations:id-by-slug, NoOrg where it has nothing
    renamed         \* history: slugs that changed hands while looked up or cached

enrollmentsVars == <<rows, slugOf, idBySlug, renamed>>

-----------------------------------------------------------------------------
Row == [org : Orgs, course : Courses, start : Dates \cup {Undated}, visible : BOOLEAN]

Dated(e) == rows[e].start \in Dates

EnrollmentsTypeOK ==
    /\ rows \in [Enrollments -> Row \cup {NoRow}]
    /\ slugOf \in [Orgs -> Slugs]
    /\ idBySlug \in [Slugs -> Orgs \cup {NoOrg}]
    /\ renamed \subseteq Slugs

EnrollmentsInit ==
    /\ rows = [e \in Enrollments |-> NoRow]
    /\ slugOf = InitialSlugs
    /\ idBySlug = [s \in Slugs |-> NoOrg]
    /\ renamed = {}

-----------------------------------------------------------------------------
(* Queries.  Where an order leaves several rows first, the database is free *)
(* to choose: the operators are sets of the rows it may return.             *)

Of(org, course) ==
    {e \in Enrollments : rows[e] # NoRow /\ rows[e].org = org /\ rows[e].course = course}

Shown(org, course, hidden) == {e \in Of(org, course) : hidden \/ rows[e].visible}

\* MIN and MAX OVER (PARTITION BY courseId) pass over what has no date.
Earliest(e, es) == \A f \in {f \in es : Dated(f)} : rows[e].start <= rows[f].start

Last(e, es) == \A f \in {f \in es : Dated(f)} : rows[e].start >= rows[f].start

\* ORDER BY startDate DESC: no date comes first.
Latest(org, course, hidden, current) ==
    LET ranked == {e \in Shown(org, course, hidden) :
                    current => Dated(e) /\ rows[e].start <= Today}
        undated == {e \in ranked : ~Dated(e)}
    IN  IF undated # {} THEN undated ELSE {e \in ranked : Last(e, ranked)}

Relative(e, org, hidden) ==
    LET window == Shown(org, rows[e].course, hidden)
    IN  [found |-> e \in window,
         earliest |-> ~Dated(e) \/ Earliest(e, window),
         latest |-> ~Dated(e) \/ Last(e, window)]

\* A mutant: the rows are in ascending order both ways.
AscendingBothWays(e, org, forward, hidden) ==
    LET course == rows[e].course
        beyond == {f \in Of(org, course) \ {e} :
                    /\ Dated(f)
                    /\ IF forward THEN rows[f].start >= rows[e].start
                       ELSE rows[f].start <= rows[e].start}
    IN  IF e \in Shown(org, course, hidden) /\ Dated(e)
        THEN {f \in beyond : Earliest(f, beyond)} ELSE {}

(* The row e itself must be shown; the rows next to it need not be.         *)
Adjacent(e, org, forward, hidden) ==
    LET course == rows[e].course
        beyond == {f \in Of(org, course) \ {e} :
                    /\ Dated(f)
                    /\ IF forward THEN rows[f].start >= rows[e].start
                       ELSE rows[f].start <= rows[e].start}
    IN  IF e \in Shown(org, course, hidden) /\ Dated(e)
        THEN {f \in beyond : IF forward THEN Earliest(f, beyond) ELSE Last(f, beyond)}
        ELSE {}

-----------------------------------------------------------------------------
(* getValidOrganizationId *)

AsksForAny(user) == Has(user, {"level:admin"})

Cached(user) == IF user.organization = None THEN NoOrg ELSE idBySlug[user.organization]

LookUp(slug) ==
    LET named == {o \in Orgs : slugOf[o] = slug}
    IN  IF named = {} THEN NoOrg ELSE CHOOSE o \in named : TRUE

\* A mutant: the key does not name the slug.
CachesForAll(slug, org) ==
    /\ idBySlug' = [s \in Slugs |-> org]
    /\ UNCHANGED <<rows, slugOf, renamed>>

CacheId(slug, org) ==
    /\ idBySlug' = [idBySlug EXCEPT ![slug] = org]
    /\ UNCHANGED <<rows, slugOf, renamed>>

(* The entry expires after 24 hours.  busy: slugs some request looks up.    *)
Expire(slug, busy) ==
    /\ idBySlug[slug] # NoOrg
    /\ idBySlug' = [idBySlug EXCEPT ![slug] = NoOrg]
    /\ renamed' = IF slug \in busy THEN renamed ELSE renamed \ {slug}
    /\ UNCHANGED <<rows, slugOf>>

(* An update of the organization's row; nothing drops the entries.          *)
Rename(org, slug, busy) ==
    /\ \A o \in Orgs : slugOf[o] # slug
    /\ slugOf' = [slugOf EXCEPT ![org] = slug]
    /\ renamed' = renamed \cup
            {s \in {slugOf[org], slug} : s \in busy \/ idBySlug[s] # NoOrg}
    /\ UNCHANGED <<rows, idBySlug>>

-----------------------------------------------------------------------------
(* Changes. *)

(* createEnrollment: the organization of the URL, whoever asks.  A dto with *)
(* the id of a row makes save() update that row.                            *)
CreateEnrollment(e, row) ==
    /\ rows' = [rows EXCEPT ![e] = row]
    /\ UNCHANGED <<slugOf, idBySlug, renamed>>

\* getQb: all rows for a global administrator, else those of the organization.
Sees(user, e) ==
    /\ rows[e] # NoRow
    /\ OrganizationLevel(user) = "admin" \/ slugOf[rows[e].org] = user.organization

(* update: the row must be in the caller's scope; startDate may become null. *)
UpdateEnrollment(user, e, start, visible) ==
    /\ rows' = IF Sees(user, e)
               THEN [rows EXCEPT ![e].start = start, ![e].visible = visible] ELSE rows
    /\ UNCHANGED <<slugOf, idBySlug, renamed>>

(* remove: no scope. *)
RemoveEnrollment(e) ==
    /\ rows' = [rows EXCEPT ![e] = NoRow]
    /\ UNCHANGED <<slugOf, idBySlug, renamed>>

-----------------------------------------------------------------------------
(* No two enrollments of the course start together, and none is hidden from *)
(* this client or undated.                                                  *)
InOrder(org, course, hidden) ==
    /\ Of(org, course) = Shown(org, course, hidden)
    /\ \A e, f \in Of(org, course) :
            Dated(e) /\ (rows[e].start = rows[f].start => e = f)

(* The four queries agree: the latest enrollment of a course is the one     *)
(* that is relatively latest, it is the one with no next, the earliest is   *)
(* the one with no previous, and going on and back leads back -- unless     *)
(* two of them start together, or one is undated or hidden                  *)
(* (EnrollmentsService.getLatestEnrollments, getRelativeEnrollment,         *)
(* getAdjacentEnrollment).                                                  *)
QueriesAgree ==
    \A org \in Orgs, course \in Courses, hidden \in BOOLEAN :
        InOrder(org, course, hidden) =>
            \A e \in Of(org, course) :
                LET relative == Relative(e, org, hidden)
                    next == Adjacent(e, org, TRUE, hidden)
                    previous == Adjacent(e, org, FALSE, hidden)
                IN  /\ relative.found
                    /\ relative.latest <=> next = {}
                    /\ relative.earliest <=> previous = {}
                    /\ relative.latest <=> Latest(org, course, hidden, FALSE) = {e}
                    /\ \A f \in next : Adjacent(f, org, FALSE, hidden) = {e}
=============================================================================
