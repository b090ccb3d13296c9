----------------------------- MODULE MCRequests -----------------------------
(* Four kinds of sessions.  In the first one client tries every route with  *)
(* no token, a token that does not verify, and tokens with no permission,   *)
(* any single one, those to read, and all of them, at every level; in the   *)
(* second two clients add, edit and remove notes; in the third a client     *)
(* changes enrollments; in the fourth two clients walk through enrollments  *)
(* while organizations are renamed.                                         *)
EXTENDS Requests

Claims(sub, permissions, organization, unit) ==
    [sub |-> sub, permissions |-> permissions, organization |-> organization, unit |-> unit,
     path |-> None, peers |-> {}]

PermissionSets ==
    LET all == ReadPermissions \cup WritePermissions
    IN  {{}, ReadPermissions, all} \cup {{p} : p \in all}

Tokens ==
    {Claims("u1", ps \cup ls, "a", None) : ps \in PermissionSets,
        ls \in {{}, {"level:unit"}, {"level:organization"}, {"level:admin"}}}

About(x, y) == <<x, y>>

AskFor(route, bearer, claims, about) ==
    [route |-> route, bearer |-> bearer, claims |-> claims, about |-> about]

Nobody == Claims(None, {}, None, None)

(* Units and submissions: x is above y; z is in another organization. *)
UnitX == [org |-> "a", slug |-> "x", parent |-> None]
UnitY == [org |-> "a", slug |-> "y", parent |-> "x"]
UnitZ == [org |-> "b", slug |-> "z", parent |-> None]
MCUnits == {UnitX, UnitY, UnitZ}

Submission1 == [kind |-> "tip", id |-> 1, unit |-> UnitY]
Submission2 == [kind |-> "assessment", id |-> 2, unit |-> UnitY]
Submission3 == [kind |-> "assessment", id |-> 3, unit |-> UnitX]
MCSubmissions == {Submission1, Submission2, Submission3}

CONSTANTS c1, c2, n1, e1, e2, e3, o1, o2, k

MCInitialSlugs == [o \in {o1, o2} |-> IF o = o1 THEN "a" ELSE "b"]

RouteSession ==
    LET nowhere == [kind |-> "tip", id |-> 0, unit |-> UnitZ]
        AsksOf(routes, bearer, claims) == {AskFor(r, bearer, t, About(nowhere, n1)) : r \in routes, t \in claims}
    IN  [clients |-> {c1},
         asks |-> {a \in AsksOf(AllRoutes, "good", Tokens)
                         \cup AsksOf(AllRoutes, "none", {Nobody}) \cup AsksOf(AllRoutes, "bad", {Nobody}) :
                    \/ a.route.controller # "enrollments"
                    \/ a.route.handler \in {"getEnrollments", "findOneEnrollment"}}]

Staff(sub, levels, unit) == Claims(sub, levels \cup {"write:tips", "write:threat-assessments"}, "a", unit)

NoteSession ==
    [clients |-> {c1, c2},
     asks |-> {a \in {AskFor(r, "good", t, About(s, n)) :
                        r \in {r \in TipsRoutes \cup ThreatAssessmentsRoutes :
                                r.handler \in {"addNote", "editNote", "removeNote", "remove"}},
                        t \in {Staff("u1", {"level:admin", "level:organization"}, None),
                               Staff("u2", {"level:unit"}, "x"), Staff("u3", {"level:unit"}, "z")},
                        s \in MCSubmissions, n \in {n1}} :
                /\ a.route.controller = IF a.about[1].kind = "tip" THEN "tips" ELSE "assessments"
                /\ a.claims.sub = "u3" => a.about = About(Submission1, n1)}]

EnrollmentAsk(sub, permissions, organization, handler, e) ==
    {AskFor(r, "good", Claims(sub, permissions, organization, None), About(o1, e)) :
        r \in {r \in EnrollmentsRoutes : r.handler = handler}}

ChangeSession ==
    [clients |-> {c1},
     asks |-> UNION {EnrollmentAsk("u1", {"level:organization", "write:course-enrollments"}, "a", h, e) :
                h \in {"createEnrollment", "updateEnrollment", "removeEnrollment"}, e \in {e1, e2, e3}}]

WalkSession ==
    [clients |-> {c1, c2},
     asks |-> EnrollmentAsk("u1", {"level:organization"}, "a", "getNextEnrollment", e1)
        \cup EnrollmentAsk("u2", {}, "c", "getLatestEnrollments", e1)
        \cup EnrollmentAsk("u3", {"level:admin"}, "b", "getRelativeEnrollment", e1)
        \cup EnrollmentAsk("u4", {}, None, "getPreviousEnrollment", e1)]

MCSessions == [routes |-> RouteSession, notes |-> NoteSession,
               changes |-> ChangeSession, walks |-> WalkSession]
=============================================================================
