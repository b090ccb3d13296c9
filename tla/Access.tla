------------------------------- MODULE Access -------------------------------
(***************************************************************************)
(* Who may do what: the caller that a token describes, the rules of        *)
(* CaslAbilityFactory, and the rows of organizations and units that a      *)
(* caller's queries are narrowed to.  Operators only: Routes, Requests and *)
(* OrganizationUsers build on them.                                        *)
(***************************************************************************)
EXTENDS Naturals, FiniteSets, Sequences

-----------------------------------------------------------------------------
(* Callers. *)

DefaultUnit == "unassigned"

None == "none"

(* The claims of a token are a record [sub, permissions, organization,      *)
(* unit, path, peers]; organization, unit and path may be None.  A member   *)
(* of an organization without a unit is taken to its default unit.          *)
FromJwtPayload(claims) ==
    [claims EXCEPT !.unit = IF @ # None \/ claims.organization = None
                            THEN @ ELSE DefaultUnit]

Has(user, permissions) == permissions \subseteq user.permissions

\* READ.TIPS and its two sisters are spelled as the permissions to write.
ReadPermissions ==
    {"read:courses", "read:audiences", "read:checkpoints", "read:forms", "read:organizations",
     "read:organization-users", "read:organization-idps", "read:organization-lms-content",
     "read:course-enrollments", "read:units", "read:surveys", "read:resources",
     "read:training-stats"}

WritePermissions ==
    {"write:courses", "write:audiences", "write:forms", "write:tips", "write:threat-assessments",
     "write:violent-incident-reports", "write:organizations", "write:organization-users",
     "write:organization-idps", "write:organization-lms-content", "write:course-enrollments",
     "write:units", "write:users", "write:surveys", "write:resources", "write:languages",
     "write:training-links"}

Levels == {"level:admin", "level:organization", "level:unit"}

-----------------------------------------------------------------------------
(* The rules.  A rule that applies allows or forbids an action, or any of   *)
(* them ("manage"), on some subjects; of the rules that match a question    *)
(* the last one answers it, and no rule means no.                           *)

Can(applies, action, subjects) ==
    [applies |-> applies, allows |-> TRUE, action |-> action, subjects |-> subjects]

Cannot(applies, action, subjects) == [Can(applies, action, subjects) EXCEPT !.allows = FALSE]

FormsSubjects == {"Form", "FieldGroup", "Field"}

FormsRules(user) ==
    <<Can(Has(user, {"level:admin", "write:forms"}), "manage", FormsSubjects),
      Can(Has(user, {"read:forms"}), "read", FormsSubjects)>>

TrainingSubjects == {"TrainingCourse", "TrainingSection", "Audience", "TrainingItem"}

TrainingRules(user) ==
    <<Can(Has(user, {"level:admin", "write:courses"}), "manage", TrainingSubjects),
      Can(Has(user, {"read:courses"}), "read", TrainingSubjects)>>

LmsSubjects == {"lmsToken", "lmsScormPackage"}

OrganizationsRules(user) ==
    <<Can(Has(user, {"write:organizations"}), "manage", {"Organization", "Unit", "Location"}),
      Cannot(~Has(user, {"level:admin"}), "create", {"Organization"}),
      Can(Has(user, {"write:units"}), "manage", {"Unit", "Location"}),
      Can(Has(user, {"write:course-enrollments"}), "manage", {"CourseEnrollment"}),
      Can(Has(user, {"write:organizations"}), "manage", {"Unit", "Location"}),
      Can(Has(user, {"write:organizations"}), "update", {"Organization"}),
      Can(Has(user, {"read:organization-users"}), "read", {"OrganizationUser"}),
      Can(Has(user, {"write:organization-users"}), "manage", {"OrganizationUser"}),
      Can(Has(user, {"read:organization-idps"}), "read", {"OrganizationIdp"}),
      Can(Has(user, {"write:organization-idps"}), "manage", {"OrganizationIdp"}),
      Can(Has(user, {"read:organization-lms-content"}), "read", LmsSubjects),
      Can(Has(user, {"write:organization-lms-content"}), "manage", LmsSubjects),
      Can(TRUE, "read", {"Organization", "Unit", "Location", "CourseEnrollment"})>>

Submission(user, write, subject) ==
    LET staff == Has(user, {"level:organization", write}) \/ Has(user, {"level:unit", write})
    IN  <<Can(Has(user, {"level:admin", write}), "manage", {subject}),
          Can(staff /\ subject # "Tip", "create", {subject}),
          Can(staff, "update", {subject}),
          Can(Has(user, {write}), "read", {subject})>>

SafetyRules(user) ==
    <<Can(Has(user, {"read:training-stats"}), "read", {"WatchStats", "ItemCompletion"}),
      Can(Has(user, {"write:training-links"}), "manage", {"SendTrainingLinks"})>>
    \o Submission(user, "write:threat-assessments", "ThreatAssessment")
    \o Submission(user, "write:tips", "Tip")
    \o Submission(user, "write:violent-incident-reports", "ViolentIncidentReport")
    \o <<Can(TRUE, "create", {"Tip"})>>

OtherRules(user) ==
    <<Can(Has(user, {"level:admin", "write:resources"}), "manage", {"ResourceItem"}),
      Can(Has(user, {"read:resources"}), "read", {"ResourceItem"}),
      Can(TRUE, "create", {"VideoEvent"}),
      Can(Has(user, {"level:admin", "write:users"}), "manage", {"UserRepresentation"}),
      Can(Has(user, {"write:languages"}), "manage", {"Language"}),
      Can(TRUE, "read", {"Language"})>>

CreateForUser(user) ==
    FormsRules(user) \o TrainingRules(user) \o OrganizationsRules(user)
    \o SafetyRules(user) \o OtherRules(user)

May(user, action, subject) ==
    LET rules == CreateForUser(user)
        matching == {i \in DOMAIN rules : /\ rules[i].applies
                                          /\ rules[i].action \in {action, "manage"}
                                          /\ subject \in rules[i].subjects}
    IN  \E i \in matching : rules[i].allows /\ \A j \in matching : j <= i

-----------------------------------------------------------------------------
(* What a caller's queries see. *)

OrganizationLevel(user) ==
    CASE Has(user, {"level:admin"}) -> "admin"
      [] ~Has(user, {"level:admin"}) /\ Has(user, {"level:organization"})
         /\ user.organization # None -> "organization"
      [] ~Has(user, {"level:admin"}) /\ Has(user, {"level:unit"})
         /\ ~(Has(user, {"level:organization"}) /\ user.organization # None)
         /\ user.unit \notin {None, DefaultUnit} -> "unit"
      [] OTHER -> None

(* subunits: the units of the given slugs and all that are below them.      *)
(* units is a set of records [org, slug, parent].  A slug may occur in      *)
(* several organizations, and the query asks for slugs.                     *)
SubUnits(slugs, units) ==
    LET below[n \in 0..Cardinality(units)] ==
            IF n = 0 THEN {u \in units : u.slug \in slugs}
            ELSE below[n - 1] \cup
                 {u \in units : \E p \in below[n - 1] : p.org = u.org /\ p.slug = u.parent}
    IN  below[Cardinality(units)]

UserUnits(user, units) == SubUnits({user.unit} \cup user.peers, units)

(* scopeToOrganizationLevel: may the caller's query return a row of unit?   *)
InScope(user, unit, units) ==
    CASE OrganizationLevel(user) = "admin" -> TRUE
      [] OrganizationLevel(user) = "organization" -> unit.org = user.organization
      [] OrganizationLevel(user) = "unit" -> unit \in UserUnits(user, units)
      [] OTHER -> FALSE

(* buildUnitPaths: the slugs from the organization down to the unit.  The   *)
(* units of an organization form a forest.                                  *)
UnitPath(unit, units) ==
    LET up[n \in 0..Cardinality(units)] ==
            IF n = 0 THEN <<unit>>
            ELSE LET parents == {u \in units : /\ u.org = Head(up[n - 1]).org
                                               /\ u.slug = Head(up[n - 1]).parent}
                 IN  IF parents = {} THEN up[n - 1]
                     ELSE <<CHOOSE p \in parents : TRUE>> \o up[n - 1]
        chain == up[Cardinality(units)]
    IN  <<unit.org>> \o [i \in DOMAIN chain |-> chain[i].slug]
=============================================================================
