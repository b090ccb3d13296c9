------------------------------- MODULE Routes -------------------------------
(***************************************************************************)
(* The routes of the API and the two guards every request passes before a  *)
(* handler runs: AuthGuard, which finds out who asks, and PoliciesGuard,   *)
(* which asks the route's policy handlers.                                 *)
(*                                                                         *)
(* A policy is the set of alternatives of which one must hold: a pair of   *)
(* an action and a subject for the ability, or one permission.  A handler  *)
(* without a policy of its own has the one of its controller.              *)
(***************************************************************************)
EXTENDS Access

Route(controller, handler, method, policy) ==
    [controller |-> controller, handler |-> handler, method |-> method,
     policy |-> policy, public |-> FALSE]

Public(route) == [route EXCEPT !.public = TRUE]

AdminOnly == {<<"has", "level:admin">>}

-----------------------------------------------------------------------------
\* A mutant: no case for PATCH.
PatchReads(method) ==
    CASE method = "POST" -> "create"
      [] method = "DELETE" -> "delete"
      [] OTHER -> "read"

(* EntityAbilityChecker: the method of the request names the action.        *)
EntityAction(method) ==
    CASE method = "POST" -> "create"
      [] method = "PATCH" -> "update"
      [] method = "DELETE" -> "delete"
      [] OTHER -> "read"

Checked(controller, handler, method, subject) ==
    Route(controller, handler, method, {<<EntityAction(method), subject>>})

Crud(controller, subject) ==
    {Checked(controller, "create", "POST", subject),
     Checked(controller, "findAll", "GET", subject),
     Checked(controller, "findOne", "GET", subject),
     Checked(controller, "update", "PATCH", subject),
     Checked(controller, "remove", "DELETE", subject)}

Each(controller, subject, handlers) ==
    {Checked(controller, h[1], h[2], subject) : h \in handlers}

-----------------------------------------------------------------------------
(* The controllers. *)

FormsRoutes ==
    Crud("forms", "Form")
    \cup Each("forms", "Form", {<<"createNewDraft", "POST">>, <<"findAllGroupedBySlug", "GET">>,
                                <<"generateFormPDF", "GET">>})

FieldsRoutes == Crud("fields", "Field")

FieldGroupsRoutes == Crud("field-groups", "FieldGroup")

CoursesRoutes == Crud("courses", "TrainingCourse")

SectionsRoutes == Crud("sections", "TrainingSection")

AudiencesRoutes == Crud("audiences", "Audience")

ItemsRoutes ==
    Crud("items", "TrainingItem")
    \cup {Public(r) : r \in Each("items", "TrainingItem",
            {<<"createMyItemCompletion", "POST">>, <<"getMyItemCompletions", "GET">>,
             <<"updateMyItemCompletion", "PATCH">>, <<"updateOrCreateMyItemCompletion", "PUT">>,
             <<"watch", "GET">>, <<"lmsWatch", "GET">>})}
    \cup Each("items", "ItemCompletion",
            {<<"findItemCompletions", "GET">>, <<"getItemCompletionsSummary", "GET">>,
             <<"findItemCompletionsCsv", "GET">>})

\* Two GETs insert rows: the row of the caller in the table of users, and the completions of
\* an item for those who have none yet.  What fills a cache is not counted.
WritingGets == {r \in ItemsRoutes : r.handler \in {"getMyItemCompletions", "getItemCompletionsSummary"}}

Changes(route) == route.method # "GET" \/ route \in WritingGets

\* The routes of identity providers, of LMS content and of upload urls name the action.
OrganizationsRoutes ==
    LET Named(handler, method, actions, subject) ==
            Route("organizations", handler, method, {<<a, subject>> : a \in actions})
    IN  Crud("organizations", "Organization")
        \cup {Public(Checked("organizations", "findMyOrganization", "GET", "Organization"))}
        \cup Each("organizations", "Organization",
                {<<"slugUnique", "GET">>, <<"idpSlugUnique", "GET">>, <<"findOneBySlug", "GET">>,
                 <<"getRoleGroups", "GET">>})
        \cup {Named("createLmsToken", "POST", {"create"}, "lmsToken"),
              Named("getLmsTokens", "GET", {"read"}, "lmsToken"),
              Named("setLmsTokenExpiration", "PATCH", {"update"}, "lmsToken"),
              Named("downloadScormPackage", "GET", {"read"}, "lmsScormPackage"),
              Named("loadImportedConfig", "POST", {"create", "update"}, "OrganizationIdp"),
              Named("getIdp", "GET", {"read"}, "OrganizationIdp"),
              Named("createIdp", "POST", {"create"}, "OrganizationIdp"),
              Named("updateIdp", "PUT", {"update"}, "OrganizationIdp"),
              Named("deleteIdp", "DELETE", {"delete"}, "OrganizationIdp"),
              Named("getPresignedUploadUrls", "POST", {"update"}, "Organization")}

OrganizationUsersRoutes ==
    Each("organization-users", "OrganizationUser",
        {<<"getUsers", "GET">>, <<"createUser", "POST">>, <<"updateUser", "PATCH">>,
         <<"deleteUser", "DELETE">>, <<"deactivateUser", "POST">>, <<"activateUser", "POST">>,
         <<"assignUserToGroup", "POST">>, <<"revokeUserToGroup", "POST">>})

EnrollmentsRoutes ==
    Each("enrollments", "CourseEnrollment",
        {<<"getEnrollments", "GET">>, <<"getLatestEnrollments", "GET">>,
         <<"getRelativeEnrollment", "GET">>, <<"getPreviousEnrollment", "GET">>,
         <<"getNextEnrollment", "GET">>, <<"createEnrollment", "POST">>,
         <<"findOneEnrollment", "GET">>, <<"updateEnrollment", "PATCH">>,
         <<"removeEnrollment", "DELETE">>})

UnitsRoutes ==
    Crud("units", "Unit") \cup {Checked("units", "slugUnique", "GET", "Unit"),
                                Route("units", "getPresignedUploadUrls", "POST", {<<"update", "Unit">>})}

LocationsRoutes ==
    Crud("locations", "Location")
    \cup {Checked("locations", "streamTipSubmissionQRCode", "GET", "Location")}

\* What submissions of forms have in common, with their notes.
SubmissionRoutes(controller, subject) ==
    Crud(controller, subject)
    \cup Each(controller, subject,
            {<<"getForm", "GET">>, <<"getForms", "GET">>, <<"generateFormPDF", "GET">>,
             <<"getPresignedUploadUrls", "POST">>, <<"addNote", "POST">>, <<"getNotes", "GET">>,
             <<"editNote", "PATCH">>, <<"removeNote", "DELETE">>, <<"getCountStats", "GET">>})

TipsRoutes ==
    {IF r.handler \in {"create", "getForm", "getForms", "getPresignedUploadUrls"}
     THEN Public(r) ELSE r : r \in SubmissionRoutes("tips", "Tip")}

ThreatAssessmentsRoutes == SubmissionRoutes("assessments", "ThreatAssessment")

ViolentIncidentReportsRoutes ==
    SubmissionRoutes("violent-incident-reports", "ViolentIncidentReport")

\* No rule is about POCFile: these routes answer nobody.
POCFilesRoutes ==
    Crud("poc-files", "POCFile")
    \cup Each("poc-files", "POCFile",
            {<<"addPeerUnit", "PUT">>, <<"removePeerUnit", "DELETE">>, <<"addTip", "PUT">>,
             <<"removeTip", "DELETE">>, <<"addAssessment", "PUT">>, <<"removeAssessment", "DELETE">>})

TrainingAdminRoutes ==
    Each("training-admin", "SendTrainingLinks",
        {<<"sendLinks", "POST">>, <<"sendReminder", "POST">>, <<"markComplete", "POST">>,
         <<"resendLinks", "POST">>, <<"viewLinks", "GET">>, <<"viewLinksCsv", "GET">>})

UsersRoutes ==
    {Route("users", h, "POST", AdminOnly) :
        h \in {"syncMissingLocalUsersFromItemCompletions", "migrateIds"}}
    \cup Each("users", "UserRepresentation",
            {<<"getTrainingToken", "GET">>, <<"findTrainingTokens", "GET">>,
             <<"createTrainingToken", "POST">>, <<"validateTrainingToken", "DELETE">>})

ResourcesRoutes == Crud("resources", "ResourceItem")

LanguagesRoutes == Crud("languages", "Language")

\* AppController has no policy and is not public: it answers nobody.
OtherRoutes ==
    {Public(Route("media", "receiveVideoEvent", "POST", {})),
     Public(Route("health", "check", "GET", {})),
     Route("app", "getHello", "GET", {}),
     Route("admin", "sendTestTrainingReminderEmail", "POST", AdminOnly),
     Route("notifications", "getJobQueues", "GET", AdminOnly),
     Route("notifications", "retryJob", "POST", AdminOnly),
     Route("notifications", "removeJob", "POST", AdminOnly)}

AllRoutes ==
    FormsRoutes \cup FieldsRoutes \cup FieldGroupsRoutes \cup CoursesRoutes
    \cup SectionsRoutes \cup AudiencesRoutes \cup ItemsRoutes \cup OrganizationsRoutes
    \cup OrganizationUsersRoutes \cup EnrollmentsRoutes \cup UnitsRoutes
    \cup LocationsRoutes \cup TipsRoutes \cup ThreatAssessmentsRoutes
    \cup ViolentIncidentReportsRoutes \cup POCFilesRoutes \cup TrainingAdminRoutes
    \cup UsersRoutes \cup ResourcesRoutes \cup LanguagesRoutes \cup OtherRoutes

-----------------------------------------------------------------------------
(* The guards.  A bearer is "good" (a token that verifies, with claims),    *)
(* "bad" or "none"; a public request goes on without a user.                *)

NoUser ==
    [sub |-> None, permissions |-> {}, organization |-> None, unit |-> None,
     path |-> None, peers |-> {}]

Caller(bearer, claims) == IF bearer = "good" THEN FromJwtPayload(claims) ELSE NoUser

AuthGuard(route, bearer) == bearer = "good" \/ route.public

Satisfied(user, alternative) ==
    IF alternative[1] = "has" THEN Has(user, {alternative[2]})
    ELSE May(user, alternative[1], alternative[2])

PoliciesGuard(route, user) ==
    \/ route.public
    \/ user # NoUser /\ \E alternative \in route.policy : Satisfied(user, alternative)

Admitted(route, bearer, claims) ==
    AuthGuard(route, bearer) /\ PoliciesGuard(route, Caller(bearer, claims))
=============================================================================
