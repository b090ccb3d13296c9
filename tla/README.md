# ThreatZero API: verification project

TLA+ modules, TLC configurations and TLAPS proofs about the NestJS service in `src/`
(the API code is under `src/src/`). Paths below are relative to `src/src/` unless they
say otherwise. `PROJECT.json` maps every definition to the lines it models and lists the
runs, mutants, findings, hazards and theorems.

    tlc -workers 2 -config MCItemCompletions.cfg MCItemCompletions.tla
    tlapm TrainingProofs.tla

## 1. The system

The service is one NestJS application, run as several processes. Its state is in four
places, and only the first has transactions:

- **PostgreSQL**, through TypeORM. Most writes are `preload` (SELECT), `save` (SELECT,
  then INSERT or UPDATE of the columns that differ) or one query-builder statement.
  Almost nothing takes a lock or spans two statements atomically.
- **Redis**: a cache (organization status, TAT contacts), one set (populated training
  items), BullMQ's queue of notifications.
- **Keycloak**: users, their attributes and groups. Its API has no transactions, and
  some calls are sent without waiting for them.
- **an in-process event emitter**: services emit `organization.changed`, `unit.removed`,
  `tip.submitted` ... and go on; the handlers run concurrently with the rest of the
  request and with each other.

So the hard behaviours are interleavings at every `await`, errors between two writes,
cached values that outlive what they were read from, and messages that nobody waits for.

### Components

| component | state | operations | what makes it correct |
|---|---|---|---|
| Item completions (`training/items`, `safety-management/training-admin`) | rows of `item_completion`, unique per user, enrollment, item | POST, PATCH, PUT of a participant; `markComplete` of an administrator; INSERT OR IGNORE of tokens, sync, population | one record per participant and item; reported progress and completions are not lost; nobody writes another's record; completion dates are dates of completion |
| User representations (`users/users.service.ts`) | rows of `user_representation`, unique by idpId and by email | `updateRepresentation`: UPDATE, INSERT ON CONFLICT, SELECT | a person keeps one row; two people never get one row; tokens overwrite nothing; a first request is not refused for racing another |
| Organization status and its guard (`auth/guards`, `organizations`) | organization rows, `organizations:status-by-slug:*` in Redis | guard: get, select, set; create, update (preload, save, del), remove | a deactivation is in force; nobody enters for an organization that never was active; staleness ends |
| Completion summary (`training/items`, `users`) | a Redis set of populated items, empty records | page through Keycloak, insert, add to set; a created user empties the set | every participant is counted once all is quiet |
| Organization and unit groups (`organizations/listeners`) | organization and unit rows with `tatGroupId`, `groupId`; Keycloak groups | four event handlers; create, update and remove of both entities, the default unit included | the default unit is made and stays until somebody takes it; a stored group id names the group of that row; every unit gets a TAT group |
| Tips and notifications (`safety-management/tips`, `notifications`) | tip rows, BullMQ jobs, contact cache | submit, emit, queue, look up the team, SMS and email jobs; retry and remove | nothing is forgotten; nothing is sent twice without a reason; the right team is told; the queue settles |
| Forms (`forms`) | forms with slug, version, language; fields; submissions; uploads in S3 | draft, publish as `max + 1`, remove; add, change, move, remove a field or a group; submit | one form per version; a published form keeps its version and is not deleted; answers keep their questions |
| Training links (`training-admin`, `users`, opaque tokens) | tokens, queued emails | invite, make tokens, resend, delete; register the recipients | who was invited is counted, once, and told |
| User synchronisation (`users/tasks`) | as representations and completions | the nightly pass over all tokens, or an administrator's | it makes up for what failed, and changes no one else |
| Training reminders (`training/reminders`) | enrollments, sections, tokens | the daily task: initial and follow-up reminders, page by page | each participant is reminded on the promised days, once by each process, and not of what is finished |
| Identity providers (`organizations`, `auth/keycloak-admin-client`) | `idpSlugs` of a row; providers and mappers in Keycloak | create, update, delete, call by call; the other writers of the row | the list and Keycloak agree; a provider has the mappers last saved for it, and puts people under a slug of its organization |
| Users of an organization (`organizations`) | accounts in Keycloak | create, update, delete, activate, role groups | the path of an account is that of its unit; an account is as the last answer said |
| Permissions and query scopes (`auth/casl`, `auth`, `organizations/common`) | none: tables of rules | caller, rules, scopes | who was given nothing to write changes nothing; a caller's queries are about the caller's organization |
| Guards and routes (every `*.controller.ts`) | none | AuthGuard, PoliciesGuard | as above |
| Notes (`users/entities/note`, `common/mixins`) | rows of `note` | add, edit, remove, remove the submission | a note stays where it was written until its author removes it |
| Enrollments (`organizations`) | rows; Redis `organizations:id-by-slug:*` | create, update, remove; latest, relative, previous, next | the four queries agree on one order |
| Audiences, course content, locations, policies, assessments, incident reports, persons of concern, resources, languages, media, administration, AWS clients, wiring, migrations, PDFs | rows written singly, or none | - | - |

How they interact: a request first passes the guard (status), finds its author
(representations), then writes. A created organization or unit reaches the listener by
an event; the `tatGroupId` that the listener stores is what the notifications processor
follows from a tip. A created user empties the population set that the summary consults,
and the population calls `updateRepresentation` and inserts completion rows.

## 2. Modules

| module | models | composed with |
|---|---|---|
| `CompletionLedger` | abstract: what readers of `item_completion` may rely on | instance of it in `ItemCompletions` |
| `ItemCompletions` | every writer of `item_completion` | `MCItemCompletions`, `TrainingProofs` |
| `UserRepresentations` | `updateRepresentation` | `MCUserRepresentations`, `ParticipantsProofs` |
| `OrganizationStatus` | the guard and the administrators it races with | `MCOrganizationStatus`, `OrganizationsProofs` |
| `SummaryPopulation` | summary, Redis set, Keycloak users, created event | `MCSummaryPopulation`, `ParticipantsProofs` |
| `OrganizationGroups` | requests, events, listener, Keycloak groups | `MCOrganizationGroups`, `OrganizationGroupsProofs` |
| `TipNotifications` | tip, listener, queue, processor, providers | `MCTipNotifications`, `TipNotificationsProofs` |
| `FormVersions` | forms, their versions, fields and submissions | `MCFormVersions`, `FormVersionsProofs` |
| `TrainingLinks` | tokens, invitations, synchronisation, participants | extended by `TrainingReminders` |
| `TrainingReminders` | the daily task, days, crashes | `MCTrainingReminders`, `TrainingProofs` |
| `IdentityProviders` | list, providers, mappers and the calls of a request | `MCIdentityProviders`, `OrganizationsProofs` |
| `Access` | callers, rules, levels, units and scopes: operators only | extended by the next five |
| `Routes` | all routes with their policies, and the guards | extended by `Requests` |
| `Notes`, `Enrollments` | two components with state and no processes | instances in `Requests` |
| `Requests` | clients whose requests pass the guards and reach handlers | `MCRequests`, `RequestsProofs` |
| `OrganizationUsers` | accounts, requests and calls nobody waits for | `MCOrganizationUsers`, `OrganizationUsersProofs` |

A convention holds in all of them: **one step is what nothing else can see half done**,
that is one SQL statement, one Redis command, one Keycloak call or the synchronous code
between two awaits. A request is a process with a program counter. Definitions whose
comment begins with `Mutant:` are not part of the specification: each is a plausible bug
in the definition below it, and shows that a property notices the bug.

### ItemCompletions and CompletionLedger

`rows[<<u, i>>]` is the row of the unique (user, enrollment, item); an item here stands
for an item within an enrollment. `Post`, `Patch`, `InsertIgnore` are one statement. PUT
is `PutUpdate`, and, when it affected no row, `PutInsert`. `markComplete` is
`MarkSelect`, and then `MarkForce` or `MarkInsert` by what it saw. `Fail` is an error
between the two. `StampOnce` and `MergedProgress` are the two SQL `CASE`s. Progress is
an integer up to `MaxProgress`; only its order matters. What a PATCH's id means is a row
of any user, since the id comes from the client.

`CompletionLedger` knows nothing of requests: records are opened, reported, amended,
certified, each in one step. `ImplementsLedger` says that the two-step handlers never do
what those four cannot, in particular that a stale first statement does no harm beyond
them. The refinement (`Ledger == INSTANCE CompletionLedger WITH rows <- rows, now <-
now`) hides the requests.

### UserRepresentations

`rows[e]` is the row whose unique email is `e`. `Normalized` is trim and lower case.
`IdpUpdate`/`TokenUpdate`, `IdpInsert`/`TokenInsert` and `Select` are the three
statements for a Keycloak user and for a training token. The columns that only the
identity provider may set are one value, `profile`, naming their source. Both unique
constraints are in the guards.

### OrganizationStatus

`CacheGet`, `Select`, `CacheSet` are the guard; `Preload`, `SaveFinds`, `Save`,
`CacheDel` an update; `Create` and `Remove` are one statement as far as slug and status
go. `Entity` is the whole row with the dto's fields on top. TypeORM's `save` SELECTs the
row again (`SaveFinds`) and then UPDATEs the columns in which the entity differs from
what it found (`Updated`), or INSERTs where it found none: a rename between the two
survives, while the entry dropped is that of the entity's slug. Lost updates, and rows
inserted again after a removal, are in the model. The statuses pending and inactive
are one value, since the guard treats them alike. `tainted` is a history variable: the
slugs whose entry may outlive an update for one of the reasons in `StaleOnlyForAReason`.

### SummaryPopulation

`place[u]` is where a user's first name puts it, in the order in which the generator
asks Keycloak for users; no two share a place, because Keycloak orders equals somehow. A
page is read by offset in the order there is (`Page`), records are inserted later
(`Insert`), and `Add` notes the member in the set. `CreateUser`, `Assign`, `Join`,
`Scan`, `Drop` follow one created user: `Assign` sends `addToGroup` without waiting and
`Join` is its arrival. `Rename` gives a user another place: that an update of the first
name may do, and Keycloak when it orders equals anew. `excused` is the history of who may
be missed, and why; a rename or a deletion excuses those whom it moved, between two
pages, from a page to come onto one that was read.

### OrganizationGroups

`CreateOrg` ... `Delete` are the requests with `BaseEntityService`'s hooks; `Select` ...
`DeleteGroup` the handlers, one action per call they make. The default unit is not one
of `Units`: whether its organization has it is `default` in the row, and `TakeDefault`
is a request that removes it or gives it to another organization, as nothing forbids. It
is then `"taken"`, until the next changed event of the organization inserts another.
Group names are a kind and a name, and must be free below their parent, as Keycloak
demands. `spoiled` are the rows for which a handler threw, a removal was asked for or a
PATCH wrote an older link back.

### TipNotifications

`tips`, the queue (`adding`, `status`), the worker that runs a job, and the contact
cache by unit slug. `Emit` and `Add` put jobs on their way; `Land` or `Lose` is what
becomes of them, because neither caller awaits the add. BullMQ is external: an attempt
that throws is repeated while attempts are left (3 for SMS, 1 otherwise), a job whose
worker is gone is found stalled once and then fails. `due`, `sent`, `again`, `lost` are
histories of messages and jobs.

Where a TAT member belongs is `place`: the group of a unit or an organization, or the
role group with a unit or an organization as its attribute. What the processor finds is
`Contacts`: it looks for a unit's members by the slug alone (`RolePlaces`), in every
organization, and for those of groups only where the unit has one (`LegacyPlaces`). Who
should hear of a tip is said apart from that, by `Team`: the members of the unit and of
its organization. `TatIsTold` compares the two and names where they part.

### FormVersions

`forms[f]` is the row of a form and `field[q]` that of a field: the form it belongs to,
the form at the root of its group, its label, and whether its type is NONE. Each PATCH
and DELETE reads (`Update`, `Remove`, `UpdateField`, `RemoveField`) and later writes by
what it read (`Save`, `Delete`, `SaveField`, `DeleteField`); `Number` is the query for
the highest version. `Validated` and `NextVersion` are the two halves of
`validateChanges`. A PATCH without a version names version 0, because the dto's
initializer is inherited. `Patched` is what `save` makes of the row there is, a new row
if it was deleted. `save`'s SELECT and its UPDATE of what differs are one step here:
what can come between them belongs to a request that was overtaken anyway. `NewDraft`
reads a form with its fields and `Clone` inserts the copies.

`Fixed` is the check of a field's PATCH: label and type of a field of a published form
stay, unless the type is NONE; that a PATCH gives the field another form or group
(`Applied`), or a group another form (`MoveGroup`), nothing compares. `Guard` is the form
whose state is asked for: the group's, where the field is in one. Two histories name the
exceptions. `overtaken` are the forms that were published between the read and the write
of a request: only for them do the two refusals not hold. `exposed` are the fields that
the check did not cover when they were saved: see `QuestionsKept`. `asked[q]` is the
question as the first answer to it in a published form found it.

### TrainingLinks and TrainingReminders

A token is a record of person, address, kind, item and expiry. A request saves all its
tokens (`MakeTokens`), registers their people in any order (`RegisterRecipient`) and
queues the mails. The join by which the synchronisation looks for missing people is on
`externalId`, which nothing ever writes, so that `BeginSync` takes every token, expired
ones included, and the first error ends the loop. `LogIn` is `updateRepresentation` in
one step; its statements are in `UserRepresentations`.

`TrainingReminders` extends that with days and processes. `DateOf` is the code's
arithmetic on dates with dayjs's rounding of half days. Several processes may run
(`running`), and no lock or row keeps them apart: at noon each begins the task
(`HandleReminders`), and on its own takes the reminders that are due in the order of the
loop (`IsNext`), reads who finished what (`BeginReminder`), asks Keycloak for pages by
offset (`ReadPage`), and mails one person after the other (`Remind`); `task[w]` is how
far process w is. Who gets a reminder therefore gets it once from each, which is all
that `OncePerProcess` says. Nobody catches up after `MissNoon` or `Stop`.
`EditRoster` is a participant who comes, goes, or moves within the list by a new first
name. Everything that clients, administrators and faults may do is
limited by a `scenario`, whose bounds are spent one by one (`Spend`).

### IdentityProviders

`row[o]` is an organization's row: its slug, and the column `idpSlugs` as a set.
`provider[s]` is what Keycloak has under an alias: who made it, the mappers it has, and,
as a history, the mappers last `meant` for it. A request reads the list (`BeginCreate`,
`BeginUpdate`, `BeginDelete`), makes its calls, and ends in the ordinary update of a row
(`PreloadRow`, `SaveFindsRow`, `SaveRow`) with the list it read and its own change. The
other writers of the row go the same way: `BeginPatch` changes slug or list or neither,
`PostRow` is a new organization, with any list, and `RemoveRow` leaves the providers
where they are.

Mappers are told apart by name (`Name`), which for the mapper that puts people into an
organization holds the organization's slug as it was when the provider was saved. No
mapper is built with an id, so an update deletes all that it finds (`DeleteMapper`) and
creates all of its own (`CreateMapper`), one call of a `Promise.all` at a time and in any
order. When one creation of `createIdp` fails, the catch block removes the provider
(`Undo`) while the others are still under way (`late`, `Lands`).

`cut` are the aliases at which something went astray (a request broke off between its
Keycloak calls, wrote under an alias it had renamed, or wrote by an outdated list to
what another organization has put there since; an administrator changed the list by
hand), `raced` the organizations that had two requests at a time.

### Access, Routes, Notes, Enrollments, Requests

`Access` has the claims of a token (`FromJwtPayload`), the rules of `CaslAbilityFactory`
in their order, of which the last one that matches decides, and the scopes (`InScope`).
`Routes` lists the routes of all controllers with their policies and says whom the two
guards admit; `Changes` are the routes that change a row: all but the GETs, and the two
GETs that insert rows (`WritingGets`). `Notes` and `Enrollments` have state and
operations. `Requests` composes them: a client asks, passes the guards, and then its
handler runs up to each await. The instance `Sessions` keeps apart what would only
multiply states: the routes, the notes, the changes of enrollments, and the walks
through enrollments while organizations are renamed.

### OrganizationUsers

An account names a unit and a path. `Create`, `Read`, `Write` and `Tell` are the awaited
calls of a creation or an update; `Send` is a call that is not awaited and that
`Arrive`s later, in any order. Since nothing catches what such a call throws, a failing
one stops the process (`Stop`), and with it every request. `said` is the history of what
the answers about an account promised, and `Unsure` once requests overlapped.
`Beginnings` says which slugs begin with which as strings, because the code compares
paths as strings.

## 3. Runs

All finish within three minutes with two workers.

| run | bounds | shows |
|---|---|---|
| `item_completions` | 3 requests, 2 participants, 1 item, progress 0..2, clock 0..2: 147,788 states | one creator per record; acknowledged progress and completions are kept; undated completions have one source; refinement of the ledger |
| `user_representations` | 4 calls, 2 Keycloak users, 3 spellings of 2 mailboxes: 48,931 states | owners, steady users never refused, stable and separate identities, tokens overwrite nothing |
| `organization_status` | 1 guard, 2 administrators, 2 organizations, 2 slugs, no symmetry: 186,271 states | stale entries only for named reasons, and gone for good at last |
| `summary_population` | 2 users, 3 places, pages of 1, 2 summaries, 1 change: 873,505 states | a participant is missed only for named reasons |
| `organization_groups` | 3 requests, 2 units, 2 names, 9 groups: 82,364 states | default unit, links and TAT groups, or a named reason |
| `unit_without_tat` | 2 requests, 1 unit, no fault | expected to fail: see below |
| `tip_notifications` | 2 units of one slug, 2 users, 1 worker; 2 tips where nothing breaks, 1 tip and 2 faults where something does: 330,326 states | nothing forgotten but what a lost add forgets, nothing sent twice unexcused, the team is told, the queue settles |
| `form_versions` | 3 requests, 2 forms of 1 slug, 1 field and its copies, 2 labels, versions 0..3: 378,810 states | published forms and answered questions stay, or a named reason; the latest version is published |
| `training_delivery` | 2 persons, 3 addresses, 1 item, 2 sections of 3 days, 4 days from a Friday or a Saturday, 8 scenarios, in 2 of them 2 processes: 705,352 states | who was invited is counted once and told; a reminder goes out on its day, once from each process, and a follow-up only for what is unfinished |
| `identity_providers` | 2 requests after providers there may be, 2 organizations, 2 slugs, 2 aliases, 2 bodies, 3 changes of a row: 1,182,828 states | list and Keycloak agree where nothing went astray or raced; a provider maps into a slug of its maker; its mappers are those last saved |
| `requests` | all routes under more than 100 tokens; 2 clients with 1 note and 3 submissions; 3 enrollments and 4 dates; 2 organizations, 3 slugs: 184,693 states | who was given nothing to write changes nothing; queries are about the caller's organization; notes stay; the four queries agree |
| `organization_users` | 3 requests of 12 kinds about 1 user, 3 units in 2 layouts: 91,792 states | a path is that of its unit; accounts and training are as the answers said |

**Why these bounds are enough to mean something.** The races of the code are between two
or three actors: a second actor moves between two steps of the first, and a third is
needed where the second's effect has to be seen by somebody (a late PUT after a
conflict, a takeover between a token's INSERT and SELECT). Two keys tell "own" from
"other". Progress 0..2 has a lower and a higher report around the middle. `MaxTime` = 2
has a date that is neither the first nor the last. `MaxGroup` = 9 exceeds what three
requests can create, so that it never cuts a behaviour. `MaxFaults` = 2 allows a fault
and a second one in its repair (a crash while a stalled job is repeated). One guard is
enough for `organization_status`, because guards meet only in the cache, where `Expire`
and the administrators do to an entry what a second guard could.

In `summary_population` one change (`MaxChanges`) is one user who is given the role or
loses it, is removed, or is renamed, between two pages of one among other places. The
place that is free at first is the one before all others: as only the order counts, a
rename to it swaps the two users or leaves them, which is all that a rename can do. In
`identity_providers` providers of either organization may be there at first, listed by
it, so that two requests meet what earlier ones left; the bodies have a unit matcher or
none, and a change of a row sets its slug, its list, or neither.

In `form_versions` a third request sees what two racing ones left; `Numbers` = {0, 2}
lets clients number drafts past the next version, and `MaxVersion` = 3 leaves room for
one more publication. One field is enough, because no statement is about two but the
copying of a form: a second place holds its copy, and the action constraint `OnlyCopied`
says that it is filled in no other way. In `tip_notifications` a second tip is what
fills the cache for another unit of the slug, and faults are what `TatIsTold` excepts;
`OneTipIfBroken` therefore allows one or the other, and bob fewer places under faults.
Both constraints forbid actions that nothing makes happen (a submission, a fault, a new
field), so that they cut behaviours and add none.

In `training_delivery` pages of one make every participant a page boundary; two sections
of three days, from a Friday or a Saturday, bring an odd half, a Saturday and a Sunday,
and the next section counted from the end of the last; `LinkDays` and `ReminderDays` = 2
let links expire within the four days. The third address is one that a person can move
to and that no one else has. Two processes run in the scenarios in which there is a
fault or an edit of the roster and nothing else (`MCPairs`), one in the others, since
processes share nothing but what people and Keycloak do. In `requests` three enrollments
are what an order needs to be wrong, and a third slug belongs to nobody until a rename.
In `organization_users` the slugs x and xx are a prefix and what it must not match, and
y lies in either.

Symmetry is declared in safety runs only, over requests and other values that no
constant tells apart. `CHECK_DEADLOCK FALSE` is set where every request is served once,
so that the system rightly stops.

**Fairness.** The safety runs need none. In `OrganizationStatus` a request that began is
answered or fails, and an entry expires (`cache.set` has a time to live); no request has
to come. In `TipNotifications` a saved tip is emitted, adds land or are lost, workers go
on and stalled jobs are found (BullMQ's stalled check); nobody has to submit, and no
fault is fair. Nothing fair is claimed of the reminders or the nightly synchronisation:
the code has no retry that would justify it.

### What the runs found

One run is expected to fail, since it states what `API_DOCUMENTATION.md` says and the
code does not do (the finding quotes both): `unit_without_tat`. The listener never
stores the id of an organization's group, so that no unit of a new organization gets its
TAT group.

The other properties hold, and the exceptions that they had to name are facts about the
code that a reader of it may not expect:

- *Completions.* A late PUT with `completed = false` withdraws a completion. A first PUT
  that already completes an item inserts it without a date, and nothing dates it.
- *Organizations.* A rename that comes between the SELECT and the UPDATE of another
  request's save leaves the status under the new slug stale for up to an hour. The
  default unit can be removed, or given to another organization, and comes back only
  with the next changed event of the organization.
- *Population.* A population that fails half way is noted as done. Pages are read by
  offset in the order of a name that can be edited: who moves between two of them is
  read twice or not at all.
- *Tips.* TAT members are looked up, and cached, by unit slug, which organizations share
  (every default unit is called "unassigned"): those of other organizations are told. An
  add to a queue that does not get through is noticed by nobody.
- *Forms.* A PATCH may give an answered field of a published form another form or group,
  and may change everything about a field of type NONE; either way it leaves the checks.
- *Synchronisation.* All tokens are synchronised every night, since `externalId` is
  never written. The address in an old token therefore gets a representation and a
  record again after its person moved away from it. One token whose representation
  cannot be written ends the night's pass. The daily tasks take no lock, so that every
  process mails everybody once. Resending asks neither for the expiry of a link nor for
  its use.
- *Providers.* A rename fails half way: the provider has the new alias, and the mapper
  calls under the old one get 404, so that the row lists an alias that nothing answers
  to and that cannot be deleted any more. An update by somebody who is no global
  administrator drops the role matchers, because `Object.assign` copies what is
  undefined. Mappers hold the slug of their organization as it was: after a rename they
  put people under the old one, or under whoever has it next. The list of providers can
  be overwritten by any PATCH of the row, and a removed organization leaves its
  providers.
- *Accounts.* An update writes the whole representation that it read, `enabled`
  included. A dto without `canAccessTraining` takes training away. Paths are compared as
  strings, so that staff of `/a/x` also sees `/a/xx`. Units that move leave the paths of
  accounts behind. Calls that are not awaited and fail stop the process, because nothing
  handles the rejection.
- *Routes.* No rule of the ability factory is about `POCFile`; the routes of
  `AppController` answer 403 to everybody; a PUT counts as a read; `READ.TIPS` and its
  two sisters are spelled `write:...`; any signed-in user may add a note to a tip;
  two GETs insert rows, one of them for callers who may only read statistics.
- *Notes.* An edit through another submission moves the note there. The DELETE route of
  a tip's note names both parameters `tipId` and removes nothing. Operations on a
  submission out of sight are answered 200.
- *Enrollments.* A creation with an id updates a row; a removal has no scope; the
  previous and the next enrollment may be hidden ones; a null start date ranks first
  among the latest. No rename drops the cached id of a slug.

## 4. Proofs

Eight modules prove every safety property that a run checks, for every number of
requests, users, items, organizations, groups, jobs, days and so on. They assume only the
named `ASSUME`s of the modules, which TLC evaluates in the runs:

- bounds are naturals, and `MaxGroup` is at least 2, which is what one organization needs;
- sentinels (`NoProvider`, `NoAccount`, `NoMember`, `NoField`, `None` ...) are none of the
  values they stand beside;
- `Normalized` is idempotent, and two people do not begin with one address;
- what clients may ask (`AsksAssumption`, `PatchAssumption`, `ProvidersAssumption`) has
  the types that the guards and pipes let through; there is an organization;
- the dates of enrollments and the calendar's durations are naturals.

| module | proves about |
|---|---|
| `TrainingProofs` | `ItemCompletions`, `TrainingLinks`, `TrainingReminders` |
| `ParticipantsProofs` | `UserRepresentations`, `SummaryPopulation` |
| `OrganizationsProofs` | `OrganizationStatus`, `IdentityProviders` |
| `OrganizationGroupsProofs`, `TipNotificationsProofs`, `FormVersionsProofs`, `RequestsProofs`, `OrganizationUsersProofs` | the module of that name |

Every proof has the same outline: an inductive invariant; lemmas about the operators the
actions share; one lemma per action, or one about what any step may do; one for the
initial states; and each theorem from the invariant. The invariants were checked by TLC
on the runs before they were proved.

The theorems, each with the property of a run that it states (a dash: no run checks it
alone):

| module | theorem: property |
|---|---|
| `TrainingProofs` | `TypeCorrect`: `TypeOK`, `OneCreator`: `OneCreatorPerRow`, `ProgressKept`: `AcknowledgedProgressKept`, `CompletionKept`: `AcknowledgedCompletionKept`, `OwnRows`: –, `UndatedFromPutInsert`: `UndatedOnlyFromPutInsert`, `HandlersImplementLedger`: `ImplementsLedger`, `LinksCarriedOut`: `InvitationCarriedOut`, `NobodyCountedTwice`: `CountedOnce`, `EveryReminderOnItsDay`: `OnItsDay`, `EachProcessRemindsOnce`: `OncePerProcess`, `NobodyAskedForMore`: `FollowupOnlyToUnfinished` |
| `ParticipantsProofs` | `TypeCorrect`: `TypeOK`, `Owners`: `ProfileOfOwner`, `SteadyUsersServed`: `SteadyUserNeverRefused`, `IdentitiesStable`: `StableIdentity`, `MailboxesStable`: –, `IdentitiesSeparate`: `SeparateIdentities`, `TokensOverwriteNothing`: `TokenNeverOverwrites`, `MissedForAReason`: `MissedOnlyForAReason` |
| `OrganizationsProofs` | `TypeCorrect`: –, `StaleForAReason`: `StaleOnlyForAReason`, `AdmissionSound`: –, `TheListMatches`: `ListMatchesKeycloak`, `TheOrganizationIsMapped`: `OrganizationMapped`, `MappersAreAsSaved`: `MappersAsSaved` |
| `OrganizationGroupsProofs` | `DefaultUnitComes`: `DefaultUnitUnlessSpoiled`, `LinksHold`: `LinkedGroupExists`, `UnitsAreLinked`: `UnlinkedOnlyForAReason` |
| `TipNotificationsProofs` | `TipsAreNotForgotten`: `NothingForgotten`, `ToldTwiceForAReason`: `TwiceOnlyForAReason`, `TheTeamIsTold`: `TatIsTold` |
| `FormVersionsProofs` | `TypeCorrect`: –, `PublicationLasts`: `PublishedForGood`, `AnswersKeepQuestions`: `QuestionsKept`, `LatestVersionPublished`: `LatestIsPublished` |
| `RequestsProofs` | `QueriesStayAtHome`: `AsksOwnOrganization`, `NotesKeepTheirPlace`: `NotesStay`, `ChangesNeedPermission`: `ChangesArePermitted`, `TheQueriesAgree`: `QueriesAgree` |
| `OrganizationUsersProofs` | `PathsFollowUnits`: `PathOfUnit`, `ActivationHolds`: `ActivationAsAnswered`, `TrainingHolds`: `TrainingAsAnswered` |

**ItemCompletions.** The inductive invariant adds to `TypeOK`:

- `PendingOK`: a request between its statements has a call of the kind that gets there,
  with the outcome it has so far;
- `WrittenRowExists`: who was answered that a record was written finds it there.

From it follow `TypeCorrect`, `OneCreator`, `ProgressKept`, `CompletionKept`. The last
two are not inductive alone: that a row keeps a PUT's progress under another request's
second statement needs to know what that statement can be. `HandlersImplementLedger` is
the refinement: the initial states agree, and each action of a handler is `Open`,
`Report`, `Amend`, `Certify` or a stutter.

`OwnRows` and `UndatedFromPutInsert` need one more fact, `OwnInsert`: only a PUT waits
for its INSERT, and it names a record of its own user.

**TrainingLinks and TrainingReminders.** The invariants are kept by the steps of their
own part while the others move, and those of the task by every process for itself.

- `LinksInv`: every address has one representation, and whoever did not move owns the
  one at the first address and carries that address in every token. `NobodyCountedTwice`
  follows from it, as `LinksCarriedOut` does with what a request still has to do.
- `TaskInv(w)`: what process w knows of the list it is reading. Whoever stands before the
  offset, and no longer in the page, is `Settled`: told, failed, or not to be written to.
  An address that was seen before settles its person, because nobody shares it; a person
  with nothing left to do is settled because the completions read by address are the
  person's own, as long as nobody moved. `NobodyAskedForMore` is the other half of that.
  `DatesOK` says that what is due is due today.
- `HeldOK`: what was sent was due on its day.
- `DaysInv(w)`: a reminder whose day has come is sent by w, missed, or due now; while no
  administrator acts.

`EveryReminderOnItsDay` needs that the openings of sections, which add up durations one
by one, exist and are days: the library's induction cannot be used here (it takes an
operator), so `OpeningsExist` and `AvailableType` take the least section without an
opening, which `LeastNatural` gives from the well-foundedness of the naturals, and find
none. `RipeFrom` and `FirstWeekdayFacts` are the arithmetic of half days and weekends.

**UserRepresentations.** The invariant has, beside the types: what each program counter
says of its call (`ProgressOK`), that profiles are their owner's and no owner has two
rows (`ProfileOfOwner`), that ids below `nextId` were drawn once (`IdsDrawn`), that the
owner of a row carried its mailbox in some call (`OwnersCarried`), and what a refusal or
a found row says of the calls there have been. `SteadyUsersServed`, `IdentitiesStable`,
`MailboxesStable`, `IdentitiesSeparate` follow; `TokensOverwriteNothing` is an action
property proved from the same invariant.

**SummaryPopulation.** `PopulationInv` says what a population under way owes to every
participant whose record it has not seen (`Owed`: on the batch, on a page to come, or in
the hands of a created event that is late), and what may still put right one that a
populated summary lacks (`MissOK`). A page is read by offset from a list that people join
and leave and in which they change places, so the lemmas are about ranks, the numbers of
users in places before a user: how they move when one comes or goes, that no two users
share one (`Placed`), and that a page that is not full was the last, for which the least
rank missing from it is looked at. A rename excuses whom it moves across the offset, so
that nothing need be known of the new order.

**OrganizationStatus.** `StaleOnlyForAReason` is inductive together with the types: each
step that makes an entry disagree with the table names its reason, and a fresh owner of
a slug finds an entry that was stale before. An UPDATE writes what differs from the row
that its SELECT found, so that it may be about another slug than the entry it drops
(`SaveKeepsInv`); that a write keeps slugs unique is in `WriteKeepsTable`.
`AdmittedWasActive` needs to know that an active row, an active entry and an active
status in a guard's hands all have a slug in the history (`ActiveOK`, `GuardOK`), and
that a request between its steps has a row to save or a key to drop (`AdminOK`).

**IdentityProviders.** `ProvidersInv` follows one alias. As long as it is not `cut`, and
unless the organization had two requests at a time, its provider is in the list of its
maker or a request that wrote to Keycloak is about to put it there (`AliasMade`); what
is listed is there, or a request that touches it is on its way to the row (`AliasKept`);
mappers hold slugs that their maker had (`AliasMapped`, `SlugsHad`); and the mappers are
those meant, but for a request midway through them (`AliasSaved`). Of a request it says
what its program counter implies (`RequestShaped`), that alone in its organization it
still knows the row it read (`RequestInforms`), and that what it has to create is what
the provider lacks (`RequestRemakes`). A request of a raced organization may write to
what another organization has put under the alias since: then the alias is `cut`, and
for that the lemmas distinguish own providers from others (`WritesOwn`, `Untouched`).

**OrganizationGroups.** Ids of groups are handed out in order and every group has a
parent of the right kind (`TreeOK`). `Tat(t, g)` says that g was handed out for the TAT
group of t, and that it is there while nothing spoiled t. It holds of the rows
(`RowsOK`), of the copies that requests and handlers carry between their steps
(`ProcessesOK`), and of the id a handler is about to store. One frame condition,
`Keeps`, carries all of that over a step; it is proved three times: for steps that touch
no group, for `upsertGroup` (`UpsertKeeps`) and for the removal of a group with its
subgroups (`DeleteKeeps`), where the tree shows that only groups of spoiled rows go.
`Pending` is what `UnitsAreLinked` needs before all is quiet: a unit without a link has
a handler under way. `DefaultUnitUnlessSpoiled` is inductive with these: nothing but
`TakeDefault` and a removal loses a default unit once it is there.

**TipNotifications.** A message or a decision is followed through the places it can be
in. The invariant says that jobs are known once and were made by a run or a tip, that a
worker holds its job alone and the job is active, and that a completed job is served:
its recipients were told or have jobs of their own. `RunsOnce` and `SentOnce` say that
without a lost answer, a crash or a retry nothing is run or sent a second time. A job
that is not open any more is completed or in `lost`, which only an add that fails and an
administrator fill. `TeamInv` is for `TatIsTold`, where nothing has broken: what goes
through the cache and the workers' hands was found for some unit of the slug in question
that had a tip (`TeamOf`), so that its team is there and nobody but namesakes besides.

**FormVersions.** A request between its read and its write holds what it read of the form
and the field. As long as the form was not `overtaken`, that agrees with the row about
publication and version; and as long as the field is not `exposed`, about the label and
the form that guards it (`Kept`). The refusals that were checked on the copy therefore
hold for the rows when they are written. `Evolves` is what any step may do to fields and
histories, and `KeptStays` that `Kept` outlives it, so that each action has to be looked
at once.

**Requests.** `QueriesStayAtHome`: an entry of the cache names an organization that has
the key's slug, or the slug is in `renamed`; so does the organization a request holds
between its look-up and its query. `NotesKeepTheirPlace` follows a note through the
steps in which its submission was looked for and is then gone. `ChangesNeedPermission`
goes through the rules once (`GuardedRules`: one that allows more than to read is for
callers with a writing permission, but for tips and video events, and one about
completions is for those and for readers of statistics) and through the routes once
(`RouteGuarded`: one that changes something asks for such a permission, but for a tip's
note; `WritingGetsAsk` for the GETs that do), and carries over the handler that what
passed the guards is still what was asked (`GuardsPassed`). `TheQueriesAgree` is about
the queries alone, for any rows: among enrollments with dates one is first and one last
(again by a least natural), the next of the previous is where the walk began, and the
four queries agree on that order.

**OrganizationUsers.** `PathsFollowUnits`: a request that writes holds the units it
read, and if they are no longer those there are, the account is `outdated`. For
`ActivationAsAnswered` and `TrainingAsAnswered`, `AccountSays` is an invariant about one
account: while nothing about it overlapped, one request or one call is under way at most,
and `Promise` says at each await how far it has made true what the answer will say.

**Only model-checked.** Liveness (`EventuallyFresh`, `EventuallySettled`), since this
prover treats neither fairness nor ENABLED. `UnitHasTatGroup` is not proved, because it
is false: see the findings. What the recursive definitions of the models compute is
proved where a property needs it, by the argument of the least counterexample above.

## 5. Abstractions, and what is not modelled

- Data that no property tells apart: texts, names, media, JSON of a record, formatting
  of messages. Lists with filters and orders of their own, CSV and statistics are left
  out.
- Access checks that refuse a request before it writes are in `Access`, `Routes` and
  `Requests`; the other models enumerate the requests that pass, except where a check
  has state (the guard) or is in the statement itself (PATCH's criteria).
- Audiences repeat one handler of `OrganizationGroups`. Single-row entities (locations,
  policies, assessments, incident reports, resources, languages, course content) go
  through the `preload` and `save` that two modules already have. Persons of concern are
  links written by single statements.
- Media only saves calls with its cache. Migrations run once and leave the constraints
  that the models of the tables have. PDFs, dtos and pipes convert without state; AWS
  clients, configuration and bootstrap wire libraries; administration and health read.
- One organization in `OrganizationGroups`: two meet only where they would give groups
  one name. Sub-units, and units other than the default one that move between
  organizations, are left out.
- In `FormVersions` a group is no more than the form at its root; its own row, its removal
  and groups within groups are left out.
- `save`'s SELECT and UPDATE are one step in `FormVersions` and `OrganizationGroups` (two
  in `OrganizationStatus` and `IdentityProviders`), `updateRepresentation` is one in
  `TrainingLinks`. The nightly synchronisation runs in one process.
- Of an identity provider's configuration, only the mappers: domains and the imported
  configuration are left out. `Changes` in `Routes` is about rows, not caches.
- The delays that throttle SMS jobs, and jobs that stall although their worker lives.
- `PROJECT.json` lists the reason for every component that has no module, and what is
  left out of those that have one.

## 6. Plan

Written, in this order: item completions with their abstract specification and proofs;
user representations and proofs; organization status and proofs; summary population;
groups; tips; forms; training links and reminders; identity providers; access, routes,
notes, enrollments and requests; users of an organization; proofs of groups, tips,
forms, requests and users; proofs of the population, the team of a tip, activation and
training, identity providers, readers and queries, links and reminders.

Left, most important first:

1. An abstract specification of the queue's promise (a message is owed, then sent or
   given up for a reason), and the proof that `TipNotifications` implements it.
2. Groups within groups in `FormVersions`, and the comment at
   `forms/forms/forms.service.ts:142`, which promises that a submission is saved even if
   its uploads fail: the transaction around it rolls both back (`Fail`).
3. A second organization in `OrganizationGroups`, with units that move to it.
