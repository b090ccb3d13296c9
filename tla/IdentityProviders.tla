------------------------- MODULE IdentityProviders -------------------------
(***************************************************************************)
(* The identity providers of organizations.  A provider lives in Keycloak, *)
(* under an alias that is unique in the realm; which organization manages  *)
(* it is only said by the list idpSlugs in the row of the organization.    *)
(* A request reads that row once, makes its Keycloak calls one by one and  *)
(* writes the list it read, changed, back with an ordinary update of the   *)
(* row.  Any call may be refused, and the process may stop between any two.*)
(* The other requests that write the row are here too: those that create,  *)
(* update and remove organizations.                                        *)
(*                                                                         *)
(* A provider carries mappers.  An update deletes all that it finds and    *)
(* creates all of its own, since no mapper is built with an id that could  *)
(* match one; the branch that would update a mapper is never taken.        *)
(***************************************************************************)
EXTENDS Naturals, FiniteSets

CONSTANTS
    Requests,       \* administrators' requests, each served once
    Organizations,  \* ids of organizations
    RowSlugs,       \* slugs of organizations
    Aliases,        \* aliases of identity providers
    Others,         \* kinds of mappers beside those named below
    Dtos,           \* bodies of createIdp and updateIdp: see Dto
    Changes,        \* bodies of PATCH organizations: see Change
    Earlier,        \* stands for the requests before the model begins
    NoRow,          \* no organization has this id
    NoProvider,     \* no provider has the alias
    NoAlias,        \* the request is about no provider
    NoRowSlug,      \* the mapper writes no slug
    Unset           \* a field that the body of an update does not name

VARIABLES
    row,            \* row[o]: slug and idpSlugs of organization o, or NoRow
    provider,       \* provider[s]: Keycloak's provider of alias s, or NoProvider
    request,        \* request[r]: where request r is
    late,           \* late[s]: mappers that calls still under way may create at s
    cut,            \* history: aliases something went astray at, see Settled
    raced,          \* history: organizations two of whose requests overlapped
    gone,           \* history: organizations that were removed
    hadSlug         \* history: hadSlug[o], the slugs that o has had

providersVars == <<row, provider, request, late, cut, raced, gone, hadSlug>>

-----------------------------------------------------------------------------
(* Organizations, dtos and mappers. *)

Row == [slug : RowSlugs, list : SUBSET Aliases]

Kinds == {"organization", "unit", "path"} \cup Others

(* What CreateOrganizationIdpDto carries beyond its slug: whether it has    *)
(* unit matchers, and the mappers for attributes, audiences and groups.     *)
Dto == [units : BOOLEAN, others : SUBSET Others]

\* What an update sets of a row; sets says whether it names a list.
Change == [slug : RowSlugs \cup {Unset}, sets : BOOLEAN, list : SUBSET Aliases]

\* Keycloak tells the mappers of a provider apart by name; that of the mapper that
\* puts people into an organization is made of the organization's slug.
Name == [kind : Kinds, slug : RowSlugs \cup {NoRowSlug}]

\* by: the request that created it, which with the name stands for the id.
Mapper == [name : Name, by : Requests \cup {Earlier}]

\* maker and meant are histories: who created the provider, and the mappers that the
\* last request to save the provider had built for it.
Provider == [maker : Organizations, meant : SUBSET Name, mappers : SUBSET Mapper]

ASSUME ProvidersAssumption ==
    /\ Dtos \subseteq Dto
    /\ Changes \subseteq Change
    /\ Others \cap {"organization", "unit", "path"} = {}
    /\ Organizations # {}

ASSUME SentinelsAssumption ==
    /\ NoRow \notin Row
    /\ NoProvider \notin Provider
    /\ NoAlias \notin Aliases
    /\ Unset \notin RowSlugs

Named(kind) == [kind |-> kind, slug |-> NoRowSlug]

\* build: unitKinds are the mappers that a unit matcher stands for.
Built(slug, dto, unitKinds) ==
    {[kind |-> "organization", slug |-> slug]}
    \cup {Named(k) : k \in dto.others}
    \cup {Named(k) : k \in {u \in unitKinds : dto.units}}

BuildMappers(slug, dto) == Built(slug, dto, {"unit", "path"})

Names(mappers) == {m.name : m \in mappers}

Mappers(s) == IF provider[s] = NoProvider THEN {} ELSE provider[s].mappers

List(o) == IF row[o] = NoRow THEN {} ELSE row[o].list

\* The unique slug of the table.
FreeSlug(o, slug) == \A p \in Organizations \ {o} : row[p] # NoRow => row[p].slug # slug

UniqueRowSlugs ==
    \A o, p \in Organizations :
        o # p /\ row[o] # NoRow /\ row[p] # NoRow => row[o].slug # row[p].slug

-----------------------------------------------------------------------------
(* Requests. *)

Pcs == {"idle", "create", "createAll", "undo", "get", "update", "find", "deleteMappers",
        "createMappers", "read", "delete", "preload", "save", "write", "done"}

(* slug and new are the alias of the path and those the request leaves      *)
(* listed in its place; found and todo the mappers still to delete and to   *)
(* create; change, entity and seen belong to the update of the row.         *)
IdpRequest == [pc : Pcs, org : Organizations,
               slug : Aliases \cup {NoAlias}, new : SUBSET Aliases,
               found : SUBSET Mapper, todo : SUBSET Name,
               change : Change, entity : Row \cup {NoRow}, seen : Row \cup {NoRow}]

NoChange == [slug |-> Unset, sets |-> FALSE, list |-> {}]

\* What the requests on providers change.
Listing(list) == [slug |-> Unset, sets |-> TRUE, list |-> list]

Asked(pc, o, s, new, todo, change) ==
    [pc |-> pc, org |-> o, slug |-> s, new |-> new, found |-> {}, todo |-> todo,
     change |-> change, entity |-> NoRow, seen |-> NoRow]

AtRest(pc) == Asked(pc, CHOOSE o \in Organizations : TRUE, NoAlias, {}, {}, NoChange)

Active(r) == request[r].pc \notin {"idle", "done"}

Touched(r) == ({request[r].slug} \cup request[r].new) \ {NoAlias}

ProvidersTypeOK ==
    /\ row \in [Organizations -> Row \cup {NoRow}]
    /\ UniqueRowSlugs
    /\ provider \in [Aliases -> Provider \cup {NoProvider}]
    /\ request \in [Requests -> IdpRequest]
    /\ late \in [Aliases -> SUBSET Mapper]
    /\ cut \subseteq Aliases
    /\ raced \subseteq Organizations
    /\ gone \subseteq Organizations
    /\ hadSlug \in [Organizations -> SUBSET RowSlugs]

\* What an organization has saved before, with all that its dto stands for.
Saved(o, dto) ==
    LET names == BuildMappers(row[o].slug, dto)
    IN  [maker |-> o, meant |-> names,
         mappers |-> {[name |-> n, by |-> Earlier] : n \in names}]

ProvidersInit ==
    /\ row \in [Organizations -> Row \cup {NoRow}]
    /\ UniqueRowSlugs
    /\ \A o, p \in Organizations : o # p => List(o) \cap List(p) = {}
    /\ \E dto \in Dtos : provider = [s \in Aliases |->
          IF \E o \in Organizations : s \in List(o)
          THEN Saved(CHOOSE o \in Organizations : s \in List(o), dto) ELSE NoProvider]
    /\ request = [r \in Requests |-> AtRest("idle")]
    /\ late = [s \in Aliases |-> {}]
    /\ cut = {}
    /\ raced = {}
    /\ gone = {}
    /\ hadSlug = [o \in Organizations |-> IF row[o] = NoRow THEN {} ELSE {row[o].slug}]

Moves(r, pc) == request' = [request EXCEPT ![r].pc = pc]

Ends(r) == request' = [request EXCEPT ![r] = AtRest("done")]

\* Another request of the organization has begun and not ended.
Overlaps(o) ==
    raced' = raced \cup {p \in {o} : \E q \in Requests : Active(q) /\ request[q].org = o}

Begins(r, asked) ==
    /\ request[r].pc = "idle"
    /\ request' = [request EXCEPT ![r] = asked]
    /\ Overlaps(asked.org)
    /\ UNCHANGED <<row, provider, late, cut, gone, hadSlug>>

(* A request knows a provider by its alias only.  When the list it read is  *)
(* not what it was, or something went astray before, it may write to what   *)
(* another organization has put there since.                                *)
Outdated(r) == request[r].org \in raced \/ Touched(r) \cap cut # {}

Foreign(r) ==
    LET s == request[r].slug
    IN  provider[s] # NoProvider /\ provider[s].maker # request[r].org

Cuts(r, when) == cut' = IF when THEN cut \cup Touched(r) ELSE cut

\* An error of the request after one of its Keycloak writes, or before the first.
Breaks(r) ==
    /\ Ends(r)
    /\ Cuts(r, TRUE)
    /\ UNCHANGED <<row, provider, late, raced, gone, hadSlug>>

Refused(r) ==
    /\ Ends(r)
    /\ UNCHANGED <<row, provider, late, cut, raced, gone, hadSlug>>

\* A step that leaves the rows of organizations alone.
InKeycloak == UNCHANGED <<row, raced, gone, hadSlug>>

-----------------------------------------------------------------------------
(* createIdp. *)

\* Refused for an alias that the organization lists.
BeginCreate(r, o, s, dto) ==
    /\ row[o] # NoRow
    /\ s \notin row[o].list
    /\ Begins(r, Asked("create", o, s, {s}, BuildMappers(row[o].slug, dto),
                       Listing(row[o].list \cup {s})))

\* Mutant: the conflict with an alias in use is swallowed.
CreatesAnyhow(r) ==
    LET q == request[r]
        made == [maker |-> q.org, meant |-> q.todo, mappers |-> {}]
    IN  /\ q.pc = "create"
        /\ provider' = [provider EXCEPT ![q.slug] = IF @ = NoProvider THEN made ELSE @]
        /\ Moves(r, "createAll")
        /\ UNCHANGED <<late, cut>> /\ InKeycloak

CreateProvider(r) ==
    LET q == request[r]
    IN  /\ q.pc = "create"
        /\ \/ provider[q.slug] # NoProvider /\ Refused(r)
           \/ /\ provider[q.slug] = NoProvider
              /\ provider' = [provider EXCEPT ![q.slug] =
                    [maker |-> q.org, meant |-> q.todo, mappers |-> {}]]
              /\ Moves(r, "createAll")
              /\ UNCHANGED <<late, cut>> /\ InKeycloak

(* One call of a Promise.all that creates mappers, under the alias of the   *)
(* path: no mapper there may have the name.  After a rename that alias is   *)
(* free, or another provider's.                                             *)
CreateMapper(r, pc) ==
    LET q == request[r]
        s == q.slug
    IN  /\ q.pc = pc
        /\ provider[s] # NoProvider
        /\ \E n \in q.todo \ Names(Mappers(s)) :
              /\ provider' = [provider EXCEPT ![s].mappers = @ \cup {[name |-> n, by |-> r]}]
              /\ request' = [request EXCEPT ![r].todo = @ \ {n},
                                            ![r].pc = IF q.todo = {n} THEN "read" ELSE pc]
        /\ Cuts(r, s \notin q.new \/ (Outdated(r) /\ Foreign(r)))
        /\ UNCHANGED late /\ InKeycloak

\* One call fails, and the catch block runs; others may still be on their way.
CreateFails(r) ==
    LET q == request[r]
    IN  /\ q.pc = "createAll"
        /\ \E n \in q.todo, others \in SUBSET q.todo :
              /\ n \notin others
              /\ late' = [late EXCEPT ![q.slug] = @ \cup {[name |-> m, by |-> r] : m \in others}]
        /\ Moves(r, "undo")
        /\ UNCHANGED <<provider, cut>> /\ InKeycloak

\* The catch block removes the provider again and rethrows.
Undo(r) ==
    LET q == request[r]
    IN  /\ q.pc = "undo"
        /\ provider' = [provider EXCEPT ![q.slug] = NoProvider]
        /\ Ends(r)
        /\ Cuts(r, Outdated(r) /\ Foreign(r))
        /\ UNCHANGED late /\ InKeycloak

\* Such a call comes to nothing, or to a mapper in a provider made there since.
Lands(s) ==
    \E m \in late[s] :
        /\ late' = [late EXCEPT ![s] = @ \ {m}]
        /\ \/ UNCHANGED <<provider, cut>>
           \/ /\ provider[s] # NoProvider
              /\ m.name \notin Names(Mappers(s))
              /\ provider' = [provider EXCEPT ![s].mappers = @ \cup {m}]
              /\ cut' = cut \cup {s}
        /\ UNCHANGED request /\ InKeycloak

\* getIdentityProvider at the end of a create or an update.
Read(r) ==
    LET q == request[r]
    IN  /\ q.pc = "read"
        /\ \/ (\E s \in q.new : provider[s] = NoProvider) /\ Breaks(r)
           \/ /\ \A s \in q.new : provider[s] # NoProvider
              /\ Moves(r, "preload")
              /\ UNCHANGED <<provider, late, cut>> /\ InKeycloak

-----------------------------------------------------------------------------
(* updateIdp. *)

\* The row is read: only an alias that the organization lists.
BeginUpdate(r, o, s, new, dto) ==
    /\ row[o] # NoRow
    /\ s \in row[o].list
    /\ Begins(r, Asked("get", o, s, {new}, BuildMappers(row[o].slug, dto),
                       Listing((row[o].list \ {s}) \cup {new})))

(* getIdp reads it again, and the provider.  What merge takes from the      *)
(* provider is overwritten by the dto, of which every field is set, if only *)
(* to undefined.                                                            *)
GetIdp(r) ==
    LET q == request[r]
        found == q.slug \in List(q.org) /\ provider[q.slug] # NoProvider
    IN  /\ q.pc = "get"
        /\ \/ ~found /\ Refused(r)
           \/ /\ found
              /\ Moves(r, "update")
              /\ UNCHANGED <<provider, late, cut>> /\ InKeycloak

\* Keycloak finds the provider by the old alias and may give it the new one.
UpdateProvider(r) ==
    LET q == request[r]
        old == q.slug
        new == CHOOSE s \in q.new : TRUE
        free == new = old \/ provider[new] = NoProvider
    IN  /\ q.pc = "update"
        /\ \/ ~(provider[old] # NoProvider /\ free) /\ Refused(r)
           \/ /\ provider[old] # NoProvider /\ free
              /\ provider' = [provider EXCEPT ![old] = NoProvider, ![new] =
                    [provider[old] EXCEPT !.meant = q.todo]]
              /\ Moves(r, "find")
              /\ Cuts(r, Touched(r) \cap cut # {} \/ (Outdated(r) /\ Foreign(r)))
              /\ UNCHANGED late /\ InKeycloak

\* findMappers, under the new alias.
FindMappers(r) ==
    LET new == CHOOSE s \in request[r].new : TRUE
        next == IF Mappers(new) = {} THEN "createMappers" ELSE "deleteMappers"
    IN  /\ request[r].pc = "find"
        /\ \/ provider[new] = NoProvider /\ Breaks(r)
           \/ /\ provider[new] # NoProvider
              /\ request' = [request EXCEPT ![r].pc = next, ![r].found = Mappers(new)]
              /\ UNCHANGED <<provider, late, cut>> /\ InKeycloak

\* Mutant: what the provider has is left where it is.
KeepsOldMappers(r) ==
    /\ request[r].pc = "deleteMappers"
    /\ Moves(r, "createMappers")
    /\ UNCHANGED <<provider, late, cut>> /\ InKeycloak

(* One call of the Promise.all that deletes the mappers found, under the    *)
(* alias of the path.                                                       *)
DeleteMapper(r) ==
    LET q == request[r]
        s == q.slug
    IN  /\ q.pc = "deleteMappers"
        /\ \E m \in q.found \cap Mappers(s) :
              /\ provider' = [provider EXCEPT ![s].mappers = @ \ {m}]
              /\ request' = [request EXCEPT ![r].found = @ \ {m},
                    ![r].pc = IF q.found = {m} THEN "createMappers" ELSE "deleteMappers"]
        /\ Cuts(r, s \notin q.new \/ (Outdated(r) /\ Foreign(r)))
        /\ UNCHANGED late /\ InKeycloak

-----------------------------------------------------------------------------
(* deleteIdp: what Keycloak has lost cannot be deleted, and stays listed. *)

BeginDelete(r, o, s) ==
    /\ row[o] # NoRow
    /\ s \in row[o].list
    /\ Begins(r, Asked("delete", o, s, {}, {}, Listing(row[o].list \ {s})))

DeleteProvider(r) ==
    LET s == request[r].slug
    IN  /\ request[r].pc = "delete"
        /\ \/ provider[s] = NoProvider /\ Refused(r)
           \/ /\ provider[s] # NoProvider
              /\ provider' = [provider EXCEPT ![s] = NoProvider]
              /\ Moves(r, "preload")
              /\ Cuts(r, Outdated(r) /\ Foreign(r))
              /\ UNCHANGED late /\ InKeycloak

-----------------------------------------------------------------------------
(* Rows of organizations: what the requests above end with, and others do. *)

\* PATCH organizations: an administrator may set the list by hand.
BeginPatch(r, o, change) == Begins(r, Asked("preload", o, NoAlias, {}, {}, change))

ByHand(q) == q.slug = NoAlias /\ q.change.sets

\* Mutant: aliases are added to the list, and none is taken off.
AddsOnly(before, change) ==
    [slug |-> IF change.slug = Unset THEN before.slug ELSE change.slug,
     list |-> IF change.sets THEN before.list \cup change.list ELSE before.list]

Overlay(before, change) ==
    [slug |-> IF change.slug = Unset THEN before.slug ELSE change.slug,
     list |-> IF change.sets THEN change.list ELSE before.list]

\* update: the whole row, what is to change on top.
PreloadRow(r) ==
    LET q == request[r]
    IN  /\ q.pc = "preload"
        /\ \/ row[q.org] = NoRow /\ Breaks(r)
           \/ /\ row[q.org] # NoRow
              /\ request' = [request EXCEPT ![r].pc = "save",
                                            ![r].entity = Overlay(row[q.org], q.change)]
              /\ UNCHANGED <<provider, late, cut>> /\ InKeycloak

\* save begins with a SELECT of the row.
SaveFindsRow(r) ==
    /\ request[r].pc = "save"
    /\ request' = [request EXCEPT ![r].pc = "write", ![r].seen = row[request[r].org]]
    /\ UNCHANGED <<provider, late, cut>> /\ InKeycloak

(* The columns in which the entity differs from the row seen; the others    *)
(* stay.  A list of the same aliases may differ by their order.             *)
UpdatedRows(entity, seen, now) ==
    [slug : {IF entity.slug = seen.slug THEN now.slug ELSE entity.slug},
     list : {entity.list} \cup {l \in {now.list} : entity.list = seen.list}]

WritesRow(o, new) ==
    /\ row' = [row EXCEPT ![o] = new]
    /\ hadSlug' = [hadSlug EXCEPT ![o] = @ \cup {new.slug}]

(* And goes on with an INSERT when it saw no row, or an UPDATE, which does  *)
(* nothing when the row is gone by then.                                    *)
SaveRow(r) ==
    LET q == request[r]
        o == q.org
        now == row[o]
    IN  /\ q.pc = "write"
        /\ \/ q.seen # NoRow /\ now = NoRow /\ Refused(r)
           \/ q.seen = NoRow /\ now # NoRow /\ Breaks(r)
           \/ /\ q.seen = NoRow <=> now = NoRow
              /\ \E new \in IF now = NoRow THEN {q.entity} ELSE UpdatedRows(q.entity, q.seen, now) :
                    \/ ~FreeSlug(o, new.slug) /\ Breaks(r)
                    \/ /\ FreeSlug(o, new.slug)
                       /\ WritesRow(o, new)
                       /\ Ends(r)
                       /\ cut' = cut \cup {s \in Aliases : ByHand(q) /\ (s \in new.list <=> s \notin List(o))}
                       /\ UNCHANGED <<provider, late, raced, gone>>

\* POST organizations: a new id; the list may name any alias.
PostRow(r, o, new) ==
    /\ request[r].pc = "idle"
    /\ row[o] = NoRow /\ o \notin gone
    /\ FreeSlug(o, new.slug)
    /\ WritesRow(o, new)
    /\ Ends(r)
    /\ Overlaps(o)
    /\ cut' = cut \cup new.list
    /\ UNCHANGED <<provider, late, gone>>

\* DELETE organizations: the list goes, the providers stay.
RemoveRow(r, o) ==
    /\ request[r].pc = "idle"
    /\ row[o] # NoRow
    /\ row' = [row EXCEPT ![o] = NoRow]
    /\ gone' = gone \cup {o}
    /\ Ends(r)
    /\ Overlaps(o)
    /\ UNCHANGED <<provider, late, cut, hadSlug>>

-----------------------------------------------------------------------------
\* A call fails or the process stops.
Fails(r) ==
    /\ Active(r)
    /\ IF request[r].pc \in {"create", "get", "update", "delete"} THEN Refused(r) ELSE Breaks(r)

Starts(r) ==
    \E o \in Organizations :
        \/ \E s \in Aliases, dto \in Dtos : BeginCreate(r, o, s, dto)
        \/ \E s, new \in Aliases, dto \in Dtos : BeginUpdate(r, o, s, new, dto)
        \/ \E s \in Aliases : BeginDelete(r, o, s)
        \/ \E change \in Changes : BeginPatch(r, o, change)
        \/ \E new \in Row : PostRow(r, o, new)
        \/ RemoveRow(r, o)

ProvidersNext ==
    \/ \E r \in Requests :
          \/ Starts(r)
          \/ CreateProvider(r)
          \/ CreateMapper(r, "createAll")
          \/ CreateFails(r)
          \/ Undo(r)
          \/ GetIdp(r)
          \/ UpdateProvider(r)
          \/ FindMappers(r)
          \/ DeleteMapper(r)
          \/ CreateMapper(r, "createMappers")
          \/ Read(r)
          \/ DeleteProvider(r)
          \/ PreloadRow(r)
          \/ SaveFindsRow(r)
          \/ SaveRow(r)
          \/ Fails(r)
    \/ \E s \in Aliases : Lands(s)

ProvidersSpec == ProvidersInit /\ [][ProvidersNext]_providersVars

-----------------------------------------------------------------------------
(* Properties. *)

(* No request is at work on the alias, and nothing went astray there: no    *)
(* request broke off between its Keycloak calls, wrote under an alias it    *)
(* had renamed or, outdated, to another organization's provider; no call    *)
(* landed after its request had undone the provider; and no administrator   *)
(* changed by hand whether the alias is listed.                             *)
Settled(s) == s \notin cut /\ \A r \in Requests : Active(r) => s \notin Touched(r)

(* The list and Keycloak are two stores, written one after the other.  They *)
(* agree on every settled alias, unless the organization had two requests   *)
(* at a time: what is there is listed by its maker, if that still exists,   *)
(* and by nobody else, and what is listed is there.                         *)
ListMatchesKeycloak ==
    \A s \in Aliases : Settled(s) =>
        /\ provider[s] # NoProvider =>
              LET maker == provider[s].maker
              IN  s \in List(maker) \/ maker \in raced \cup gone
        /\ \A o \in Organizations : s \in List(o) =>
              (provider[s] # NoProvider /\ provider[s].maker = o) \/ o \in raced

(* Whoever logs in through a settled provider is put under a slug of the    *)
(* organization that made it, however requests overlapped: the one it has,  *)
(* or one it had, which nobody replaces when the organization is renamed or *)
(* removed, and which may have another owner by now.                        *)
OrganizationMapped ==
    \A s \in Aliases : Settled(s) /\ provider[s] # NoProvider =>
        \A m \in provider[s].mappers :
            m.name.kind = "organization" => m.name.slug \in hadSlug[provider[s].maker]

(* Mappers are deleted and created in two rounds of parallel calls.  A      *)
(* settled provider has just those that the last request to save it meant   *)
(* it to have, neither one of an earlier request nor one too few (so one    *)
(* slug, and with a unit matcher's unit its path), unless its organization  *)
(* had two requests at a time.                                              *)
MappersAsSaved ==
    \A s \in Aliases : Settled(s) /\ provider[s] # NoProvider =>
        \/ Names(provider[s].mappers) = provider[s].meant
        \/ provider[s].maker \in raced
=============================================================================
