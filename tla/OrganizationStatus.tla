------------------------- MODULE OrganizationStatus -------------------------
(***************************************************************************)
(* Who may use the API: ActiveOrganizationGuard reads the status of the    *)
(* caller's organization through a Redis entry per slug (cache-aside, one  *)
(* hour), while administrators create, update and remove organizations.    *)
(*                                                                         *)
(* A guarded request reads the cache, on a miss the table, and then fills  *)
(* the cache.  An update reads the row and puts the dto's fields on top    *)
(* (preload), reads it again and writes the columns that differ from what  *)
(* it found (save), and then drops the entry of the slug it means the row  *)
(* to have.  Every await lets the others run.                              *)
(***************************************************************************)
EXTENDS Naturals

CONSTANTS
    Guards,         \* workers of the guard, each serving requests in turn
    Admins,         \* administrators' requests, each served once
    Orgs,           \* organization ids
    Slugs,          \* organization slugs
    NoOrg,          \* no row with this id
    NoSlug,         \* the token names no organization
    Keep,           \* a field the dto does not name
    Empty           \* no value: the cache's, or a guard's before it has one

\* "inactive" stands for pending too: the guard lets in only what is active.
Statuses == {"active", "inactive"}

VARIABLES
    orgs,           \* orgs[o]: the organization row o, or NoOrg
    cache,          \* cache[s]: organizations:status-by-slug:s
    guard,          \* guard[g]: the request g serves
    admitted,       \* the slug the last request was let through for, or NoSlug
    admin,          \* admin[a]: the request of a
    tainted,        \* history: the slugs whose entry may outlive an update
    wasActive       \* history: the slugs an active organization has had

vars == <<orgs, cache, guard, admitted, admin, tainted, wasActive>>

-----------------------------------------------------------------------------
Org == [slug : Slugs, status : Statuses]

ASSUME SentinelAssumption ==
    /\ NoOrg \notin Org
    /\ NoSlug \notin Slugs
    /\ Keep \notin Slugs \cup Statuses
    /\ Empty \notin Statuses

Guard == [pc : {"idle", "select", "set"},
          slug : Slugs \cup {NoSlug},
          status : Statuses \cup {Empty}]

Admin == [pc : {"idle", "save", "write", "del", "done"},
          org : Orgs \cup {NoOrg},
          entity : Org \cup {NoOrg},
          found : Org \cup {NoOrg},
          key : Slugs \cup {NoSlug}]

Idle == [pc |-> "idle", slug |-> NoSlug, status |-> Empty]

\* An administrator's request: with the entity to save and the row that save found,
\* or with the key to drop.
Request(pc, org, entity, found, key) ==
    [pc |-> pc, org |-> org, entity |-> entity, found |-> found, key |-> key]

Holders(s) == {o \in Orgs : orgs[o] # NoOrg /\ orgs[o].slug = s}

StatusOf(s) == {orgs[o].status : o \in Holders(s)}

UniqueSlugs == \A s \in Slugs, o, p \in Orgs : o \in Holders(s) /\ p \in Holders(s) => o = p

TypeOK ==
    /\ orgs \in [Orgs -> Org \cup {NoOrg}]
    /\ UniqueSlugs
    /\ cache \in [Slugs -> Statuses \cup {Empty}]
    /\ guard \in [Guards -> Guard]
    /\ admitted \in Slugs \cup {NoSlug}
    /\ admin \in [Admins -> Admin]
    /\ tainted \in SUBSET Slugs
    /\ wasActive \in SUBSET Slugs

Init ==
    /\ orgs \in [Orgs -> Org \cup {NoOrg}]
    /\ UniqueSlugs
    /\ cache = [s \in Slugs |-> Empty]
    /\ guard = [g \in Guards |-> Idle]
    /\ admitted = NoSlug
    /\ admin = [a \in Admins |-> Request("idle", NoOrg, NoOrg, NoOrg, NoSlug)]
    /\ tainted = {}
    /\ wasActive = {s \in Slugs : "active" \in StatusOf(s)}

-----------------------------------------------------------------------------
(* The guard. *)

\* The request is answered, and let through for slug s or denied.
Decides(g, s) ==
    /\ guard' = [guard EXCEPT ![g] = Idle]
    /\ admitted' = s

Allows(g) == Decides(g, guard[g].slug)

Denies(g) == Decides(g, NoSlug)

\* A public route passes, a caller without an organization is denied.
Unguarded(g) ==
    /\ guard[g].pc = "idle"
    /\ Decides(g, NoSlug)
    /\ UNCHANGED <<orgs, cache, admin, tainted, wasActive>>

CacheGet(g, s) ==
    /\ guard[g].pc = "idle"
    /\ \/ cache[s] = "active" /\ Decides(g, s)
       \/ cache[s] = "inactive" /\ Denies(g)
       \/ /\ cache[s] = Empty
          /\ guard' = [guard EXCEPT ![g].pc = "select", ![g].slug = s]
          /\ UNCHANGED admitted
    /\ UNCHANGED <<orgs, cache, admin, tainted, wasActive>>

\* findOne({ slug }); an unknown slug is denied and not cached.
Select(g) ==
    LET s == guard[g].slug
    IN  /\ guard[g].pc = "select"
        /\ \/ /\ StatusOf(s) = {}
              /\ Denies(g)
           \/ \E status \in StatusOf(s) :
                 /\ guard' = [guard EXCEPT ![g].pc = "set", ![g].status = status]
                 /\ UNCHANGED admitted
        /\ UNCHANGED <<orgs, cache, admin, tainted, wasActive>>

\* cache.set(key, status, one hour): the row may have changed since.
CacheSet(g) ==
    LET s == guard[g].slug
        status == guard[g].status
    IN  /\ guard[g].pc = "set"
        /\ cache' = [cache EXCEPT ![s] = status]
        /\ tainted' = IF StatusOf(s) = {status} THEN tainted \ {s}
                      ELSE tainted \cup {s}
        /\ IF status = "active" THEN Allows(g) ELSE Denies(g)
        /\ UNCHANGED <<orgs, admin, wasActive>>

\* PostgreSQL or Redis does not answer: the request fails.
GuardFails(g) ==
    /\ guard[g].pc # "idle"
    /\ Denies(g)
    /\ UNCHANGED <<orgs, cache, admin, tainted, wasActive>>

\* Mutant: cache.set without the time to live.
NeverExpires(s) == FALSE /\ UNCHANGED vars

\* The hour is over.
Expire(s) ==
    /\ cache[s] # Empty
    /\ cache' = [cache EXCEPT ![s] = Empty]
    /\ tainted' = tainted \ {s}
    /\ UNCHANGED <<orgs, guard, admitted, admin, wasActive>>

-----------------------------------------------------------------------------
(* The administrators. *)

Finishes(a) ==
    admin' = [admin EXCEPT ![a] = Request("done", NoOrg, NoOrg, NoOrg, NoSlug)]

(* Row o is written by a request that will drop the entry of key, if any.   *)
(* The entry of a slug that the row gives up stays, and so does the entry   *)
(* of the slug that another request has given it meanwhile.                 *)
Writes(o, row, key) ==
    /\ orgs' = [orgs EXCEPT ![o] = row]
    /\ tainted' = tainted \cup
          {s \in Slugs : /\ o \in Holders(s)
                         /\ cache[s] # Empty
                         /\ \/ row = NoOrg
                            \/ row.slug # s
                            \/ s # key /\ row.status # orgs[o].status}
    /\ wasActive' = wasActive \cup
          {s \in Slugs : row # NoOrg /\ row = [slug |-> s, status |-> "active"]}

\* The unique slug of the table.
SlugFree(o, s) == Holders(s) \subseteq {o}

\* POST /organizations: the entry of an earlier owner of the slug stays.
Create(a, o, s, status) ==
    /\ admin[a].pc = "idle"
    /\ orgs[o] = NoOrg
    /\ Finishes(a)
    /\ \/ SlugFree(o, s) /\ Writes(o, [slug |-> s, status |-> status], NoSlug)
       \/ ~SlugFree(o, s) /\ UNCHANGED <<orgs, tainted, wasActive>>
    /\ UNCHANGED <<cache, guard, admitted>>

\* DELETE /organizations/:id: no entry is dropped.
Remove(a, o) ==
    /\ admin[a].pc = "idle"
    /\ Finishes(a)
    /\ Writes(o, NoOrg, NoSlug)
    /\ UNCHANGED <<cache, guard, admitted>>

\* preload: the whole row, the dto's fields on top.
Entity(row, slug, status) ==
    [slug |-> IF slug = Keep THEN row.slug ELSE slug,
     status |-> IF status = Keep THEN row.status ELSE status]

Preload(a, o, slug, status) ==
    /\ admin[a].pc = "idle"
    /\ \/ /\ orgs[o] = NoOrg
          /\ Finishes(a)
       \/ /\ orgs[o] # NoOrg
          /\ admin' = [admin EXCEPT ![a] =
                          Request("save", o, Entity(orgs[o], slug, status), NoOrg, NoSlug)]
    /\ UNCHANGED <<orgs, cache, guard, admitted, tainted, wasActive>>

\* save begins with a SELECT of the row.
SaveFinds(a) ==
    /\ admin[a].pc = "save"
    /\ admin' = [admin EXCEPT ![a].pc = "write", ![a].found = orgs[admin[a].org]]
    /\ UNCHANGED <<orgs, cache, guard, admitted, tainted, wasActive>>

\* The columns in which the entity differs from the row found; the others stay.
Updated(entity, found, row) ==
    [slug |-> IF entity.slug = found.slug THEN row.slug ELSE entity.slug,
     status |-> IF entity.status = found.status THEN row.status ELSE entity.status]

(* And goes on with an INSERT when it found no row, an UPDATE of the columns *)
(* that differ otherwise; that of a row removed since then changes nothing.  *)
(* The unique slug or the primary key may refuse it; if not, the request     *)
(* goes on with the slug of its entity.                                      *)
Save(a) ==
    LET o == admin[a].org
        entity == admin[a].entity
        found == admin[a].found
        row == IF found = NoOrg THEN entity ELSE Updated(entity, found, orgs[o])
        GoesOn == admin' = [admin EXCEPT ![a] =
                               Request("del", NoOrg, NoOrg, NoOrg, entity.slug)]
        Unwritten == UNCHANGED <<orgs, tainted, wasActive>>
    IN  /\ admin[a].pc = "write"
        /\ \/ found # NoOrg /\ orgs[o] = NoOrg /\ Unwritten /\ GoesOn
           \/ found = NoOrg /\ orgs[o] # NoOrg /\ Unwritten /\ Finishes(a)
           \/ /\ found = NoOrg <=> orgs[o] = NoOrg
              /\ \/ SlugFree(o, row.slug) /\ Writes(o, row, entity.slug) /\ GoesOn
                 \/ ~SlugFree(o, row.slug) /\ Unwritten /\ Finishes(a)
        /\ UNCHANGED <<cache, guard, admitted>>

\* Mutant: no afterUpdate.
KeptEntry(a) ==
    /\ admin[a].pc = "del"
    /\ Finishes(a)
    /\ UNCHANGED <<orgs, cache, guard, admitted, tainted, wasActive>>

\* afterUpdate: cache.del of the slug of the entity saved.
CacheDel(a) ==
    LET s == admin[a].key
    IN  /\ admin[a].pc = "del"
        /\ cache' = [cache EXCEPT ![s] = Empty]
        /\ tainted' = tainted \ {s}
        /\ Finishes(a)
        /\ UNCHANGED <<orgs, guard, admitted, wasActive>>

\* The process, the database or Redis is lost between the preload and the del.
AdminFails(a) ==
    /\ admin[a].pc \in {"save", "write", "del"}
    /\ Finishes(a)
    /\ tainted' = tainted \cup
          {s \in Slugs : admin[a].pc = "del" /\ admin[a].key = s
                         /\ cache[s] # Empty}
    /\ UNCHANGED <<orgs, cache, guard, admitted, wasActive>>

-----------------------------------------------------------------------------
Answers(g) == Select(g) \/ CacheSet(g) \/ GuardFails(g)

Proceeds(a) == SaveFinds(a) \/ Save(a) \/ CacheDel(a) \/ AdminFails(a)

Administers(a) ==
    \E o \in Orgs :
        \/ Remove(a, o)
        \/ \E s \in Slugs, status \in Statuses : Create(a, o, s, status)
        \/ \E s \in Slugs \cup {Keep}, status \in Statuses \cup {Keep} :
              Preload(a, o, s, status)

Next ==
    \/ \E g \in Guards : Unguarded(g) \/ Answers(g) \/ \E s \in Slugs : CacheGet(g, s)
    \/ \E a \in Admins : Administers(a) \/ Proceeds(a)
    \/ \E s \in Slugs : Expire(s)

(* A request that has started is answered or fails, and an entry expires;  *)
(* no request has to come.                                                 *)
Fairness ==
    /\ \A g \in Guards : WF_vars(Answers(g))
    /\ \A a \in Admins : WF_vars(Proceeds(a))
    /\ \A s \in Slugs : WF_vars(Expire(s))

Spec == Init /\ [][Next]_vars /\ Fairness

-----------------------------------------------------------------------------
(* Properties. *)

Stale(s) == cache[s] # Empty /\ StatusOf(s) # {cache[s]}

(* An update of a status is in force for every guard as soon as it is       *)
(* answered: an entry disagrees with the table only while the update that   *)
(* wrote the row has its del to do, or when a fill that read before the     *)
(* save wrote after it, the slug was given up, another request renamed the  *)
(* row between the SELECT and the UPDATE of the save, or the del was lost.  *)
StaleOnlyForAReason ==
    \A s \in Slugs :
        Stale(s) => \/ s \in tainted
                    \/ \E a \in Admins : admin[a].pc = "del" /\ admin[a].key = s

(* However stale the entries, nobody enters for an organization that was    *)
(* never active.                                                            *)
AdmittedWasActive == admitted \in wasActive \cup {NoSlug}

(* Once administrators are done, every entry that disagrees with the table  *)
(* is gone for good, late fills included: the hour bounds the damage.       *)
EventuallyFresh ==
    (\A a \in Admins : admin[a].pc = "done") ~> [](\A s \in Slugs : ~Stale(s))
=============================================================================
