------------------------- MODULE OrganizationGroups -------------------------
(***************************************************************************)
(* OrganizationChangeListener: the default unit of an organization and the *)
(* Keycloak groups of the organization and its units, kept up by events    *)
(* that the services emit around their writes.  One organization is        *)
(* modelled: two meet only where their groups would have the same name.    *)
(*                                                                         *)
(* A request and the handler of its event are two processes: the services  *)
(* emit and go on.  A handler reads the row once and then makes one        *)
(* Keycloak or SQL call after another by what it read; a refused call ends *)
(* it.  "changed" is emitted after the write, "removed" before it.         *)
(***************************************************************************)
EXTENDS Naturals

CONSTANTS
    Requests,       \* administrators' requests, each served once
    Units,          \* units of the organization, other than the default one
    Names,          \* names of the organization
    MaxGroup,       \* bound of the ids Keycloak hands out
    TheOrg,         \* the organization
    NoRow,          \* no row, or no name
    NoGroup         \* no group, or the parent of all organizations' groups

ASSUME BoundAssumption == MaxGroup \in Nat /\ MaxGroup >= 2

VARIABLES
    org,            \* the row of the organization, or NoRow
    unit,           \* unit[u]: the row of u, or NoRow
    group,          \* group[g]: the Keycloak group g, or NoGroup
    next,           \* the id the next group gets
    request,        \* request[r]: what request r has still to write
    handler,        \* handler[r]: the handler of the event of r
    spoiled         \* history: rows whose listener was cut short or undone

vars == <<org, unit, group, next, request, handler, spoiled>>

-----------------------------------------------------------------------------
Groups == 1 .. MaxGroup

\* default: whether it has its default unit, or it was taken from it (TakeDefault).
Defaults == {"missing", "there", "taken"}

Org == [name : Names, group : Groups \cup {NoGroup},
        tat : Groups \cup {NoGroup}, default : Defaults]

Unit == [tat : Groups \cup {NoGroup}]

(* The group of the organization and its TAT, "Unit TATs", and the TAT of a *)
(* unit; name is what distinguishes it among the groups of one kind.        *)
Group == [parent : Groups \cup {NoGroup},
          kind : {"org", "orgTat", "unitTats", "unitTat"},
          name : Names \cup Units \cup {NoRow}]

ASSUME SentinelAssumption ==
    /\ TheOrg \notin Units
    /\ NoRow \notin Org \cup Unit
    /\ NoGroup \notin Groups \cup Group

Targets == Units \cup {TheOrg}

Request == [pc : {"idle", "save", "delete", "done"},
            target : Targets \cup {NoRow},
            row : Org \cup Unit \cup {NoRow}]

Handler == [pc : {"select", "exists", "insertUnit", "orgGroup", "orgTat", "unitTats",
                  "createTats", "unitTat", "link", "deleteUnit", "deleteGroup", "done"},
            removed : BOOLEAN,
            target : Targets \cup {NoRow},
            row : Org \cup Unit \cup {NoRow},
            parent : Groups \cup {NoGroup},
            tat : Groups \cup {NoGroup}]

\* Keycloak refuses a second sibling of the same name.
Taken(parent, kind, name) ==
    \E g \in Groups : group[g] = [parent |-> parent, kind |-> kind, name |-> name]

\* With the foreign key of unit: no unit without its organization.
TypeOK ==
    /\ org \in Org \cup {NoRow}
    /\ unit \in [Units -> Unit \cup {NoRow}]
    /\ \A u \in Units : unit[u] # NoRow => org # NoRow
    /\ group \in [Groups -> Group \cup {NoGroup}]
    /\ next \in Nat \ {0}
    /\ request \in [Requests -> Request]
    /\ handler \in [Requests -> Handler]
    /\ spoiled \in SUBSET Targets

Resting(pc) == [pc |-> pc, target |-> NoRow, row |-> NoRow]

Handling(pc, removed, target) ==
    [pc |-> pc, removed |-> removed, target |-> target, row |-> NoRow,
     parent |-> NoGroup, tat |-> NoGroup]

Finished == Handling("done", FALSE, NoRow)

(* The organization is not there yet, or it is older than the listener and  *)
(* has its groups and its default unit.                                     *)
Init ==
    /\ \/ /\ org = NoRow
          /\ group = [g \in Groups |-> NoGroup]
          /\ next = 1
       \/ \E name \in Names :
             /\ org = [name |-> name, group |-> 1, tat |-> 2, default |-> "there"]
             /\ group = [g \in Groups |->
                   IF g = 1 THEN [parent |-> NoGroup, kind |-> "org", name |-> name]
                   ELSE IF g = 2 THEN [parent |-> 1, kind |-> "orgTat", name |-> name]
                   ELSE NoGroup]
             /\ next = 3
    /\ unit = [u \in Units |-> NoRow]
    /\ request = [r \in Requests |-> Resting("idle")]
    /\ handler = [r \in Requests |-> Finished]
    /\ spoiled = {}

-----------------------------------------------------------------------------
(* Requests: BaseEntityService with the hooks of the two services. *)

Row(t) == IF t = TheOrg THEN org ELSE unit[t]

SetRow(t, row) ==
    IF t = TheOrg THEN org' = row /\ UNCHANGED unit
    ELSE unit' = [unit EXCEPT ![t] = row] /\ UNCHANGED org

Answers(r) == request' = [request EXCEPT ![r] = Resting("done")]

Emits(r, removed, target) ==
    handler' = [handler EXCEPT ![r] = Handling("select", removed, target)]

\* POST: the row, and then the changed event.
CreateOrg(r, name) ==
    /\ request[r].pc = "idle"
    /\ org = NoRow
    /\ org' = [name |-> name, group |-> NoGroup, tat |-> NoGroup, default |-> "missing"]
    /\ Answers(r)
    /\ Emits(r, FALSE, TheOrg)
    /\ UNCHANGED <<unit, group, next, spoiled>>

CreateUnit(r, u) ==
    /\ request[r].pc = "idle"
    /\ org # NoRow
    /\ unit[u] = NoRow
    /\ unit' = [unit EXCEPT ![u] = [tat |-> NoGroup]]
    /\ Answers(r)
    /\ Emits(r, FALSE, u)
    /\ UNCHANGED <<org, group, next, spoiled>>

\* PATCH: preload reads the whole row, the dto may rename the organization.
PreloadOrg(r, name) ==
    /\ request[r].pc = "idle"
    /\ org # NoRow
    /\ request' = [request EXCEPT ![r] =
          [pc |-> "save", target |-> TheOrg, row |-> [org EXCEPT !.name = name]]]
    /\ UNCHANGED <<org, unit, group, next, handler, spoiled>>

PreloadUnit(r, u) ==
    /\ request[r].pc = "idle"
    /\ unit[u] # NoRow
    /\ request' = [request EXCEPT ![r] = [pc |-> "save", target |-> u, row |-> unit[u]]]
    /\ UNCHANGED <<org, unit, group, next, handler, spoiled>>

\* The row that save leaves: default units are rows of their own.
Saved(t, row) ==
    IF t = TheOrg THEN [row EXCEPT !.default = IF org = NoRow THEN "missing" ELSE org.default]
    ELSE row

(* save writes back what preload read, a link made since included; a row    *)
(* that was removed meanwhile is inserted again.                            *)
Save(r) ==
    LET t == request[r].target
        row == request[r].row
    IN  /\ request[r].pc = "save"
        /\ Answers(r)
        /\ \/ /\ t = TheOrg \/ org # NoRow
              /\ SetRow(t, Saved(t, row))
              /\ Emits(r, FALSE, t)
              /\ spoiled' = spoiled \cup
                    {s \in {t} : Row(t) # NoRow /\ Row(t).tat # row.tat}
           \/ /\ t # TheOrg /\ org = NoRow
              /\ UNCHANGED <<org, unit, handler, spoiled>>
        /\ UNCHANGED <<group, next>>

\* DELETE: the removed event, and then the row.
BeginRemove(r, t) ==
    /\ request[r].pc = "idle"
    /\ Row(t) # NoRow
    /\ request' = [request EXCEPT ![r] = [pc |-> "delete", target |-> t, row |-> NoRow]]
    /\ Emits(r, TRUE, t)
    /\ spoiled' = spoiled \cup (IF t = TheOrg THEN Targets ELSE {t})
    /\ UNCHANGED <<org, unit, group, next>>

\* An organization that has a unit, the default one included, cannot go.
Delete(r) ==
    LET t == request[r].target
    IN  /\ request[r].pc = "delete"
        /\ Answers(r)
        /\ \/ t # TheOrg /\ SetRow(t, NoRow)
           \/ /\ t = TheOrg
              /\ org # NoRow => org.default # "there"
              /\ \A u \in Units : unit[u] = NoRow
              /\ SetRow(t, NoRow)
           \/ /\ t = TheOrg
              /\ org # NoRow
              /\ org.default = "there" \/ \E u \in Units : unit[u] # NoRow
              /\ UNCHANGED <<org, unit>>
        /\ UNCHANGED <<group, next, handler, spoiled>>

(* DELETE of the default unit, which no check spares, or a PATCH that gives *)
(* it to another organization.  The handlers of its events return at once.  *)
TakeDefault(r) ==
    /\ request[r].pc = "idle"
    /\ org # NoRow
    /\ org.default = "there"
    /\ org' = [org EXCEPT !.default = "taken"]
    /\ Answers(r)
    /\ UNCHANGED <<unit, group, next, handler, spoiled>>

-----------------------------------------------------------------------------
(* Handlers. *)

At(r, pc) == handler[r].pc = pc

Ends(r) == handler' = [handler EXCEPT ![r] = Finished]

\* The handler goes on with what it has learnt.
Learns(r, pc, row, parent, tat) ==
    handler' = [handler EXCEPT ![r] =
        [pc |-> pc, removed |-> @.removed, target |-> @.target, row |-> row,
         parent |-> parent, tat |-> tat]]

Goes(r, pc) == Learns(r, pc, handler[r].row, handler[r].parent, handler[r].tat)

\* A call is refused, or Keycloak or PostgreSQL does not answer.
Throws(r) ==
    /\ Ends(r)
    /\ spoiled' = spoiled \cup {handler[r].target}
    /\ UNCHANGED <<org, unit, group, next>>

HandlerFails(r) ==
    /\ handler[r].pc # "done"
    /\ Throws(r)
    /\ UNCHANGED request

\* The handler's next call, by the row it read; the unit of an organization whose
\* group id is not stored has nowhere to go.
Selected(removed, t) ==
    CASE t = TheOrg -> IF removed THEN "deleteUnit" ELSE "exists"
      [] t # TheOrg /\ removed -> IF Row(t).tat = NoGroup THEN "done" ELSE "deleteGroup"
      [] OTHER -> IF org.group = NoGroup THEN "done" ELSE "unitTats"

\* findOneByOrFail, and for a unit the organization with it.
Select(r) ==
    LET t == handler[r].target
    IN  /\ At(r, "select")
        /\ UNCHANGED request
        /\ \/ Row(t) = NoRow /\ Throws(r)
           \/ /\ Row(t) # NoRow
              /\ LET pc == Selected(handler[r].removed, t)
                 IN  IF pc = "done" THEN Ends(r)
                     ELSE Learns(r, pc, Row(t),
                                 IF t = TheOrg THEN NoGroup ELSE org.group, NoGroup)
              /\ UNCHANGED <<org, unit, group, next, spoiled>>

HasDefault == org # NoRow /\ org.default = "there"

LacksDefault == org # NoRow /\ org.default # "there"

\* The default unit: existsBy, and then an INSERT that its unique slug refuses
\* when another handler was faster.
Exists(r) ==
    /\ At(r, "exists")
    /\ Goes(r, IF HasDefault THEN "orgGroup" ELSE "insertUnit")
    /\ UNCHANGED <<org, unit, group, next, request, spoiled>>

\* Mutant: the default unit is only inserted for new organizations.
SkippedInsert(r) ==
    /\ At(r, "insertUnit")
    /\ Goes(r, "orgGroup")
    /\ UNCHANGED <<org, unit, group, next, request, spoiled>>

InsertUnit(r) ==
    /\ At(r, "insertUnit")
    /\ UNCHANGED request
    /\ \/ ~LacksDefault /\ Throws(r)
       \/ /\ LacksDefault
          /\ org' = [org EXCEPT !.default = "there"]
          /\ Goes(r, "orgGroup")
          /\ UNCHANGED <<unit, group, next, spoiled>>

(* upsertGroup: a group with an id must be there, and is renamed; without   *)
(* one it is created.  Its parent must be there and its name must be free.  *)
Upsertable(id, parent, kind, name) ==
    IF id = NoGroup
    THEN /\ parent # NoGroup => group[parent] # NoGroup
         /\ ~Taken(parent, kind, name)
    ELSE /\ group[id] # NoGroup
         /\ group[id].name = name \/ ~Taken(group[id].parent, kind, name)

Upserts(id, parent, kind, name) ==
    \/ /\ id = NoGroup
       /\ next <= MaxGroup
       /\ group' = [group EXCEPT ![next] =
                       [parent |-> parent, kind |-> kind, name |-> name]]
       /\ next' = next + 1
    \/ /\ id # NoGroup
       /\ group' = [group EXCEPT ![id] =
                       [parent |-> @.parent, kind |-> @.kind, name |-> name]]
       /\ UNCHANGED next

\* The id that upsertGroup returns.
Upserted(id) == IF id = NoGroup THEN next ELSE id

OrgGroup(r) ==
    LET row == handler[r].row
    IN  /\ At(r, "orgGroup")
        /\ UNCHANGED request
        /\ \/ ~Upsertable(row.group, NoGroup, "org", row.name) /\ Throws(r)
           \/ /\ Upsertable(row.group, NoGroup, "org", row.name)
              /\ Upserts(row.group, NoGroup, "org", row.name)
              /\ Learns(r, "orgTat", row, Upserted(row.group), NoGroup)
              /\ UNCHANGED <<org, unit, spoiled>>

OrgTat(r) ==
    LET row == handler[r].row
        parent == handler[r].parent
    IN  /\ At(r, "orgTat")
        /\ UNCHANGED request
        /\ \/ ~Upsertable(row.tat, parent, "orgTat", row.name) /\ Throws(r)
           \/ /\ Upsertable(row.tat, parent, "orgTat", row.name)
              /\ Upserts(row.tat, parent, "orgTat", row.name)
              /\ Learns(r, "unitTats", row, parent, Upserted(row.tat))
              /\ UNCHANGED <<org, unit, spoiled>>

\* What follows once "Unit TATs" is known to be group g.
HasTats(r, g) ==
    Learns(r, IF handler[r].target = TheOrg THEN "link" ELSE "unitTat",
           handler[r].row, g, handler[r].tat)

\* getOrCreateGroupByName: the subgroups are listed, and "Unit TATs" created.
UnitTats(r) ==
    LET parent == handler[r].parent
    IN  /\ At(r, "unitTats")
        /\ UNCHANGED request
        /\ \/ group[parent] = NoGroup /\ Throws(r)
           \/ /\ group[parent] # NoGroup
              /\ \/ ~Taken(parent, "unitTats", NoRow) /\ Goes(r, "createTats")
                 \/ \E g \in Groups :
                       /\ group[g] = [parent |-> parent, kind |-> "unitTats", name |-> NoRow]
                       /\ HasTats(r, g)
              /\ UNCHANGED <<org, unit, group, next, spoiled>>

CreateTats(r) ==
    LET parent == handler[r].parent
    IN  /\ At(r, "createTats")
        /\ UNCHANGED request
        /\ \/ ~Upsertable(NoGroup, parent, "unitTats", NoRow) /\ Throws(r)
           \/ /\ Upsertable(NoGroup, parent, "unitTats", NoRow)
              /\ Upserts(NoGroup, parent, "unitTats", NoRow)
              /\ HasTats(r, next)
              /\ UNCHANGED <<org, unit, spoiled>>

UnitTat(r) ==
    LET u == handler[r].target
        id == handler[r].row.tat
        parent == handler[r].parent
    IN  /\ At(r, "unitTat")
        /\ UNCHANGED request
        /\ \/ ~Upsertable(id, parent, "unitTat", u) /\ Throws(r)
           \/ /\ Upsertable(id, parent, "unitTat", u)
              /\ Upserts(id, parent, "unitTat", u)
              /\ Learns(r, "link", handler[r].row, parent, Upserted(id))
              /\ UNCHANGED <<org, unit, spoiled>>

\* Mutant: the id of the parent is stored.
LinksParent(r) ==
    LET t == handler[r].target
    IN  /\ At(r, "link")
        /\ Ends(r)
        /\ \/ Row(t) # NoRow /\ SetRow(t, [Row(t) EXCEPT !.tat = handler[r].parent])
           \/ Row(t) = NoRow /\ UNCHANGED <<org, unit>>
        /\ UNCHANGED <<group, next, request, spoiled>>

\* Mutant: the id is stored for organizations only.
LinksOrgOnly(r) ==
    LET t == handler[r].target
    IN  /\ At(r, "link")
        /\ Ends(r)
        /\ \/ /\ t = TheOrg
              /\ org # NoRow
              /\ SetRow(t, [org EXCEPT !.tat = handler[r].tat])
           \/ t # TheOrg /\ UNCHANGED <<org, unit>>
        /\ UNCHANGED <<group, next, request, spoiled>>

\* update({ id }, { tatGroupId })
Link(r) ==
    LET t == handler[r].target
    IN  /\ At(r, "link")
        /\ Ends(r)
        /\ \/ Row(t) # NoRow /\ SetRow(t, [Row(t) EXCEPT !.tat = handler[r].tat])
           \/ Row(t) = NoRow /\ UNCHANGED <<org, unit>>
        /\ UNCHANGED <<group, next, request, spoiled>>

\* The default unit is found by its name and slug, so not when it was renamed.
DeleteUnit(r) ==
    /\ At(r, "deleteUnit")
    /\ \/ org # NoRow /\ org' = [org EXCEPT !.default = "missing"]
       \/ UNCHANGED org
    /\ IF handler[r].row.group = NoGroup THEN Ends(r) ELSE Goes(r, "deleteGroup")
    /\ UNCHANGED <<unit, group, next, request, spoiled>>

\* g is d or below it: a unit's TAT is two levels below its organization.
Under(g, d) ==
    /\ group[g] # NoGroup
    /\ \/ d \in {g, group[g].parent}
       \/ group[g].kind = "unitTat" /\ group[group[g].parent].parent = d

\* groups.del: the subgroups go with the group, an error is logged.
DeleteGroup(r) ==
    LET d == IF handler[r].target = TheOrg THEN handler[r].row.group
             ELSE handler[r].row.tat
    IN  /\ At(r, "deleteGroup")
        /\ Ends(r)
        /\ group' = [g \in Groups |-> IF Under(g, d) THEN NoGroup ELSE group[g]]
        /\ UNCHANGED <<org, unit, next, request, spoiled>>

-----------------------------------------------------------------------------
Serves(r) ==
    \/ \E name \in Names : CreateOrg(r, name) \/ PreloadOrg(r, name)
    \/ \E u \in Units : CreateUnit(r, u) \/ PreloadUnit(r, u)
    \/ \E t \in Targets : BeginRemove(r, t)
    \/ Save(r)
    \/ Delete(r)
    \/ TakeDefault(r)

Handles(r) ==
    \/ Select(r) \/ Exists(r) \/ InsertUnit(r) \/ OrgGroup(r) \/ OrgTat(r)
    \/ UnitTats(r) \/ CreateTats(r) \/ UnitTat(r) \/ Link(r)
    \/ DeleteUnit(r) \/ DeleteGroup(r) \/ HandlerFails(r)

Next == \E r \in Requests : Serves(r) \/ Handles(r)

Spec == Init /\ [][Next]_vars

-----------------------------------------------------------------------------
(* Properties. *)

(* An organization has its default unit as soon as the handler of its       *)
(* created event has come that far, however handlers race, unless a handler *)
(* threw, a removal was asked for (one that fails still drops it), or the   *)
(* unit itself was removed or given away since it was last inserted.        *)
DefaultUnitUnlessSpoiled ==
    LacksDefault
    => \/ TheOrg \in spoiled
       \/ org.default = "taken"
       \/ \E r \in Requests :
             /\ handler[r].target = TheOrg
             /\ handler[r].pc \in {"select", "exists", "insertUnit"}

\* The group t's row links to is its TAT group.
LinkIsGood(t) ==
    LET g == group[Row(t).tat]
    IN  /\ g # NoGroup
        /\ IF t = TheOrg THEN g.kind = "orgTat"
           ELSE g.kind = "unitTat" /\ g.name = t

(* A row's tatGroupId, which the tip notifications follow, names the TAT    *)
(* group of that row as it is in Keycloak, unless a removal was asked for.  *)
LinkedGroupExists ==
    \A t \in Targets :
        (Row(t) # NoRow /\ Row(t).tat # NoGroup) => t \in spoiled \/ LinkIsGood(t)

Quiet == \A r \in Requests : request[r].pc \in {"idle", "done"} /\ handler[r].pc = "done"

(* In an organization whose group id is stored every unit has its TAT group *)
(* once all is quiet, unless a handler of the unit threw or was undone by a *)
(* PATCH that had read the row before the link was made.                    *)
UnlinkedOnlyForAReason ==
    (Quiet /\ org # NoRow /\ org.group # NoGroup)
    => \A u \in Units \ spoiled : unit[u] # NoRow => unit[u].tat # NoGroup

(* The documentation of unit.changed: it "creates/updates Keycloak TAT      *)
(* group for the unit".  No handler threw and nothing was undone here.      *)
UnitHasTatGroup ==
    (Quiet /\ spoiled = {}) => \A u \in Units : unit[u] # NoRow => unit[u].tat # NoGroup
=============================================================================
