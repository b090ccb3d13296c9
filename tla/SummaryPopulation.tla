------------------------- MODULE SummaryPopulation -------------------------
(***************************************************************************)
(* Who the completion summary of an organization counts.                   *)
(* getItemCompletionsSummary first gives every participant an empty record *)
(* (populateEmptyItemCompletionsForUsers) and then notes in a Redis set    *)
(* that this enrollment's items are populated, never to do it again.  A    *)
(* created user's event takes the organization's members out of that set.  *)
(*                                                                         *)
(* The population reads Keycloak page by page, ordered by first name,      *)
(* while administrators create, rename, grant, revoke and delete users;    *)
(* Keycloak's addToGroup is sent and not awaited, so it lands when it      *)
(* likes.  The tokens the generator reads after Keycloak are left out.     *)
(***************************************************************************)
EXTENDS Naturals, FiniteSets

CONSTANTS
    Users,          \* the users of an organization, created or not
    Places,         \* places in the order of users: see place
    PageSize,       \* batchSize of the generator
    Members,        \* members of the set: an enrollment with its items
    Summaries,      \* requests for a summary, each served once
    MaxChanges,     \* bound of the changes to users who exist
    NoMember        \* a query that names no member, or has not arrived

ASSUME BoundAssumption ==
    /\ IsFiniteSet(Users)
    /\ Places \subseteq Nat
    /\ PageSize \in Nat \ {0}
    /\ MaxChanges \in Nat

ASSUME MemberAssumption == NoMember \notin Members

VARIABLES
    role,           \* role[u]: what Keycloak holds of u
    place,          \* place[u]: where u's first name puts it, among equals by Keycloak
    creating,       \* creating[u]: the next step of the request that creates u
    joining,        \* joining[u]: that request's addToGroup has not landed
    dropping,       \* dropping[u]: what the event of u read from the set
    populated,      \* the Redis set
    records,        \* records[u]: the members u has its empty records for
    summary,        \* summary[s]: the request s
    changes,        \* how many changes to users there have been
    excused         \* history: users a population may have missed for good

populationVars ==
    <<role, place, creating, joining, dropping, populated, records, summary, changes, excused>>

keycloak == <<role, place, creating, joining, dropping, changes>>

-----------------------------------------------------------------------------
Roles == {"absent", "plain", "participant"}

Summary == [pc : {"idle", "page", "finish", "done"},
            member : Members \cup {NoMember},
            first : Nat,
            batch : SUBSET Users,
            late : SUBSET Users]

\* A request before its first page, or after its last.
Request(pc, p) == [pc |-> pc, member |-> p, first |-> 0, batch |-> {}, late |-> {}]

PopulationTypeOK ==
    /\ role \in [Users -> Roles]
    /\ place \in [Users -> Places]
    /\ \A u, v \in Users : place[u] = place[v] => u = v
    /\ creating \in [Users -> {"no", "assign", "scan", "drop", "done"}]
    /\ joining \in [Users -> BOOLEAN]
    /\ dropping \in [Users -> SUBSET Members]
    /\ populated \in SUBSET Members
    /\ records \in [Users -> SUBSET Members]
    /\ summary \in [Summaries -> Summary]
    /\ changes \in 0 .. MaxChanges
    /\ excused \in SUBSET (Users \X Members)

\* Users who are there at the start are participants, created long ago.
PopulationInit ==
    /\ role \in [Users -> {"absent", "participant"}]
    /\ place \in {order \in [Users -> Places] :
                    \A u, v \in Users : order[u] = order[v] => u = v}
    /\ creating = [u \in Users |-> IF role[u] = "absent" THEN "no" ELSE "done"]
    /\ joining = [u \in Users |-> FALSE]
    /\ dropping = [u \in Users |-> {}]
    /\ populated = {}
    /\ records = [u \in Users |-> {}]
    /\ summary = [s \in Summaries |-> Request("idle", NoMember)]
    /\ changes = 0
    /\ excused = {}

-----------------------------------------------------------------------------
Present == {u \in Users : role[u] # "absent"}

\* How many are ahead of u in an order.
Rank(who, order, u) == Cardinality({v \in who : order[v] < order[u]})

\* The position of u in Keycloak's answer, from 0.
Position(u) == Rank(Present, place, u)

Running(s) == summary[s].pc \in {"page", "finish"}

\* What a population under way, or one that ended, may not give u any more.
Missable(u) ==
    {u} \X (populated \cup {summary[s].member : s \in {t \in Summaries : Running(t)}})

\* The history: a user with its records cannot be missed any more.
Excuse(pairs) ==
    excused' = excused \cup {q \in pairs : q[2] \notin records[q[1]]}

\* u becomes a participant, and every population under way may have passed it.
Participates(u) ==
    /\ role' = [role EXCEPT ![u] = "participant"]
    /\ summary' = [s \in Summaries |->
          IF Running(s) THEN [summary[s] EXCEPT !.late = @ \cup {u}] ELSE summary[s]]

-----------------------------------------------------------------------------
(* Administrators. *)

Creates(u, step) == creating' = [creating EXCEPT ![u] = step]

\* MaxChanges bounds what happens to users who exist.
Changes == changes < MaxChanges /\ changes' = changes + 1

\* users.create; without canAccessTraining there is no group to assign.
CreateUser(u, canAccessTraining) ==
    /\ creating[u] = "no"
    /\ role' = [role EXCEPT ![u] = "plain"]
    /\ Creates(u, IF canAccessTraining THEN "assign" ELSE "scan")
    /\ UNCHANGED <<place, joining, dropping, populated, records, summary, excused, changes>>

\* assignUserToRoleGroup: addToGroup is sent, nobody waits for it.
Assign(u) ==
    /\ creating[u] = "assign"
    /\ joining' = [joining EXCEPT ![u] = TRUE]
    /\ Creates(u, "scan")
    /\ UNCHANGED <<role, place, dropping, populated, records, summary, excused, changes>>

\* addToGroup lands, unless u was deleted meanwhile.
Join(u) ==
    /\ joining[u]
    /\ joining' = [joining EXCEPT ![u] = FALSE]
    /\ \/ /\ role[u] # "absent"
          /\ Participates(u)
          /\ Excuse(IF creating[u] \in {"drop", "done"} THEN Missable(u) ELSE {})
       \/ UNCHANGED <<role, summary, excused>>
    /\ UNCHANGED <<place, creating, dropping, populated, records, changes>>

\* The created event's handler reads the members of the organization.  A
\* population that began before u took part will add its member after that.
Scan(u) ==
    /\ creating[u] = "scan"
    /\ dropping' = [dropping EXCEPT ![u] = populated]
    /\ Excuse({<<u, summary[s].member>> : s \in {t \in Summaries :
                  Running(t) /\ u \in summary[t].late}})
    /\ Creates(u, "drop")
    /\ UNCHANGED <<role, place, joining, populated, records, summary, changes>>

\* srem of what was read, whatever has been populated anew since.
Drop(u) ==
    /\ creating[u] = "drop"
    /\ populated' = populated \ dropping[u]
    /\ dropping' = [dropping EXCEPT ![u] = {}]
    /\ Creates(u, "done")
    /\ UNCHANGED <<role, place, joining, records, summary, excused, changes>>

\* Keycloak or Redis fails: there is no event, or it is not handled.
CreateFails(u) ==
    /\ creating[u] \in {"assign", "scan", "drop"}
    /\ Excuse(Missable(u))
    /\ dropping' = [dropping EXCEPT ![u] = {}]
    /\ Creates(u, "done")
    /\ UNCHANGED <<role, place, joining, populated, records, summary, changes>>

\* updateOrganizationUser adds the group; nothing listens to its event.
Grant(u) ==
    /\ Changes
    /\ role[u] = "plain"
    /\ Participates(u)
    /\ Excuse(IF creating[u] \in {"drop", "done"} THEN Missable(u) ELSE {})
    /\ UNCHANGED <<place, creating, joining, dropping, populated, records>>

Revoke(u) ==
    /\ Changes
    /\ role[u] = "participant"
    /\ role' = [role EXCEPT ![u] = "plain"]
    /\ UNCHANGED <<place, creating, joining, dropping, populated, records, summary, excused>>

\* updateOrganizationUser writes the first name too.  A user whose page is still to
\* come may move onto one that was read, itself or pushed by the one renamed; so it
\* may when Keycloak, which is told no more than the first name, orders equals anew.
Rename(u, p) ==
    LET order == [place EXCEPT ![u] = p]
    IN  /\ Changes
        /\ role[u] # "absent"
        /\ \A v \in Users : place[v] # p
        /\ place' = order
        /\ Excuse({<<q[1], summary[q[2]].member>> : q \in
                     {x \in Present \X Summaries :
                         /\ summary[x[2]].pc = "page"
                         /\ Position(x[1]) >= summary[x[2]].first
                         /\ Rank(Present, order, x[1]) < summary[x[2]].first}})
        /\ UNCHANGED <<role, creating, joining, dropping, populated, records, summary>>

\* users.del; the user next on a page not read yet moves onto one that was.
Delete(u) ==
    /\ Changes
    /\ role[u] # "absent"
    /\ role' = [role EXCEPT ![u] = "absent"]
    /\ Excuse({<<q[1], summary[q[2]].member>> : q \in
                 {p \in Present \X Summaries :
                     /\ summary[p[2]].pc = "page"
                     /\ Position(u) < summary[p[2]].first
                     /\ Position(p[1]) = summary[p[2]].first}})
    /\ UNCHANGED <<place, creating, joining, dropping, populated, records, summary>>

-----------------------------------------------------------------------------
(* Summaries. *)

\* sismember; a query that lacks the organization, the enrollment or the items
\* populates nothing.
Begin(s, p) ==
    /\ summary[s].pc = "idle"
    /\ summary' = [summary EXCEPT ![s] =
          IF p \in populated \cup {NoMember} THEN Request("done", NoMember)
          ELSE Request("page", p)]
    /\ UNCHANGED <<keycloak, populated, records, excused>>

\* A page of the organization's users; a page that is not full is the last.
\* The participants on it wait for the INSERT of their batch.
Page(s) ==
    LET first == summary[s].first
        page == {u \in Present : Position(u) \in first .. first + PageSize - 1}
    IN  /\ summary[s].pc = "page"
        /\ summary' = [summary EXCEPT
              ![s].pc = IF Cardinality(page) < PageSize THEN "finish" ELSE "page",
              ![s].first = first + PageSize,
              ![s].batch = @ \cup {u \in page : role[u] = "participant"}]
        /\ UNCHANGED <<keycloak, populated, records, excused>>

\* INSERT ... ON CONFLICT DO NOTHING; where a batch ends is left open.
Insert(s, u) ==
    /\ u \in summary[s].batch
    /\ records' = [records EXCEPT ![u] = @ \cup {summary[s].member}]
    /\ summary' = [summary EXCEPT ![s].batch = @ \ {u}]
    /\ excused' = excused \ {<<u, summary[s].member>>}
    /\ UNCHANGED <<keycloak, populated>>

\* The population throws; the error is logged and the summary goes on.
PopulateFails(s) ==
    /\ Running(s)
    /\ summary' = [summary EXCEPT ![s].pc = "finish", ![s].batch = {}]
    /\ Excuse({<<u, summary[s].member>> : u \in Users})
    /\ UNCHANGED <<keycloak, populated, records>>

\* Mutant: sadd does not wait for the batches.
EarlyAdd(s) ==
    /\ summary[s].pc = "finish"
    /\ populated' = populated \cup {summary[s].member}
    /\ summary' = [summary EXCEPT ![s] = Request("done", NoMember)]
    /\ UNCHANGED <<keycloak, records, excused>>

\* sadd, once the population has ended.
Add(s) ==
    /\ summary[s].pc = "finish"
    /\ summary[s].batch = {}
    /\ populated' = populated \cup {summary[s].member}
    /\ summary' = [summary EXCEPT ![s] = Request("done", NoMember)]
    /\ UNCHANGED <<keycloak, records, excused>>

\* The process is lost: the member is not added.
Crash(s) ==
    /\ Running(s)
    /\ summary' = [summary EXCEPT ![s] = Request("done", NoMember)]
    /\ UNCHANGED <<keycloak, populated, records, excused>>

PopulationNext ==
    \/ \E u \in Users :
          \/ \E canAccessTraining \in BOOLEAN : CreateUser(u, canAccessTraining)
          \/ Assign(u) \/ Join(u) \/ Scan(u) \/ Drop(u) \/ CreateFails(u)
          \/ Grant(u) \/ Revoke(u) \/ Delete(u)
          \/ \E p \in Places : Rename(u, p)
    \/ \E s \in Summaries :
          \/ \E p \in Members \cup {NoMember} : Begin(s, p)
          \/ \E u \in Users : Insert(s, u)
          \/ Page(s) \/ PopulateFails(s) \/ Add(s) \/ Crash(s)

PopulationSpec == PopulationInit /\ [][PopulationNext]_populationVars

-----------------------------------------------------------------------------
(* Properties. *)

\* u takes part, no population of p will be run again, and it has no record.
Missed(u, p) ==
    role[u] = "participant" /\ p \in populated /\ p \notin records[u]

(* A participant is missing from a populated summary only until its created *)
(* event is handled, or for one of the reasons the history names: it took   *)
(* part too late for the event to help it, the event was lost, a population *)
(* failed half way, or a user deleted or renamed between two pages moved it *)
(* from one that was still to be read onto one that had been.               *)
MissedOnlyForAReason ==
    \A u \in Users, p \in Members :
        Missed(u, p) => creating[u] \in {"assign", "scan", "drop"} \/ <<u, p>> \in excused

=============================================================================
