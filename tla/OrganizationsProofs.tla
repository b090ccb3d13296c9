------------------------ MODULE OrganizationsProofs ------------------------
(***************************************************************************)
(* The safety invariants of OrganizationStatus for any number of guards,   *)
(* administrators, organizations and slugs, and those of IdentityProviders *)
(* for any number of requests, organizations and aliases.                  *)
(*                                                                         *)
(* Stale entries need no more than the types: each step that makes an      *)
(* entry disagree with the table names its reason.  That only the once     *)
(* active get in needs to know what the cache and the guards carry.        *)
(*                                                                         *)
(* Of a provider the invariant says what each request under way has put    *)
(* there, what it still owes, and that the row and the provider agree      *)
(* unless the alias, or its organization, is in one of the histories.      *)
(***************************************************************************)
EXTENDS OrganizationStatus, IdentityProviders, TLAPS

-----------------------------------------------------------------------------
(* OrganizationStatus. *)

\* A guard between its steps has a slug, and a status once it has read one.
GuardOK(g) ==
    /\ guard[g].pc \in {"select", "set"} => guard[g].slug \in Slugs
    /\ guard[g].pc = "set" =>
          /\ guard[g].status \in Statuses
          /\ guard[g].status = "active" => guard[g].slug \in wasActive

\* A request between its steps has a row to save, or a key to drop.
AdminOK(a) ==
    /\ admin[a].pc \in {"save", "write"} => admin[a].org \in Orgs /\ admin[a].entity \in Org
    /\ admin[a].pc = "del" => admin[a].key \in Slugs

\* What is active, in the table or in the cache, is in the history.
ActiveOK ==
    \A s \in Slugs :
        (cache[s] = "active" \/ "active" \in StatusOf(s)) => s \in wasActive

Pending ==
    /\ \A g \in Guards : GuardOK(g)
    /\ \A a \in Admins : AdminOK(a)

IInv ==
    /\ TypeOK
    /\ Pending
    /\ ActiveOK
    /\ AdmittedWasActive
    /\ StaleOnlyForAReason

-----------------------------------------------------------------------------
(* Rows and who holds a slug. *)

\* Row o is written and no two rows share a slug afterwards.
LEMMA WriteKeepsTable ==
  ASSUME TypeOK, NEW o \in Orgs, NEW put \in Org \cup {NoOrg}, NEW key,
         Writes(o, put, key),
         put # NoOrg => SlugFree(o, put.slug)
  PROVE  /\ orgs' \in [Orgs -> Org \cup {NoOrg}]
         /\ UniqueSlugs'
         /\ tainted' \in SUBSET Slugs
         /\ wasActive' \in SUBSET Slugs
<1>1. orgs' \in [Orgs -> Org \cup {NoOrg}]
  BY DEF TypeOK, Writes
<1>2. ASSUME NEW s \in Slugs, NEW p \in Orgs, NEW q \in Orgs,
             p \in Holders(s)', q \in Holders(s)'
      PROVE  p = q
  <2>1. CASE p # o /\ q # o
    <3>1. p \in Holders(s) /\ q \in Holders(s)
      BY <1>2, <2>1 DEF Holders, Writes, TypeOK
    <3> QED
      BY <3>1 DEF TypeOK, UniqueSlugs
  <2>2. CASE p = o /\ q # o
    <3>1. put # NoOrg /\ put.slug = s /\ q \in Holders(s)
      BY <1>2, <2>2 DEF Holders, Writes, TypeOK
    <3> QED
      BY <3>1, <2>2 DEF SlugFree
  <2>3. CASE p # o /\ q = o
    <3>1. put # NoOrg /\ put.slug = s /\ p \in Holders(s)
      BY <1>2, <2>3 DEF Holders, Writes, TypeOK
    <3> QED
      BY <3>1, <2>3 DEF SlugFree
  <2> QED
    BY <2>1, <2>2, <2>3
<1>3. UniqueSlugs'
  BY <1>2 DEF UniqueSlugs
<1>4. tainted' \in SUBSET Slugs /\ wasActive' \in SUBSET Slugs
  BY DEF TypeOK, Writes
<1> QED
  BY <1>1, <1>3, <1>4

\* A slug that o does not hold before or after keeps its holders' status.
LEMMA WriteElsewhere ==
  ASSUME TypeOK, NEW o \in Orgs, NEW put \in Org \cup {NoOrg}, NEW key,
         Writes(o, put, key),
         NEW s \in Slugs, o \notin Holders(s), put # NoOrg => put.slug # s
  PROVE  StatusOf(s)' = StatusOf(s)
<1>1. Holders(s)' = Holders(s)
  BY DEF Holders, Writes, TypeOK
<1>2. \A p \in Holders(s) : orgs'[p] = orgs[p]
  BY DEF Holders, Writes, TypeOK
<1> QED
  BY <1>1, <1>2 DEF StatusOf

\* The only holder of the slug of the row written is that row.
LEMMA WriteHere ==
  ASSUME TypeOK, NEW o \in Orgs, NEW put \in Org, NEW key, Writes(o, put, key),
         SlugFree(o, put.slug)
  PROVE  StatusOf(put.slug)' = {put.status}
<1>1. o \in Holders(put.slug)' /\ orgs'[o] = put
  BY SentinelAssumption DEF Holders, Writes, TypeOK
<1>2. Holders(put.slug)' = {o}
  BY <1>1 DEF Holders, Writes, TypeOK, SlugFree
<1> QED
  BY <1>1, <1>2 DEF StatusOf

\* Whoever is active in the table after a write is in the history.
LEMMA WriteKeepsActive ==
  ASSUME TypeOK, ActiveOK, NEW o \in Orgs, NEW put \in Org \cup {NoOrg}, NEW key,
         Writes(o, put, key), put # NoOrg => SlugFree(o, put.slug), cache' = cache
  PROVE  ActiveOK'
<1> SUFFICES ASSUME NEW s \in Slugs,
                    cache[s] = "active" \/ "active" \in StatusOf(s)'
             PROVE  s \in wasActive'
  BY DEF ActiveOK
<1>0. wasActive \subseteq wasActive'
  BY DEF Writes
<1>1. CASE cache[s] = "active"
  BY <1>0, <1>1 DEF ActiveOK
<1>2. CASE "active" \in StatusOf(s)'
  <2>1. PICK p \in Orgs : orgs'[p] # NoOrg /\ orgs'[p].slug = s
                          /\ orgs'[p].status = "active"
    BY <1>2 DEF StatusOf, Holders
  <2>2. CASE p = o
    <3>1. put # NoOrg /\ put \in Org /\ put.slug = s /\ put.status = "active"
      BY <2>1, <2>2 DEF Writes, TypeOK
    <3>2. put = [slug |-> s, status |-> "active"]
      BY <3>1 DEF Org
    <3> QED
      BY <3>1, <3>2 DEF Writes
  <2>3. CASE p # o
    <3>1. orgs[p] = orgs'[p]
      BY <2>3 DEF Writes, TypeOK
    <3>2. "active" \in StatusOf(s)
      BY <2>1, <3>1 DEF StatusOf, Holders
    <3> QED
      BY <1>0, <3>2 DEF ActiveOK
  <2> QED
    BY <2>2, <2>3
<1> QED
  BY <1>1, <1>2

-----------------------------------------------------------------------------
(* The steps of the guard. *)

\* An answer leaves the guard at rest.
LEMMA DecidesKeepsTypes ==
  ASSUME TypeOK, Pending, NEW g \in Guards, NEW s \in Slugs \cup {NoSlug},
         Decides(g, s), wasActive' = wasActive
  PROVE  /\ guard' \in [Guards -> Guard]
         /\ admitted' \in Slugs \cup {NoSlug}
         /\ \A h \in Guards : GuardOK(h)'
<1>1. Idle \in Guard
  BY DEF Idle, Guard
<1>2. guard' \in [Guards -> Guard] /\ admitted' \in Slugs \cup {NoSlug}
  BY <1>1 DEF Decides, TypeOK
<1>3. ASSUME NEW h \in Guards
      PROVE  GuardOK(h)'
  <2>1. CASE h = g
    BY <2>1 DEF Decides, TypeOK, Idle, GuardOK
  <2>2. CASE h # g
    BY <2>2 DEF Decides, TypeOK, Pending, GuardOK
  <2> QED
    BY <2>1, <2>2
<1> QED
  BY <1>2, <1>3

\* Entries, table, requests and histories as they were: nothing gets stale.
LEMMA StaleUnchanged ==
  ASSUME StaleOnlyForAReason, UNCHANGED <<orgs, cache, admin, tainted>>
  PROVE  StaleOnlyForAReason'
BY DEF StaleOnlyForAReason, Stale, StatusOf, Holders

LEMMA ActiveUnchanged ==
  ASSUME ActiveOK, UNCHANGED <<orgs, cache, wasActive>>
  PROVE  ActiveOK'
BY DEF ActiveOK, StatusOf, Holders

\* A step of a guard that only answers, letting it in for someone once active.
LEMMA DecidesKeepsInv ==
  ASSUME IInv, NEW g \in Guards, NEW s \in wasActive \cup {NoSlug}, Decides(g, s),
         UNCHANGED <<orgs, cache, admin, tainted, wasActive>>
  PROVE  IInv'
<1>1. s \in Slugs \cup {NoSlug}
  BY DEF IInv, TypeOK
<1>2. /\ guard' \in [Guards -> Guard]
      /\ admitted' \in Slugs \cup {NoSlug}
      /\ \A h \in Guards : GuardOK(h)'
  BY <1>1, DecidesKeepsTypes DEF IInv
<1>3. TypeOK'
  BY <1>2 DEF IInv, TypeOK, UniqueSlugs, Holders
<1>4. Pending'
  BY <1>2 DEF IInv, Pending, AdminOK
<1>5. AdmittedWasActive'
  BY DEF AdmittedWasActive, Decides
<1> QED
  BY <1>3, <1>4, <1>5, StaleUnchanged, ActiveUnchanged DEF IInv

\* A guard that goes on, with a slug or a status it may go on with.
LEMMA GuardGoesOn ==
  ASSUME IInv, NEW g \in Guards, guard'[g] \in Guard, GuardOK(g)',
         guard' = [guard EXCEPT ![g] = guard'[g]],
         UNCHANGED <<orgs, cache, admitted, admin, tainted, wasActive>>
  PROVE  IInv'
<1>1. TypeOK'
  BY DEF IInv, TypeOK, UniqueSlugs, Holders
<1>2. ASSUME NEW h \in Guards
      PROVE  GuardOK(h)'
  BY DEF IInv, TypeOK, Pending, GuardOK
<1>3. Pending'
  BY <1>2 DEF IInv, Pending, AdminOK
<1>4. AdmittedWasActive'
  BY DEF IInv, AdmittedWasActive
<1> QED
  BY <1>1, <1>3, <1>4, StaleUnchanged, ActiveUnchanged DEF IInv

LEMMA CacheGetKeepsInv ==
  ASSUME IInv, NEW g \in Guards, NEW s \in Slugs, CacheGet(g, s)
  PROVE  IInv'
<1>1. CASE cache[s] = "active" /\ Decides(g, s)
  <2>1. s \in wasActive
    BY <1>1 DEF IInv, ActiveOK
  <2> QED
    BY <1>1, <2>1, DecidesKeepsInv DEF CacheGet
<1>2. CASE cache[s] = "inactive" /\ Denies(g)
  BY <1>2, DecidesKeepsInv DEF CacheGet, Denies
<1>3. CASE cache[s] = Empty /\ guard' = [guard EXCEPT ![g].pc = "select", ![g].slug = s]
           /\ UNCHANGED admitted
  <2>1. guard[g] \in Guard
    BY DEF IInv, TypeOK
  <2>2. guard'[g] = [guard[g] EXCEPT !.pc = "select", !.slug = s]
    BY <1>3 DEF IInv, TypeOK
  <2>3. guard'[g] \in Guard
    BY <2>1, <2>2 DEF Guard
  <2>4. GuardOK(g)'
    BY <2>1, <2>2 DEF Guard, GuardOK
  <2>5. guard' = [guard EXCEPT ![g] = guard'[g]]
    BY <1>3, <2>2 DEF IInv, TypeOK
  <2> QED
    BY <1>3, <2>3, <2>4, <2>5, GuardGoesOn DEF CacheGet
<1> QED
  BY <1>1, <1>2, <1>3 DEF CacheGet

LEMMA SelectKeepsInv ==
  ASSUME IInv, NEW g \in Guards, Select(g)
  PROVE  IInv'
<1> DEFINE s == guard[g].slug
<1>1. s \in Slugs /\ guard[g] \in Guard
  BY DEF IInv, TypeOK, Pending, GuardOK, Select
<1>2. CASE Denies(g)
  BY <1>2, DecidesKeepsInv DEF Select, Denies
<1>3. ASSUME NEW status \in StatusOf(s),
             guard' = [guard EXCEPT ![g].pc = "set", ![g].status = status],
             UNCHANGED admitted
      PROVE  IInv'
  <2>1. status \in Statuses
    BY DEF IInv, TypeOK, StatusOf, Holders, Org
  <2>2. status = "active" => s \in wasActive
    BY <1>1 DEF IInv, ActiveOK
  <2>3. guard'[g] = [guard[g] EXCEPT !.pc = "set", !.status = status]
    BY <1>3 DEF IInv, TypeOK
  <2>4. guard'[g] \in Guard /\ GuardOK(g)'
    BY <1>1, <2>1, <2>2, <2>3 DEF Guard, GuardOK, Select
  <2>5. guard' = [guard EXCEPT ![g] = guard'[g]]
    BY <1>3, <2>3 DEF IInv, TypeOK
  <2> QED
    BY <1>3, <2>4, <2>5, GuardGoesOn DEF Select
<1> QED
  BY <1>2, <1>3 DEF Select

\* The entry is filled: it is right, or its slug is in the history.
LEMMA CacheSetKeepsInv ==
  ASSUME IInv, NEW g \in Guards, CacheSet(g)
  PROVE  IInv'
<1> DEFINE s == guard[g].slug
           status == guard[g].status
<1>1. /\ s \in Slugs /\ status \in Statuses
      /\ status = "active" => s \in wasActive
  BY DEF IInv, TypeOK, Pending, GuardOK, CacheSet
<1>2. PICK t \in wasActive \cup {NoSlug} : Decides(g, t)
  BY <1>1 DEF CacheSet, Allows, Denies
<1>3. t \in Slugs \cup {NoSlug}
  BY DEF IInv, TypeOK
<1>4. /\ guard' \in [Guards -> Guard]
      /\ admitted' \in Slugs \cup {NoSlug}
      /\ \A h \in Guards : GuardOK(h)'
  BY <1>2, <1>3, DecidesKeepsTypes DEF IInv, CacheSet
<1>5. TypeOK'
  BY <1>1, <1>4 DEF IInv, TypeOK, UniqueSlugs, Holders, CacheSet
<1>6. Pending'
  BY <1>4 DEF IInv, Pending, AdminOK, CacheSet
<1>7. ActiveOK'
  BY <1>1 DEF IInv, TypeOK, ActiveOK, StatusOf, Holders, CacheSet
<1>8. AdmittedWasActive'
  BY <1>2 DEF AdmittedWasActive, Decides, CacheSet
<1>9. ASSUME NEW x \in Slugs, Stale(x)', x \notin tainted'
      PROVE  \E a \in Admins : admin'[a].pc = "del" /\ admin'[a].key = x
  <2>1. StatusOf(x)' = StatusOf(x) /\ admin' = admin
    BY DEF CacheSet, StatusOf, Holders
  <2>2. x # s
    BY <1>1, <1>9, <2>1 DEF CacheSet, Stale, IInv, TypeOK
  <2>3. Stale(x) /\ x \notin tainted
    BY <1>9, <2>1, <2>2 DEF CacheSet, Stale, IInv, TypeOK
  <2> QED
    BY <2>1, <2>3 DEF IInv, StaleOnlyForAReason
<1>10. StaleOnlyForAReason'
  BY <1>9 DEF StaleOnlyForAReason
<1> QED
  BY <1>5, <1>6, <1>7, <1>8, <1>10 DEF IInv

LEMMA GuardKeepsInv ==
  ASSUME IInv, NEW g \in Guards,
         Unguarded(g) \/ Answers(g) \/ \E s \in Slugs : CacheGet(g, s)
  PROVE  IInv'
<1>1. CASE Unguarded(g)
  BY <1>1, DecidesKeepsInv DEF Unguarded
<1>2. CASE GuardFails(g)
  BY <1>2, DecidesKeepsInv DEF GuardFails, Denies
<1> QED
  BY <1>1, <1>2, CacheGetKeepsInv, SelectKeepsInv, CacheSetKeepsInv DEF Answers

-----------------------------------------------------------------------------
(* An entry is dropped: by its time to live, or by an update's del. *)

LEMMA DropKeepsActive ==
  ASSUME TypeOK, ActiveOK, NEW s \in Slugs, cache' = [cache EXCEPT ![s] = Empty],
         UNCHANGED <<orgs, wasActive>>
  PROVE  ActiveOK'
BY SentinelAssumption DEF TypeOK, ActiveOK, StatusOf, Holders, Statuses

LEMMA ExpireKeepsInv ==
  ASSUME IInv, NEW s \in Slugs, Expire(s)
  PROVE  IInv'
<1>1. TypeOK'
  BY DEF IInv, TypeOK, UniqueSlugs, Holders, Expire
<1>2. Pending'
  BY DEF IInv, Pending, GuardOK, AdminOK, Expire
<1>3. ActiveOK'
  BY DropKeepsActive DEF IInv, Expire
<1>4. AdmittedWasActive'
  BY DEF IInv, AdmittedWasActive, Expire
<1>5. ASSUME NEW x \in Slugs, Stale(x)', x \notin tainted'
      PROVE  \E a \in Admins : admin'[a].pc = "del" /\ admin'[a].key = x
  <2>1. StatusOf(x)' = StatusOf(x)
    BY DEF Expire, StatusOf, Holders
  <2>2. x # s
    BY <1>5 DEF Expire, Stale, IInv, TypeOK
  <2>3. Stale(x) /\ x \notin tainted
    BY <1>5, <2>1, <2>2 DEF Expire, Stale, IInv, TypeOK
  <2> QED
    BY <2>3 DEF Expire, IInv, StaleOnlyForAReason
<1>6. StaleOnlyForAReason'
  BY <1>5 DEF StaleOnlyForAReason
<1> QED
  BY <1>1, <1>2, <1>3, <1>4, <1>6 DEF IInv

-----------------------------------------------------------------------------
(* The steps of the administrators. *)

\* An administrator's step leaves a request of the right type.
LEMMA AdminKeepsTypes ==
  ASSUME TypeOK, Pending, NEW a \in Admins, admin'[a] \in Admin, AdminOK(a)',
         admin' = [admin EXCEPT ![a] = admin'[a]],
         guard' = guard, wasActive \subseteq wasActive'
  PROVE  admin' \in [Admins -> Admin] /\ Pending'
<1>1. admin' \in [Admins -> Admin]
  BY DEF TypeOK
<1>2. ASSUME NEW b \in Admins
      PROVE  AdminOK(b)'
  BY DEF TypeOK, Pending, AdminOK
<1>3. ASSUME NEW g \in Guards
      PROVE  GuardOK(g)'
  BY DEF Pending, GuardOK
<1> QED
  BY <1>1, <1>2, <1>3 DEF Pending

LEMMA FinishesFacts ==
  ASSUME TypeOK, NEW a \in Admins, Finishes(a)
  PROVE  /\ admin'[a] \in Admin
         /\ AdminOK(a)'
         /\ admin' = [admin EXCEPT ![a] = admin'[a]]
         /\ admin'[a].pc = "done"
BY DEF TypeOK, Finishes, Request, Admin, AdminOK

\* A write makes an entry stale only where the slug is given up, or where its
\* writer has the entry to drop.
LEMMA WriteKeepsStale ==
  ASSUME TypeOK, StaleOnlyForAReason,
         NEW o \in Orgs, NEW put \in Org \cup {NoOrg}, NEW key,
         Writes(o, put, key),
         put # NoOrg => SlugFree(o, put.slug),
         cache' = cache,
         NEW a \in Admins, admin[a].pc # "del",
         admin' = [admin EXCEPT ![a] = admin'[a]],
         \/ put = NoOrg \/ orgs[o] = NoOrg
         \/ /\ admin'[a].pc = "del" /\ admin'[a].key = key
            /\ put.slug \in {key, orgs[o].slug}
  PROVE  StaleOnlyForAReason'
<1> SUFFICES ASSUME NEW x \in Slugs, Stale(x)', x \notin tainted'
             PROVE  \E b \in Admins : admin'[b].pc = "del" /\ admin'[b].key = x
  BY DEF StaleOnlyForAReason
<1>1. cache[x] # Empty /\ x \notin tainted
  BY DEF Stale, Writes
<1>2. ASSUME Stale(x)
      PROVE  \E b \in Admins : admin'[b].pc = "del" /\ admin'[b].key = x
  <2>1. PICK b \in Admins : admin[b].pc = "del" /\ admin[b].key = x
    BY <1>1, <1>2 DEF StaleOnlyForAReason
  <2>2. admin'[b] = admin[b]
    BY <2>1 DEF TypeOK
  <2> QED
    BY <2>1, <2>2
<1>3. CASE put # NoOrg /\ put.slug = x
  <2>1. CASE orgs[o] = NoOrg
    <3>1. Holders(x) = {}
      BY <1>3, <2>1 DEF SlugFree, Holders
    <3>2. StatusOf(x) = {}
      BY <3>1 DEF StatusOf
    <3> QED
      BY <1>1, <1>2, <3>2 DEF Stale
  <2>2. CASE admin'[a].pc = "del" /\ admin'[a].key = key /\ put.slug = key
    BY <1>3, <2>2
  <2>3. CASE orgs[o] # NoOrg /\ put.slug = orgs[o].slug /\ put.slug # key
    <3>1. o \in Holders(x)
      BY <1>3, <2>3 DEF Holders
    <3>2. put.status = orgs[o].status
      BY <1>1, <1>3, <2>3, <3>1 DEF Writes
    <3>3. StatusOf(x) = {orgs[o].status}
      BY <3>1 DEF StatusOf, TypeOK, UniqueSlugs, Holders
    <3>4. StatusOf(x)' = {put.status}
      BY <1>3, WriteHere
    <3> QED
      BY <1>2, <3>2, <3>3, <3>4 DEF Stale
  <2> QED
    BY <1>3, <2>1, <2>2, <2>3
<1>4. CASE put = NoOrg \/ put.slug # x
  <2>1. o \notin Holders(x)
    BY <1>1, <1>4 DEF Writes
  <2>2. StatusOf(x)' = StatusOf(x)
    BY <1>4, <2>1, WriteElsewhere
  <2> QED
    BY <1>2, <2>2 DEF Stale
<1> QED
  BY <1>3, <1>4

\* A write by the step of an administrator keeps the invariant.
LEMMA WriteKeepsInv ==
  ASSUME IInv,
         NEW o \in Orgs, NEW put \in Org \cup {NoOrg}, NEW key,
         Writes(o, put, key),
         put # NoOrg => SlugFree(o, put.slug),
         UNCHANGED <<cache, guard, admitted>>,
         NEW a \in Admins, admin[a].pc # "del",
         admin'[a] \in Admin, AdminOK(a)',
         admin' = [admin EXCEPT ![a] = admin'[a]],
         \/ put = NoOrg \/ orgs[o] = NoOrg
         \/ /\ admin'[a].pc = "del" /\ admin'[a].key = key
            /\ put.slug \in {key, orgs[o].slug}
  PROVE  IInv'
<1>1. wasActive \subseteq wasActive'
  BY DEF Writes
<1>2. admin' \in [Admins -> Admin] /\ Pending'
  BY <1>1, AdminKeepsTypes DEF IInv
<1>3. TypeOK'
  BY <1>2, WriteKeepsTable DEF IInv, TypeOK
<1>4. ActiveOK'
  BY WriteKeepsActive DEF IInv
<1>5. AdmittedWasActive'
  BY <1>1 DEF IInv, AdmittedWasActive
<1>6. StaleOnlyForAReason'
  BY WriteKeepsStale DEF IInv
<1> QED
  BY <1>2, <1>3, <1>4, <1>5, <1>6 DEF IInv

\* A step of an administrator that writes nothing and had nothing to drop.
LEMMA AdminGoesOn ==
  ASSUME IInv, NEW a \in Admins, admin[a].pc # "del",
         admin'[a] \in Admin, AdminOK(a)',
         admin' = [admin EXCEPT ![a] = admin'[a]],
         UNCHANGED <<orgs, cache, guard, admitted, wasActive>>,
         tainted' = tainted
  PROVE  IInv'
<1>1. admin' \in [Admins -> Admin] /\ Pending'
  BY AdminKeepsTypes DEF IInv
<1>2. TypeOK'
  BY <1>1 DEF IInv, TypeOK, UniqueSlugs, Holders
<1>3. AdmittedWasActive'
  BY DEF IInv, AdmittedWasActive
<1>4. ASSUME NEW x \in Slugs, Stale(x)', x \notin tainted'
      PROVE  \E b \in Admins : admin'[b].pc = "del" /\ admin'[b].key = x
  <2>1. Stale(x)
    BY <1>4 DEF Stale, StatusOf, Holders
  <2>2. PICK b \in Admins : admin[b].pc = "del" /\ admin[b].key = x
    BY <1>4, <2>1 DEF IInv, StaleOnlyForAReason
  <2> QED
    BY <2>2 DEF IInv, TypeOK
<1>5. StaleOnlyForAReason'
  BY <1>4 DEF StaleOnlyForAReason
<1> QED
  BY <1>1, <1>2, <1>3, <1>5, ActiveUnchanged DEF IInv

LEMMA CreateKeepsInv ==
  ASSUME IInv, NEW a \in Admins, NEW o \in Orgs, NEW s \in Slugs,
         NEW status \in Statuses, Create(a, o, s, status)
  PROVE  IInv'
<1> DEFINE put == [slug |-> s, status |-> status]
<1>1. put \in Org /\ put.slug = s
  BY DEF Org
<1>2. /\ admin'[a] \in Admin /\ AdminOK(a)' /\ admin[a].pc # "del"
      /\ admin' = [admin EXCEPT ![a] = admin'[a]]
  BY FinishesFacts DEF IInv, Create
<1>3. CASE SlugFree(o, s) /\ Writes(o, put, NoSlug)
  <2>1. SlugFree(o, put.slug) /\ orgs[o] = NoOrg
    BY <1>3 DEF Create
  <2> QED
    BY <1>1, <1>2, <1>3, <2>1, WriteKeepsInv DEF Create
<1>4. CASE UNCHANGED <<orgs, tainted, wasActive>>
  BY <1>2, <1>4, AdminGoesOn DEF Create
<1> QED
  BY <1>3, <1>4 DEF Create

LEMMA RemoveKeepsInv ==
  ASSUME IInv, NEW a \in Admins, NEW o \in Orgs, Remove(a, o)
  PROVE  IInv'
<1>1. /\ admin'[a] \in Admin /\ AdminOK(a)' /\ admin[a].pc # "del"
      /\ admin' = [admin EXCEPT ![a] = admin'[a]]
  BY FinishesFacts DEF IInv, Remove
<1> QED
  BY <1>1, WriteKeepsInv DEF Remove

LEMMA PreloadKeepsInv ==
  ASSUME IInv, NEW a \in Admins, NEW o \in Orgs, NEW slug \in Slugs \cup {Keep},
         NEW status \in Statuses \cup {Keep}, Preload(a, o, slug, status)
  PROVE  IInv'
<1>1. CASE Finishes(a)
  <2>1. /\ admin'[a] \in Admin /\ AdminOK(a)'
        /\ admin' = [admin EXCEPT ![a] = admin'[a]]
    BY <1>1, FinishesFacts DEF IInv
  <2> QED
    BY <2>1, AdminGoesOn DEF Preload
<1>2. CASE /\ orgs[o] # NoOrg
           /\ admin' = [admin EXCEPT ![a] =
                 Request("save", o, Entity(orgs[o], slug, status), NoOrg, NoSlug)]
  <2> DEFINE put == Entity(orgs[o], slug, status)
  <2>1. orgs[o] \in Org
    BY <1>2 DEF IInv, TypeOK
  <2>2. put \in Org
    BY <2>1 DEF Entity, Org
  <2>3. admin'[a] = Request("save", o, put, NoOrg, NoSlug)
    BY <1>2 DEF IInv, TypeOK
  <2>4. admin'[a] \in Admin /\ AdminOK(a)'
    BY <2>2, <2>3 DEF Request, Admin, AdminOK
  <2>5. admin' = [admin EXCEPT ![a] = admin'[a]]
    BY <1>2, <2>3
  <2> QED
    BY <2>4, <2>5, AdminGoesOn DEF Preload
<1> QED
  BY <1>1, <1>2 DEF Preload

LEMMA SaveFindsKeepsInv ==
  ASSUME IInv, NEW a \in Admins, SaveFinds(a)
  PROVE  IInv'
<1>1. admin[a] \in Admin /\ AdminOK(a) /\ orgs[admin[a].org] \in Org \cup {NoOrg}
  BY DEF IInv, TypeOK, Pending, AdminOK, SaveFinds
<1>2. admin'[a] = [admin[a] EXCEPT !.pc = "write", !.found = orgs[admin[a].org]]
  BY DEF SaveFinds, IInv, TypeOK
<1>3. admin'[a] \in Admin
  BY <1>1, <1>2 DEF Admin
<1>4. AdminOK(a)'
  <2>1. /\ admin'[a].pc = "write"
        /\ admin'[a].org = admin[a].org /\ admin'[a].entity = admin[a].entity
    BY <1>1, <1>2 DEF Admin
  <2>2. admin[a].org \in Orgs /\ admin[a].entity \in Org
    BY <1>1 DEF AdminOK, SaveFinds
  <2> QED
    BY <2>1, <2>2 DEF AdminOK
<1>5. admin' = [admin EXCEPT ![a] = admin'[a]]
  BY <1>2 DEF SaveFinds, IInv, TypeOK
<1> QED
  BY <1>3, <1>4, <1>5, AdminGoesOn DEF SaveFinds

LEMMA SaveKeepsInv ==
  ASSUME IInv, NEW a \in Admins, Save(a)
  PROVE  IInv'
<1> DEFINE o == admin[a].org
           entity == admin[a].entity
           found == admin[a].found
           put == IF found = NoOrg THEN entity ELSE Updated(entity, found, orgs[o])
           GoesOn == admin' = [admin EXCEPT ![a] =
                                  Request("del", NoOrg, NoOrg, NoOrg, entity.slug)]
<1>1. o \in Orgs /\ entity \in Org /\ entity.slug \in Slugs /\ found \in Org \cup {NoOrg}
  BY DEF IInv, TypeOK, Admin, Pending, AdminOK, Save, Org
<1>2. ASSUME GoesOn
      PROVE  /\ admin'[a] \in Admin /\ AdminOK(a)'
             /\ admin'[a].pc = "del" /\ admin'[a].key = entity.slug
             /\ admin' = [admin EXCEPT ![a] = admin'[a]]
  <2>1. admin'[a] = Request("del", NoOrg, NoOrg, NoOrg, entity.slug)
    BY <1>2 DEF IInv, TypeOK
  <2>2. /\ admin'[a] \in Admin /\ AdminOK(a)'
        /\ admin'[a].pc = "del" /\ admin'[a].key = entity.slug
    BY <1>1, <2>1 DEF Request, Admin, AdminOK
  <2> QED
    BY <1>2, <2>1, <2>2
<1>3. ASSUME Finishes(a)
      PROVE  /\ admin'[a] \in Admin /\ AdminOK(a)'
             /\ admin' = [admin EXCEPT ![a] = admin'[a]]
  BY <1>3, FinishesFacts DEF IInv
<1>4. CASE /\ GoesOn \/ Finishes(a)
           /\ UNCHANGED <<orgs, tainted, wasActive>>
  <2>1. /\ admin'[a] \in Admin /\ AdminOK(a)'
        /\ admin' = [admin EXCEPT ![a] = admin'[a]]
    BY <1>2, <1>3, <1>4
  <2> QED
    BY <1>4, <2>1, AdminGoesOn DEF Save
<1>5. CASE /\ found = NoOrg <=> orgs[o] = NoOrg
           /\ SlugFree(o, put.slug) /\ Writes(o, put, entity.slug) /\ GoesOn
  <2>1. put \in Org
    BY <1>1, <1>5 DEF IInv, TypeOK, Updated, Org
  <2>2. put # NoOrg
    BY <2>1, SentinelAssumption
  <2>3. orgs[o] = NoOrg \/ put.slug \in {entity.slug, orgs[o].slug}
    BY <1>5 DEF Updated
  <2>4. /\ admin'[a] \in Admin /\ AdminOK(a)'
        /\ admin'[a].pc = "del" /\ admin'[a].key = entity.slug
        /\ admin' = [admin EXCEPT ![a] = admin'[a]]
    BY <1>2, <1>5
  <2>5. admin[a].pc # "del" /\ UNCHANGED <<cache, guard, admitted>>
    BY DEF Save
  <2>6. SlugFree(o, put.slug) /\ Writes(o, put, entity.slug)
    BY <1>5
  <2> HIDE DEF put, entity, o
  <2> QED
    BY <1>1, <2>1, <2>2, <2>3, <2>4, <2>5, <2>6, WriteKeepsInv
<1> QED
  BY <1>4, <1>5 DEF Save

\* Whoever had the entry of x to drop still has, but for a.
LEMMA OthersStillDrop ==
  ASSUME TypeOK, NEW a \in Admins, admin' = [admin EXCEPT ![a] = admin'[a]],
         NEW x, x # admin[a].key \/ admin[a].pc # "del",
         \E b \in Admins : admin[b].pc = "del" /\ admin[b].key = x
  PROVE  \E b \in Admins : admin'[b].pc = "del" /\ admin'[b].key = x
<1>1. PICK b \in Admins : admin[b].pc = "del" /\ admin[b].key = x
  OBVIOUS
<1>2. admin'[b] = admin[b]
  BY <1>1 DEF TypeOK
<1> QED
  BY <1>1, <1>2

LEMMA CacheDelKeepsInv ==
  ASSUME IInv, NEW a \in Admins, CacheDel(a)
  PROVE  IInv'
<1> DEFINE s == admin[a].key
<1>1. s \in Slugs
  BY DEF IInv, Pending, AdminOK, CacheDel
<1>2. /\ admin'[a] \in Admin /\ AdminOK(a)'
      /\ admin' = [admin EXCEPT ![a] = admin'[a]]
  BY FinishesFacts DEF IInv, CacheDel
<1>3. admin' \in [Admins -> Admin] /\ Pending'
  BY <1>2, AdminKeepsTypes DEF IInv, CacheDel
<1>4. TypeOK'
  BY <1>1, <1>3 DEF IInv, TypeOK, UniqueSlugs, Holders, CacheDel
<1>5. ActiveOK'
  BY <1>1, DropKeepsActive DEF IInv, CacheDel
<1>6. AdmittedWasActive'
  BY DEF IInv, AdmittedWasActive, CacheDel
<1>7. ASSUME NEW x \in Slugs, Stale(x)', x \notin tainted'
      PROVE  \E b \in Admins : admin'[b].pc = "del" /\ admin'[b].key = x
  <2>1. StatusOf(x)' = StatusOf(x)
    BY DEF CacheDel, StatusOf, Holders
  <2>2. x # s
    BY <1>1, <1>7 DEF CacheDel, Stale, IInv, TypeOK
  <2>3. Stale(x) /\ x \notin tainted
    BY <1>7, <2>1, <2>2 DEF CacheDel, Stale, IInv, TypeOK
  <2>4. \E b \in Admins : admin[b].pc = "del" /\ admin[b].key = x
    BY <2>3 DEF IInv, StaleOnlyForAReason
  <2> QED
    BY <1>2, <2>2, <2>4, OthersStillDrop DEF IInv
<1>8. StaleOnlyForAReason'
  BY <1>7 DEF StaleOnlyForAReason
<1> QED
  BY <1>3, <1>4, <1>5, <1>6, <1>8 DEF IInv

LEMMA AdminFailsKeepsInv ==
  ASSUME IInv, NEW a \in Admins, AdminFails(a)
  PROVE  IInv'
<1>1. /\ admin'[a] \in Admin /\ AdminOK(a)'
      /\ admin' = [admin EXCEPT ![a] = admin'[a]]
  BY FinishesFacts DEF IInv, AdminFails
<1>2. admin' \in [Admins -> Admin] /\ Pending'
  BY <1>1, AdminKeepsTypes DEF IInv, AdminFails
<1>3. TypeOK'
  BY <1>2 DEF IInv, TypeOK, UniqueSlugs, Holders, AdminFails
<1>4. ActiveOK'
  BY ActiveUnchanged DEF IInv, AdminFails
<1>5. AdmittedWasActive'
  BY DEF IInv, AdmittedWasActive, AdminFails
<1>6. ASSUME NEW x \in Slugs, Stale(x)', x \notin tainted'
      PROVE  \E b \in Admins : admin'[b].pc = "del" /\ admin'[b].key = x
  <2>1. Stale(x) /\ x \notin tainted
    BY <1>6 DEF AdminFails, Stale, StatusOf, Holders
  <2>2. x # admin[a].key \/ admin[a].pc # "del"
    BY <1>6, <2>1 DEF AdminFails, Stale
  <2>3. \E b \in Admins : admin[b].pc = "del" /\ admin[b].key = x
    BY <2>1 DEF IInv, StaleOnlyForAReason
  <2> QED
    BY <1>1, <2>2, <2>3, OthersStillDrop DEF IInv
<1>7. StaleOnlyForAReason'
  BY <1>6 DEF StaleOnlyForAReason
<1> QED
  BY <1>2, <1>3, <1>4, <1>5, <1>7 DEF IInv

-----------------------------------------------------------------------------
(* The theorems. *)

(* The inductive invariant holds in every reachable state. *)
THEOREM Inductive == Spec => []IInv
<1>1. Init => IInv
  <2> SUFFICES ASSUME Init
               PROVE  IInv
    OBVIOUS
  <2>1. TypeOK
    BY DEF Init, TypeOK, Idle, Guard, Request, Admin
  <2>2. Pending
    BY DEF Init, Pending, GuardOK, AdminOK, Idle, Request
  <2>3. ActiveOK /\ StaleOnlyForAReason /\ AdmittedWasActive
    BY SentinelAssumption
    DEF Init, ActiveOK, StaleOnlyForAReason, Stale, AdmittedWasActive, Statuses
  <2> QED
    BY <2>1, <2>2, <2>3 DEF IInv
<1>2. IInv /\ [Next]_vars => IInv'
  <2> SUFFICES ASSUME IInv, [Next]_vars
               PROVE  IInv'
    OBVIOUS
  <2>1. ASSUME NEW g \in Guards,
               Unguarded(g) \/ Answers(g) \/ \E s \in Slugs : CacheGet(g, s)
        PROVE  IInv'
    BY <2>1, GuardKeepsInv
  <2>2. ASSUME NEW a \in Admins, Administers(a)
        PROVE  IInv'
    BY <2>2, CreateKeepsInv, RemoveKeepsInv, PreloadKeepsInv DEF Administers
  <2>3. ASSUME NEW a \in Admins, Proceeds(a)
        PROVE  IInv'
    BY <2>3, SaveFindsKeepsInv, SaveKeepsInv, CacheDelKeepsInv, AdminFailsKeepsInv DEF Proceeds
  <2>4. ASSUME NEW s \in Slugs, Expire(s)
        PROVE  IInv'
    BY <2>4, ExpireKeepsInv
  <2>5. CASE UNCHANGED vars
    <3>1. TypeOK'
      BY <2>5 DEF vars, IInv, TypeOK, UniqueSlugs, Holders
    <3>2. Pending'
      BY <2>5 DEF vars, IInv, Pending, GuardOK, AdminOK
    <3>3. AdmittedWasActive'
      BY <2>5 DEF vars, IInv, AdmittedWasActive
    <3> QED
      BY <2>5, <3>1, <3>2, <3>3, StaleUnchanged, ActiveUnchanged DEF vars, IInv
  <2> QED
    BY <2>1, <2>2, <2>3, <2>4, <2>5 DEF Next
<1> QED
  BY <1>1, <1>2, PTL DEF Spec

(* Every variable keeps its type, and no two organizations share a slug. *)
THEOREM TypeCorrect == Spec => []TypeOK
BY Inductive, PTL DEF IInv

(* An entry disagrees with the table only for one of the named reasons. *)
THEOREM StaleForAReason == Spec => []StaleOnlyForAReason
BY Inductive, PTL DEF IInv

(* Nobody enters for an organization that was never active. *)
THEOREM AdmissionSound == Spec => []AdmittedWasActive
BY Inductive, PTL DEF IInv

-----------------------------------------------------------------------------
(* IdentityProviders: the inductive invariant. *)

Own(o, s) == provider[s] # NoProvider /\ provider[s].maker = o

Creating == {"create", "createAll", "undo"}

Remaking == {"find", "deleteMappers", "createMappers"}

Saving == {"preload", "save", "write"}

\* The request is on a provider, and has written to Keycloak.
Written(r) ==
    \/ request[r].pc \in {"createAll", "undo", "read"} \cup Remaking
    \/ request[r].pc \in Saving /\ request[r].slug # NoAlias

\* A rename ends astray: its mappers are written under the alias it gave up.
RequestShaped(r) ==
    LET q == request[r]
    IN  /\ q.pc \in Creating => q.slug # NoAlias /\ q.new = {q.slug}
        /\ q.pc \in {"get", "update", "read"} \cup Remaking =>
              q.slug # NoAlias /\ \E s \in Aliases : q.new = {s}
        /\ q.pc = "delete" => q.slug # NoAlias /\ q.new = {}
        /\ q.slug = NoAlias => q.new = {}
        /\ q.pc \in {"save", "write"} => q.entity # NoRow
        /\ \A n \in q.todo : n.kind = "organization" => n.slug \in hadSlug[q.org]
        /\ q.pc \in {"read"} \cup Saving /\ q.new # {} /\ q.slug \notin q.new =>
              Touched(r) \subseteq cut

\* What a request alone in its organization knows of the row and of Keycloak.
RequestInforms(r) ==
    LET q == request[r]
        o == q.org
    IN  Active(r) /\ o \notin raced =>
        /\ q.slug # NoAlias \/ q.pc # "preload" => row[o] # NoRow
        /\ q.slug # NoAlias => q.change = Listing((row[o].list \ {q.slug}) \cup q.new)
        /\ q.pc \in {"get", "update", "delete"} => q.slug \in row[o].list
        /\ q.pc \in Creating => q.slug \notin row[o].list
        /\ q.pc \in {"save", "write"} => q.entity = Overlay(row[o], q.change)
        /\ q.pc = "write" => q.seen = row[o]
        /\ Written(r) => \A s \in q.new \ cut : Own(o, s)
        /\ q.pc \in Saving /\ q.slug # NoAlias => q.slug \in q.new \cup cut \/ ~Own(o, q.slug)

\* How far it has come with the mappers.
RequestRemakes(r) ==
    LET q == request[r]
        s == q.slug
    IN  q.org \notin raced /\ s \in q.new /\ s \notin cut =>
        /\ q.pc \in {"find", "deleteMappers"} => q.todo = provider[s].meant
        /\ q.pc = "deleteMappers" => q.found = provider[s].mappers
        /\ q.pc \in {"createAll", "createMappers"} =>
              /\ q.todo \subseteq provider[s].meant
              /\ Names(provider[s].mappers) = provider[s].meant \ q.todo

RequestOK(r) == RequestShaped(r) /\ RequestInforms(r) /\ RequestRemakes(r)

RequestsAlone ==
    \A r, t \in Requests :
        Active(r) /\ Active(t) /\ r # t /\ request[r].org = request[t].org =>
            request[r].org \in raced

AliasMade(s) ==
    provider[s] # NoProvider =>
        \/ s \in List(provider[s].maker)
        \/ provider[s].maker \in raced \cup gone
        \/ \E r \in Requests :
              Written(r) /\ request[r].org = provider[s].maker /\ s \in request[r].new

AliasKept(s) ==
    \A o \in Organizations \ raced : s \in List(o) =>
        \/ Own(o, s)
        \/ \E r \in Requests : Written(r) /\ request[r].org = o /\ s \in Touched(r)

AliasMapped(s) ==
    provider[s] # NoProvider =>
        \A m \in provider[s].mappers :
            m.name.kind = "organization" => m.name.slug \in hadSlug[provider[s].maker]

Midway(r) == request[r].pc \in {"createAll", "undo"} \cup Remaking

AliasSaved(s) ==
    provider[s] # NoProvider /\ provider[s].maker \notin raced =>
        \/ Names(provider[s].mappers) = provider[s].meant
        \/ \E r \in Requests :
              Midway(r) /\ request[r].org = provider[s].maker /\ s \in request[r].new

AliasOK(s) == AliasMade(s) /\ AliasKept(s) /\ AliasMapped(s) /\ AliasSaved(s)

SlugsHad == \A o \in Organizations : row[o] # NoRow => row[o].slug \in hadSlug[o]

ProvidersInv ==
    /\ ProvidersTypeOK
    /\ SlugsHad
    /\ RequestsAlone
    /\ \A r \in Requests : RequestOK(r)
    /\ \A s \in Aliases \ cut : AliasOK(s)

-----------------------------------------------------------------------------
(* What a step of request r, which acts for organization o, leaves alone. *)

\* r itself writes to a provider of its organization, or to none.
Mine(r, o, s) ==
    /\ Active(r) /\ request[r].org = o /\ s \in Touched(r)
    /\ provider[s] # NoProvider => provider[s].maker = o
    /\ provider'[s] # NoProvider => provider'[s].maker = o

Acts(r, o) ==
    /\ \A t \in Requests \ {r} : request'[t] = request[t]
    /\ cut \subseteq cut' /\ raced \subseteq raced' /\ gone \subseteq gone'
    /\ \A p \in Organizations : hadSlug[p] \subseteq hadSlug'[p]
    /\ \A t \in Requests \ {r} : Active(t) /\ request[t].org = o => o \in raced'
    /\ \A p \in Organizations \ {o} : row'[p] = row[p]
    /\ \A s \in Aliases \ cut' : provider'[s] = provider[s] \/ Mine(r, o, s)

LEMMA RequestTyped ==
    ASSUME ProvidersTypeOK, NEW r \in Requests
    PROVE  /\ request[r] \in IdpRequest /\ request[r].org \in Organizations
           /\ request[r].slug \in Aliases \cup {NoAlias} /\ request[r].new \subseteq Aliases
           /\ request[r].pc \in Pcs /\ Touched(r) \subseteq Aliases
           /\ request[r].found \subseteq Mapper /\ request[r].todo \subseteq Name
           /\ request[r].change \in Change
           /\ request[r].entity \in Row \cup {NoRow} /\ request[r].seen \in Row \cup {NoRow}
BY DEF ProvidersTypeOK, IdpRequest, Touched

LEMMA OthersStay ==
    ASSUME ProvidersInv, NEW r \in Requests, NEW o \in Organizations, Acts(r, o),
           NEW t \in Requests, t # r
    PROVE  RequestOK(t)'
<1>1. /\ request'[t] = request[t] /\ RequestOK(t)
      /\ cut \subseteq cut' /\ raced \subseteq raced'
      /\ Active(t)' <=> Active(t)
      /\ Written(t)' <=> Written(t)
      /\ Touched(t)' = Touched(t)
  BY DEF ProvidersInv, Acts, Active, Written, Touched
<1>2. /\ request[t].org \in Organizations /\ request[t].slug \in Aliases \cup {NoAlias}
      /\ request[t].new \subseteq Aliases
  BY RequestTyped DEF ProvidersInv
<1>3. RequestShaped(t)'
  <2>1. hadSlug[request[t].org] \subseteq hadSlug'[request[t].org]
    BY <1>2 DEF Acts
  <2> QED
    BY <1>1, <2>1 DEF RequestOK, RequestShaped
<1>4. ASSUME Active(t), request[t].org \notin raced'
      PROVE  /\ request[t].org # o /\ row'[request[t].org] = row[request[t].org]
             /\ \A s \in Aliases \ cut' :
                   /\ Own(request[t].org, s)' <=> Own(request[t].org, s)
                   /\ Own(request[t].org, s) => provider'[s] = provider[s]
  <2>1. request[t].org # o
    BY <1>4 DEF Acts
  <2>2. row'[request[t].org] = row[request[t].org]
    BY <1>2, <2>1 DEF Acts
  <2>3. ASSUME NEW s \in Aliases \ cut'
        PROVE  /\ Own(request[t].org, s)' <=> Own(request[t].org, s)
               /\ Own(request[t].org, s) => provider'[s] = provider[s]
    BY <1>1, <2>1 DEF Acts, Mine, Own
  <2> QED
    BY <2>1, <2>2, <2>3
<1>5. RequestInforms(t)'
  <2> SUFFICES ASSUME Active(t), request[t].org \notin raced' PROVE RequestInforms(t)'
    BY <1>1 DEF RequestInforms
  <2>1. RequestInforms(t) /\ request[t].org \notin raced
    BY <1>1 DEF RequestOK
  <2> QED
    BY <1>1, <1>2, <1>4, <2>1 DEF RequestInforms
<1>6. RequestRemakes(t)'
  <2> DEFINE s == request[t].slug
  <2> SUFFICES ASSUME request[t].org \notin raced', s \in request[t].new, s \notin cut', Midway(t)
               PROVE  RequestRemakes(t)'
    BY <1>1 DEF RequestRemakes, Midway, Remaking
  <2>1. Active(t) /\ Written(t)
    BY DEF Active, Written, Midway, Remaking
  <2>2. Own(request[t].org, s) /\ s \in Aliases \ cut'
    BY <1>1, <1>2, <2>1 DEF RequestOK, RequestInforms
  <2>3. provider'[s] = provider[s]
    BY <1>4, <2>1, <2>2
  <2>4. RequestRemakes(t) /\ request[t].org \notin raced /\ s \notin cut
    BY <1>1 DEF RequestOK
  <2> QED
    BY <1>1, <2>3, <2>4 DEF RequestRemakes
<1> QED
  BY <1>3, <1>5, <1>6 DEF RequestOK

\* The invariant, once r and the aliases are seen to.
LEMMA ActsStep ==
    ASSUME ProvidersInv, NEW r \in Requests, NEW o \in Organizations, Acts(r, o),
           Active(r)' => request'[r].org = o,
           ProvidersTypeOK', SlugsHad', RequestOK(r)',
           \A s \in Aliases \ cut' : AliasOK(s)'
    PROVE  ProvidersInv'
<1>1. \A t \in Requests : RequestOK(t)'
  BY OthersStay
<1>2. RequestsAlone'
  <2> SUFFICES ASSUME NEW t \in Requests, NEW u \in Requests, t # u, Active(t)', Active(u)',
                      request'[t].org = request'[u].org
               PROVE  request'[t].org \in raced'
    BY DEF RequestsAlone
  <2>1. \A v \in Requests \ {r} : request'[v] = request[v] /\ (Active(v)' <=> Active(v))
    BY DEF Acts, Active
  <2>2. RequestsAlone /\ raced \subseteq raced'
    BY DEF ProvidersInv, Acts
  <2>3. CASE t # r /\ u # r
    BY <2>1, <2>2, <2>3 DEF RequestsAlone
  <2>4. CASE t = r
    BY <2>1, <2>4 DEF Acts
  <2>5. CASE u = r
    BY <2>1, <2>5 DEF Acts
  <2> QED
    BY <2>3, <2>4, <2>5
<1> QED
  BY <1>1, <1>2 DEF ProvidersInv

\* What r was to do at s goes on, or needs no witness.
Continues(r, s) ==
    \/ request[r].org \in raced'
    \/ /\ Written(r) /\ s \in Touched(r) =>
             /\ Written(r)' /\ request'[r].org = request[r].org
             /\ s \in Touched(r)'
             /\ s \in request[r].new => s \in request'[r].new
       /\ Midway(r) /\ s \in request[r].new =>
             \/ Midway(r)' /\ s \in request'[r].new
             \/ Names(provider[s].mappers) = provider[s].meant

\* An alias whose provider stays.
LEMMA AliasStays ==
    ASSUME ProvidersInv, NEW r \in Requests, NEW o \in Organizations, Acts(r, o),
           NEW s \in Aliases \ cut', provider'[s] = provider[s], Continues(r, s),
           \A p \in Organizations \ raced' : s \in List(p)' => s \in List(p),
           \A p \in Organizations : s \in List(p) => s \in List(p)' \/ p \in raced' \cup gone'
    PROVE  AliasOK(s)'
<1>1. /\ AliasOK(s) /\ cut \subseteq cut' /\ raced \subseteq raced' /\ gone \subseteq gone'
      /\ \A p \in Organizations : hadSlug[p] \subseteq hadSlug'[p]
  BY DEF ProvidersInv, Acts
<1>2. \A t \in Requests \ {r} :
         /\ request'[t] = request[t] /\ (Written(t)' <=> Written(t)) /\ (Midway(t)' <=> Midway(t))
         /\ Touched(t)' = Touched(t)
  BY DEF Acts, Written, Midway, Touched
<1>3. provider[s] # NoProvider => provider[s].maker \in Organizations
  BY DEF ProvidersInv, ProvidersTypeOK, Provider
<1>4. \A t \in Requests : Written(t) /\ request[t].org \notin raced' /\ s \in Touched(t) =>
         /\ Written(t)' /\ request'[t].org = request[t].org /\ s \in Touched(t)'
         /\ s \in request[t].new => s \in request'[t].new
  BY <1>2 DEF Continues
<1>5. \A t \in Requests : s \in request[t].new => s \in Touched(t)
  <2>1. s # NoAlias
    BY SentinelsAssumption
  <2> QED
    BY <2>1 DEF Touched
<1>6. AliasMade(s)'
  BY <1>1, <1>3, <1>4, <1>5 DEF AliasOK, AliasMade
<1>7. AliasKept(s)'
  BY <1>1, <1>4 DEF AliasOK, AliasKept, Own
<1>8. AliasMapped(s)'
  BY <1>1, <1>3 DEF AliasOK, AliasMapped
<1>9. AliasSaved(s)'
  <2> SUFFICES ASSUME provider[s] # NoProvider, provider[s].maker \notin raced',
                      Names(provider[s].mappers) # provider[s].meant
               PROVE  AliasSaved(s)'
    BY DEF AliasSaved, Names
  <2>1. PICK t \in Requests : Midway(t) /\ request[t].org = provider[s].maker /\ s \in request[t].new
    BY <1>1 DEF AliasOK, AliasSaved
  <2>2. Midway(t)' /\ request'[t].org = provider[s].maker /\ s \in request'[t].new
    <3>1. Written(t)
      BY <2>1 DEF Midway, Written
    <3> QED
      BY <1>2, <1>4, <1>5, <2>1, <3>1 DEF Continues
  <2> QED
    BY <2>2 DEF AliasSaved
<1> QED
  BY <1>6, <1>7, <1>8, <1>9 DEF AliasOK

-----------------------------------------------------------------------------
(* Steps that leave the rows of organizations alone. *)

LEMMA WorkStep ==
    ASSUME ProvidersInv, NEW r \in Requests, Active(r), InKeycloak, cut \subseteq cut',
           \A t \in Requests \ {r} : request'[t] = request[t],
           Active(r)' => request'[r].org = request[r].org,
           \A s \in Aliases \ cut' :
              \/ provider'[s] = provider[s] /\ Continues(r, s)
              \/ Mine(r, request[r].org, s) /\ (Acts(r, request[r].org) => AliasOK(s)'),
           ProvidersTypeOK', RequestOK(r)'
    PROVE  ProvidersInv'
<1>1. request[r].org \in Organizations
  BY RequestTyped DEF ProvidersInv
<1>2. Acts(r, request[r].org)
  BY DEF ProvidersInv, RequestsAlone, InKeycloak, Acts
<1>3. SlugsHad'
  BY DEF ProvidersInv, SlugsHad, InKeycloak
<1>4. \A p \in Organizations : List(p)' = List(p)
  BY DEF List, InKeycloak
<1>5. ASSUME NEW s \in Aliases \ cut' PROVE AliasOK(s)'
  <2>1. CASE provider'[s] = provider[s] /\ Continues(r, s)
    BY <1>1, <1>2, <1>4, <2>1, AliasStays
  <2> QED
    BY <1>2, <2>1
<1> QED
  BY <1>1, <1>2, <1>3, <1>5, ActsStep

LEMMA Put ==
    ASSUME ProvidersTypeOK, NEW r \in Requests, NEW x \in IdpRequest,
           request' = [request EXCEPT ![r] = x]
    PROVE  /\ request' \in [Requests -> IdpRequest]
           /\ request'[r] = x
           /\ \A t \in Requests \ {r} : request'[t] = request[t]
BY DEF ProvidersTypeOK

LEMMA Goes ==
    ASSUME ProvidersTypeOK, NEW r \in Requests, NEW at \in Pcs, Moves(r, at)
    PROVE  /\ request' \in [Requests -> IdpRequest]
           /\ \A t \in Requests \ {r} : request'[t] = request[t]
           /\ request'[r].pc = at /\ request'[r].org = request[r].org
           /\ request'[r].slug = request[r].slug /\ request'[r].new = request[r].new
           /\ request'[r].found = request[r].found /\ request'[r].todo = request[r].todo
           /\ request'[r].change = request[r].change
           /\ request'[r].entity = request[r].entity /\ request'[r].seen = request[r].seen
<1>1. PICK x : x = [request[r] EXCEPT !.pc = at]
  OBVIOUS
<1>2. request[r] \in IdpRequest
  BY DEF ProvidersTypeOK
<1>3. /\ x \in IdpRequest
      /\ x.pc = at /\ x.org = request[r].org
      /\ x.slug = request[r].slug /\ x.new = request[r].new
      /\ x.found = request[r].found /\ x.todo = request[r].todo
      /\ x.change = request[r].change
      /\ x.entity = request[r].entity /\ x.seen = request[r].seen
  BY <1>1, <1>2 DEF IdpRequest
<1>4. request' = [request EXCEPT ![r] = x]
  BY <1>1 DEF Moves
<1> QED
  BY <1>3, <1>4, Put

LEMMA RestTyped ==
    ASSUME NEW at \in Pcs
    PROVE  /\ AtRest(at) \in IdpRequest
           /\ AtRest(at).pc = at /\ AtRest(at).slug = NoAlias /\ AtRest(at).new = {}
           /\ AtRest(at).todo = {}
<1>1. (CHOOSE o \in Organizations : TRUE) \in Organizations
  BY ProvidersAssumption
<1>2. NoChange \in Change
  BY DEF NoChange, Change
<1> QED
  BY <1>1, <1>2 DEF AtRest, Asked, IdpRequest

LEMMA Ended ==
    ASSUME ProvidersTypeOK, NEW r \in Requests, Ends(r)
    PROVE  /\ request' \in [Requests -> IdpRequest]
           /\ \A t \in Requests \ {r} : request'[t] = request[t]
           /\ ~Active(r)' /\ ~Written(r)' /\ ~Midway(r)' /\ RequestOK(r)'
<1>1. "done" \in Pcs
  BY DEF Pcs
<1>2. /\ request' \in [Requests -> IdpRequest]
      /\ \A t \in Requests \ {r} : request'[t] = request[t]
      /\ request'[r].pc = "done" /\ request'[r].slug = NoAlias /\ request'[r].new = {}
      /\ request'[r].todo = {}
  BY <1>1, RestTyped, Put DEF Ends
<1>3. ~Active(r)' /\ ~Written(r)' /\ ~Midway(r)'
  BY <1>2 DEF Active, Written, Midway, Remaking, Saving
<1> QED
  BY <1>2, <1>3
     DEF RequestOK, RequestShaped, RequestInforms, RequestRemakes, Creating, Remaking, Saving

LEMMA RefusedStep ==
    ASSUME ProvidersInv, NEW r \in Requests, Active(r), Refused(r),
           ~Written(r) \/ request[r].org \in raced
    PROVE  ProvidersInv'
<1>1. /\ \A t \in Requests \ {r} : request'[t] = request[t]
      /\ request' \in [Requests -> IdpRequest]
      /\ ~Active(r)' /\ ~Written(r)' /\ ~Midway(r)' /\ RequestOK(r)'
  BY Ended DEF ProvidersInv, Refused
<1>2. ProvidersTypeOK'
  BY <1>1 DEF ProvidersInv, ProvidersTypeOK, Refused, UniqueRowSlugs
<1>3. \A s : Continues(r, s)
  BY DEF Continues, Refused, Midway, Written
<1> QED
  BY <1>1, <1>2, <1>3, WorkStep DEF Refused, InKeycloak

LEMMA BreaksStep ==
    ASSUME ProvidersInv, NEW r \in Requests, Active(r), Breaks(r)
    PROVE  ProvidersInv'
<1>1. /\ \A t \in Requests \ {r} : request'[t] = request[t]
      /\ request' \in [Requests -> IdpRequest]
      /\ ~Active(r)' /\ ~Written(r)' /\ ~Midway(r)' /\ RequestOK(r)'
  BY Ended DEF ProvidersInv, Breaks
<1>2. Touched(r) \subseteq Aliases /\ cut' = cut \cup Touched(r)
  BY RequestTyped DEF ProvidersInv, Breaks, Cuts
<1>3. ProvidersTypeOK'
  BY <1>1, <1>2 DEF ProvidersInv, ProvidersTypeOK, Breaks, UniqueRowSlugs
<1>4. \A s \in Aliases \ cut' : Continues(r, s)
  <2>1. \A s \in Aliases \ cut' : s \notin Touched(r) /\ s # NoAlias
    BY <1>2, SentinelsAssumption
  <2> QED
    BY <2>1 DEF Continues, Touched
<1> QED
  BY <1>1, <1>2, <1>3, <1>4, WorkStep DEF Breaks, InKeycloak

LEMMA FailsStep ==
    ASSUME ProvidersInv, NEW r \in Requests, Fails(r)
    PROVE  ProvidersInv'
<1>1. CASE request[r].pc \in {"create", "get", "update", "delete"}
  <2>1. ~Written(r)
    BY <1>1 DEF Written, Remaking, Saving
  <2> QED
    BY <1>1, <2>1, RefusedStep DEF Fails
<1>2. CASE request[r].pc \notin {"create", "get", "update", "delete"}
  BY <1>2, BreaksStep DEF Fails
<1> QED
  BY <1>1, <1>2

-----------------------------------------------------------------------------
(* Beginnings. *)

LEMMA ListingTyped ==
    ASSUME NEW list \in SUBSET Aliases
    PROVE  Listing(list) \in Change
BY DEF Listing, Change

LEMMA BuiltTyped ==
    ASSUME NEW slug \in RowSlugs, NEW dto \in Dtos
    PROVE  /\ BuildMappers(slug, dto) \in SUBSET Name
           /\ \A n \in BuildMappers(slug, dto) : n.kind = "organization" => n.slug = slug
<1>1. dto.others \subseteq Others /\ "organization" \notin dto.others
  BY ProvidersAssumption DEF Dto
<1>2. \A k \in Kinds : Named(k) \in Name /\ Named(k).kind = k
  BY DEF Named, Name
<1>3. dto.others \cup {"unit", "path", "organization"} \subseteq Kinds
  BY <1>1 DEF Kinds
<1>4. /\ [kind |-> "organization", slug |-> slug] \in Name
      /\ [kind |-> "organization", slug |-> slug].slug = slug
  BY <1>3 DEF Name
<1> QED
  BY <1>1, <1>2, <1>3, <1>4 DEF BuildMappers, Built

LEMMA BeginsStep ==
    ASSUME ProvidersInv, NEW r \in Requests, NEW asked \in IdpRequest, Begins(r, asked),
           asked.pc \in {"create", "get", "delete", "preload"},
           RequestShaped(r)',
           row[asked.org] # NoRow \/ (asked.pc = "preload" /\ asked.slug = NoAlias),
           asked.pc = "preload" => asked.slug = NoAlias,
           asked.slug # NoAlias =>
              asked.change = Listing((row[asked.org].list \ {asked.slug}) \cup asked.new),
           asked.pc \in {"get", "delete"} => asked.slug \in row[asked.org].list,
           asked.pc = "create" => asked.slug \notin row[asked.org].list
    PROVE  ProvidersInv'
<1>0. asked.org \in Organizations
  BY DEF IdpRequest
<1>1. /\ request' \in [Requests -> IdpRequest] /\ request'[r] = asked
      /\ \A t \in Requests \ {r} : request'[t] = request[t]
      /\ row' = row /\ provider' = provider /\ late' = late /\ cut' = cut
      /\ gone' = gone /\ hadSlug' = hadSlug
      /\ raced' = raced \cup {p \in {asked.org} : \E q \in Requests : Active(q) /\ request[q].org = asked.org}
  BY Put DEF ProvidersInv, Begins, Overlaps
<1>2. ~Active(r) /\ ~Written(r) /\ ~Midway(r)
  BY DEF Begins, Active, Written, Midway, Remaking, Saving
<1>3. ProvidersTypeOK'
  BY <1>0, <1>1 DEF ProvidersInv, ProvidersTypeOK, UniqueRowSlugs
<1>4. Acts(r, asked.org)
  <2>1. \A t \in Requests : Active(t) /\ request[t].org = asked.org => asked.org \in raced'
    BY <1>1
  <2> QED
    BY <1>1, <2>1 DEF Acts
<1>5. SlugsHad'
  BY <1>1 DEF ProvidersInv, SlugsHad
<1>6. RequestOK(r)'
  <2>1. ~Written(r)'
    BY <1>1 DEF Written, Remaking, Saving
  <2>2. RequestInforms(r)'
    BY <1>1, <2>1 DEF RequestInforms, Saving, Creating
  <2>3. RequestRemakes(r)'
    BY <1>1 DEF RequestRemakes
  <2> QED
    BY <2>2, <2>3 DEF RequestOK
<1>7. \A p \in Organizations : List(p)' = List(p)
  BY <1>1 DEF List
<1>8. \A s \in Aliases \ cut' : AliasOK(s)'
  <2>1. \A s : Continues(r, s)
    BY <1>2 DEF Continues
  <2> QED
    BY <1>0, <1>1, <1>4, <1>7, <2>1, AliasStays
<1> QED
  BY <1>0, <1>1, <1>3, <1>4, <1>5, <1>6, <1>8, ActsStep

LEMMA RowTyped ==
    ASSUME ProvidersInv, NEW o \in Organizations, row[o] # NoRow
    PROVE  row[o] \in Row /\ row[o].slug \in RowSlugs /\ row[o].list \subseteq Aliases
           /\ row[o].slug \in hadSlug[o]
BY DEF ProvidersInv, ProvidersTypeOK, SlugsHad, Row

LEMMA BeginCreateStep ==
    ASSUME ProvidersInv, NEW r \in Requests, NEW o \in Organizations, NEW s \in Aliases,
           NEW dto \in Dtos, BeginCreate(r, o, s, dto)
    PROVE  ProvidersInv'
<1>1. PICK a : a = Asked("create", o, s, {s}, BuildMappers(row[o].slug, dto),
                         Listing(row[o].list \cup {s}))
  OBVIOUS
<1>2. row[o] # NoRow /\ s \notin row[o].list /\ Begins(r, a)
  BY <1>1 DEF BeginCreate
<1>3. /\ row[o].slug \in RowSlugs /\ row[o].list \subseteq Aliases /\ row[o].slug \in hadSlug[o]
  BY <1>2, RowTyped
<1>4. /\ a \in IdpRequest /\ a.pc = "create" /\ a.org = o /\ a.slug = s /\ a.new = {s}
      /\ a.todo = BuildMappers(row[o].slug, dto) /\ a.change = Listing(row[o].list \cup {s})
  <2>1. "create" \in Pcs /\ Listing(row[o].list \cup {s}) \in Change
    BY <1>3, ListingTyped DEF Pcs
  <2>2. BuildMappers(row[o].slug, dto) \in SUBSET Name
    BY <1>3, BuiltTyped
  <2>3. PICK n, t, c : n = {s} /\ t = BuildMappers(row[o].slug, dto) /\ c = Listing(row[o].list \cup {s})
    OBVIOUS
  <2>4. n \in SUBSET Aliases /\ t \in SUBSET Name /\ c \in Change /\ a = Asked("create", o, s, n, t, c)
    BY <1>1, <2>1, <2>2, <2>3
  <2> QED
    BY <2>3, <2>4 DEF Asked, IdpRequest, Pcs
<1>5. a.change = Listing((row[o].list \ {s}) \cup {s})
  <2>1. row[o].list \cup {s} = (row[o].list \ {s}) \cup {s}
    OBVIOUS
  <2> QED
    BY <1>4, <2>1
<1>6. request'[r] = a /\ hadSlug' = hadSlug
  BY <1>2, <1>4, Put DEF Begins, ProvidersInv
<1>7. s # NoAlias
  BY SentinelsAssumption
<1>8. RequestShaped(r)'
  BY <1>3, <1>4, <1>6, <1>7, BuiltTyped DEF RequestShaped, Creating, Remaking, Saving
<1> QED
  BY <1>2, <1>4, <1>5, <1>8, BeginsStep

LEMMA BeginUpdateStep ==
    ASSUME ProvidersInv, NEW r \in Requests, NEW o \in Organizations, NEW s \in Aliases,
           NEW new \in Aliases, NEW dto \in Dtos, BeginUpdate(r, o, s, new, dto)
    PROVE  ProvidersInv'
<1>1. PICK a : a = Asked("get", o, s, {new}, BuildMappers(row[o].slug, dto),
                         Listing((row[o].list \ {s}) \cup {new}))
  OBVIOUS
<1>2. row[o] # NoRow /\ s \in row[o].list /\ Begins(r, a)
  BY <1>1 DEF BeginUpdate
<1>3. /\ row[o].slug \in RowSlugs /\ row[o].list \subseteq Aliases /\ row[o].slug \in hadSlug[o]
  BY <1>2, RowTyped
<1>4. /\ a \in IdpRequest /\ a.pc = "get" /\ a.org = o /\ a.slug = s /\ a.new = {new}
      /\ a.todo = BuildMappers(row[o].slug, dto)
      /\ a.change = Listing((row[o].list \ {s}) \cup {new})
  <2>1. "get" \in Pcs /\ Listing((row[o].list \ {s}) \cup {new}) \in Change
    BY <1>3, ListingTyped DEF Pcs
  <2>2. BuildMappers(row[o].slug, dto) \in SUBSET Name
    BY <1>3, BuiltTyped
  <2>3. PICK n, t, c : n = {new} /\ t = BuildMappers(row[o].slug, dto) /\ c = Listing((row[o].list \ {s}) \cup {new})
    OBVIOUS
  <2>4. n \in SUBSET Aliases /\ t \in SUBSET Name /\ c \in Change /\ a = Asked("get", o, s, n, t, c)
    BY <1>1, <2>1, <2>2, <2>3
  <2> QED
    BY <2>3, <2>4 DEF Asked, IdpRequest, Pcs
<1>5. request'[r] = a /\ hadSlug' = hadSlug
  BY <1>2, <1>4, Put DEF Begins, ProvidersInv
<1>6. s # NoAlias
  BY SentinelsAssumption
<1>7. RequestShaped(r)'
  BY <1>3, <1>4, <1>5, <1>6, BuiltTyped DEF RequestShaped, Creating, Remaking, Saving
<1> QED
  BY <1>2, <1>4, <1>7, BeginsStep

LEMMA BeginDeleteStep ==
    ASSUME ProvidersInv, NEW r \in Requests, NEW o \in Organizations, NEW s \in Aliases,
           BeginDelete(r, o, s)
    PROVE  ProvidersInv'
<1>1. PICK a : a = Asked("delete", o, s, {}, {}, Listing(row[o].list \ {s}))
  OBVIOUS
<1>2. row[o] # NoRow /\ s \in row[o].list /\ Begins(r, a)
  BY <1>1 DEF BeginDelete
<1>3. row[o].list \subseteq Aliases
  BY <1>2, RowTyped
<1>4. /\ a \in IdpRequest /\ a.pc = "delete" /\ a.org = o /\ a.slug = s /\ a.new = {}
      /\ a.todo = {} /\ a.change = Listing(row[o].list \ {s})
  <2>1. "delete" \in Pcs /\ Listing(row[o].list \ {s}) \in Change
    BY <1>3, ListingTyped DEF Pcs
  <2>2. {} \in SUBSET Aliases /\ {} \in SUBSET Name /\ s \in Aliases \cup {NoAlias}
    OBVIOUS
  <2>3. PICK t, c : t = {} /\ c = Listing(row[o].list \ {s})
    OBVIOUS
  <2>4. t \in SUBSET Name /\ c \in Change /\ a = Asked("delete", o, s, {}, t, c)
    BY <1>1, <2>1, <2>2, <2>3
  <2> QED
    BY <2>3, <2>4 DEF Asked, IdpRequest, Pcs
<1>5. request'[r] = a
  BY <1>2, <1>4, Put DEF Begins, ProvidersInv
<1>6. s # NoAlias
  BY SentinelsAssumption
<1>7. RequestShaped(r)'
  BY <1>4, <1>5, <1>6 DEF RequestShaped, Creating, Remaking, Saving
<1>8. a.change = Listing((row[o].list \ {a.slug}) \cup a.new)
  <2>1. (row[o].list \ {a.slug}) \cup a.new = row[o].list \ {s}
    BY <1>4
  <2> QED
    BY <1>4, <2>1
<1> QED
  BY <1>2, <1>4, <1>7, <1>8, BeginsStep

LEMMA BeginPatchStep ==
    ASSUME ProvidersInv, NEW r \in Requests, NEW o \in Organizations, NEW change \in Changes,
           BeginPatch(r, o, change)
    PROVE  ProvidersInv'
<1>1. PICK a : a = Asked("preload", o, NoAlias, {}, {}, change)
  OBVIOUS
<1>2. Begins(r, a) /\ change \in Change /\ "preload" \in Pcs
  BY <1>1, ProvidersAssumption DEF BeginPatch, Pcs
<1>3. /\ a \in IdpRequest /\ a.pc = "preload" /\ a.org = o /\ a.slug = NoAlias /\ a.new = {}
      /\ a.todo = {}
  BY <1>1, <1>2 DEF Asked, IdpRequest
<1>4. request'[r] = a
  BY <1>2, <1>3, Put DEF Begins, ProvidersInv
<1>5. RequestShaped(r)'
  BY <1>3, <1>4 DEF RequestShaped, Creating, Remaking, Saving
<1> QED
  BY <1>2, <1>3, <1>5, BeginsStep

-----------------------------------------------------------------------------
(* Steps that change neither a provider nor a row. *)

LEMMA LooksStep ==
    ASSUME ProvidersInv, NEW r \in Requests, Active(r), InKeycloak,
           provider' = provider, cut' = cut, late' \in [Aliases -> SUBSET Mapper],
           request' \in [Requests -> IdpRequest],
           \A t \in Requests \ {r} : request'[t] = request[t],
           request'[r].org = request[r].org, request'[r].slug = request[r].slug,
           request'[r].new = request[r].new,
           Written(r) => Written(r)', Midway(r) => Midway(r)', RequestOK(r)'
    PROVE  ProvidersInv'
<1>1. \A s : Continues(r, s)
  BY DEF Continues, Touched
<1>2. ProvidersTypeOK'
  BY DEF ProvidersInv, ProvidersTypeOK, InKeycloak, UniqueRowSlugs
<1> QED
  BY <1>1, <1>2, WorkStep

LEMMA GetIdpStep ==
    ASSUME ProvidersInv, NEW r \in Requests, GetIdp(r)
    PROVE  ProvidersInv'
<1>1. request[r].pc = "get" /\ Active(r) /\ ~Written(r) /\ ~Midway(r) /\ RequestOK(r)
  BY DEF GetIdp, Active, Written, Midway, Remaking, Saving, ProvidersInv
<1>2. CASE Refused(r)
  BY <1>1, <1>2, RefusedStep
<1>3. CASE Moves(r, "update") /\ UNCHANGED <<provider, late, cut>> /\ InKeycloak
  <2>1. /\ request' \in [Requests -> IdpRequest]
        /\ \A t \in Requests \ {r} : request'[t] = request[t]
        /\ request'[r].pc = "update" /\ request'[r].org = request[r].org
        /\ request'[r].slug = request[r].slug /\ request'[r].new = request[r].new
        /\ request'[r].todo = request[r].todo /\ request'[r].change = request[r].change
    BY <1>3, Goes DEF Pcs, ProvidersInv
  <2>2. RequestShaped(r)'
    BY <1>1, <1>3, <2>1
       DEF RequestOK, RequestShaped, Creating, Remaking, Saving, InKeycloak
  <2>3. RequestInforms(r)' /\ RequestRemakes(r)'
    BY <1>1, <1>3, <2>1
       DEF RequestOK, RequestInforms, RequestRemakes, Active, Written, Creating, Remaking, Saving, InKeycloak
  <2> QED
    BY <1>1, <1>3, <2>1, <2>2, <2>3, LooksStep DEF RequestOK, ProvidersInv, ProvidersTypeOK
<1> QED
  BY <1>2, <1>3 DEF GetIdp

LEMMA ReadStep ==
    ASSUME ProvidersInv, NEW r \in Requests, Read(r)
    PROVE  ProvidersInv'
<1>1. request[r].pc = "read" /\ Active(r) /\ Written(r) /\ ~Midway(r) /\ RequestOK(r)
  BY DEF Read, Active, Written, Midway, Remaking, Saving, ProvidersInv
<1>2. CASE Breaks(r)
  BY <1>1, <1>2, BreaksStep
<1>3. CASE Moves(r, "preload") /\ UNCHANGED <<provider, late, cut>> /\ InKeycloak
  <2>1. /\ request' \in [Requests -> IdpRequest]
        /\ \A t \in Requests \ {r} : request'[t] = request[t]
        /\ request'[r].pc = "preload" /\ request'[r].org = request[r].org
        /\ request'[r].slug = request[r].slug /\ request'[r].new = request[r].new
        /\ request'[r].todo = request[r].todo /\ request'[r].change = request[r].change
    BY <1>3, Goes DEF Pcs, ProvidersInv
  <2>2. /\ request[r].slug # NoAlias /\ request[r].new # {}
        /\ request[r].slug \notin request[r].new => Touched(r) \subseteq cut
    BY <1>1 DEF RequestOK, RequestShaped
  <2>3. Written(r)' /\ Touched(r)' = Touched(r)
    BY <2>1, <2>2 DEF Written, Saving, Touched
  <2>4. RequestShaped(r)'
    BY <1>1, <1>3, <2>1, <2>2, <2>3
       DEF RequestOK, RequestShaped, Creating, Remaking, Saving, InKeycloak
  <2>5. RequestInforms(r)'
    <3>1. request[r].slug \in request[r].new \cup cut
      BY <2>2 DEF Touched
    <3> QED
      BY <1>1, <1>3, <2>1, <2>2, <2>3, <3>1
         DEF RequestOK, RequestInforms, Active, Own, Creating, Saving, InKeycloak
  <2>6. RequestRemakes(r)'
    BY <2>1 DEF RequestRemakes
  <2> QED
    BY <1>1, <1>3, <2>1, <2>3, <2>4, <2>5, <2>6, LooksStep DEF RequestOK, ProvidersInv, ProvidersTypeOK
<1> QED
  BY <1>2, <1>3 DEF Read

LEMMA OverlaidTyped ==
    ASSUME NEW before \in Row, NEW change \in Change
    PROVE  /\ Overlay(before, change) \in Row
           /\ Overlay(before, change).list = IF change.sets THEN change.list ELSE before.list
BY DEF Overlay, Row, Change

LEMMA PreloadRowStep ==
    ASSUME ProvidersInv, NEW r \in Requests, PreloadRow(r)
    PROVE  ProvidersInv'
<1>1. request[r].pc = "preload" /\ Active(r) /\ ~Midway(r) /\ RequestOK(r) /\ ProvidersTypeOK
  BY DEF PreloadRow, Active, Midway, Remaking, Saving, ProvidersInv
<1>2. CASE Breaks(r)
  BY <1>1, <1>2, BreaksStep
<1>3. CASE ~Breaks(r)
  <2> DEFINE o == request[r].org
  <2>1. PICK e : e = Overlay(row[o], request[r].change)
    OBVIOUS
  <2>2. /\ row[o] # NoRow /\ UNCHANGED <<provider, late, cut>> /\ InKeycloak
        /\ request' = [request EXCEPT ![r].pc = "save", ![r].entity = e]
    BY <1>3, <2>1 DEF PreloadRow
  <2>3. /\ o \in Organizations /\ request[r].change \in Change /\ request[r] \in IdpRequest
        /\ request[r].seen \in Row \cup {NoRow}
    BY <1>1, RequestTyped
  <2>4. e \in Row
    BY <2>1, <2>2, <2>3, RowTyped, OverlaidTyped
  <2>5. PICK x : x = [request[r] EXCEPT !.pc = "save", !.entity = e]
    OBVIOUS
  <2>6. /\ request' \in [Requests -> IdpRequest]
        /\ \A t \in Requests \ {r} : request'[t] = request[t]
        /\ request'[r].pc = "save" /\ request'[r].org = request[r].org
        /\ request'[r].slug = request[r].slug /\ request'[r].new = request[r].new
        /\ request'[r].todo = request[r].todo /\ request'[r].change = request[r].change
        /\ request'[r].entity = e
    <3>1. /\ x \in IdpRequest /\ x.pc = "save" /\ x.org = request[r].org
          /\ x.slug = request[r].slug /\ x.new = request[r].new
          /\ x.todo = request[r].todo /\ x.change = request[r].change
          /\ x.entity = e
      BY <2>3, <2>4, <2>5 DEF IdpRequest, Pcs
    <3>2. request' = [request EXCEPT ![r] = x]
      BY <2>2, <2>5
    <3> QED
      BY <1>1, <3>1, <3>2, Put
  <2>7. (Written(r)' <=> Written(r)) /\ Touched(r)' = Touched(r)
    BY <1>1, <2>6 DEF Written, Saving, Touched, Remaking
  <2>8. RequestShaped(r)'
    <3>1. e # NoRow
      BY <2>4, SentinelsAssumption
    <3> QED
      BY <1>1, <2>2, <2>6, <2>7, <3>1
         DEF RequestOK, RequestShaped, Creating, Remaking, Saving, InKeycloak
  <2>9. RequestInforms(r)'
    BY <1>1, <2>1, <2>2, <2>6, <2>7
       DEF RequestOK, RequestInforms, Active, Own, Creating, Saving, InKeycloak
  <2>10. RequestRemakes(r)'
    BY <2>6 DEF RequestRemakes
  <2> QED
    BY <1>1, <2>2, <2>6, <2>7, <2>8, <2>9, <2>10, LooksStep DEF RequestOK, ProvidersTypeOK
<1> QED
  BY <1>2, <1>3

LEMMA SaveFindsRowStep ==
    ASSUME ProvidersInv, NEW r \in Requests, SaveFindsRow(r)
    PROVE  ProvidersInv'
<1>1. request[r].pc = "save" /\ Active(r) /\ ~Midway(r) /\ RequestOK(r) /\ ProvidersTypeOK
  BY DEF SaveFindsRow, Active, Midway, Remaking, Saving, ProvidersInv
<1> DEFINE o == request[r].org
<1>2. PICK seen : seen = row[o]
  OBVIOUS
<1>3. /\ UNCHANGED <<provider, late, cut>> /\ InKeycloak
      /\ request' = [request EXCEPT ![r].pc = "write", ![r].seen = seen]
  BY <1>2 DEF SaveFindsRow
<1>4. /\ o \in Organizations /\ request[r] \in IdpRequest
      /\ request[r].entity \in Row \cup {NoRow}
  BY <1>1, RequestTyped
<1>5. seen \in Row \cup {NoRow}
  BY <1>1, <1>2, <1>4 DEF ProvidersTypeOK
<1>6. PICK x : x = [request[r] EXCEPT !.pc = "write", !.seen = seen]
  OBVIOUS
<1>7. /\ request' \in [Requests -> IdpRequest]
      /\ \A t \in Requests \ {r} : request'[t] = request[t]
      /\ request'[r].pc = "write" /\ request'[r].org = request[r].org
      /\ request'[r].slug = request[r].slug /\ request'[r].new = request[r].new
      /\ request'[r].todo = request[r].todo /\ request'[r].change = request[r].change
      /\ request'[r].entity = request[r].entity /\ request'[r].seen = seen
  <2>1. /\ x \in IdpRequest /\ x.pc = "write" /\ x.org = request[r].org
        /\ x.slug = request[r].slug /\ x.new = request[r].new
        /\ x.todo = request[r].todo /\ x.change = request[r].change
        /\ x.entity = request[r].entity /\ x.seen = seen
    BY <1>4, <1>5, <1>6 DEF IdpRequest, Pcs
  <2>2. request' = [request EXCEPT ![r] = x]
    BY <1>3, <1>6
  <2> QED
    BY <1>1, <2>1, <2>2, Put
<1>8. (Written(r)' <=> Written(r)) /\ Touched(r)' = Touched(r)
  BY <1>1, <1>7 DEF Written, Saving, Touched, Remaking
<1>9. RequestShaped(r)'
  BY <1>1, <1>3, <1>7, <1>8
     DEF RequestOK, RequestShaped, Creating, Remaking, Saving, InKeycloak
<1>10. RequestInforms(r)'
  BY <1>1, <1>2, <1>3, <1>7, <1>8
     DEF RequestOK, RequestInforms, Active, Own, Creating, Saving, InKeycloak
<1>11. RequestRemakes(r)'
  BY <1>7 DEF RequestRemakes
<1> QED
  BY <1>1, <1>3, <1>7, <1>8, <1>9, <1>10, <1>11, LooksStep DEF RequestOK, ProvidersTypeOK

LEMMA FindMappersStep ==
    ASSUME ProvidersInv, NEW r \in Requests, FindMappers(r)
    PROVE  ProvidersInv'
<1>1. /\ request[r].pc = "find" /\ Active(r) /\ Written(r) /\ Midway(r) /\ RequestOK(r)
      /\ ProvidersTypeOK
  BY DEF FindMappers, Active, Written, Midway, Remaking, ProvidersInv
<1>2. PICK n \in Aliases : request[r].new = {n} /\ n = CHOOSE s \in request[r].new : TRUE
  BY <1>1 DEF RequestOK, RequestShaped, Remaking
<1>3. CASE Breaks(r)
  BY <1>1, <1>3, BreaksStep
<1>4. CASE ~Breaks(r)
  <2>1. PICK next : next = IF Mappers(n) = {} THEN "createMappers" ELSE "deleteMappers"
    OBVIOUS
  <2>2. PICK x : x = [request[r] EXCEPT !.pc = next, !.found = Mappers(n)]
    OBVIOUS
  <2>3. /\ provider[n] # NoProvider /\ UNCHANGED <<provider, late, cut>> /\ InKeycloak
        /\ request' = [request EXCEPT ![r] = x]
    BY <1>2, <1>4, <2>1, <2>2 DEF FindMappers
  <2>4. request[r] \in IdpRequest /\ Mappers(n) = provider[n].mappers /\ Mappers(n) \subseteq Mapper
    BY <1>1, <2>3 DEF ProvidersTypeOK, Mappers, Provider
  <2>5. /\ x \in IdpRequest /\ x.pc = next /\ x.org = request[r].org
        /\ x.slug = request[r].slug /\ x.new = request[r].new
        /\ x.todo = request[r].todo /\ x.change = request[r].change
        /\ x.found = Mappers(n)
    BY <2>1, <2>2, <2>4 DEF IdpRequest, Pcs
  <2>6. /\ request' \in [Requests -> IdpRequest] /\ request'[r] = x
        /\ \A t \in Requests \ {r} : request'[t] = request[t]
    BY <1>1, <2>3, <2>5, Put
  <2>7. next \in {"createMappers", "deleteMappers"} /\ Written(r)' /\ Midway(r)'
    BY <2>1, <2>5, <2>6 DEF Written, Midway, Remaking
  <2>8. RequestShaped(r)'
    BY <1>1, <2>3, <2>5, <2>6, <2>7
       DEF RequestOK, RequestShaped, Creating, Remaking, Saving, InKeycloak
  <2>9. RequestInforms(r)'
    BY <1>1, <2>3, <2>5, <2>6, <2>7
       DEF RequestOK, RequestInforms, Active, Own, Creating, Saving, InKeycloak
  <2>10. RequestRemakes(r)'
    <3> SUFFICES ASSUME request[r].org \notin raced, request[r].slug \in request[r].new,
                        request[r].slug \notin cut
                 PROVE  RequestRemakes(r)'
      BY <2>3, <2>5, <2>6 DEF RequestRemakes, InKeycloak
    <3>1. request[r].slug = n /\ request[r].todo = provider[n].meant
      BY <1>1, <1>2 DEF RequestOK, RequestRemakes
    <3>2. Mappers(n) = {} => Names(Mappers(n)) = {}
      BY DEF Names
    <3> QED
      BY <2>1, <2>3, <2>4, <2>5, <2>6, <3>1, <3>2 DEF RequestRemakes, Names
  <2> QED
    BY <1>1, <2>3, <2>5, <2>6, <2>7, <2>8, <2>9, <2>10, LooksStep DEF RequestOK, ProvidersTypeOK
<1> QED
  BY <1>3, <1>4

LEMMA CreateFailsStep ==
    ASSUME ProvidersInv, NEW r \in Requests, CreateFails(r)
    PROVE  ProvidersInv'
<1>1. /\ request[r].pc = "createAll" /\ Active(r) /\ RequestOK(r) /\ ProvidersTypeOK
      /\ Moves(r, "undo") /\ UNCHANGED <<provider, cut>> /\ InKeycloak
  BY DEF CreateFails, Active, ProvidersInv
<1>2. /\ request' \in [Requests -> IdpRequest]
      /\ \A t \in Requests \ {r} : request'[t] = request[t]
      /\ request'[r].pc = "undo" /\ request'[r].org = request[r].org
      /\ request'[r].slug = request[r].slug /\ request'[r].new = request[r].new
      /\ request'[r].todo = request[r].todo /\ request'[r].change = request[r].change
  BY <1>1, Goes DEF Pcs
<1>3. late' \in [Aliases -> SUBSET Mapper]
  <2>1. PICK others \in SUBSET request[r].todo :
           late' = [late EXCEPT ![request[r].slug] = @ \cup {[name |-> m, by |-> r] : m \in others}]
    BY DEF CreateFails
  <2>2. {[name |-> m, by |-> r] : m \in others} \subseteq Mapper
    BY <1>1, RequestTyped DEF Mapper
  <2>3. PICK b : b = {[name |-> m, by |-> r] : m \in others}
    OBVIOUS
  <2> QED
    BY <1>1, <2>1, <2>2, <2>3 DEF ProvidersTypeOK
<1>4. Written(r)' /\ Midway(r)' /\ Written(r)
  BY <1>1, <1>2 DEF Written, Midway
<1>5. RequestShaped(r)'
  BY <1>1, <1>2 DEF RequestOK, RequestShaped, Creating, Remaking, Saving, InKeycloak
<1>6. RequestInforms(r)'
  BY <1>1, <1>2, <1>4 DEF RequestOK, RequestInforms, Active, Own, Creating, Saving, InKeycloak
<1>7. RequestRemakes(r)'
  BY <1>2 DEF RequestRemakes
<1> QED
  BY <1>1, <1>2, <1>3, <1>4, <1>5, <1>6, <1>7, LooksStep DEF RequestOK

-----------------------------------------------------------------------------
(* Steps that write to a provider. *)

\* What a request writes to without going astray is its organization's.
LEMMA WritesOwn ==
    ASSUME ProvidersInv, NEW r \in Requests, Active(r), request[r].slug # NoAlias,
           ~(Outdated(r) /\ Foreign(r)),
           request[r].pc \in {"update", "delete"}
              \/ (Written(r) /\ request[r].slug \in request[r].new)
    PROVE  provider[request[r].slug] # NoProvider =>
              provider[request[r].slug].maker = request[r].org
<1> DEFINE o == request[r].org
           s == request[r].slug
<1> SUFFICES ASSUME Foreign(r) PROVE FALSE
  BY DEF Foreign
<1>1. o \notin raced /\ s \in Aliases \ cut /\ o \in Organizations
  <2>1. s \in Touched(r) /\ s \in Aliases /\ o \in Organizations
    BY RequestTyped DEF Touched, ProvidersInv
  <2> QED
    BY <2>1 DEF Outdated
<1>2. RequestOK(r) /\ AliasOK(s) /\ RequestsAlone
  BY <1>1 DEF ProvidersInv
<1>3. CASE request[r].pc \in {"update", "delete"}
  <2>1. row[o] # NoRow /\ s \in List(o)
    BY <1>1, <1>2, <1>3 DEF RequestOK, RequestInforms, List
  <2>2. Own(o, s) \/ \E t \in Requests : Written(t) /\ request[t].org = o
    BY <1>1, <1>2, <2>1 DEF AliasOK, AliasKept
  <2>3. ASSUME NEW t \in Requests, Written(t), request[t].org = o PROVE FALSE
    <3>1. t # r
      BY <1>3, <2>3 DEF Written, Remaking, Saving
    <3>2. Active(t)
      BY <2>3 DEF Written, Active, Remaking, Saving
    <3> QED
      BY <1>1, <1>2, <2>3, <3>1, <3>2 DEF RequestsAlone
  <2> QED
    BY <2>2, <2>3 DEF Own, Foreign
<1>4. CASE Written(r) /\ s \in request[r].new
  BY <1>1, <1>2, <1>4 DEF RequestOK, RequestInforms, Own, Foreign
<1> QED
  BY <1>3, <1>4

\* An alias that r is not at goes on as it is.
LEMMA Untouched ==
    ASSUME ProvidersInv, NEW r \in Requests, NEW s \in Aliases, s \notin Touched(r)
    PROVE  Continues(r, s)
<1>1. s # NoAlias
  BY SentinelsAssumption
<1> QED
  BY <1>1 DEF Continues, Touched

\* What the alias of a provider r writes to owes to the lists and to the other requests.
LEMMA AccountedFor ==
    ASSUME ProvidersInv, NEW r \in Requests, Acts(r, request[r].org), InKeycloak,
           Written(r)', request'[r].org = request[r].org,
           NEW s \in Aliases \ cut', s \in request'[r].new, Own(request[r].org, s)',
           provider[s] # NoProvider => provider[s].maker = request[r].org
    PROVE  AliasMade(s)' /\ AliasKept(s)'
<1>1. /\ AliasOK(s) /\ request[r].org \in Organizations /\ s \in Touched(r)'
      /\ \A o \in Organizations : List(o)' = List(o)
      /\ raced' = raced
      /\ \A t \in Requests \ {r} :
            request'[t] = request[t] /\ (Written(t)' <=> Written(t)) /\ Touched(t)' = Touched(t)
  <2>1. s # NoAlias
    BY SentinelsAssumption
  <2> QED
    BY <2>1, RequestTyped DEF ProvidersInv, Acts, InKeycloak, List, Written, Touched
<1>2. AliasMade(s)'
  BY DEF AliasMade, Own
<1>3. AliasKept(s)'
  BY <1>1 DEF AliasOK, AliasKept, Own
<1> QED
  BY <1>2, <1>3

LEMMA CreateProviderStep ==
    ASSUME ProvidersInv, NEW r \in Requests, CreateProvider(r)
    PROVE  ProvidersInv'
<1>0. PICK s, o : s = request[r].slug /\ o = request[r].org
  OBVIOUS
<1>1. /\ request[r].pc = "create" /\ Active(r) /\ ~Written(r) /\ ~Midway(r) /\ RequestOK(r)
      /\ ProvidersTypeOK
  BY DEF CreateProvider, Active, Written, Midway, Remaking, Saving, ProvidersInv
<1>2. /\ s \in Aliases /\ s # NoAlias /\ request[r].new = {s} /\ o \in Organizations
      /\ request[r].todo \subseteq Name
  BY <1>0, <1>1, RequestTyped DEF RequestOK, RequestShaped, Creating
<1>3. CASE Refused(r)
  BY <1>1, <1>3, RefusedStep
<1>4. CASE ~Refused(r)
  <2>1. PICK p : p = [maker |-> o, meant |-> request[r].todo, mappers |-> {}]
    OBVIOUS
  <2>2. /\ provider[s] = NoProvider /\ provider' = [provider EXCEPT ![s] = p]
        /\ Moves(r, "createAll") /\ UNCHANGED <<late, cut>> /\ InKeycloak
    BY <1>0, <1>4, <2>1 DEF CreateProvider
  <2>3. /\ p \in Provider /\ p # NoProvider /\ p.maker = o
        /\ p.meant = request[r].todo /\ p.mappers = {}
    BY <1>0, <1>2, <2>1, SentinelsAssumption DEF Provider
  <2>4. /\ request' \in [Requests -> IdpRequest]
        /\ \A t \in Requests \ {r} : request'[t] = request[t]
        /\ request'[r].pc = "createAll" /\ request'[r].org = o
        /\ request'[r].slug = s /\ request'[r].new = {s}
        /\ request'[r].todo = request[r].todo /\ request'[r].change = request[r].change
    BY <1>0, <1>1, <1>2, <2>2, Goes DEF Pcs
  <2>5. provider'[s] = p /\ \A u \in Aliases \ {s} : provider'[u] = provider[u]
    BY <1>0, <1>1, <1>2, <2>2 DEF ProvidersTypeOK
  <2>6. Written(r)' /\ Midway(r)'
    BY <2>4 DEF Written, Midway
  <2>7. ProvidersTypeOK'
    BY <1>0, <1>1, <1>2, <2>2, <2>3, <2>4 DEF ProvidersTypeOK, InKeycloak, UniqueRowSlugs
  <2>8. RequestOK(r)'
    <3>1. RequestShaped(r)'
      BY <1>0, <1>1, <1>2, <2>2, <2>4
         DEF RequestOK, RequestShaped, Creating, Remaking, Saving, InKeycloak
    <3>2. RequestInforms(r)'
      BY <1>0, <1>1, <1>2, <2>2, <2>3, <2>4, <2>5
         DEF RequestOK, RequestInforms, Active, Own, Creating, Saving, InKeycloak
    <3>3. RequestRemakes(r)'
      <4>1. Names({}) = {}
        BY DEF Names
      <4> QED
        BY <2>3, <2>4, <2>5, <4>1 DEF RequestRemakes
    <3> QED
      BY <3>1, <3>2, <3>3 DEF RequestOK
  <2>9. ASSUME NEW u \in Aliases \ cut', u # s
        PROVE  provider'[u] = provider[u] /\ Continues(r, u)
    BY <1>0, <1>1, <2>5, <2>9 DEF Continues
  <2>10. s \notin cut' => Mine(r, o, s) /\ (Acts(r, o) => AliasOK(s)')
    <3>1. Mine(r, o, s)
      BY <1>0, <1>1, <1>2, <2>2, <2>3, <2>5 DEF Mine, Touched
    <3>2. ASSUME s \notin cut', Acts(r, o) PROVE AliasOK(s)'
      <4>1. AliasMade(s)' /\ AliasKept(s)'
        BY <1>0, <1>2, <2>2, <2>3, <2>4, <2>5, <2>6, <3>2, AccountedFor DEF Own
      <4>2. AliasMapped(s)' /\ AliasSaved(s)'
        BY <1>0, <1>2, <2>3, <2>4, <2>5, <2>6 DEF AliasMapped, AliasSaved
      <4> QED
        BY <4>1, <4>2 DEF AliasOK
    <3> QED
      BY <3>1, <3>2
  <2> QED
    BY <1>0, <1>1, <2>2, <2>4, <2>7, <2>8, <2>9, <2>10, WorkStep
<1> QED
  BY <1>3, <1>4

LEMMA UndoStep ==
    ASSUME ProvidersInv, NEW r \in Requests, Undo(r)
    PROVE  ProvidersInv'
<1>0. PICK s, o : s = request[r].slug /\ o = request[r].org
  OBVIOUS
<1>1. /\ request[r].pc = "undo" /\ Active(r) /\ Written(r) /\ RequestOK(r) /\ ProvidersTypeOK
      /\ RequestsAlone
      /\ provider' = [provider EXCEPT ![s] = NoProvider] /\ Ends(r)
      /\ Cuts(r, Outdated(r) /\ Foreign(r)) /\ UNCHANGED late /\ InKeycloak
  BY <1>0 DEF Undo, Active, Written, ProvidersInv
<1>2. /\ s \in Aliases /\ s # NoAlias /\ request[r].new = {s} /\ o \in Organizations
      /\ Touched(r) = {s}
  BY <1>0, <1>1, RequestTyped DEF RequestOK, RequestShaped, Creating, Touched
<1>3. /\ request' \in [Requests -> IdpRequest]
      /\ \A t \in Requests \ {r} : request'[t] = request[t]
      /\ ~Active(r)' /\ ~Written(r)' /\ ~Midway(r)' /\ RequestOK(r)'
  BY <1>0, <1>1, Ended
<1>4. /\ cut \subseteq cut' /\ cut' \subseteq Aliases
      /\ s \notin cut' => ~(Outdated(r) /\ Foreign(r))
  BY <1>0, <1>1, <1>2 DEF Cuts, ProvidersTypeOK
<1>5. provider'[s] = NoProvider /\ \A u \in Aliases \ {s} : provider'[u] = provider[u]
  BY <1>0, <1>1, <1>2 DEF ProvidersTypeOK
<1>6. ProvidersTypeOK'
  BY <1>0, <1>1, <1>2, <1>3, <1>4 DEF ProvidersTypeOK, InKeycloak, UniqueRowSlugs
<1>7. \A u \in Aliases \ {s} : provider'[u] = provider[u] /\ Continues(r, u)
  BY <1>0, <1>2, <1>5, Untouched
<1>8. s \notin cut' => Mine(r, o, s) /\ (Acts(r, o) => AliasOK(s)')
  <2> SUFFICES ASSUME s \notin cut' PROVE Mine(r, o, s) /\ (Acts(r, o) => AliasOK(s)')
    OBVIOUS
  <2>1. provider[s] # NoProvider => provider[s].maker = o
    BY <1>0, <1>1, <1>2, <1>4, WritesOwn
  <2>2. Mine(r, o, s)
    BY <1>0, <1>1, <1>2, <1>5, <2>1 DEF Mine
  <2>3. AliasKept(s)'
    <3>1. AliasKept(s) /\ RequestInforms(r)
      BY <1>0, <1>1, <1>2, <1>4 DEF ProvidersInv, AliasOK, RequestOK
    <3>2. ASSUME NEW p \in Organizations \ raced, s \in List(p)
          PROVE  \E t \in Requests \ {r} : Written(t) /\ request[t].org = p /\ s \in Touched(t)
      <4>1. p # o
        BY <1>0, <1>1, <3>1, <3>2 DEF RequestInforms, Creating, List
      <4> QED
        BY <1>0, <2>1, <3>1, <3>2, <4>1 DEF AliasKept, Own
    <3>3. \A t \in Requests \ {r} : Written(t) => Written(t)' /\ Touched(t)' = Touched(t)
      BY <1>3 DEF Written, Touched
    <3> QED
      BY <1>0, <1>1, <1>3, <3>2, <3>3 DEF AliasKept, InKeycloak, List
  <2>4. AliasMade(s)' /\ AliasMapped(s)' /\ AliasSaved(s)'
    BY <1>5 DEF AliasMade, AliasMapped, AliasSaved
  <2> QED
    BY <2>2, <2>3, <2>4 DEF AliasOK
<1> QED
  BY <1>0, <1>1, <1>2, <1>3, <1>4, <1>6, <1>7, <1>8, WorkStep

LEMMA DeleteProviderStep ==
    ASSUME ProvidersInv, NEW r \in Requests, DeleteProvider(r)
    PROVE  ProvidersInv'
<1>0. PICK s, o : s = request[r].slug /\ o = request[r].org
  OBVIOUS
<1>1. /\ request[r].pc = "delete" /\ Active(r) /\ ~Written(r) /\ ~Midway(r) /\ RequestOK(r)
      /\ ProvidersTypeOK
  BY DEF DeleteProvider, Active, Written, Midway, Remaking, Saving, ProvidersInv
<1>2. /\ s \in Aliases /\ s # NoAlias /\ request[r].new = {} /\ o \in Organizations
      /\ Touched(r) = {s}
  BY <1>0, <1>1, RequestTyped DEF RequestOK, RequestShaped, Touched
<1>3. CASE Refused(r)
  BY <1>1, <1>3, RefusedStep
<1>4. CASE ~Refused(r)
  <2>1. /\ provider' = [provider EXCEPT ![s] = NoProvider] /\ Moves(r, "preload")
        /\ Cuts(r, Outdated(r) /\ Foreign(r)) /\ UNCHANGED late /\ InKeycloak
    BY <1>0, <1>4 DEF DeleteProvider
  <2>2. /\ request' \in [Requests -> IdpRequest]
        /\ \A t \in Requests \ {r} : request'[t] = request[t]
        /\ request'[r].pc = "preload" /\ request'[r].org = o
        /\ request'[r].slug = s /\ request'[r].new = {}
        /\ request'[r].todo = request[r].todo /\ request'[r].change = request[r].change
    BY <1>0, <1>1, <1>2, <2>1, Goes DEF Pcs
  <2>3. /\ cut \subseteq cut' /\ cut' \subseteq Aliases
        /\ s \notin cut' => ~(Outdated(r) /\ Foreign(r))
    BY <1>0, <1>1, <1>2, <2>1 DEF Cuts, ProvidersTypeOK
  <2>4. provider'[s] = NoProvider /\ \A u \in Aliases \ {s} : provider'[u] = provider[u]
    BY <1>0, <1>1, <1>2, <2>1 DEF ProvidersTypeOK
  <2>5. ProvidersTypeOK'
    BY <1>0, <1>1, <1>2, <2>1, <2>2, <2>3 DEF ProvidersTypeOK, InKeycloak, UniqueRowSlugs
  <2>6. Written(r)' /\ Touched(r)' = {s}
    BY <1>0, <1>2, <2>2 DEF Written, Saving, Touched
  <2>7. RequestOK(r)'
    <3>1. RequestShaped(r)'
      BY <1>0, <1>1, <1>2, <2>1, <2>2 DEF RequestOK, RequestShaped, Creating, Remaking, Saving, InKeycloak
    <3>2. RequestInforms(r)'
      BY <1>0, <1>1, <1>2, <2>1, <2>2, <2>4
         DEF RequestOK, RequestInforms, Active, Own, Creating, Saving, InKeycloak
    <3>3. RequestRemakes(r)'
      BY <2>2 DEF RequestRemakes
    <3> QED
      BY <3>1, <3>2, <3>3 DEF RequestOK
  <2>8. \A u \in Aliases \ {s} : provider'[u] = provider[u] /\ Continues(r, u)
    BY <1>0, <1>2, <2>4, Untouched
  <2>9. s \notin cut' => Mine(r, o, s) /\ (Acts(r, o) => AliasOK(s)')
    <3> SUFFICES ASSUME s \notin cut' PROVE Mine(r, o, s) /\ (Acts(r, o) => AliasOK(s)')
      OBVIOUS
    <3>1. provider[s] # NoProvider => provider[s].maker = o
      BY <1>0, <1>1, <1>2, <2>3, WritesOwn
    <3>2. Mine(r, o, s)
      BY <1>0, <1>1, <1>2, <2>4, <3>1 DEF Mine
    <3>3. AliasKept(s)'
      <4>1. AliasKept(s)
        BY <1>0, <1>2, <2>3 DEF ProvidersInv, AliasOK
      <4>2. ASSUME NEW p \in Organizations \ raced, s \in List(p), p # o
            PROVE  \E t \in Requests \ {r} : Written(t) /\ request[t].org = p /\ s \in Touched(t)
        BY <1>0, <1>1, <3>1, <4>1, <4>2 DEF AliasKept, Own
      <4>3. \A t \in Requests \ {r} : Written(t) => Written(t)' /\ Touched(t)' = Touched(t)
        BY <2>2 DEF Written, Touched
      <4> QED
        BY <2>1, <2>2, <2>6, <4>2, <4>3 DEF AliasKept, InKeycloak, List
    <3>4. AliasMade(s)' /\ AliasMapped(s)' /\ AliasSaved(s)'
      BY <2>4 DEF AliasMade, AliasMapped, AliasSaved
    <3> QED
      BY <3>2, <3>3, <3>4 DEF AliasOK
  <2> QED
    BY <1>0, <1>1, <2>1, <2>2, <2>3, <2>5, <2>7, <2>8, <2>9, WorkStep
<1> QED
  BY <1>3, <1>4

\* One call that changes the mappers of the provider under the alias of the path.
LEMMA MapperStep ==
    ASSUME ProvidersInv, NEW r \in Requests, NEW s \in Aliases, s = request[r].slug,
           provider[s] # NoProvider, NEW mappers \in SUBSET Mapper,
           provider' = [provider EXCEPT ![s].mappers = mappers],
           Cuts(r, s \notin request[r].new \/ (Outdated(r) /\ Foreign(r))),
           UNCHANGED late, InKeycloak,
           Active(r), Written(r), Written(r)',
           request[r].pc \in {"createAll", "deleteMappers", "createMappers"},
           request'[r].pc \in {"createAll", "deleteMappers", "createMappers", "read"},
           request[r].pc = "createAll" => request'[r].pc \in {"createAll", "read"},
           request'[r].pc = "createAll" => request[r].pc = "createAll",
           request' \in [Requests -> IdpRequest],
           \A t \in Requests \ {r} : request'[t] = request[t],
           request'[r].org = request[r].org, request'[r].slug = s,
           request'[r].new = request[r].new, request'[r].change = request[r].change,
           request'[r].todo \subseteq request[r].todo,
           RequestRemakes(r)',
           \A m \in mappers : m.name.kind = "organization" =>
              m \in provider[s].mappers \/ m.name.slug \in hadSlug[request[r].org],
           request'[r].pc = "read" /\ request[r].org \notin raced /\ s \in request[r].new
              /\ s \notin cut => Names(mappers) = provider[s].meant
    PROVE  ProvidersInv'
<1>0. PICK o : o = request[r].org
  OBVIOUS
<1>1. /\ RequestOK(r) /\ ProvidersTypeOK /\ o \in Organizations
      /\ request[r].new \subseteq Aliases /\ s # NoAlias
      /\ Touched(r)' = Touched(r) /\ Touched(r) \subseteq Aliases /\ s \in Touched(r)
      /\ \E n \in Aliases : request[r].new = {n}
  <2>1. RequestOK(r) /\ ProvidersTypeOK /\ s # NoAlias
    BY SentinelsAssumption DEF ProvidersInv
  <2>2. \E n \in Aliases : request[r].new = {n}
    BY <2>1 DEF RequestOK, RequestShaped, Creating, Remaking
  <2> QED
    BY <1>0, <2>1, <2>2, RequestTyped DEF Touched
<1>2. /\ cut \subseteq cut' /\ cut' \subseteq Aliases
      /\ \A u \in Touched(r) : u \notin cut' => s \in request[r].new /\ ~(Outdated(r) /\ Foreign(r))
      /\ s \notin request[r].new => Touched(r) \subseteq cut'
  BY <1>1 DEF Cuts, ProvidersTypeOK
<1>3. /\ provider[s] \in Provider
      /\ provider'[s] = [provider[s] EXCEPT !.mappers = mappers]
      /\ \A u \in Aliases \ {s} : provider'[u] = provider[u]
  BY <1>1 DEF ProvidersTypeOK
<1>4. /\ provider'[s] \in Provider /\ provider'[s] # NoProvider
      /\ provider'[s].maker = provider[s].maker /\ provider'[s].meant = provider[s].meant
      /\ provider'[s].mappers = mappers
  BY <1>3, SentinelsAssumption DEF Provider
<1>5. ProvidersTypeOK'
  <2>1. provider' \in [Aliases -> Provider \cup {NoProvider}]
    BY <1>1, <1>3, <1>4 DEF ProvidersTypeOK
  <2> QED
    BY <1>1, <1>2, <2>1 DEF ProvidersTypeOK, InKeycloak, UniqueRowSlugs
<1>6. RequestOK(r)'
  <2>1. RequestShaped(r)'
    BY <1>1, <1>2 DEF RequestOK, RequestShaped, Creating, Remaking, Saving, InKeycloak
  <2>2. RequestInforms(r)'
    <3>1. \A u \in Aliases : Own(o, u)' <=> Own(o, u)
      BY <1>3, <1>4 DEF Own
    <3> QED
      BY <1>0, <1>1, <1>2, <3>1
         DEF RequestOK, RequestInforms, Creating, Saving, InKeycloak
  <2> QED
    BY <2>1, <2>2 DEF RequestOK
<1>7. ASSUME NEW u \in Aliases \ cut', u # s
      PROVE  provider'[u] = provider[u] /\ Continues(r, u)
  <2>1. u \notin request[r].new
    <3>1. u # NoAlias
      BY SentinelsAssumption
    <3> QED
      BY <1>1, <1>2, <1>7, <3>1 DEF Touched
  <2> QED
    BY <1>1, <1>3, <1>7, <2>1 DEF Continues
<1>8. ASSUME s \notin cut'
      PROVE  Mine(r, o, s) /\ (Acts(r, o) => AliasOK(s)')
  <2>1. s \in request[r].new /\ provider[s].maker = o
    BY <1>0, <1>1, <1>2, <1>8, WritesOwn
  <2>2. Mine(r, o, s)
    BY <1>0, <1>1, <1>4, <2>1 DEF Mine
  <2>3. ASSUME Acts(r, o) PROVE AliasOK(s)'
    <3>1. AliasMade(s)' /\ AliasKept(s)'
      BY <1>0, <1>4, <1>8, <2>1, <2>3, AccountedFor DEF Own
    <3>2. AliasMapped(s) /\ AliasSaved(s)
      BY <1>2, <1>8 DEF ProvidersInv, AliasOK
    <3>3. AliasMapped(s)'
      BY <1>0, <1>4, <2>1, <3>2 DEF AliasMapped, InKeycloak
    <3>4. AliasSaved(s)'
      <4>1. CASE request'[r].pc = "read"
        BY <1>0, <1>2, <1>4, <1>8, <2>1, <4>1 DEF AliasSaved, InKeycloak
      <4>2. CASE request'[r].pc # "read"
        <5>1. Midway(r)'
          BY <4>2 DEF Midway, Remaking
        <5> QED
          BY <1>0, <1>4, <2>1, <5>1 DEF AliasSaved
      <4> QED
        BY <4>1, <4>2
    <3> QED
      BY <3>1, <3>3, <3>4 DEF AliasOK
  <2> QED
    BY <2>2, <2>3
<1> QED
  BY <1>0, <1>2, <1>5, <1>6, <1>7, <1>8, WorkStep

LEMMA CreateMapperStep ==
    ASSUME ProvidersInv, NEW r \in Requests, NEW pc \in {"createAll", "createMappers"},
           CreateMapper(r, pc)
    PROVE  ProvidersInv'
<1>0. PICK s : s = request[r].slug
  OBVIOUS
<1>1. /\ request[r].pc = pc /\ Active(r) /\ Written(r) /\ RequestOK(r) /\ ProvidersTypeOK
      /\ provider[s] # NoProvider
      /\ Cuts(r, s \notin request[r].new \/ (Outdated(r) /\ Foreign(r)))
      /\ UNCHANGED late /\ InKeycloak
  BY <1>0 DEF CreateMapper, Active, Written, Remaking, ProvidersInv
<1>2. s \in Aliases /\ request[r] \in IdpRequest /\ request[r].todo \subseteq Name
  BY <1>0, <1>1, RequestTyped DEF RequestOK, RequestShaped, Creating, Remaking
<1>3. PICK n \in request[r].todo \ Names(Mappers(s)) :
         /\ provider' = [provider EXCEPT ![s].mappers = @ \cup {[name |-> n, by |-> r]}]
         /\ request' = [request EXCEPT ![r].todo = @ \ {n},
                           ![r].pc = IF request[r].todo = {n} THEN "read" ELSE pc]
  BY <1>0 DEF CreateMapper
<1>4. PICK next, left : next = (IF request[r].todo = {n} THEN "read" ELSE pc) /\ left = request[r].todo \ {n}
  OBVIOUS
<1>5. PICK x : x = [request[r] EXCEPT !.todo = left, !.pc = next]
  OBVIOUS
<1>6. /\ x \in IdpRequest /\ x.pc = next /\ x.org = request[r].org
      /\ x.slug = request[r].slug /\ x.new = request[r].new
      /\ x.todo = left /\ x.change = request[r].change
  BY <1>2, <1>4, <1>5 DEF IdpRequest, Pcs
<1>7. request' = [request EXCEPT ![r] = x]
  BY <1>3, <1>4, <1>5
<1>8. /\ request' \in [Requests -> IdpRequest] /\ request'[r] = x
      /\ \A t \in Requests \ {r} : request'[t] = request[t]
  BY <1>1, <1>6, <1>7, Put
<1>9. PICK mappers : mappers = provider[s].mappers \cup {[name |-> n, by |-> r]}
  OBVIOUS
<1>10. /\ provider' = [provider EXCEPT ![s].mappers = mappers] /\ mappers \in SUBSET Mapper
       /\ Names(mappers) = Names(provider[s].mappers) \cup {n}
       /\ provider[s] \in Provider /\ provider'[s].meant = provider[s].meant
       /\ provider'[s].mappers = mappers
  <2>1. provider[s] \in Provider /\ [name |-> n, by |-> r] \in Mapper
    BY <1>1, <1>2 DEF ProvidersTypeOK, Mapper
  <2>2. provider' = [provider EXCEPT ![s].mappers = mappers] /\ mappers \in SUBSET Mapper
    BY <1>3, <1>9, <2>1 DEF Provider
  <2>3. Names(mappers) = Names(provider[s].mappers) \cup {n}
    <3>1. PICK k : k = [name |-> n, by |-> r]
      OBVIOUS
    <3>2. k.name = n /\ mappers = provider[s].mappers \cup {k}
      BY <1>9, <3>1
    <3> QED
      BY <3>2 DEF Names
  <2>4. provider'[s] = [provider[s] EXCEPT !.mappers = mappers]
    BY <1>1, <1>2, <2>2 DEF ProvidersTypeOK
  <2> QED
    BY <2>1, <2>2, <2>3, <2>4 DEF Provider
<1>11. Written(r)'
  BY <1>4, <1>6, <1>8 DEF Written, Remaking
<1>12. request[r].org \notin raced /\ s \in request[r].new /\ s \notin cut =>
          /\ request[r].todo \subseteq provider[s].meant
          /\ Names(provider[s].mappers) = provider[s].meant \ request[r].todo
  BY <1>0, <1>1 DEF RequestOK, RequestRemakes
<1>13. RequestRemakes(r)'
  <2>1. cut \subseteq cut' /\ raced' = raced
    BY <1>1 DEF Cuts, InKeycloak
  <2>2. ASSUME request[r].org \notin raced, s \in request[r].new, s \notin cut,
               next \in {"createAll", "createMappers"}
        PROVE  left \subseteq provider[s].meant /\ Names(mappers) = provider[s].meant \ left
    BY <1>3, <1>4, <1>10, <1>12, <2>2
  <2>3. next \notin {"find", "deleteMappers"}
    BY <1>4
  <2> QED
    BY <1>0, <1>6, <1>8, <1>10, <2>1, <2>2, <2>3 DEF RequestRemakes
<1>14. \A m \in mappers : m.name.kind = "organization" =>
          m \in provider[s].mappers \/ m.name.slug \in hadSlug[request[r].org]
  BY <1>1, <1>3, <1>9 DEF RequestOK, RequestShaped
<1>15. next = "read" /\ request[r].org \notin raced /\ s \in request[r].new /\ s \notin cut =>
          Names(mappers) = provider[s].meant
  BY <1>4, <1>10, <1>12
<1>16. /\ next \in {"createAll", "createMappers", "read"}
       /\ pc = "createAll" => next \in {"createAll", "read"}
       /\ next = "createAll" => pc = "createAll"
  BY <1>4
<1> QED
  BY <1>0, <1>1, <1>2, <1>4, <1>6, <1>8, <1>10, <1>11, <1>13, <1>14, <1>15, <1>16, MapperStep

LEMMA DeleteMapperStep ==
    ASSUME ProvidersInv, NEW r \in Requests, DeleteMapper(r)
    PROVE  ProvidersInv'
<1>0. PICK s : s = request[r].slug
  OBVIOUS
<1>1. /\ request[r].pc = "deleteMappers" /\ Active(r) /\ Written(r) /\ RequestOK(r)
      /\ ProvidersTypeOK
      /\ Cuts(r, s \notin request[r].new \/ (Outdated(r) /\ Foreign(r)))
      /\ UNCHANGED late /\ InKeycloak
  BY <1>0 DEF DeleteMapper, Active, Written, Remaking, ProvidersInv
<1>2. s \in Aliases /\ request[r] \in IdpRequest /\ request[r].found \subseteq Mapper
  BY <1>0, <1>1, RequestTyped DEF RequestOK, RequestShaped, Remaking
<1>3. PICK m \in request[r].found \cap Mappers(s) :
         /\ provider' = [provider EXCEPT ![s].mappers = @ \ {m}]
         /\ request' = [request EXCEPT ![r].found = @ \ {m},
               ![r].pc = IF request[r].found = {m} THEN "createMappers" ELSE "deleteMappers"]
  BY <1>0 DEF DeleteMapper
<1>4. PICK next, left :
         /\ next = (IF request[r].found = {m} THEN "createMappers" ELSE "deleteMappers")
         /\ left = request[r].found \ {m}
  OBVIOUS
<1>5. PICK x : x = [request[r] EXCEPT !.found = left, !.pc = next]
  OBVIOUS
<1>6. /\ x \in IdpRequest /\ x.pc = next /\ x.org = request[r].org
      /\ x.slug = request[r].slug /\ x.new = request[r].new
      /\ x.todo = request[r].todo /\ x.change = request[r].change /\ x.found = left
  BY <1>2, <1>4, <1>5 DEF IdpRequest, Pcs
<1>7. request' = [request EXCEPT ![r] = x]
  BY <1>3, <1>4, <1>5
<1>8. /\ request' \in [Requests -> IdpRequest] /\ request'[r] = x
      /\ \A t \in Requests \ {r} : request'[t] = request[t]
  BY <1>1, <1>6, <1>7, Put
<1>9. PICK mappers : mappers = provider[s].mappers \ {m}
  OBVIOUS
<1>10. /\ provider' = [provider EXCEPT ![s].mappers = mappers] /\ mappers \in SUBSET Mapper
       /\ provider[s] # NoProvider
       /\ provider[s] \in Provider /\ provider'[s].meant = provider[s].meant
       /\ provider'[s].mappers = mappers
  <2>1. provider[s] # NoProvider
    BY <1>3 DEF Mappers
  <2>2. provider[s] \in Provider
    BY <1>1, <1>2, <2>1 DEF ProvidersTypeOK
  <2>3. provider' = [provider EXCEPT ![s].mappers = mappers] /\ mappers \in SUBSET Mapper
    BY <1>3, <1>9, <2>2 DEF Provider
  <2>4. provider'[s] = [provider[s] EXCEPT !.mappers = mappers]
    BY <1>1, <1>2, <2>3 DEF ProvidersTypeOK
  <2> QED
    BY <2>1, <2>2, <2>3, <2>4 DEF Provider
<1>11. Written(r)'
  BY <1>4, <1>6, <1>8 DEF Written, Remaking
<1>12. request[r].org \notin raced /\ s \in request[r].new /\ s \notin cut =>
          request[r].todo = provider[s].meant /\ request[r].found = provider[s].mappers
  BY <1>0, <1>1 DEF RequestOK, RequestRemakes
<1>13. RequestRemakes(r)'
  <2>1. cut \subseteq cut' /\ raced' = raced /\ Names({}) = {}
    BY <1>1 DEF Cuts, InKeycloak, Names
  <2>2. request[r].found = {m} /\ request[r].found = provider[s].mappers => mappers = {}
    BY <1>9
  <2>3. ASSUME request[r].org \notin raced, s \in request[r].new, s \notin cut
        PROVE  /\ request[r].todo = provider[s].meant
               /\ next = "deleteMappers" => left = mappers
               /\ next = "createMappers" => Names(mappers) = provider[s].meant \ request[r].todo
    BY <1>4, <1>9, <1>12, <2>1, <2>2, <2>3
  <2>4. next \notin {"find", "createAll"}
    BY <1>4
  <2> QED
    BY <1>0, <1>6, <1>8, <1>10, <2>1, <2>3, <2>4 DEF RequestRemakes
<1>14. \A k \in mappers : k \in provider[s].mappers
  BY <1>9
<1>15. next \in {"deleteMappers", "createMappers"}
  BY <1>4
<1> QED
  BY <1>0, <1>1, <1>2, <1>4, <1>6, <1>8, <1>10, <1>11, <1>13, <1>14, <1>15, MapperStep

LEMMA UpdateProviderStep ==
    ASSUME ProvidersInv, NEW r \in Requests, UpdateProvider(r)
    PROVE  ProvidersInv'
<1>0. PICK old, o : old = request[r].slug /\ o = request[r].org
  OBVIOUS
<1>1. /\ request[r].pc = "update" /\ Active(r) /\ ~Written(r) /\ ~Midway(r) /\ RequestOK(r)
      /\ ProvidersTypeOK
  BY DEF UpdateProvider, Active, Written, Midway, Remaking, Saving, ProvidersInv
<1>2. PICK new \in Aliases : request[r].new = {new} /\ new = CHOOSE s \in request[r].new : TRUE
  BY <1>1 DEF RequestOK, RequestShaped
<1>3. /\ old \in Aliases /\ old # NoAlias /\ new # NoAlias /\ o \in Organizations
      /\ Touched(r) = {old, new} /\ request[r].todo \subseteq Name
  <2>1. old \in Aliases /\ old # NoAlias /\ o \in Organizations /\ request[r].todo \subseteq Name
    BY <1>0, <1>1, RequestTyped DEF RequestOK, RequestShaped
  <2> QED
    BY <1>0, <1>2, <2>1, SentinelsAssumption DEF Touched
<1>4. CASE Refused(r)
  BY <1>1, <1>4, RefusedStep
<1>5. CASE ~Refused(r)
  <2>1. PICK p : p = [provider[old] EXCEPT !.meant = request[r].todo]
    OBVIOUS
  <2>2. /\ provider[old] # NoProvider /\ (new = old \/ provider[new] = NoProvider)
        /\ provider' = [provider EXCEPT ![old] = NoProvider, ![new] = p]
        /\ Moves(r, "find")
        /\ Cuts(r, Touched(r) \cap cut # {} \/ (Outdated(r) /\ Foreign(r)))
        /\ UNCHANGED late /\ InKeycloak
    BY <1>0, <1>2, <1>5, <2>1 DEF UpdateProvider
  <2>3. /\ provider[old] \in Provider /\ p \in Provider /\ p # NoProvider
        /\ p.maker = provider[old].maker
        /\ p.meant = request[r].todo /\ p.mappers = provider[old].mappers
  <3>1. provider[old] \in Provider
    BY <1>1, <1>3, <2>2 DEF ProvidersTypeOK
  <3> QED
    BY <1>3, <2>1, <3>1, SentinelsAssumption DEF Provider
  <2>4. /\ request' \in [Requests -> IdpRequest]
        /\ \A t \in Requests \ {r} : request'[t] = request[t]
        /\ request'[r].pc = "find" /\ request'[r].org = o
        /\ request'[r].slug = old /\ request'[r].new = {new}
        /\ request'[r].todo = request[r].todo /\ request'[r].change = request[r].change
    BY <1>0, <1>1, <1>2, <2>2, Goes DEF Pcs
  <2>5. /\ provider'[new] = p
        /\ new # old => provider'[old] = NoProvider
        /\ \A u \in Aliases \ {old, new} : provider'[u] = provider[u]
    BY <1>1, <1>2, <1>3, <2>2 DEF ProvidersTypeOK
  <2>6. Written(r)' /\ Midway(r)' /\ Touched(r)' = {old, new}
    BY <1>3, <2>4 DEF Written, Midway, Remaking, Touched
  <2>7. /\ cut \subseteq cut' /\ cut' \subseteq Aliases
        /\ old \in cut' <=> new \in cut'
        /\ new \notin cut' => /\ old \notin cut /\ new \notin cut
                              /\ ~(Outdated(r) /\ Foreign(r))
    BY <1>1, <1>2, <1>3, <2>2 DEF Cuts, ProvidersTypeOK
  <2>8. new \notin cut' => provider[old].maker = o
    BY <1>0, <1>1, <1>3, <2>2, <2>7, WritesOwn
  <2>9. ProvidersTypeOK'
    <3>1. provider' \in [Aliases -> Provider \cup {NoProvider}]
      BY <1>1, <1>2, <1>3, <2>2, <2>3 DEF ProvidersTypeOK
    <3> QED
      BY <1>1, <2>2, <2>4, <2>7, <3>1 DEF ProvidersTypeOK, InKeycloak, UniqueRowSlugs
  <2>10. RequestOK(r)'
    <3>1. RequestShaped(r)'
      BY <1>0, <1>1, <1>2, <1>3, <2>2, <2>4
         DEF RequestOK, RequestShaped, Creating, Remaking, Saving, InKeycloak
    <3>2. RequestInforms(r)'
      <4>1. \A u \in {new} \ cut' : Own(o, u)'
        BY <2>3, <2>5, <2>8 DEF Own
      <4> QED
        BY <1>0, <1>1, <1>2, <2>2, <2>4, <4>1
           DEF RequestOK, RequestInforms, Active, Creating, Saving, InKeycloak
    <3>3. RequestRemakes(r)'
      BY <2>3, <2>4, <2>5 DEF RequestRemakes
    <3> QED
      BY <3>1, <3>2, <3>3 DEF RequestOK
  <2>11. ASSUME NEW u \in Aliases \ {old, new} PROVE provider'[u] = provider[u] /\ Continues(r, u)
    BY <1>1, <2>5 DEF Continues
  <2>12. new \notin cut' => Mine(r, o, new) /\ (Acts(r, o) => AliasOK(new)')
    <3> SUFFICES ASSUME new \notin cut' PROVE Mine(r, o, new) /\ (Acts(r, o) => AliasOK(new)')
      OBVIOUS
    <3>1. Mine(r, o, new)
      BY <1>0, <1>1, <1>3, <2>2, <2>3, <2>5, <2>8 DEF Mine
    <3>2. ASSUME Acts(r, o) PROVE AliasOK(new)'
      <4>1. AliasMade(new)' /\ AliasKept(new)'
        BY <1>0, <1>2, <2>2, <2>3, <2>4, <2>5, <2>6, <2>8, <3>1, <3>2, AccountedFor DEF Own, Mine
      <4>2. AliasMapped(new)'
        <5>1. AliasMapped(old)
          BY <1>3, <2>7 DEF ProvidersInv, AliasOK
        <5> QED
          BY <2>2, <2>3, <2>5, <5>1 DEF AliasMapped, InKeycloak
      <4>3. AliasSaved(new)'
        BY <2>3, <2>4, <2>5, <2>6, <2>8 DEF AliasSaved
      <4> QED
        BY <4>1, <4>2, <4>3 DEF AliasOK
    <3> QED
      BY <3>1, <3>2
  <2>13. old # new /\ old \notin cut' => Mine(r, o, old) /\ AliasOK(old)'
    <3> SUFFICES ASSUME old # new, old \notin cut' PROVE Mine(r, o, old) /\ AliasOK(old)'
      OBVIOUS
    <3>1. Mine(r, o, old)
      BY <1>0, <1>1, <1>3, <2>5, <2>7, <2>8 DEF Mine
    <3>2. AliasKept(old)'
      <4>1. AliasKept(old)
        BY <1>3, <2>7 DEF ProvidersInv, AliasOK
      <4>2. ASSUME NEW q \in Organizations \ raced, old \in List(q), q # o
            PROVE  \E t \in Requests \ {r} : Written(t) /\ request[t].org = q /\ old \in Touched(t)
        BY <1>0, <2>7, <2>8, <4>1, <4>2 DEF AliasKept, Own
      <4>3. \A t \in Requests \ {r} : Written(t) => Written(t)' /\ Touched(t)' = Touched(t)
        BY <2>4 DEF Written, Touched
      <4> QED
        BY <2>2, <2>4, <2>6, <4>2, <4>3 DEF AliasKept, InKeycloak, List
    <3>3. AliasMade(old)' /\ AliasMapped(old)' /\ AliasSaved(old)'
      BY <2>5 DEF AliasMade, AliasMapped, AliasSaved
    <3> QED
      BY <3>1, <3>2, <3>3 DEF AliasOK
  <2>14. ASSUME NEW u \in Aliases \ cut'
         PROVE  \/ provider'[u] = provider[u] /\ Continues(r, u)
                \/ Mine(r, o, u) /\ (Acts(r, o) => AliasOK(u)')
    <3>1. CASE u = new
      BY <2>12, <3>1
    <3>2. CASE u = old /\ old # new
      BY <2>13, <3>2
    <3>3. CASE u \notin {old, new}
      BY <2>11, <3>3
    <3> QED
      BY <3>1, <3>2, <3>3
  <2> QED
    BY <1>0, <1>1, <2>2, <2>4, <2>7, <2>9, <2>10, <2>14, WorkStep
<1> QED
  BY <1>4, <1>5

\* What lands at an alias leaves it astray, and everything else alone.
LEMMA LandsStep ==
    ASSUME ProvidersInv, NEW s \in Aliases, Lands(s)
    PROVE  ProvidersInv'
<1>0. ProvidersTypeOK
  BY DEF ProvidersInv
<1>1. PICK m \in late[s] :
         /\ late' = [late EXCEPT ![s] = @ \ {m}]
         /\ \/ UNCHANGED <<provider, cut>>
            \/ /\ provider[s] # NoProvider
               /\ provider' = [provider EXCEPT ![s].mappers = @ \cup {m}]
               /\ cut' = cut \cup {s}
         /\ UNCHANGED request /\ InKeycloak
  BY DEF Lands
<1>2. late' \in [Aliases -> SUBSET Mapper] /\ m \in Mapper
  BY <1>0, <1>1 DEF ProvidersTypeOK
<1>3. /\ provider' \in [Aliases -> Provider \cup {NoProvider}]
      /\ \A u \in Aliases \ cut' : provider'[u] = provider[u]
      /\ cut \subseteq cut' /\ cut' \subseteq Aliases
  <2>1. CASE UNCHANGED <<provider, cut>>
    BY <1>0, <2>1 DEF ProvidersTypeOK
  <2>2. CASE /\ provider[s] # NoProvider
             /\ provider' = [provider EXCEPT ![s].mappers = @ \cup {m}]
             /\ cut' = cut \cup {s}
    <3>1. PICK p : p = [provider[s] EXCEPT !.mappers = @ \cup {m}]
      OBVIOUS
    <3>2. provider[s] \in Provider /\ provider' = [provider EXCEPT ![s] = p]
      BY <1>0, <2>2, <3>1 DEF ProvidersTypeOK
    <3>3. p \in Provider
      BY <1>2, <3>1, <3>2 DEF Provider
    <3> QED
      BY <1>0, <2>2, <3>2, <3>3 DEF ProvidersTypeOK
  <2> QED
    BY <1>1, <2>1, <2>2
<1>4. ProvidersTypeOK' /\ SlugsHad' /\ RequestsAlone'
  BY <1>0, <1>1, <1>2, <1>3
     DEF ProvidersInv, ProvidersTypeOK, SlugsHad, RequestsAlone, Active, InKeycloak, UniqueRowSlugs
<1>5. \A r \in Requests : RequestOK(r)'
  <2> TAKE r \in Requests
  <2>1. /\ RequestOK(r) /\ request[r].new \subseteq Aliases
        /\ request[r].slug \in Aliases \cup {NoAlias} /\ NoAlias \notin cut
    BY <1>0, RequestTyped, SentinelsAssumption DEF ProvidersInv, ProvidersTypeOK
  <2>2. RequestShaped(r)'
    BY <1>1, <1>3, <2>1 DEF RequestOK, RequestShaped, Touched, InKeycloak
  <2>3. RequestInforms(r)'
    <3>1. \A u \in Aliases \ cut' : Own(request[r].org, u)' <=> Own(request[r].org, u)
      BY <1>1, <1>3 DEF Own
    <3> QED
      BY <1>1, <1>3, <2>1, <3>1 DEF RequestOK, RequestInforms, Active, Written, InKeycloak
  <2>4. RequestRemakes(r)'
    BY <1>1, <1>3, <2>1 DEF RequestOK, RequestRemakes, InKeycloak
  <2> QED
    BY <2>2, <2>3, <2>4 DEF RequestOK
<1>6. \A u \in Aliases \ cut' : AliasOK(u)'
  <2> TAKE u \in Aliases \ cut'
  <2>1. AliasOK(u) /\ provider'[u] = provider[u]
    BY <1>3 DEF ProvidersInv
  <2>2. AliasMade(u)' /\ AliasKept(u)'
    BY <1>1, <2>1 DEF AliasOK, AliasMade, AliasKept, Own, Written, Touched, List, InKeycloak
  <2>3. AliasMapped(u)' /\ AliasSaved(u)'
    BY <1>1, <2>1 DEF AliasOK, AliasMapped, AliasSaved, Midway, InKeycloak
  <2> QED
    BY <2>2, <2>3 DEF AliasOK
<1> QED
  BY <1>4, <1>5, <1>6 DEF ProvidersInv

-----------------------------------------------------------------------------
(* Steps that write the row of an organization. *)

LEMMA RowWritten ==
    ASSUME ProvidersInv, NEW o \in Organizations, NEW new \in Row, FreeSlug(o, new.slug),
           WritesRow(o, new)
    PROVE  /\ row' \in [Organizations -> Row \cup {NoRow}] /\ UniqueRowSlugs'
           /\ hadSlug' \in [Organizations -> SUBSET RowSlugs]
           /\ row'[o] = new /\ List(o)' = new.list
           /\ \A p \in Organizations \ {o} : row'[p] = row[p] /\ List(p)' = List(p)
           /\ \A p \in Organizations : hadSlug[p] \subseteq hadSlug'[p]
           /\ SlugsHad'
<1>1. ProvidersTypeOK /\ SlugsHad /\ new.slug \in RowSlugs /\ new # NoRow
  BY SentinelsAssumption DEF ProvidersInv, Row
<1>2. /\ row' = [row EXCEPT ![o] = new]
      /\ hadSlug' = [hadSlug EXCEPT ![o] = @ \cup {new.slug}]
  BY DEF WritesRow
<1>3. /\ row' \in [Organizations -> Row \cup {NoRow}]
      /\ row'[o] = new /\ \A p \in Organizations \ {o} : row'[p] = row[p]
  BY <1>1, <1>2 DEF ProvidersTypeOK
<1>4. UniqueRowSlugs'
  BY <1>1, <1>3 DEF ProvidersTypeOK, UniqueRowSlugs, FreeSlug
<1>5. /\ hadSlug' \in [Organizations -> SUBSET RowSlugs]
      /\ hadSlug'[o] = hadSlug[o] \cup {new.slug}
      /\ \A p \in Organizations \ {o} : hadSlug'[p] = hadSlug[p]
  BY <1>1, <1>2 DEF ProvidersTypeOK
<1>6. SlugsHad'
  BY <1>1, <1>3, <1>5 DEF SlugsHad
<1>7. List(o)' = new.list /\ \A p \in Organizations \ {o} : List(p)' = List(p)
  BY <1>1, <1>3 DEF List
<1> QED
  BY <1>3, <1>4, <1>5, <1>6, <1>7

LEMMA PostRowStep ==
    ASSUME ProvidersInv, NEW r \in Requests, NEW o \in Organizations, NEW new \in Row,
           PostRow(r, o, new)
    PROVE  ProvidersInv'
<1>1. /\ row[o] = NoRow /\ FreeSlug(o, new.slug) /\ WritesRow(o, new) /\ Ends(r) /\ Overlaps(o)
      /\ cut' = cut \cup new.list /\ UNCHANGED <<provider, late, gone>>
      /\ ProvidersTypeOK /\ new.list \subseteq Aliases
  BY DEF PostRow, ProvidersInv, Row
<1>2. ~Written(r) /\ ~Midway(r)
  BY DEF PostRow, Written, Midway, Remaking, Saving
<1>3. /\ request' \in [Requests -> IdpRequest]
      /\ \A t \in Requests \ {r} : request'[t] = request[t]
      /\ ~Active(r)' /\ RequestOK(r)'
  BY <1>1, Ended
<1>4. /\ row' \in [Organizations -> Row \cup {NoRow}] /\ UniqueRowSlugs'
      /\ hadSlug' \in [Organizations -> SUBSET RowSlugs]
      /\ List(o)' = new.list
      /\ \A p \in Organizations \ {o} : row'[p] = row[p] /\ List(p)' = List(p)
      /\ \A p \in Organizations : hadSlug[p] \subseteq hadSlug'[p]
      /\ SlugsHad'
  BY <1>1, RowWritten
<1>5. /\ raced' \subseteq Organizations /\ raced \subseteq raced'
      /\ \A t \in Requests : Active(t) /\ request[t].org = o => o \in raced'
  BY <1>1 DEF Overlaps, ProvidersTypeOK
<1>6. Acts(r, o)
  BY <1>1, <1>3, <1>4, <1>5 DEF Acts
<1>7. ProvidersTypeOK'
  BY <1>1, <1>3, <1>4, <1>5 DEF ProvidersTypeOK
<1>8. \A s \in Aliases \ cut' : AliasOK(s)'
  <2> TAKE s \in Aliases \ cut'
  <2>1. Continues(r, s) /\ provider'[s] = provider[s]
    BY <1>1, <1>2 DEF Continues
  <2>2. s \notin List(o) /\ s \notin List(o)'
    BY <1>1, <1>4 DEF List
  <2> QED
    BY <1>4, <1>6, <2>1, <2>2, AliasStays
<1> QED
  BY <1>3, <1>4, <1>6, <1>7, <1>8, ActsStep

LEMMA RemoveRowStep ==
    ASSUME ProvidersInv, NEW r \in Requests, NEW o \in Organizations, RemoveRow(r, o)
    PROVE  ProvidersInv'
<1>1. /\ row' = [row EXCEPT ![o] = NoRow] /\ gone' = gone \cup {o} /\ Ends(r) /\ Overlaps(o)
      /\ UNCHANGED <<provider, late, cut, hadSlug>> /\ ProvidersTypeOK /\ SlugsHad
  BY DEF RemoveRow, ProvidersInv
<1>2. ~Written(r) /\ ~Midway(r)
  BY DEF RemoveRow, Written, Midway, Remaking, Saving
<1>3. /\ request' \in [Requests -> IdpRequest]
      /\ \A t \in Requests \ {r} : request'[t] = request[t]
      /\ ~Active(r)' /\ RequestOK(r)'
  BY <1>1, Ended
<1>4. /\ row' \in [Organizations -> Row \cup {NoRow}] /\ row'[o] = NoRow
      /\ \A p \in Organizations \ {o} : row'[p] = row[p] /\ List(p)' = List(p)
      /\ List(o)' = {}
  BY <1>1 DEF ProvidersTypeOK, List
<1>5. /\ raced' \subseteq Organizations /\ raced \subseteq raced'
      /\ \A t \in Requests : Active(t) /\ request[t].org = o => o \in raced'
  BY <1>1 DEF Overlaps, ProvidersTypeOK
<1>6. Acts(r, o)
  BY <1>1, <1>3, <1>4, <1>5 DEF Acts
<1>7. ProvidersTypeOK' /\ SlugsHad'
  BY <1>1, <1>3, <1>4, <1>5 DEF ProvidersTypeOK, UniqueRowSlugs, SlugsHad
<1>8. \A s \in Aliases \ cut' : AliasOK(s)'
  <2> TAKE s \in Aliases \ cut'
  <2>1. Continues(r, s) /\ provider'[s] = provider[s]
    BY <1>1, <1>2 DEF Continues
  <2> QED
    BY <1>1, <1>4, <1>6, <2>1, AliasStays
<1> QED
  BY <1>3, <1>6, <1>7, <1>8, ActsStep

LEMMA SaveRowStep ==
    ASSUME ProvidersInv, NEW r \in Requests, SaveRow(r)
    PROVE  ProvidersInv'
<1>0. PICK o, q : o = request[r].org /\ q = request[r]
  OBVIOUS
<1>1. /\ q.pc = "write" /\ Active(r) /\ ~Midway(r) /\ RequestOK(r) /\ ProvidersTypeOK
      /\ o \in Organizations /\ q.entity \in Row /\ q.seen \in Row \cup {NoRow} /\ q.change \in Change
      /\ q.new \subseteq Aliases /\ q.slug \in Aliases \cup {NoAlias}
  <2>1. /\ q.pc = "write" /\ Active(r) /\ ~Midway(r) /\ RequestOK(r) /\ ProvidersTypeOK
    BY <1>0 DEF SaveRow, Active, Midway, Remaking, ProvidersInv
  <2>2. q.entity # NoRow
    BY <1>0, <2>1 DEF RequestOK, RequestShaped
  <2> QED
    BY <1>0, <2>1, <2>2, RequestTyped
<1>2. o \notin raced => row[o] # NoRow /\ q.seen = row[o] /\ q.entity = Overlay(row[o], q.change)
  BY <1>0, <1>1 DEF RequestOK, RequestInforms
<1>3. CASE q.seen # NoRow /\ row[o] = NoRow /\ Refused(r)
  BY <1>0, <1>1, <1>2, <1>3, RefusedStep
<1>4. CASE Breaks(r)
  BY <1>1, <1>4, BreaksStep
<1>5. ASSUME q.seen = NoRow <=> row[o] = NoRow,
             NEW new \in IF row[o] = NoRow THEN {q.entity} ELSE UpdatedRows(q.entity, q.seen, row[o]),
             FreeSlug(o, new.slug), WritesRow(o, new), Ends(r),
             cut' = cut \cup {s \in Aliases : ByHand(q) /\ (s \in new.list <=> s \notin List(o))},
             UNCHANGED <<provider, late, raced, gone>>
      PROVE  ProvidersInv'
  <2>1. new \in Row
    <3>1. CASE row[o] = NoRow
      BY <1>1, <1>5, <3>1
    <3>2. CASE row[o] # NoRow
      BY <1>1, <1>5, <3>2, RowTyped DEF UpdatedRows, Row
    <3> QED
      BY <3>1, <3>2
  <2>2. /\ row' \in [Organizations -> Row \cup {NoRow}] /\ UniqueRowSlugs'
        /\ hadSlug' \in [Organizations -> SUBSET RowSlugs]
        /\ List(o)' = new.list
        /\ \A p \in Organizations \ {o} : row'[p] = row[p] /\ List(p)' = List(p)
        /\ \A p \in Organizations : hadSlug[p] \subseteq hadSlug'[p]
        /\ SlugsHad'
    BY <1>1, <1>5, <2>1, RowWritten
  <2>3. /\ request' \in [Requests -> IdpRequest]
        /\ \A t \in Requests \ {r} : request'[t] = request[t]
        /\ ~Active(r)' /\ RequestOK(r)'
    BY <1>1, <1>5, Ended
  <2>4. Acts(r, o)
    BY <1>0, <1>1, <1>5, <2>2, <2>3 DEF Acts, ProvidersInv, RequestsAlone
  <2>5. ProvidersTypeOK'
    BY <1>1, <1>5, <2>2, <2>3 DEF ProvidersTypeOK
  <2>6. ASSUME o \notin raced
        PROVE  new.list = IF q.change.sets THEN q.change.list ELSE List(o)
    <3>1. new.list = q.entity.list
      BY <1>2, <1>5, <2>6 DEF UpdatedRows
    <3>2. row[o] \in Row
      BY <1>1, <1>2, <2>6, RowTyped
    <3> QED
      BY <1>1, <1>2, <2>6, <3>1, <3>2, OverlaidTyped DEF List
  <2>7. ASSUME NEW s \in Aliases \ cut'
        PROVE  AliasOK(s)'
    <3>1. AliasOK(s) /\ provider'[s] = provider[s] /\ s \notin cut
      BY <1>5, <2>7 DEF ProvidersInv
    <3>2. CASE o \in raced
      <4>1. Continues(r, s)
        BY <1>0, <1>5, <3>2 DEF Continues
      <4> QED
        BY <1>1, <1>5, <2>2, <2>4, <3>1, <3>2, <4>1, AliasStays
    <3>3. CASE o \notin raced /\ s \notin Touched(r)
      <4>1. Continues(r, s)
        BY <3>3, Untouched
      <4>2. s \in List(o)' <=> s \in List(o)
        <5>1. CASE q.slug = NoAlias
          BY <1>5, <2>2, <2>6, <2>7, <3>3, <5>1 DEF ByHand
        <5>2. CASE q.slug # NoAlias
          <6>1. q.change = Listing((row[o].list \ {q.slug}) \cup q.new) /\ row[o] # NoRow
            BY <1>0, <1>1, <1>2, <3>3, <5>2 DEF RequestOK, RequestInforms
          <6>2. q.change.sets /\ q.change.list = (List(o) \ {q.slug}) \cup q.new
            BY <6>1 DEF Listing, List
          <6>3. s # q.slug /\ s \notin q.new
            BY <1>0, <3>3, <5>2, SentinelsAssumption DEF Touched
          <6> QED
            BY <2>2, <2>6, <3>3, <6>2, <6>3
        <5> QED
          BY <5>1, <5>2
      <4> QED
        BY <1>1, <2>2, <2>4, <3>1, <4>1, <4>2, AliasStays
    <3>4. CASE o \notin raced /\ s \in Touched(r)
      <4>1. q.slug # NoAlias
        BY <1>0, <1>1, <3>4 DEF RequestOK, RequestShaped, Touched
      <4>2. /\ q.change = Listing((row[o].list \ {q.slug}) \cup q.new) /\ row[o] # NoRow
            /\ \A u \in q.new \ cut : Own(o, u)
            /\ q.slug \in q.new \cup cut \/ ~Own(o, q.slug)
        <5>1. Written(r) /\ q.pc \in Saving
          BY <1>0, <1>1, <4>1 DEF Written, Saving
        <5> QED
          BY <1>0, <1>1, <1>2, <3>4, <4>1, <5>1 DEF RequestOK, RequestInforms
      <4>3. List(o)' = (List(o) \ {q.slug}) \cup q.new
        BY <2>2, <2>6, <3>4, <4>2 DEF Listing, List
      <4>4. s \in q.new \/ (s = q.slug /\ s \notin q.new)
        BY <1>0, <3>4 DEF Touched
      <4>5. /\ Own(o, s) <=> s \in q.new
            /\ s \in List(o)' <=> s \in q.new
        BY <3>1, <4>2, <4>3, <4>4
      <4>6. \A t \in Requests : Written(t) /\ request[t].org # o =>
               Written(t)' /\ request'[t] = request[t] /\ Touched(t)' = Touched(t)
        BY <1>0, <2>3 DEF Written, Touched
      <4>7. provider[s] # NoProvider => provider[s].maker \in Organizations
        BY <1>1 DEF ProvidersTypeOK, Provider
      <4>8. AliasMade(s)'
        <5> SUFFICES ASSUME provider[s] # NoProvider PROVE AliasMade(s)'
          BY <3>1 DEF AliasMade
        <5>1. CASE provider[s].maker = o
          BY <3>1, <4>5, <5>1 DEF Own, AliasMade
        <5>2. CASE provider[s].maker # o
          BY <1>5, <2>2, <3>1, <4>6, <4>7, <5>2 DEF AliasOK, AliasMade
        <5> QED
          BY <5>1, <5>2
      <4>9. AliasKept(s)'
        <5> SUFFICES ASSUME NEW p \in Organizations \ raced, s \in List(p)', ~Own(p, s)
                     PROVE  \E t \in Requests : Written(t)' /\ request'[t].org = p /\ s \in Touched(t)'
          BY <1>5, <3>1 DEF AliasKept, Own
        <5>1. p # o
          BY <4>5
        <5> QED
          BY <2>2, <3>1, <4>6, <5>1 DEF AliasOK, AliasKept
      <4>10. AliasMapped(s)'
        BY <2>2, <3>1, <4>7 DEF AliasOK, AliasMapped
      <4>11. AliasSaved(s)'
        <5>1. \A t \in Requests : Midway(t) => Midway(t)' /\ request'[t] = request[t]
          BY <1>1, <2>3 DEF Midway
        <5> QED
          BY <1>5, <3>1, <5>1 DEF AliasOK, AliasSaved
      <4> QED
        BY <4>8, <4>9, <4>10, <4>11 DEF AliasOK
    <3> QED
      BY <3>2, <3>3, <3>4
  <2> QED
    BY <1>1, <2>2, <2>3, <2>4, <2>5, <2>7, ActsStep
<1> QED
  BY <1>0, <1>3, <1>4, <1>5 DEF SaveRow

-----------------------------------------------------------------------------
(* IdentityProviders: the theorems. *)

LEMMA ProvidersInitially == ProvidersInit => ProvidersInv
<1> SUFFICES ASSUME ProvidersInit PROVE ProvidersInv
  OBVIOUS
<1>1. PICK dto \in Dtos : provider = [s \in Aliases |->
         IF \E o \in Organizations : s \in List(o)
         THEN Saved(CHOOSE o \in Organizations : s \in List(o), dto) ELSE NoProvider]
  BY DEF ProvidersInit
<1>2. /\ row \in [Organizations -> Row \cup {NoRow}] /\ UniqueRowSlugs
      /\ \A o, p \in Organizations : o # p => List(o) \cap List(p) = {}
      /\ request = [r \in Requests |-> AtRest("idle")]
      /\ late = [s \in Aliases |-> {}] /\ cut = {} /\ raced = {} /\ gone = {}
      /\ hadSlug = [o \in Organizations |-> IF row[o] = NoRow THEN {} ELSE {row[o].slug}]
  BY DEF ProvidersInit
<1>3. request \in [Requests -> IdpRequest]
      /\ \A r \in Requests : /\ request[r].pc = "idle" /\ request[r].slug = NoAlias
                             /\ request[r].new = {} /\ request[r].todo = {}
  BY <1>2, RestTyped DEF Pcs
<1>4. SlugsHad /\ hadSlug \in [Organizations -> SUBSET RowSlugs]
  BY <1>2 DEF SlugsHad, Row
<1>5. ASSUME NEW s \in Aliases, NEW o \in Organizations, s \in List(o)
      PROVE  /\ provider[s] \in Provider
             /\ provider[s].maker = o
             /\ Names(provider[s].mappers) = provider[s].meant
             /\ \A m \in provider[s].mappers :
                   m.name.kind = "organization" => m.name.slug = row[o].slug
  <2>1. o = CHOOSE p \in Organizations : s \in List(p)
    BY <1>2, <1>5
  <2>2. row[o] # NoRow /\ row[o].slug \in RowSlugs
    BY <1>2, <1>5 DEF List, Row
  <2>3. PICK names : names = BuildMappers(row[o].slug, dto)
    OBVIOUS
  <2>4. names \in SUBSET Name /\ \A n \in names : n.kind = "organization" => n.slug = row[o].slug
    BY <2>2, <2>3, BuiltTyped
  <2>5. PICK mappers : mappers = {[name |-> n, by |-> Earlier] : n \in names}
    OBVIOUS
  <2>6. /\ mappers \in SUBSET Mapper /\ Names(mappers) = names
        /\ \A m \in mappers : m.name \in names
    <3>1. \A n \in names : /\ [name |-> n, by |-> Earlier] \in Mapper
                           /\ [name |-> n, by |-> Earlier].name = n
      BY <2>4 DEF Mapper
    <3>2. mappers \in SUBSET Mapper /\ \A m \in mappers : m.name \in names
      BY <2>5, <3>1
    <3>3. \A n \in names : \E m \in mappers : m.name = n
      BY <2>5, <3>1
    <3>4. Names(mappers) = names
      BY <3>2, <3>3 DEF Names
    <3> QED
      BY <3>2, <3>4
  <2>7. provider[s] = [maker |-> o, meant |-> names, mappers |-> mappers]
    BY <1>1, <1>5, <2>1, <2>3, <2>5 DEF Saved
  <2> QED
    BY <2>4, <2>6, <2>7 DEF Provider
<1>6. \A s \in Aliases : (\A o \in Organizations : s \notin List(o)) => provider[s] = NoProvider
  BY <1>1
<1>7. ProvidersTypeOK
  <2>1. provider \in [Aliases -> Provider \cup {NoProvider}]
    <3>1. \A s \in Aliases : provider[s] \in Provider \cup {NoProvider}
      BY <1>5, <1>6
    <3> QED
      BY <1>1, <3>1
  <2> QED
    BY <1>2, <1>3, <1>4, <2>1 DEF ProvidersTypeOK
<1>8. RequestsAlone /\ \A r \in Requests : RequestOK(r)
  BY <1>3 DEF RequestsAlone, Active, RequestOK, RequestShaped, RequestInforms, RequestRemakes,
              Creating, Remaking, Saving
<1>9. \A s \in Aliases : AliasOK(s)
  <2> TAKE s \in Aliases
  <2>1. CASE \E o \in Organizations : s \in List(o)
    <3>1. PICK o \in Organizations : s \in List(o)
      BY <2>1
    <3>2. /\ provider[s] # NoProvider /\ provider[s].maker = o
          /\ Names(provider[s].mappers) = provider[s].meant
          /\ \A m \in provider[s].mappers :
                m.name.kind = "organization" => m.name.slug = row[o].slug
      BY <1>5, <3>1, SentinelsAssumption
    <3>3. \A p \in Organizations : s \in List(p) => p = o
      BY <1>2, <3>1
    <3>4. row[o].slug \in hadSlug[o]
      BY <1>4, <3>1 DEF SlugsHad, List
    <3> QED
      BY <3>1, <3>2, <3>3, <3>4
         DEF AliasOK, AliasMade, AliasKept, AliasMapped, AliasSaved, Own
  <2>2. CASE \A o \in Organizations : s \notin List(o)
    BY <1>6, <2>2 DEF AliasOK, AliasMade, AliasKept, AliasMapped, AliasSaved
  <2> QED
    BY <2>1, <2>2
<1> QED
  BY <1>4, <1>7, <1>8, <1>9 DEF ProvidersInv

LEMMA StartsStep ==
    ASSUME ProvidersInv, NEW r \in Requests, Starts(r)
    PROVE  ProvidersInv'
BY BeginCreateStep, BeginUpdateStep, BeginDeleteStep, BeginPatchStep, PostRowStep, RemoveRowStep
   DEF Starts

LEMMA ProvidersStay == ProvidersInv /\ UNCHANGED providersVars => ProvidersInv'
<1> SUFFICES ASSUME ProvidersInv, UNCHANGED providersVars PROVE ProvidersInv'
  OBVIOUS
<1>1. ProvidersTypeOK' /\ SlugsHad' /\ RequestsAlone'
  BY DEF ProvidersInv, ProvidersTypeOK, SlugsHad, RequestsAlone, Active, UniqueRowSlugs, providersVars
<1>2. \A r \in Requests : RequestOK(r)'
  BY DEF ProvidersInv, RequestOK, RequestShaped, RequestInforms, RequestRemakes, Active, Written,
         Touched, Own, providersVars
<1>3. \A s \in Aliases \ cut' : AliasOK(s)'
  BY DEF ProvidersInv, AliasOK, AliasMade, AliasKept, AliasMapped, AliasSaved, Own, Written, Midway,
         Touched, List, providersVars
<1> QED
  BY <1>1, <1>2, <1>3 DEF ProvidersInv

LEMMA ProvidersInductive == ProvidersInv /\ [ProvidersNext]_providersVars => ProvidersInv'
<1> SUFFICES ASSUME ProvidersInv, [ProvidersNext]_providersVars PROVE ProvidersInv'
  OBVIOUS
<1>1. ASSUME NEW r \in Requests,
             \/ Starts(r) \/ CreateProvider(r) \/ CreateMapper(r, "createAll") \/ CreateFails(r)
             \/ Undo(r) \/ GetIdp(r) \/ UpdateProvider(r) \/ FindMappers(r) \/ DeleteMapper(r)
             \/ CreateMapper(r, "createMappers") \/ Read(r) \/ DeleteProvider(r)
             \/ PreloadRow(r) \/ SaveFindsRow(r) \/ SaveRow(r) \/ Fails(r)
      PROVE  ProvidersInv'
  BY <1>1, StartsStep, CreateProviderStep, CreateMapperStep, CreateFailsStep, UndoStep, GetIdpStep,
     UpdateProviderStep, FindMappersStep, DeleteMapperStep, ReadStep, DeleteProviderStep,
     PreloadRowStep, SaveFindsRowStep, SaveRowStep, FailsStep
<1>2. ASSUME NEW s \in Aliases, Lands(s) PROVE ProvidersInv'
  BY <1>2, LandsStep
<1> QED
  BY <1>1, <1>2, ProvidersStay DEF ProvidersNext

\* What requests have at work on an alias is over once it has settled.
LEMMA SettledFacts ==
    ASSUME ProvidersInv, NEW s \in Aliases, Settled(s)
    PROVE  /\ AliasOK(s)
           /\ \A r \in Requests : Written(r) => s \notin Touched(r) /\ s \notin request[r].new
<1>1. s \notin cut /\ s # NoAlias /\ \A r \in Requests : Active(r) => s \notin Touched(r)
  BY SentinelsAssumption DEF Settled
<1>2. \A r \in Requests : Written(r) => Active(r)
  BY DEF Written, Active, Remaking, Saving
<1> QED
  BY <1>1, <1>2 DEF ProvidersInv, Touched

LEMMA MatchesIfInv == ProvidersInv => ListMatchesKeycloak
BY SettledFacts DEF ListMatchesKeycloak, AliasOK, AliasMade, AliasKept, Own

LEMMA MappedIfInv == ProvidersInv => OrganizationMapped
BY SettledFacts DEF OrganizationMapped, AliasOK, AliasMapped

LEMMA SavedIfInv == ProvidersInv => MappersAsSaved
<1>1. \A r \in Requests : Midway(r) => Written(r)
  BY DEF Midway, Written
<1> QED
  BY <1>1, SettledFacts DEF MappersAsSaved, AliasOK, AliasSaved

LEMMA ProvidersAlways == ProvidersSpec => []ProvidersInv
BY ProvidersInitially, ProvidersInductive, PTL DEF ProvidersSpec

(* The list of an organization and Keycloak agree on every settled alias,   *)
(* whoever else wrote the row, but for overlapping requests and removals.   *)
THEOREM TheListMatches == ProvidersSpec => []ListMatchesKeycloak
BY ProvidersAlways, MatchesIfInv, PTL

(* A settled provider puts people under slugs that its maker has or had.    *)
THEOREM TheOrganizationIsMapped == ProvidersSpec => []OrganizationMapped
BY ProvidersAlways, MappedIfInv, PTL

(* A settled provider has the mappers last saved for it, unless two         *)
(* requests of its organization overlapped.                                 *)
THEOREM MappersAreAsSaved == ProvidersSpec => []MappersAsSaved
BY ProvidersAlways, SavedIfInv, PTL
=============================================================================
