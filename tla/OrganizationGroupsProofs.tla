---------------------- MODULE OrganizationGroupsProofs ----------------------
(***************************************************************************)
(* Proofs about OrganizationGroups: the default unit, the links to the     *)
(* groups and the groups of the units, for every number of requests, units *)
(* and names.                                                              *)
(***************************************************************************)
EXTENDS OrganizationGroups, TLAPS

-----------------------------------------------------------------------------
(* The inductive invariant. *)

Exist(g) == g \in Groups /\ group[g] # NoGroup

\* Ids are handed out in order, and a group has a parent of the right kind.
TreeOK ==
    /\ \A g \in Groups : g >= next => group[g] = NoGroup
    /\ \A g \in Groups : group[g] # NoGroup =>
            \/ group[g].kind = "org" /\ group[g].parent = NoGroup
            \/ /\ group[g].kind \in {"orgTat", "unitTats"}
               /\ Exist(group[g].parent) /\ group[group[g].parent].kind = "org"
            \/ /\ group[g].kind = "unitTat"
               /\ Exist(group[g].parent) /\ group[group[g].parent].kind = "unitTats"

\* g was handed out for a group of this kind, which may be gone.
Was(g, kind) == g \in Groups /\ g < next /\ (group[g] # NoGroup => group[g].kind = kind)

(* g was handed out for the TAT group of t, and as long as nothing spoiled  *)
(* t it is there.                                                           *)
Tat(t, g) ==
    /\ Was(g, IF t = TheOrg THEN "orgTat" ELSE "unitTat")
    /\ group[g] # NoGroup => t = TheOrg \/ group[g].name = t
    /\ t \notin spoiled => group[g] # NoGroup

RowOK(t, row) ==
    /\ row \in IF t = TheOrg THEN Org ELSE Unit
    /\ t = TheOrg => row.group = NoGroup \/ Was(row.group, "org")
    /\ row.tat = NoGroup \/ Tat(t, row.tat)

Removed(t) == t \in spoiled /\ (t = TheOrg => Targets \subseteq spoiled)

RowsOK == \A t \in Targets : Row(t) # NoRow => RowOK(t, Row(t))

RequestOK(q) ==
    /\ q.pc \in {"save", "delete"} => q.target \in Targets
    /\ q.pc = "save" => RowOK(q.target, q.row)
    /\ q.pc = "delete" => Removed(q.target)

HandlerOK(h) ==
    /\ h.pc # "done" => h.target \in Targets /\ (h.removed => Removed(h.target))
    /\ h.pc \notin {"done", "select"} => RowOK(h.target, h.row)
    /\ h.pc \in {"deleteUnit", "deleteGroup"} <=> h.removed /\ h.pc \notin {"done", "select"}
    /\ h.pc \in {"exists", "insertUnit", "orgGroup", "orgTat", "deleteUnit"} => h.target = TheOrg
    /\ h.pc = "unitTat" => h.target # TheOrg
    /\ h.pc \in {"orgTat", "unitTats", "createTats"} => Was(h.parent, "org")
    /\ h.pc = "unitTat" => Was(h.parent, "unitTats")
    /\ h.pc \in {"unitTats", "createTats"} /\ h.target = TheOrg => Tat(TheOrg, h.tat)
    /\ h.pc = "link" => Tat(h.target, h.tat)
    /\ h.pc = "deleteGroup" =>
            IF h.target = TheOrg THEN h.row.group # NoGroup ELSE h.row.tat # NoGroup

ProcessesOK ==
    \A r \in Requests :
        /\ RequestOK(request[r]) /\ HandlerOK(handler[r])
        /\ request[r].pc \in {"idle", "save"} => handler[r].pc = "done"

\* Until a removal of the organization is asked for, its row and group id stay.
GroupKept ==
    \A r \in Requests :
        request[r].pc = "save" /\ request[r].target = TheOrg =>
            Targets \subseteq spoiled \/ (org # NoRow /\ request[r].row.group = org.group)

\* A unit without its link has a handler that will make it.
Pending ==
    \A u \in Units \ spoiled :
        unit[u] # NoRow /\ unit[u].tat = NoGroup /\ org # NoRow /\ org.group # NoGroup =>
            \E r \in Requests : handler[r].target = u /\ ~handler[r].removed /\ handler[r].pc # "done"

IInv ==
    /\ TypeOK /\ TreeOK /\ RowsOK /\ ProcessesOK /\ GroupKept /\ Pending
    /\ DefaultUnitUnlessSpoiled

-----------------------------------------------------------------------------
(* What a step leaves as it was. *)

\* Ids keep what they were handed out for, and nothing is unspoiled.
Keeps ==
    /\ spoiled \subseteq spoiled'
    /\ \A g : Was(g, "org") => Was(g, "org")'
    /\ \A g : Was(g, "unitTats") => Was(g, "unitTats")'
    /\ \A t \in Targets : \A g : Tat(t, g) => Tat(t, g)'

LEMMA KeptWithoutGroups ==
    ASSUME UNCHANGED <<group, next>>, spoiled \subseteq spoiled'
    PROVE  Keeps /\ (TreeOK => TreeOK')
BY DEF Keeps, Was, Tat, TreeOK, Exist, Groups

LEMMA RowKept ==
    ASSUME Keeps, NEW t \in Targets, NEW row, RowOK(t, row)
    PROVE  RowOK(t, row)'
BY DEF Keeps, RowOK

LEMMA RemovedKept ==
    ASSUME Keeps, NEW t \in Targets, Removed(t)
    PROVE  Removed(t)'
BY DEF Keeps, Removed

LEMMA RequestKept ==
    ASSUME Keeps, NEW q, RequestOK(q)
    PROVE  RequestOK(q)'
BY RowKept, RemovedKept DEF RequestOK

LEMMA HandlerKept ==
    ASSUME Keeps, NEW h, HandlerOK(h)
    PROVE  HandlerOK(h)'
<1>1. /\ h.pc # "done" => h.target \in Targets
      /\ h.pc \notin {"done", "select"} => RowOK(h.target, h.row)
      /\ h.pc # "done" /\ h.removed => Removed(h.target)
  BY DEF HandlerOK
<1>2. (h.pc \notin {"done", "select"} => RowOK(h.target, h.row))'
  BY <1>1, RowKept
<1>3. (h.pc # "done" => h.target \in Targets /\ (h.removed => Removed(h.target)))'
  BY <1>1, RemovedKept
<1>4. TheOrg \in Targets
  BY DEF Targets
<1>5. /\ (h.pc \in {"orgTat", "unitTats", "createTats"} => Was(h.parent, "org"))'
      /\ (h.pc = "unitTat" => Was(h.parent, "unitTats"))'
      /\ (h.pc \in {"unitTats", "createTats"} /\ h.target = TheOrg => Tat(TheOrg, h.tat))'
      /\ (h.pc = "link" => Tat(h.target, h.tat))'
  BY <1>1, <1>4 DEF HandlerOK, Keeps
<1>. QED
  BY <1>2, <1>3, <1>5 DEF HandlerOK

\* The requests and handlers, when one of each may move.
LEMMA ProcessesKept ==
    ASSUME TypeOK, ProcessesOK, Keeps, NEW r \in Requests, NEW q, NEW h,
           request' = [request EXCEPT ![r] = q], handler' = [handler EXCEPT ![r] = h],
           RequestOK(q)', HandlerOK(h)', q.pc \in {"idle", "save"} => h.pc = "done"
    PROVE  ProcessesOK'
<1>. SUFFICES ASSUME NEW s \in Requests
              PROVE  /\ RequestOK(request[s])' /\ HandlerOK(handler[s])'
                     /\ (request[s].pc \in {"idle", "save"} => handler[s].pc = "done")'
  BY DEF ProcessesOK
<1>1. CASE s = r
  BY <1>1 DEF TypeOK
<1>2. CASE s # r
  <2>1. request'[s] = request[s] /\ handler'[s] = handler[s]
    BY <1>2 DEF TypeOK
  <2>2. RequestOK(request[s]) /\ HandlerOK(handler[s])
    BY DEF ProcessesOK
  <2>3. PICK a, b : a = request[s] /\ b = handler[s]
    OBVIOUS
  <2>4. RequestOK(a)' /\ HandlerOK(b)'
    BY <2>2, <2>3, RequestKept, HandlerKept
  <2>. QED
    BY <2>1, <2>3, <2>4 DEF ProcessesOK
<1>. QED
  BY <1>1, <1>2

-----------------------------------------------------------------------------
(* upsertGroup and groups.del. *)

Names3 == Names \cup Units \cup {NoRow}

\* What upsertGroup is asked for: id was handed out for such a group, the parent is
\* of the kind above it, and the TAT group of a unit is not renamed.
Asked(id, parent, kind, name) ==
    /\ name \in Names3
    /\ \/ kind = "org" /\ parent = NoGroup
       \/ kind \in {"orgTat", "unitTats"} /\ Was(parent, "org")
       \/ kind = "unitTat" /\ Was(parent, "unitTats")
    /\ id # NoGroup =>
          /\ Was(id, kind)
          /\ group[id] # NoGroup /\ kind = "unitTat" => group[id].name = name

LEMMA UpsertKeeps ==
    ASSUME TypeOK, TreeOK, NEW id, NEW parent, NEW kind, NEW name,
           NEW g, g = Upserted(id),
           Asked(id, parent, kind, name), Upsertable(id, parent, kind, name),
           Upserts(id, parent, kind, name), UNCHANGED spoiled
    PROVE  /\ group' \in [Groups -> Group \cup {NoGroup}]
           /\ next' \in Nat \ {0}
           /\ TreeOK'
           /\ Keeps
           /\ Was(g, kind)'
           /\ group'[g] # NoGroup
           /\ group'[g].name = name
<1>. USE DEF Groups
<1>0. kind \in {"org", "orgTat", "unitTats", "unitTat"} /\ name \in Names \cup Units \cup {NoRow}
  BY DEF Asked, Names3
<1>1. CASE id = NoGroup
  <2>. PICK n : n = next
    OBVIOUS
  <2>. PICK new : new = [parent |-> parent, kind |-> kind, name |-> name]
    OBVIOUS
  <2>1. /\ n \in Groups /\ n \in Nat \ {0} /\ group[n] = NoGroup /\ g = n
        /\ group' = [group EXCEPT ![n] = new] /\ next' = n + 1
    BY <1>1, BoundAssumption DEF Upserts, Upserted, TreeOK, TypeOK
  <2>2. /\ parent = NoGroup \/ (Exist(parent) /\ parent # n)
        /\ parent \in Groups \cup {NoGroup}
    BY <1>1, <2>1 DEF Asked, Was, Exist, Upsertable, TypeOK
  <2>3. new \in Group /\ new # NoGroup
    BY <1>0, <2>2, SentinelAssumption DEF Group
  <2>4. /\ group' \in [Groups -> Group \cup {NoGroup}] /\ next' \in Nat \ {0}
        /\ group'[n] = new /\ n < next' /\ next < next'
        /\ \A h \in Groups : h # n => group'[h] = group[h]
    BY <2>1, <2>3 DEF TypeOK
  <2>5. Keeps
    <3>1. \A k : \A h : Was(h, k) => Was(h, k)'
      BY <2>1, <2>4 DEF Was, TypeOK
    <3>2. \A t \in Targets : \A h : Tat(t, h) => Tat(t, h)'
      BY <2>1, <2>4, <3>1 DEF Tat, Was, TypeOK
    <3>. QED
      BY <3>1, <3>2 DEF Keeps
  <2>6. TreeOK'
    <3>1. \A h \in Groups : h >= next' => group'[h] = NoGroup
      BY <2>1, <2>4 DEF TreeOK, TypeOK
    <3>2. \A h \in Groups : Exist(h) => Exist(h)' /\ h # n
      BY <2>1, <2>4, <2>3 DEF Exist
    <3>3. ASSUME NEW h \in Groups, group'[h] # NoGroup
          PROVE  \/ group'[h].kind = "org" /\ group'[h].parent = NoGroup
                 \/ /\ group'[h].kind \in {"orgTat", "unitTats"}
                    /\ Exist(group[h].parent)' /\ group'[group'[h].parent].kind = "org"
                 \/ /\ group'[h].kind = "unitTat"
                    /\ Exist(group[h].parent)' /\ group'[group'[h].parent].kind = "unitTats"
      <4>1. CASE h = n
        <5>1. group'[h] = new /\ new.parent = parent /\ new.kind = kind
          BY <4>1, <2>4
        <5>2. \/ kind = "org" /\ parent = NoGroup
              \/ kind \in {"orgTat", "unitTats"} /\ Was(parent, "org") /\ parent # NoGroup
              \/ kind = "unitTat" /\ Was(parent, "unitTats") /\ parent # NoGroup
          BY SentinelAssumption DEF Asked, Was
        <5>. QED
          BY <5>1, <5>2, <2>2, <2>4, <3>2 DEF Was, Exist
      <4>2. CASE h # n
        <5>1. group'[h] = group[h] /\ group[h] # NoGroup
          BY <4>2, <2>4, <3>3
        <5>. QED
          BY <5>1, <2>4, <3>2 DEF TreeOK, Exist
      <4>. QED
        BY <4>1, <4>2
    <3>. QED
      BY <3>1, <3>3 DEF TreeOK
  <2>7. Was(g, kind)'
    BY <2>1, <2>4 DEF Was
  <2>. QED
    BY <2>1, <2>3, <2>4, <2>5, <2>6, <2>7
<1>2. CASE id # NoGroup
  <2>1. /\ id \in Groups /\ id < next /\ g = id /\ next' = next
        /\ group[id] \in Group /\ group[id] # NoGroup /\ group[id].kind = kind
        /\ kind = "unitTat" => group[id].name = name
    BY <1>2 DEF Asked, Was, Upsertable, Upserts, Upserted, TypeOK
  <2>. PICK new : new = [parent |-> group[id].parent, kind |-> group[id].kind, name |-> name]
    OBVIOUS
  <2>2. group' = [group EXCEPT ![id] = new]
    BY <1>2 DEF Upserts
  <2>3. new \in Group /\ new # NoGroup
    BY <1>0, <2>1, SentinelAssumption DEF Group
  <2>4. /\ group' \in [Groups -> Group \cup {NoGroup}] /\ next' \in Nat \ {0}
        /\ \A h \in Groups : group'[h] = NoGroup <=> group[h] = NoGroup
        /\ \A h \in Groups : group[h] # NoGroup =>
              group'[h].kind = group[h].kind /\ group'[h].parent = group[h].parent
        /\ \A h \in Groups : group[h] # NoGroup /\ group[h].kind = "unitTat" =>
              group'[h].name = group[h].name
        /\ group'[id].name = name
    BY <2>1, <2>2, <2>3 DEF TypeOK
  <2>5. \A k : \A h : Was(h, k) => Was(h, k)'
    BY <2>1, <2>4 DEF Was
  <2>6. \A t \in Targets : \A h : Tat(t, h) => Tat(t, h)'
    BY <2>4, <2>5 DEF Tat, Was
  <2>7. TreeOK'
    BY <2>1, <2>4 DEF TreeOK, Exist
  <2>8. Was(id, kind)
    BY <1>2 DEF Asked
  <2>. QED
    BY <2>1, <2>4, <2>5, <2>6, <2>7, <2>8 DEF Keeps
<1>. QED
  BY <1>1, <1>2

(* groups.del of the group of the organization or of the TAT of a unit that *)
(* is to be removed.                                                        *)
LEMMA DeleteKeeps ==
    ASSUME TypeOK, TreeOK, NEW t \in Targets, Removed(t), NEW d \in Groups,
           IF t = TheOrg THEN Was(d, "org") ELSE Tat(t, d),
           group' = [g \in Groups |-> IF Under(g, d) THEN NoGroup ELSE group[g]],
           UNCHANGED <<next, spoiled>>
    PROVE  Keeps /\ TreeOK' /\ group' \in [Groups -> Group \cup {NoGroup}]
<1>1. /\ group' \in [Groups -> Group \cup {NoGroup}]
      /\ \A g \in Groups : group'[g] # NoGroup => group'[g] = group[g] /\ ~Under(g, d)
      /\ \A g \in Groups : group[g] # NoGroup /\ ~Under(g, d) => group'[g] = group[g]
  BY DEF TypeOK
<1>2. \A k : \A g : Was(g, k) => Was(g, k)'
  BY <1>1 DEF Was
<1>3. ASSUME t # TheOrg, NEW g \in Groups, Under(g, d) PROVE g = d
  <2>1. /\ group[g] # NoGroup /\ d # NoGroup
        /\ group[d] # NoGroup => group[d].kind = "unitTat"
    BY <1>3, SentinelAssumption DEF Under, Tat, Was
  <2>2. group[g].parent # d
    BY <2>1 DEF TreeOK, Exist
  <2>3. group[g].kind = "unitTat" => group[group[g].parent].parent # d
    <3>1. group[g].kind = "unitTat" =>
             Exist(group[g].parent) /\ group[group[g].parent].kind = "unitTats"
      BY <2>1 DEF TreeOK
    <3>. QED
      BY <2>1, <3>1 DEF TreeOK, Exist
  <2>. QED
    BY <1>3, <2>2, <2>3 DEF Under
<1>4. ASSUME NEW s \in Targets, NEW g, Tat(s, g) PROVE Tat(s, g)'
  <2>1. s \notin spoiled => ~Under(g, d)
    <3>1. CASE t = TheOrg
      BY <3>1 DEF Removed
    <3>2. CASE t # TheOrg
      BY <3>2, <1>3, <1>4 DEF Removed, Tat, Was
    <3>. QED
      BY <3>1, <3>2
  <2>2. g \in Groups /\ (Was(g, IF s = TheOrg THEN "orgTat" ELSE "unitTat"))'
    BY <1>2, <1>4 DEF Tat, Was
  <2>. QED
    BY <1>1, <1>4, <2>1, <2>2 DEF Tat
<1>5. TreeOK'
  <2>1. \A g \in Groups : g >= next' => group'[g] = NoGroup
    BY <1>1 DEF TreeOK
  <2>2. ASSUME NEW g \in Groups, group'[g] # NoGroup
        PROVE  \/ group'[g].kind = "org" /\ group'[g].parent = NoGroup
               \/ /\ group'[g].kind \in {"orgTat", "unitTats"}
                  /\ Exist(group[g].parent)' /\ group'[group'[g].parent].kind = "org"
               \/ /\ group'[g].kind = "unitTat"
                  /\ Exist(group[g].parent)' /\ group'[group'[g].parent].kind = "unitTats"
    <3>1. group'[g] = group[g] /\ ~Under(g, d) /\ group[g] # NoGroup
      BY <1>1, <2>2
    <3>2. Exist(group[g].parent) => ~Under(group[g].parent, d) \/ group[g].kind # "unitTat"
      BY <3>1 DEF Under, TreeOK, Exist
    <3>3. group[g].kind \in {"orgTat", "unitTats"} => ~Under(group[g].parent, d)
      BY <3>1, SentinelAssumption DEF Under, TreeOK, Exist
    <3>. QED
      BY <1>1, <3>1, <3>2, <3>3 DEF TreeOK, Exist
  <2>. QED
    BY <2>1, <2>2 DEF TreeOK
<1>. QED
  BY <1>1, <1>2, <1>4, <1>5 DEF Keeps

-----------------------------------------------------------------------------
(* Handlers that make a call and go on, or throw. *)

\* The row of the organization keeps its groups.
SameOrg ==
    \/ UNCHANGED org
    \/ org # NoRow /\ org' \in Org /\ org'.group = org.group /\ org'.tat = org.tat

LEMMA RowsKept ==
    ASSUME TypeOK, RowsOK, Keeps, SameOrg, UNCHANGED unit
    PROVE  RowsOK' /\ (org' = NoRow <=> org = NoRow)
<1>0. org' = NoRow <=> org = NoRow
  BY SentinelAssumption DEF SameOrg
<1>. SUFFICES ASSUME NEW t \in Targets, Row(t)' # NoRow PROVE RowOK(t, Row(t))'
  BY <1>0 DEF RowsOK
<1>. PICK row, new : row = Row(t) /\ new = Row(t)'
  OBVIOUS
<1>1. row # NoRow
  BY <1>0 DEF Row
<1>2. RowOK(t, row)'
  BY <1>1, RowKept DEF RowsOK
<1>3. new = row \/ (t = TheOrg /\ new \in Org /\ new.group = row.group /\ new.tat = row.tat)
  BY DEF Row, SameOrg
<1>4. RowOK(t, new)'
  BY <1>2, <1>3 DEF RowOK
<1>. QED
  BY <1>4 DEF RowOK, Row

LEMMA HandlerMoves ==
    ASSUME IInv, NEW r \in Requests, NEW h \in Handler, HandlerOK(h)',
           handler' = [handler EXCEPT ![r] = h], handler[r].pc # "done", h.pc # "done",
           h.target = handler[r].target, h.removed = handler[r].removed,
           SameOrg, UNCHANGED <<unit, request, spoiled>>,
           Keeps, TreeOK', group' \in [Groups -> Group \cup {NoGroup}], next' \in Nat \ {0},
           \/ ~LacksDefault' \/ TheOrg \in spoiled
           \/ /\ UNCHANGED org
              /\ \/ h.target # TheOrg
                 \/ handler[r].pc \notin {"select", "exists", "insertUnit"}
           \/ h.target = TheOrg /\ h.pc \in {"select", "exists", "insertUnit"}
    PROVE  IInv'
<1>. USE DEF IInv
<1>2. RowsOK' /\ (org' = NoRow <=> org = NoRow)
  BY RowsKept
<1>1. TypeOK'
  BY <1>2 DEF TypeOK, SameOrg
<1>3. PICK q : q = request[r]
  OBVIOUS
<1>4. ProcessesOK'
  <2>1. RequestOK(q) /\ (q.pc \in {"idle", "save"} => handler[r].pc = "done")
    BY <1>3 DEF ProcessesOK
  <2>2. RequestOK(q)' /\ request' = [request EXCEPT ![r] = q]
    BY <1>3, <2>1, RequestKept DEF TypeOK
  <2>. QED
    BY <2>1, <2>2, ProcessesKept
<1>5. GroupKept'
  BY <1>2 DEF GroupKept, SameOrg
<1>6. \A s \in Requests : handler'[s] = IF s = r THEN h ELSE handler[s]
  BY DEF TypeOK
<1>7. Pending'
  BY <1>2, <1>6 DEF Pending, SameOrg
<1>8. DefaultUnitUnlessSpoiled'
  BY <1>6 DEF DefaultUnitUnlessSpoiled, LacksDefault
<1>. QED
  BY <1>1, <1>2, <1>4, <1>5, <1>7, <1>8

LEMMA FinishedOK == Finished \in Handler /\ Finished.pc = "done" /\ HandlerOK(Finished)'
BY DEF Finished, Handling, Handler, HandlerOK, Targets

LEMMA ProcessesAfterEnd ==
    ASSUME TypeOK, ProcessesOK, Keeps, NEW r \in Requests, handler[r].pc # "done",
           Ends(r), UNCHANGED request
    PROVE  ProcessesOK' /\ handler' \in [Requests -> Handler]
<1>1. PICK q, h : q = request[r] /\ h = Finished
  OBVIOUS
<1>2. RequestOK(q) /\ (q.pc \in {"idle", "save"} => handler[r].pc = "done")
  BY <1>1 DEF ProcessesOK
<1>3. RequestOK(q)' /\ request' = [request EXCEPT ![r] = q]
  BY <1>1, <1>2, RequestKept DEF TypeOK
<1>4. HandlerOK(h)' /\ handler' = [handler EXCEPT ![r] = h] /\ h \in Handler
  BY <1>1, FinishedOK DEF Ends
<1>5. ProcessesOK'
  BY <1>2, <1>3, <1>4, ProcessesKept
<1>. QED
  BY <1>4, <1>5 DEF TypeOK

\* A handler ends, and changes nothing but perhaps what is spoiled.
LEMMA HandlerEnds ==
    ASSUME IInv, NEW r \in Requests, handler[r].pc # "done", Ends(r),
           SameOrg, UNCHANGED <<unit, request, next>>, UNCHANGED org \/ TheOrg \in spoiled',
           spoiled \subseteq spoiled', spoiled' \subseteq Targets,
           Keeps, TreeOK', group' \in [Groups -> Group \cup {NoGroup}],
           \/ handler[r].target \in spoiled'
           \/ /\ handler[r].target # TheOrg
              /\ org # NoRow => org.group = NoGroup
           \/ /\ handler[r].target \in Units /\ unit[handler[r].target] # NoRow
              /\ unit[handler[r].target].tat # NoGroup
    PROVE  IInv'
<1>. USE DEF IInv
<1>2. RowsOK' /\ (org' = NoRow <=> org = NoRow)
  BY RowsKept
<1>1. TypeOK'
  BY <1>2, FinishedOK DEF TypeOK, Ends, SameOrg
<1>4. ProcessesOK'
  BY ProcessesAfterEnd
<1>5. GroupKept'
  BY <1>2 DEF GroupKept, SameOrg
<1>6. \A s \in Requests : s # r => handler'[s] = handler[s]
  BY DEF TypeOK, Ends
<1>7. Pending'
  BY <1>2, <1>6, SentinelAssumption DEF Pending, SameOrg
<1>8. DefaultUnitUnlessSpoiled'
  BY <1>6, SentinelAssumption DEF DefaultUnitUnlessSpoiled, LacksDefault
<1>. QED
  BY <1>1, <1>2, <1>4, <1>5, <1>7, <1>8

LEMMA Thrown ==
    ASSUME IInv, NEW r \in Requests, handler[r].pc # "done", Throws(r), UNCHANGED request
    PROVE  IInv'
<1>1. handler[r].target \in Targets
  BY DEF IInv, ProcessesOK, HandlerOK
<1>2. /\ spoiled \subseteq spoiled' /\ spoiled' \subseteq Targets
      /\ handler[r].target \in spoiled' /\ UNCHANGED <<org, unit, group, next>> /\ Ends(r)
  BY <1>1 DEF Throws, IInv, TypeOK
<1>3. Keeps /\ TreeOK' /\ group' \in [Groups -> Group \cup {NoGroup}]
  BY <1>2, KeptWithoutGroups DEF IInv, TypeOK
<1>. QED
  BY <1>2, <1>3, HandlerEnds DEF SameOrg

-----------------------------------------------------------------------------
(* The handlers' steps. *)

\* What the invariant says of a handler before its step.
LEMMA HandlerBefore ==
    ASSUME IInv, NEW r \in Requests, handler[r].pc # "done"
    PROVE  /\ HandlerOK(handler[r]) /\ handler[r] \in Handler
           /\ handler[r].target \in Targets
           /\ handler[r].pc # "select" => RowOK(handler[r].target, handler[r].row)
BY DEF IInv, ProcessesOK, HandlerOK, TypeOK

\* A step that touches no group.
LEMMA NoGroupsTouched ==
    ASSUME IInv, UNCHANGED <<group, next, spoiled>>
    PROVE  /\ Keeps /\ TreeOK'
           /\ group' \in [Groups -> Group \cup {NoGroup}] /\ next' \in Nat \ {0}
BY KeptWithoutGroups DEF IInv, TypeOK

LEMMA SelectStep ==
    ASSUME IInv, NEW r \in Requests, Select(r)
    PROVE  IInv'
<1>. PICK t, row : t = handler[r].target /\ row = Row(t)
  OBVIOUS
<1>1. At(r, "select") /\ handler[r].pc = "select" /\ UNCHANGED request
  BY DEF Select, At
<1>2. HandlerOK(handler[r]) /\ handler[r] \in Handler /\ t \in Targets
  BY <1>1, HandlerBefore
<1>3. CASE row = NoRow
  BY <1>1, <1>3, Thrown DEF Select
<1>4. CASE row # NoRow
  <2>1. PICK pc : pc = Selected(handler[r].removed, t)
    OBVIOUS
  <2>2. /\ UNCHANGED <<org, unit, group, next, spoiled>>
        /\ IF pc = "done" THEN Ends(r)
           ELSE Learns(r, pc, row, IF t = TheOrg THEN NoGroup ELSE org.group, NoGroup)
    BY <1>4, <2>1 DEF Select
  <2>3. /\ Keeps /\ TreeOK' /\ group' \in [Groups -> Group \cup {NoGroup}] /\ next' \in Nat \ {0}
        /\ SameOrg
    BY <2>2, NoGroupsTouched DEF SameOrg
  <2>4. handler[r].removed => Removed(t)
    BY <1>1, <1>2 DEF HandlerOK
  <2>5. CASE pc = "done"
    <3>1. t # TheOrg /\ (t \in spoiled \/ org.group = NoGroup)
      BY <2>1, <2>4, <2>5 DEF Selected, Removed
    <3>. QED
      BY <1>1, <2>2, <2>3, <2>5, <3>1, HandlerEnds DEF IInv, TypeOK
  <2>6. CASE pc # "done"
    <3>1. RowOK(t, row) /\ (t # TheOrg => org # NoRow /\ RowOK(TheOrg, org))
      BY <1>2, <1>4 DEF IInv, RowsOK, TypeOK, Row, Targets
    <3>2. PICK h : h = [pc |-> pc, removed |-> handler[r].removed, target |-> t, row |-> row,
                        parent |-> IF t = TheOrg THEN NoGroup ELSE org.group, tat |-> NoGroup]
      OBVIOUS
    <3>3. pc \in {"deleteUnit", "exists", "deleteGroup", "unitTats"}
      BY <2>1, <2>6 DEF Selected
    <3>4. h \in Handler
      BY <1>2, <3>1, <3>2, <3>3 DEF Handler, RowOK, Was
    <3>5. HandlerOK(h)
      <4>1. /\ pc \in {"deleteUnit", "deleteGroup"} <=> handler[r].removed
            /\ pc \in {"exists", "deleteUnit"} <=> t = TheOrg
            /\ pc = "unitTats" => org.group # NoGroup
            /\ pc = "deleteGroup" => row.tat # NoGroup
        BY <2>1, <2>6, <1>2 DEF Selected, Handler
      <4>2. pc = "unitTats" => Was(org.group, "org")
        BY <3>1, <4>1 DEF RowOK
      <4>. QED
        BY <1>2, <2>4, <3>1, <3>2, <3>3, <4>1, <4>2 DEF HandlerOK
    <3>6. HandlerOK(h)'
      BY <2>3, <3>5, HandlerKept
    <3>7. handler' = [handler EXCEPT ![r] = h]
      BY <2>2, <2>6, <3>2 DEF Learns
    <3>8. h.target # TheOrg \/ (h.target = TheOrg /\ h.pc = "exists") \/ TheOrg \in spoiled
      BY <2>1, <2>4, <3>2 DEF Selected, Removed
    <3>. QED
      BY <1>1, <2>2, <2>3, <3>2, <3>3, <3>4, <3>6, <3>7, <3>8, HandlerMoves
  <2>. QED
    BY <2>5, <2>6
<1>. QED
  BY <1>3, <1>4

\* A step that learns, and may have upserted a group.
LEMMA LearningStep ==
    ASSUME IInv, NEW r \in Requests, handler[r].pc \notin {"done", "select"},
           NEW pc \in {"exists", "insertUnit", "orgGroup", "orgTat", "unitTats",
                       "createTats", "unitTat", "link", "deleteUnit", "deleteGroup"},
           NEW parent \in Groups \cup {NoGroup}, NEW tat \in Groups \cup {NoGroup},
           NEW t, t = handler[r].target,
           Learns(r, pc, handler[r].row, parent, tat),
           SameOrg, UNCHANGED <<unit, request, spoiled>>,
           Keeps, TreeOK', group' \in [Groups -> Group \cup {NoGroup}], next' \in Nat \ {0},
           pc \in {"deleteUnit", "deleteGroup"} <=> handler[r].removed,
           pc \in {"exists", "insertUnit", "orgGroup", "orgTat", "deleteUnit"} =>
                handler[r].target = TheOrg,
           pc = "unitTat" => handler[r].target # TheOrg,
           pc \in {"orgTat", "unitTats", "createTats"} => Was(parent, "org")',
           pc = "unitTat" => Was(parent, "unitTats")',
           pc \in {"unitTats", "createTats"} /\ t = TheOrg => Tat(TheOrg, tat)',
           pc = "link" => Tat(t, tat)',
           pc # "deleteGroup",
           \/ ~LacksDefault' \/ TheOrg \in spoiled
           \/ UNCHANGED org /\ handler[r].pc \notin {"exists", "insertUnit"}
           \/ handler[r].target = TheOrg /\ pc = "insertUnit"
    PROVE  IInv'
<1>. PICK old : old = handler[r]
  OBVIOUS
<1>1. HandlerOK(old) /\ old \in Handler /\ old.pc \notin {"done", "select"}
  BY HandlerBefore
<1>2. HandlerOK(old)'
  BY <1>1, HandlerKept
<1>. PICK h : h = [pc |-> pc, removed |-> old.removed, target |-> old.target, row |-> old.row,
                   parent |-> parent, tat |-> tat]
  OBVIOUS
<1>3. handler' = [handler EXCEPT ![r] = h] /\ h \in Handler
  BY <1>1 DEF Learns, Handler
<1>4. HandlerOK(h)'
  BY <1>2, <1>1 DEF HandlerOK
<1>5. h.pc = pc /\ h.target = handler[r].target /\ h.removed = handler[r].removed
  OBVIOUS
<1>. QED
  BY <1>1, <1>3, <1>4, <1>5, HandlerMoves

LEMMA ExistsStep ==
    ASSUME IInv, NEW r \in Requests, Exists(r)
    PROVE  IInv'
<1>1. /\ handler[r].pc = "exists" /\ UNCHANGED <<org, unit, group, next, request, spoiled>>
      /\ HandlerOK(handler[r]) /\ handler[r] \in Handler
  BY HandlerBefore DEF Exists, At
<1>2. /\ Keeps /\ TreeOK' /\ group' \in [Groups -> Group \cup {NoGroup}] /\ next' \in Nat \ {0}
      /\ SameOrg
  BY <1>1, NoGroupsTouched DEF SameOrg
<1>3. PICK pc : pc = IF HasDefault THEN "orgGroup" ELSE "insertUnit"
  OBVIOUS
<1>4. Learns(r, pc, handler[r].row, handler[r].parent, handler[r].tat)
  BY <1>3 DEF Exists, Goes
<1>5. /\ handler[r].target = TheOrg /\ ~handler[r].removed
      /\ handler[r].parent \in Groups \cup {NoGroup} /\ handler[r].tat \in Groups \cup {NoGroup}
  BY <1>1 DEF HandlerOK, Handler
<1>6. pc \in {"orgGroup", "insertUnit"} /\ (~LacksDefault' \/ pc = "insertUnit")
  BY <1>1, <1>3 DEF LacksDefault, HasDefault
<1>. QED
  BY <1>1, <1>2, <1>4, <1>5, <1>6, LearningStep

LEMMA InsertUnitStep ==
    ASSUME IInv, NEW r \in Requests, InsertUnit(r)
    PROVE  IInv'
<1>1. /\ handler[r].pc = "insertUnit" /\ UNCHANGED request
      /\ HandlerOK(handler[r]) /\ handler[r] \in Handler
  BY HandlerBefore DEF InsertUnit, At
<1>2. CASE ~LacksDefault /\ Throws(r)
  BY <1>1, <1>2, Thrown
<1>3. CASE /\ LacksDefault /\ org' = [org EXCEPT !.default = "there"]
           /\ Goes(r, "orgGroup") /\ UNCHANGED <<unit, group, next, spoiled>>
  <2>1. /\ Keeps /\ TreeOK' /\ group' \in [Groups -> Group \cup {NoGroup}] /\ next' \in Nat \ {0}
    BY <1>3, NoGroupsTouched
  <2>2. org \in Org
    BY <1>3 DEF LacksDefault, IInv, TypeOK
  <2>3. SameOrg /\ ~LacksDefault'
    BY <1>3, <2>2 DEF SameOrg, LacksDefault, Org, Defaults
  <2>4. /\ handler[r].target = TheOrg /\ ~handler[r].removed
        /\ handler[r].parent \in Groups \cup {NoGroup} /\ handler[r].tat \in Groups \cup {NoGroup}
    BY <1>1 DEF HandlerOK, Handler
  <2>. QED
    BY <1>1, <1>3, <2>1, <2>3, <2>4, LearningStep DEF Goes
<1>. QED
  BY <1>2, <1>3 DEF InsertUnit

LEMMA OrgGroupStep ==
    ASSUME IInv, NEW r \in Requests, OrgGroup(r)
    PROVE  IInv'
<1>. PICK row : row = handler[r].row
  OBVIOUS
<1>1. /\ handler[r].pc = "orgGroup" /\ UNCHANGED request
      /\ HandlerOK(handler[r]) /\ handler[r] \in Handler
  BY HandlerBefore DEF OrgGroup, At
<1>2. CASE ~Upsertable(row.group, NoGroup, "org", row.name) /\ Throws(r)
  BY <1>1, <1>2, Thrown
<1>3. CASE /\ Upsertable(row.group, NoGroup, "org", row.name)
           /\ Upserts(row.group, NoGroup, "org", row.name)
           /\ Learns(r, "orgTat", row, Upserted(row.group), NoGroup)
           /\ UNCHANGED <<org, unit, spoiled>>
  <2>1. /\ handler[r].target = TheOrg /\ ~handler[r].removed
        /\ RowOK(TheOrg, row) /\ row \in Org
    BY <1>1 DEF HandlerOK, RowOK
  <2>2. Asked(row.group, NoGroup, "org", row.name)
    BY <2>1 DEF Asked, RowOK, Names3, Org
  <2>. PICK g : g = Upserted(row.group)
    OBVIOUS
  <2>3. /\ Keeps /\ TreeOK' /\ group' \in [Groups -> Group \cup {NoGroup}] /\ next' \in Nat \ {0}
        /\ Was(g, "org")'
    BY <1>3, <2>2, UpsertKeeps DEF IInv
  <2>4. SameOrg
    BY <1>3 DEF SameOrg
  <2>. QED
    BY <1>1, <1>3, <2>1, <2>3, <2>4, LearningStep DEF Was
<1>. QED
  BY <1>2, <1>3 DEF OrgGroup

LEMMA OrgTatStep ==
    ASSUME IInv, NEW r \in Requests, OrgTat(r)
    PROVE  IInv'
<1>. PICK row, parent : row = handler[r].row /\ parent = handler[r].parent
  OBVIOUS
<1>1. /\ handler[r].pc = "orgTat" /\ UNCHANGED request
      /\ HandlerOK(handler[r]) /\ handler[r] \in Handler
  BY HandlerBefore DEF OrgTat, At
<1>2. CASE ~Upsertable(row.tat, parent, "orgTat", row.name) /\ Throws(r)
  BY <1>1, <1>2, Thrown
<1>3. CASE /\ Upsertable(row.tat, parent, "orgTat", row.name)
           /\ Upserts(row.tat, parent, "orgTat", row.name)
           /\ Learns(r, "unitTats", row, parent, Upserted(row.tat))
           /\ UNCHANGED <<org, unit, spoiled>>
  <2>1. /\ handler[r].target = TheOrg /\ ~handler[r].removed
        /\ RowOK(TheOrg, row) /\ row \in Org /\ Was(parent, "org")
    BY <1>1 DEF HandlerOK, RowOK
  <2>2. Asked(row.tat, parent, "orgTat", row.name)
    BY <2>1 DEF Asked, RowOK, Names3, Org, Tat
  <2>. PICK g : g = Upserted(row.tat)
    OBVIOUS
  <2>3. /\ Keeps /\ TreeOK' /\ group' \in [Groups -> Group \cup {NoGroup}] /\ next' \in Nat \ {0}
        /\ Was(g, "orgTat")' /\ group'[g] # NoGroup
    BY <1>3, <2>2, UpsertKeeps DEF IInv
  <2>4. Was(parent, "org")' /\ parent \in Groups
    BY <2>1, <2>3 DEF Keeps, Was
  <2>5. Tat(TheOrg, g)' /\ g \in Groups
    BY <2>3 DEF Tat, Was
  <2>6. SameOrg
    BY <1>3 DEF SameOrg
  <2>. QED
    BY <1>1, <1>3, <2>1, <2>3, <2>4, <2>5, <2>6, LearningStep
<1>. QED
  BY <1>2, <1>3 DEF OrgTat

\* Once "Unit TATs" is group g.
LEMMA HasTatsStep ==
    ASSUME IInv, NEW r \in Requests, handler[r].pc \in {"unitTats", "createTats"},
           NEW g, Was(g, "unitTats")', HasTats(r, g), UNCHANGED <<org, unit, request, spoiled>>,
           Keeps, TreeOK', group' \in [Groups -> Group \cup {NoGroup}], next' \in Nat \ {0}
    PROVE  IInv'
<1>. PICK t, tat, pc : /\ t = handler[r].target /\ tat = handler[r].tat
                       /\ pc = IF t = TheOrg THEN "link" ELSE "unitTat"
  OBVIOUS
<1>1. HandlerOK(handler[r]) /\ handler[r] \in Handler
  BY HandlerBefore
<1>2. t \in Targets /\ ~handler[r].removed /\ (t = TheOrg => Tat(TheOrg, tat))
  BY <1>1 DEF HandlerOK
<1>3. t = TheOrg => Tat(TheOrg, tat)'
  BY <1>2 DEF Keeps
<1>4. tat \in Groups \cup {NoGroup} /\ g \in Groups
  BY <1>1 DEF Handler, Was
<1>5. SameOrg
  BY DEF SameOrg
<1>. QED
  BY <1>1, <1>2, <1>3, <1>4, <1>5, LearningStep DEF HasTats

LEMMA UnitTatsStep ==
    ASSUME IInv, NEW r \in Requests, UnitTats(r)
    PROVE  IInv'
<1>. PICK parent, tat, t :
        parent = handler[r].parent /\ tat = handler[r].tat /\ t = handler[r].target
  OBVIOUS
<1>1. /\ handler[r].pc = "unitTats" /\ UNCHANGED request
      /\ HandlerOK(handler[r]) /\ handler[r] \in Handler
  BY HandlerBefore DEF UnitTats, At
<1>2. CASE group[parent] = NoGroup /\ Throws(r)
  BY <1>1, <1>2, Thrown
<1>3. CASE UNCHANGED <<org, unit, group, next, spoiled>>
  <2>1. /\ Keeps /\ TreeOK' /\ group' \in [Groups -> Group \cup {NoGroup}] /\ next' \in Nat \ {0}
        /\ SameOrg
    BY <1>3, NoGroupsTouched DEF SameOrg
  <2>2. CASE Goes(r, "createTats")
    <3>1. /\ ~handler[r].removed /\ Was(parent, "org") /\ (t = TheOrg => Tat(TheOrg, tat))
          /\ tat \in Groups \cup {NoGroup} /\ parent \in Groups \cup {NoGroup}
      BY <1>1 DEF HandlerOK, Handler
    <3>2. Was(parent, "org")' /\ (t = TheOrg => Tat(TheOrg, tat)')
      BY <2>1, <3>1 DEF Keeps, Targets
    <3>. QED
      BY <1>1, <1>3, <2>1, <2>2, <3>1, <3>2, LearningStep DEF Goes
  <2>3. ASSUME NEW g \in Groups, HasTats(r, g),
               group[g] = [parent |-> parent, kind |-> "unitTats", name |-> NoRow]
        PROVE  IInv'
    <3>0. parent \in Groups \cup {NoGroup}
      BY <1>1 DEF Handler
    <3>1. group[g] # NoGroup
      BY <2>3, <3>0, SentinelAssumption DEF Group
    <3>2. Was(g, "unitTats")
      BY <2>3, <3>1 DEF Was, IInv, TreeOK, TypeOK, Groups
    <3>3. Was(g, "unitTats")'
      BY <2>1, <3>2 DEF Keeps
    <3>. QED
      BY <1>1, <1>3, <2>1, <2>3, <3>3, HasTatsStep
  <2>. QED
    BY <1>1, <1>2, <2>2, <2>3 DEF UnitTats
<1>. QED
  BY <1>2, <1>3 DEF UnitTats

LEMMA CreateTatsStep ==
    ASSUME IInv, NEW r \in Requests, CreateTats(r)
    PROVE  IInv'
<1>. PICK parent, g : parent = handler[r].parent /\ g = next
  OBVIOUS
<1>1. /\ handler[r].pc = "createTats" /\ UNCHANGED request
      /\ HandlerOK(handler[r]) /\ handler[r] \in Handler
  BY HandlerBefore DEF CreateTats, At
<1>2. CASE ~Upsertable(NoGroup, parent, "unitTats", NoRow) /\ Throws(r)
  BY <1>1, <1>2, Thrown
<1>3. CASE /\ Upsertable(NoGroup, parent, "unitTats", NoRow)
           /\ Upserts(NoGroup, parent, "unitTats", NoRow)
           /\ HasTats(r, g)
           /\ UNCHANGED <<org, unit, spoiled>>
  <2>1. Asked(NoGroup, parent, "unitTats", NoRow)
    BY <1>1 DEF Asked, HandlerOK, Names3
  <2>2. g = Upserted(NoGroup)
    BY DEF Upserted
  <2>3. /\ Keeps /\ TreeOK' /\ group' \in [Groups -> Group \cup {NoGroup}] /\ next' \in Nat \ {0}
        /\ Was(g, "unitTats")'
    BY <1>3, <2>1, <2>2, UpsertKeeps DEF IInv
  <2>. QED
    BY <1>1, <1>3, <2>3, HasTatsStep
<1>. QED
  BY <1>2, <1>3 DEF CreateTats

LEMMA UnitTatStep ==
    ASSUME IInv, NEW r \in Requests, UnitTat(r)
    PROVE  IInv'
<1>. PICK u, row, parent :
        u = handler[r].target /\ row = handler[r].row /\ parent = handler[r].parent
  OBVIOUS
<1>1. /\ handler[r].pc = "unitTat" /\ UNCHANGED request
      /\ HandlerOK(handler[r]) /\ handler[r] \in Handler
  BY HandlerBefore DEF UnitTat, At
<1>2. CASE ~Upsertable(row.tat, parent, "unitTat", u) /\ Throws(r)
  BY <1>1, <1>2, Thrown
<1>3. CASE /\ Upsertable(row.tat, parent, "unitTat", u)
           /\ Upserts(row.tat, parent, "unitTat", u)
           /\ Learns(r, "link", row, parent, Upserted(row.tat))
           /\ UNCHANGED <<org, unit, spoiled>>
  <2>1. /\ u \in Units /\ u # TheOrg /\ ~handler[r].removed
        /\ RowOK(u, row) /\ Was(parent, "unitTats")
    BY <1>1 DEF HandlerOK, Targets
  <2>2. Asked(row.tat, parent, "unitTat", u)
    BY <2>1 DEF Asked, RowOK, Names3, Tat
  <2>. PICK g : g = Upserted(row.tat)
    OBVIOUS
  <2>3. /\ Keeps /\ TreeOK' /\ group' \in [Groups -> Group \cup {NoGroup}] /\ next' \in Nat \ {0}
        /\ Was(g, "unitTat")' /\ group'[g] # NoGroup /\ group'[g].name = u
    BY <1>3, <2>2, UpsertKeeps DEF IInv
  <2>4. Tat(u, g)' /\ g \in Groups /\ parent \in Groups
    BY <2>1, <2>3 DEF Tat, Was
  <2>5. SameOrg
    BY <1>3 DEF SameOrg
  <2>. QED
    BY <1>1, <1>3, <2>1, <2>3, <2>4, <2>5, LearningStep
<1>. QED
  BY <1>2, <1>3 DEF UnitTat

LEMMA DeleteUnitStep ==
    ASSUME IInv, NEW r \in Requests, DeleteUnit(r)
    PROVE  IInv'
<1>. PICK row : row = handler[r].row
  OBVIOUS
<1>1. /\ handler[r].pc = "deleteUnit" /\ UNCHANGED <<unit, group, next, request, spoiled>>
      /\ HandlerOK(handler[r]) /\ handler[r] \in Handler
  BY HandlerBefore DEF DeleteUnit, At
<1>2. /\ handler[r].target = TheOrg /\ handler[r].removed /\ TheOrg \in spoiled
      /\ RowOK(TheOrg, row)
  BY <1>1 DEF HandlerOK, Removed
<1>3. /\ Keeps /\ TreeOK' /\ group' \in [Groups -> Group \cup {NoGroup}] /\ next' \in Nat \ {0}
  BY <1>1, NoGroupsTouched
<1>4. SameOrg
  <2>1. CASE org # NoRow /\ org' = [org EXCEPT !.default = "missing"]
    BY <2>1 DEF SameOrg, IInv, TypeOK, Org, Defaults
  <2>2. CASE UNCHANGED org
    BY <2>2 DEF SameOrg
  <2>. QED
    BY <2>1, <2>2 DEF DeleteUnit
<1>5. CASE row.group = NoGroup
  BY <1>1, <1>2, <1>3, <1>4, <1>5, HandlerEnds DEF DeleteUnit, IInv, TypeOK
<1>6. CASE row.group # NoGroup
  <2>1. Learns(r, "deleteGroup", row, handler[r].parent, handler[r].tat)
    BY <1>6 DEF DeleteUnit, Goes
  <2>2. PICK h : h = [pc |-> "deleteGroup", removed |-> handler[r].removed,
                      target |-> handler[r].target, row |-> row,
                      parent |-> handler[r].parent, tat |-> handler[r].tat]
    OBVIOUS
  <2>3. handler' = [handler EXCEPT ![r] = h] /\ h \in Handler
    BY <1>1, <2>1, <2>2 DEF Learns, Handler
  <2>4. HandlerOK(h)
    BY <1>1, <1>2, <1>6, <2>2 DEF HandlerOK
  <2>5. HandlerOK(h)'
    BY <1>3, <2>4, HandlerKept
  <2>. QED
    BY <1>1, <1>2, <1>3, <1>4, <2>2, <2>3, <2>5, HandlerMoves
<1>. QED
  BY <1>5, <1>6

LEMMA DeleteGroupStep ==
    ASSUME IInv, NEW r \in Requests, DeleteGroup(r)
    PROVE  IInv'
<1>. PICK t, row, d :
        /\ t = handler[r].target /\ row = handler[r].row
        /\ d = IF t = TheOrg THEN row.group ELSE row.tat
  OBVIOUS
<1>1. /\ handler[r].pc = "deleteGroup" /\ Ends(r) /\ UNCHANGED <<org, unit, next, request, spoiled>>
      /\ group' = [g \in Groups |-> IF Under(g, d) THEN NoGroup ELSE group[g]]
      /\ HandlerOK(handler[r]) /\ t \in Targets
  BY HandlerBefore DEF DeleteGroup, At
<1>2. Removed(t) /\ RowOK(t, row) /\ d # NoGroup
  BY <1>1 DEF HandlerOK
<1>3. d \in Groups /\ IF t = TheOrg THEN Was(d, "org") ELSE Tat(t, d)
  BY <1>2 DEF RowOK, Tat, Was
<1>4. Keeps /\ TreeOK' /\ group' \in [Groups -> Group \cup {NoGroup}]
  BY <1>1, <1>2, <1>3, DeleteKeeps DEF IInv
<1>5. t \in spoiled /\ SameOrg
  BY <1>1, <1>2 DEF Removed, SameOrg
<1>. QED
  BY <1>1, <1>4, <1>5, HandlerEnds DEF IInv, TypeOK

LEMMA HandlerFailsStep ==
    ASSUME IInv, NEW r \in Requests, HandlerFails(r)
    PROVE  IInv'
BY Thrown DEF HandlerFails

\* Writing a row: what it needs, and what it gives.
LEMMA RowsAfter ==
    ASSUME TypeOK, RowsOK, Keeps, NEW t \in Targets, NEW row,
           row = NoRow \/ RowOK(t, row), SetRow(t, row)
    PROVE  /\ RowsOK'
           /\ org' \in Org \cup {NoRow} /\ unit' \in [Units -> Unit \cup {NoRow}]
<1>1. row \in IF t = TheOrg THEN Org \cup {NoRow} ELSE Unit \cup {NoRow}
  BY DEF RowOK
<1>2. org' \in Org \cup {NoRow} /\ unit' \in [Units -> Unit \cup {NoRow}]
  BY <1>1 DEF SetRow, TypeOK, Targets
<1>3. ASSUME NEW s \in Targets, Row(s)' # NoRow PROVE RowOK(s, Row(s))'
  <2>. PICK old, new : old = Row(s) /\ new = Row(s)'
    OBVIOUS
  <2>1. new = IF s = t THEN row ELSE old
    BY SentinelAssumption DEF Row, SetRow, TypeOK, Targets
  <2>2. RowOK(s, new)
    BY <1>3, <2>1 DEF RowsOK
  <2>3. RowOK(s, new)'
    BY <2>2, RowKept
  <2>. QED
    BY <2>3 DEF RowOK, Row
<1>. QED
  BY <1>2, <1>3 DEF RowsOK

LEMMA LinkStep ==
    ASSUME IInv, NEW r \in Requests, Link(r)
    PROVE  IInv'
<1>. PICK t, tat : t = handler[r].target /\ tat = handler[r].tat
  OBVIOUS
<1>1. /\ handler[r].pc = "link" /\ Ends(r) /\ UNCHANGED <<group, next, request, spoiled>>
      /\ HandlerOK(handler[r]) /\ t \in Targets
  BY HandlerBefore DEF Link, At
<1>2. Tat(t, tat) /\ tat \in Groups /\ tat # NoGroup
  BY <1>1, SentinelAssumption DEF HandlerOK, Tat, Was
<1>3. /\ Keeps /\ TreeOK' /\ group' \in [Groups -> Group \cup {NoGroup}] /\ next' \in Nat \ {0}
  BY <1>1, NoGroupsTouched
<1>4. ProcessesOK' /\ handler' \in [Requests -> Handler]
  BY <1>1, <1>3, ProcessesAfterEnd DEF IInv
<1>5. \A s \in Requests : s # r => handler'[s] = handler[s]
  BY <1>1 DEF IInv, TypeOK, Ends
<1>6. CASE Row(t) = NoRow
  <2>1. UNCHANGED <<org, unit>> /\ SameOrg
    BY <1>6 DEF Link, SameOrg
  <2>2. RowsOK' /\ TypeOK'
    BY <1>1, <1>4, <2>1, <1>3, RowsKept DEF IInv, TypeOK
  <2>3. GroupKept' /\ Pending' /\ DefaultUnitUnlessSpoiled'
    BY <1>1, <1>5, <1>6, <2>1, SentinelAssumption
    DEF IInv, GroupKept, Pending, DefaultUnitUnlessSpoiled, LacksDefault, Row
  <2>. QED
    BY <1>3, <1>4, <2>2, <2>3 DEF IInv
<1>7. CASE Row(t) # NoRow
  <2>1. PICK old, new : old = Row(t) /\ new = [Row(t) EXCEPT !.tat = tat]
    OBVIOUS
  <2>2. RowOK(t, old)
    BY <1>1, <1>7, <2>1 DEF IInv, RowsOK
  <2>3. /\ new \in IF t = TheOrg THEN Org ELSE Unit
        /\ new.tat = tat
        /\ t = TheOrg => new.group = old.group /\ new.default = old.default
    BY <1>2, <2>1, <2>2 DEF RowOK, Org, Unit
  <2>4. RowOK(t, new) /\ new # NoRow /\ SetRow(t, new)
    BY <1>2, <1>7, <2>1, <2>2, <2>3, SentinelAssumption DEF RowOK, Link
  <2>5. RowsOK' /\ org' \in Org \cup {NoRow} /\ unit' \in [Units -> Unit \cup {NoRow}]
    BY <1>1, <1>3, <2>4, RowsAfter DEF IInv
  <2>6. /\ t = TheOrg => org = old /\ org' = new /\ UNCHANGED unit
        /\ t # TheOrg => /\ UNCHANGED org
                         /\ \A u \in Units : unit'[u] = IF u = t THEN new ELSE unit[u]
    BY <2>1, <2>4 DEF SetRow, Row, IInv, TypeOK
  <2>7. TypeOK'
    BY <1>1, <1>3, <1>4, <1>7, <2>1, <2>4, <2>5, <2>6 DEF IInv, TypeOK, Targets, Row
  <2>8. GroupKept'
    BY <1>1, <1>7, <2>1, <2>3, <2>4, <2>6 DEF IInv, GroupKept
  <2>9. Pending'
    <3>. SUFFICES ASSUME NEW u \in Units, u \notin spoiled, unit'[u] # NoRow,
                         unit'[u].tat = NoGroup, org' # NoRow, org'.group # NoGroup
                  PROVE  \E s \in Requests : /\ handler'[s].target = u /\ ~handler'[s].removed
                                             /\ handler'[s].pc # "done"
      BY <1>1 DEF Pending
    <3>1. u # t /\ unit[u] = unit'[u]
      BY <1>2, <2>3, <2>6, SentinelAssumption
    <3>2. org # NoRow /\ org.group # NoGroup
      BY <1>7, <2>1, <2>3, <2>6
    <3>3. PICK s \in Requests : handler[s].target = u /\ ~handler[s].removed /\ handler[s].pc # "done"
      BY <3>1, <3>2 DEF IInv, Pending
    <3>. QED
      BY <1>5, <3>1, <3>3
  <2>10. DefaultUnitUnlessSpoiled'
    BY <1>1, <1>5, <1>7, <2>1, <2>3, <2>6 DEF IInv, DefaultUnitUnlessSpoiled, LacksDefault
  <2>. QED
    BY <1>3, <1>4, <2>5, <2>7, <2>8, <2>9, <2>10 DEF IInv
<1>. QED
  BY <1>6, <1>7

-----------------------------------------------------------------------------
(* The requests' steps. *)

\* A request moves, and has not begun a handler before it emits its event.
LEMMA ProcessesAfterRequest ==
    ASSUME TypeOK, ProcessesOK, Keeps, NEW r \in Requests, NEW q \in Request,
           request' = [request EXCEPT ![r] = q], RequestOK(q)',
           \/ UNCHANGED handler /\ (q.pc \in {"idle", "save"} => handler[r].pc = "done")
           \/ /\ q.pc \notin {"idle", "save"}
              /\ \E removed \in BOOLEAN, t \in Targets :
                    Emits(r, removed, t) /\ (removed => Removed(t)')
    PROVE  /\ ProcessesOK' /\ handler' \in [Requests -> Handler]
           /\ request' \in [Requests -> Request]
<1>1. CASE UNCHANGED handler /\ (q.pc \in {"idle", "save"} => handler[r].pc = "done")
  <2>1. PICK h : h = handler[r]
    OBVIOUS
  <2>2. HandlerOK(h) /\ handler' = [handler EXCEPT ![r] = h]
    BY <1>1, <2>1 DEF ProcessesOK, TypeOK
  <2>3. HandlerOK(h)'
    BY <2>2, HandlerKept
  <2>. QED
    BY <1>1, <2>1, <2>2, <2>3, ProcessesKept DEF TypeOK
<1>2. ASSUME NEW removed \in BOOLEAN, NEW t \in Targets, Emits(r, removed, t),
             removed => Removed(t)', q.pc \notin {"idle", "save"}
      PROVE  ProcessesOK' /\ handler' \in [Requests -> Handler]
  <2>1. PICK h : h = Handling("select", removed, t)
    OBVIOUS
  <2>2. h \in Handler /\ HandlerOK(h)' /\ handler' = [handler EXCEPT ![r] = h]
    BY <1>2, <2>1 DEF Handling, Handler, HandlerOK, Emits
  <2>. QED
    BY <1>2, <2>2, ProcessesKept DEF TypeOK
<1>. QED
  BY <1>1, <1>2 DEF TypeOK

LEMMA AnswerOK == Resting("done") \in Request /\ Resting("done").pc = "done"
                  /\ RequestOK(Resting("done"))'
BY DEF Resting, Request, RequestOK

\* What the invariant says of a request before its step.
LEMMA RequestBefore ==
    ASSUME IInv, NEW r \in Requests
    PROVE  /\ RequestOK(request[r]) /\ request[r] \in Request
           /\ request[r].pc \in {"idle", "save"} => handler[r].pc = "done"
           /\ request[r].pc \in {"save", "delete"} => request[r].target \in Targets
BY DEF IInv, ProcessesOK, RequestOK, TypeOK

LEMMA CreateOrgStep ==
    ASSUME IInv, NEW r \in Requests, NEW name \in Names, CreateOrg(r, name)
    PROVE  IInv'
<1>. PICK new : new = [name |-> name, group |-> NoGroup, tat |-> NoGroup, default |-> "missing"]
  OBVIOUS
<1>1. /\ request[r].pc = "idle" /\ handler[r].pc = "done" /\ org = NoRow /\ org' = new
      /\ Answers(r) /\ Emits(r, FALSE, TheOrg) /\ UNCHANGED <<unit, group, next, spoiled>>
      /\ TheOrg \in Targets
  BY RequestBefore DEF CreateOrg, Targets
<1>2. /\ Keeps /\ TreeOK' /\ group' \in [Groups -> Group \cup {NoGroup}] /\ next' \in Nat \ {0}
  BY <1>1, NoGroupsTouched
<1>3. ProcessesOK' /\ handler' \in [Requests -> Handler] /\ request' \in [Requests -> Request]
  BY <1>1, <1>2, AnswerOK, ProcessesAfterRequest DEF IInv, Answers
<1>4. RowOK(TheOrg, new)
  BY DEF RowOK, Org, Defaults
<1>5. RowsOK' /\ org' \in Org \cup {NoRow} /\ unit' \in [Units -> Unit \cup {NoRow}]
  BY <1>1, <1>2, <1>4, RowsAfter DEF IInv, SetRow
<1>6. TypeOK'
  BY <1>1, <1>2, <1>3, <1>5 DEF IInv, TypeOK
<1>7. GroupKept'
  BY <1>1 DEF IInv, TypeOK, GroupKept, Answers, Resting
<1>8. Pending'
  BY <1>1 DEF IInv, TypeOK, Pending
<1>9. DefaultUnitUnlessSpoiled'
  BY <1>1 DEF IInv, TypeOK, DefaultUnitUnlessSpoiled, LacksDefault, Emits, Handling
<1>. QED
  BY <1>2, <1>3, <1>5, <1>6, <1>7, <1>8, <1>9 DEF IInv

\* The handlers that were under way are when r, which had none, emits its event.
LEMMA EmittedBeside ==
    ASSUME TypeOK, NEW r \in Requests, handler[r].pc = "done",
           NEW removed, NEW t, Emits(r, removed, t)
    PROVE  /\ \A s \in Requests : handler[s].pc # "done" => handler'[s] = handler[s]
           /\ handler'[r].target = t /\ handler'[r].removed = removed
           /\ handler'[r].pc = "select"
BY DEF TypeOK, Emits, Handling

LEMMA CreateUnitStep ==
    ASSUME IInv, NEW r \in Requests, NEW u \in Units, CreateUnit(r, u)
    PROVE  IInv'
<1>. PICK new : new = [tat |-> NoGroup]
  OBVIOUS
<1>1. /\ request[r].pc = "idle" /\ handler[r].pc = "done" /\ org # NoRow /\ unit[u] = NoRow
      /\ unit' = [unit EXCEPT ![u] = new]
      /\ Answers(r) /\ Emits(r, FALSE, u) /\ UNCHANGED <<org, group, next, spoiled>>
      /\ u \in Targets /\ u # TheOrg
  BY RequestBefore, SentinelAssumption DEF CreateUnit, Targets
<1>2. /\ Keeps /\ TreeOK' /\ group' \in [Groups -> Group \cup {NoGroup}] /\ next' \in Nat \ {0}
  BY <1>1, NoGroupsTouched
<1>3. ProcessesOK' /\ handler' \in [Requests -> Handler] /\ request' \in [Requests -> Request]
  BY <1>1, <1>2, AnswerOK, ProcessesAfterRequest DEF IInv, Answers
<1>4. RowOK(u, new)
  BY <1>1 DEF RowOK, Unit
<1>5. RowsOK' /\ org' \in Org \cup {NoRow} /\ unit' \in [Units -> Unit \cup {NoRow}]
  BY <1>1, <1>2, <1>4, RowsAfter DEF IInv, SetRow
<1>6. TypeOK'
  BY <1>1, <1>2, <1>3, <1>5 DEF IInv, TypeOK
<1>7. GroupKept'
  BY <1>1 DEF IInv, TypeOK, GroupKept, Answers, Resting
<1>8. /\ \A s \in Requests : handler[s].pc # "done" => handler'[s] = handler[s]
      /\ handler'[r].target = u /\ handler'[r].removed = FALSE /\ handler'[r].pc = "select"
  BY <1>1, EmittedBeside DEF IInv
<1>9. Pending'
  BY <1>1, <1>8 DEF IInv, TypeOK, Pending
<1>10. DefaultUnitUnlessSpoiled'
  BY <1>1, <1>8 DEF IInv, DefaultUnitUnlessSpoiled, LacksDefault
<1>. QED
  BY <1>2, <1>3, <1>5, <1>6, <1>7, <1>9, <1>10 DEF IInv

\* preload: only the request itself moves.
LEMMA Preloaded ==
    ASSUME IInv, NEW r \in Requests, request[r].pc = "idle",
           NEW t \in Targets, NEW row \in Org \cup Unit, RowOK(t, row),
           t = TheOrg => org # NoRow /\ row.group = org.group,
           request' = [request EXCEPT ![r] = [pc |-> "save", target |-> t, row |-> row]],
           UNCHANGED <<org, unit, group, next, handler, spoiled>>
    PROVE  IInv'
<1>. PICK q : q = [pc |-> "save", target |-> t, row |-> row]
  OBVIOUS
<1>1. /\ Keeps /\ TreeOK' /\ group' \in [Groups -> Group \cup {NoGroup}] /\ next' \in Nat \ {0}
  BY NoGroupsTouched
<1>2. q \in Request /\ RequestOK(q)
  BY DEF Request, RequestOK
<1>3. RequestOK(q)'
  BY <1>1, <1>2, RequestKept
<1>4. request' = [request EXCEPT ![r] = q] /\ handler[r].pc = "done"
  BY RequestBefore
<1>5. ProcessesOK' /\ handler' \in [Requests -> Handler] /\ request' \in [Requests -> Request]
  BY <1>1, <1>2, <1>3, <1>4, ProcessesAfterRequest DEF IInv
<1>6. RowsOK'
  BY <1>1, RowsKept DEF IInv, SameOrg
<1>7. TypeOK'
  BY <1>1, <1>5 DEF IInv, TypeOK
<1>8. GroupKept'
  BY <1>4 DEF IInv, TypeOK, GroupKept
<1>9. Pending' /\ DefaultUnitUnlessSpoiled'
  BY DEF IInv, Pending, DefaultUnitUnlessSpoiled, LacksDefault
<1>. QED
  BY <1>1, <1>5, <1>6, <1>7, <1>8, <1>9 DEF IInv

LEMMA PreloadOrgStep ==
    ASSUME IInv, NEW r \in Requests, NEW name \in Names, PreloadOrg(r, name)
    PROVE  IInv'
<1>. PICK row : row = [org EXCEPT !.name = name]
  OBVIOUS
<1>1. org \in Org /\ org # NoRow /\ RowOK(TheOrg, org) /\ TheOrg \in Targets
  BY DEF PreloadOrg, IInv, TypeOK, RowsOK, Row, Targets
<1>2. row \in Org /\ row.group = org.group /\ row.tat = org.tat
  BY <1>1 DEF Org
<1>3. RowOK(TheOrg, row)
  BY <1>1, <1>2 DEF RowOK
<1>. QED
  BY <1>1, <1>2, <1>3, Preloaded DEF PreloadOrg

LEMMA PreloadUnitStep ==
    ASSUME IInv, NEW r \in Requests, NEW u \in Units, PreloadUnit(r, u)
    PROVE  IInv'
<1>. PICK row : row = unit[u]
  OBVIOUS
<1>1. row \in Unit /\ RowOK(u, row) /\ u \in Targets /\ u # TheOrg
  BY SentinelAssumption DEF PreloadUnit, IInv, TypeOK, RowsOK, Row, Targets
<1>. QED
  BY <1>1, Preloaded DEF PreloadUnit

LEMMA BeginRemoveStep ==
    ASSUME IInv, NEW r \in Requests, NEW t \in Targets, BeginRemove(r, t)
    PROVE  IInv'
<1>. PICK q : q = [pc |-> "delete", target |-> t, row |-> NoRow]
  OBVIOUS
<1>1. /\ request[r].pc = "idle" /\ handler[r].pc = "done"
      /\ request' = [request EXCEPT ![r] = q] /\ Emits(r, TRUE, t)
      /\ spoiled' = spoiled \cup (IF t = TheOrg THEN Targets ELSE {t})
      /\ UNCHANGED <<org, unit, group, next>>
  BY RequestBefore DEF BeginRemove
<1>2. spoiled \subseteq spoiled' /\ spoiled' \subseteq Targets /\ Removed(t)'
  BY <1>1 DEF IInv, TypeOK, Removed
<1>3. Keeps /\ TreeOK'
  BY <1>1, <1>2, KeptWithoutGroups DEF IInv
<1>4. q \in Request /\ RequestOK(q)' /\ q.pc = "delete"
  BY <1>2 DEF Request, RequestOK
<1>5. ProcessesOK' /\ handler' \in [Requests -> Handler] /\ request' \in [Requests -> Request]
  BY <1>1, <1>2, <1>3, <1>4, ProcessesAfterRequest DEF IInv
<1>6. RowsOK'
  BY <1>1, <1>3, RowsKept DEF IInv, SameOrg
<1>7. TypeOK'
  BY <1>1, <1>2, <1>5 DEF IInv, TypeOK
<1>8. GroupKept'
  BY <1>1, <1>2, <1>4 DEF IInv, TypeOK, GroupKept
<1>9. \A s \in Requests : handler[s].pc # "done" => handler'[s] = handler[s]
  BY <1>1, EmittedBeside DEF IInv
<1>10. Pending' /\ DefaultUnitUnlessSpoiled'
  BY <1>1, <1>2, <1>9 DEF IInv, Pending, DefaultUnitUnlessSpoiled, LacksDefault
<1>. QED
  BY <1>3, <1>5, <1>6, <1>7, <1>8, <1>10 DEF IInv

\* A request is answered, and nothing else happens.
LEMMA Answered ==
    ASSUME IInv, NEW r \in Requests, request[r].pc # "idle", Answers(r),
           UNCHANGED <<org, unit, group, next, handler, spoiled>>
    PROVE  IInv'
<1>1. /\ Keeps /\ TreeOK' /\ group' \in [Groups -> Group \cup {NoGroup}] /\ next' \in Nat \ {0}
  BY NoGroupsTouched
<1>2. ProcessesOK' /\ handler' \in [Requests -> Handler] /\ request' \in [Requests -> Request]
  BY <1>1, AnswerOK, ProcessesAfterRequest DEF IInv, Answers
<1>3. RowsOK'
  BY <1>1, RowsKept DEF IInv, SameOrg
<1>4. TypeOK'
  BY <1>1, <1>2 DEF IInv, TypeOK
<1>5. GroupKept'
  BY DEF IInv, TypeOK, GroupKept, Answers, Resting
<1>6. Pending' /\ DefaultUnitUnlessSpoiled'
  BY DEF IInv, Pending, DefaultUnitUnlessSpoiled, LacksDefault
<1>. QED
  BY <1>1, <1>2, <1>3, <1>4, <1>5, <1>6 DEF IInv

LEMMA TakeDefaultStep ==
    ASSUME IInv, NEW r \in Requests, TakeDefault(r)
    PROVE  IInv'
<1>1. /\ request[r].pc = "idle" /\ org # NoRow /\ org \in Org
      /\ org' = [org EXCEPT !.default = "taken"]
      /\ Answers(r) /\ UNCHANGED <<unit, group, next, handler, spoiled>>
  BY DEF TakeDefault, IInv, TypeOK
<1>2. SameOrg /\ org' \in Org /\ org'.default = "taken"
  BY <1>1 DEF SameOrg, Org, Defaults
<1>3. /\ Keeps /\ TreeOK' /\ group' \in [Groups -> Group \cup {NoGroup}] /\ next' \in Nat \ {0}
  BY <1>1, NoGroupsTouched
<1>4. ProcessesOK' /\ handler' \in [Requests -> Handler] /\ request' \in [Requests -> Request]
  BY <1>1, <1>3, AnswerOK, ProcessesAfterRequest DEF IInv, Answers
<1>5. RowsOK' /\ org' # NoRow
  BY <1>1, <1>2, <1>3, RowsKept DEF IInv
<1>6. TypeOK'
  BY <1>1, <1>2, <1>3, <1>4, <1>5 DEF IInv, TypeOK
<1>7. GroupKept' /\ Pending'
  BY <1>1, <1>2, <1>5 DEF IInv, TypeOK, GroupKept, Pending, SameOrg, Answers, Resting
<1>8. DefaultUnitUnlessSpoiled'
  BY <1>2 DEF DefaultUnitUnlessSpoiled
<1>. QED
  BY <1>3, <1>4, <1>5, <1>6, <1>7, <1>8 DEF IInv

LEMMA SaveStep ==
    ASSUME IInv, NEW r \in Requests, Save(r)
    PROVE  IInv'
<1>. PICK t, row, new : /\ t = request[r].target /\ row = request[r].row
                        /\ new = Saved(t, row)
  OBVIOUS
<1>1. /\ request[r].pc = "save" /\ handler[r].pc = "done" /\ Answers(r)
      /\ UNCHANGED <<group, next>> /\ t \in Targets /\ RowOK(t, row)
  BY RequestBefore DEF Save, RequestOK
<1>2. CASE t # TheOrg /\ org = NoRow /\ UNCHANGED <<org, unit, handler, spoiled>>
  BY <1>1, <1>2, Answered
<1>3. CASE /\ t = TheOrg \/ org # NoRow
           /\ SetRow(t, new) /\ Emits(r, FALSE, t)
           /\ spoiled' = spoiled \cup {s \in {t} : Row(t) # NoRow /\ Row(t).tat # row.tat}
  <2>1. spoiled \subseteq spoiled' /\ spoiled' \subseteq Targets
    BY <1>1, <1>3 DEF IInv, TypeOK
  <2>2. Keeps /\ TreeOK'
    BY <1>1, <2>1, KeptWithoutGroups DEF IInv
  <2>3. ProcessesOK' /\ handler' \in [Requests -> Handler] /\ request' \in [Requests -> Request]
    BY <1>1, <1>3, <2>2, AnswerOK, ProcessesAfterRequest DEF IInv, Answers
  <2>4. /\ t # TheOrg => new = row
        /\ t = TheOrg => /\ new \in Org /\ new.group = row.group /\ new.tat = row.tat
                         /\ new.default = IF org = NoRow THEN "missing" ELSE org.default
    BY <1>1 DEF Saved, RowOK, Org, Defaults, IInv, TypeOK
  <2>5. RowOK(t, new) /\ new # NoRow
    BY <1>1, <2>4, SentinelAssumption DEF RowOK
  <2>6. RowsOK' /\ org' \in Org \cup {NoRow} /\ unit' \in [Units -> Unit \cup {NoRow}]
    BY <1>1, <1>3, <2>2, <2>5, RowsAfter DEF IInv
  <2>7. /\ t = TheOrg => org' = new /\ UNCHANGED unit
        /\ t # TheOrg => /\ UNCHANGED org /\ org # NoRow
                         /\ \A u \in Units : unit'[u] = IF u = t THEN new ELSE unit[u]
    BY <1>3 DEF SetRow, IInv, TypeOK
  <2>8. TypeOK'
    BY <1>1, <2>1, <2>3, <2>5, <2>6, <2>7 DEF IInv, TypeOK
  <2>9. t = TheOrg => Targets \subseteq spoiled \/ (org # NoRow /\ new.group = org.group)
    BY <1>1, <2>4 DEF IInv, GroupKept
  <2>10. GroupKept'
    <3>. SUFFICES ASSUME NEW s \in Requests, request'[s].pc = "save", request'[s].target = TheOrg,
                         ~(Targets \subseteq spoiled')
                  PROVE  org' # NoRow /\ request'[s].row.group = org'.group
      BY DEF GroupKept
    <3>1. request'[s] = request[s] /\ ~(Targets \subseteq spoiled)
      BY <1>1, <2>1 DEF IInv, TypeOK, Answers, Resting
    <3>2. org # NoRow /\ request[s].row.group = org.group
      BY <3>1 DEF IInv, GroupKept
    <3>. QED
      BY <2>5, <2>7, <2>9, <3>1, <3>2
  <2>11. /\ \A s \in Requests : handler[s].pc # "done" => handler'[s] = handler[s]
         /\ handler'[r].target = t /\ handler'[r].removed = FALSE /\ handler'[r].pc = "select"
    BY <1>1, <1>3, EmittedBeside DEF IInv
  <2>12. Pending'
    <3>. SUFFICES ASSUME NEW u \in Units, u \notin spoiled', unit'[u] # NoRow,
                         unit'[u].tat = NoGroup, org' # NoRow, org'.group # NoGroup
                  PROVE  \E s \in Requests : /\ handler'[s].target = u /\ ~handler'[s].removed
                                             /\ handler'[s].pc # "done"
      BY DEF Pending
    <3>1. CASE u = t
      BY <2>11, <3>1
    <3>2. CASE u # t
      <4>1. unit[u] = unit'[u] /\ u \notin spoiled /\ u \in Targets
        BY <2>1, <2>7, <3>2 DEF Targets
      <4>2. org # NoRow /\ org.group # NoGroup
        BY <2>7, <2>9, <4>1
      <4>3. PICK s \in Requests :
               handler[s].target = u /\ ~handler[s].removed /\ handler[s].pc # "done"
        BY <4>1, <4>2 DEF IInv, Pending
      <4>. QED
        BY <2>11, <4>3
    <3>. QED
      BY <3>1, <3>2
  <2>13. DefaultUnitUnlessSpoiled'
    <3>1. CASE t = TheOrg
      BY <2>11, <3>1 DEF DefaultUnitUnlessSpoiled, LacksDefault
    <3>2. CASE t # TheOrg
      BY <2>1, <2>7, <2>11, <3>2 DEF IInv, DefaultUnitUnlessSpoiled, LacksDefault
    <3>. QED
      BY <3>1, <3>2
  <2>. QED
    BY <1>1, <2>2, <2>3, <2>6, <2>8, <2>10, <2>12, <2>13 DEF IInv
<1>. QED
  BY <1>2, <1>3 DEF Save

LEMMA DeleteStep ==
    ASSUME IInv, NEW r \in Requests, Delete(r)
    PROVE  IInv'
<1>. PICK t : t = request[r].target
  OBVIOUS
<1>1. /\ request[r].pc = "delete" /\ Answers(r) /\ UNCHANGED <<group, next, handler, spoiled>>
      /\ t \in Targets /\ Removed(t)
  BY RequestBefore DEF Delete, RequestOK
<1>2. CASE UNCHANGED <<org, unit>>
  BY <1>1, <1>2, Answered
<1>3. CASE SetRow(t, NoRow) /\ (t = TheOrg => \A u \in Units : unit[u] = NoRow)
  <2>1. /\ Keeps /\ TreeOK' /\ group' \in [Groups -> Group \cup {NoGroup}] /\ next' \in Nat \ {0}
    BY <1>1, NoGroupsTouched
  <2>2. ProcessesOK' /\ handler' \in [Requests -> Handler] /\ request' \in [Requests -> Request]
    BY <1>1, <2>1, AnswerOK, ProcessesAfterRequest DEF IInv, Answers
  <2>3. RowsOK' /\ org' \in Org \cup {NoRow} /\ unit' \in [Units -> Unit \cup {NoRow}]
    BY <1>1, <1>3, <2>1, RowsAfter DEF IInv
  <2>4. /\ t = TheOrg => org' = NoRow /\ UNCHANGED unit
        /\ t # TheOrg => /\ UNCHANGED org
                         /\ \A u \in Units : unit'[u] = IF u = t THEN NoRow ELSE unit[u]
    BY <1>3 DEF SetRow, IInv, TypeOK
  <2>5. TypeOK'
    BY <1>1, <1>3, <2>1, <2>2, <2>3, <2>4 DEF IInv, TypeOK
  <2>6. \A s \in Requests : request'[s].pc = "save" => request'[s] = request[s]
    BY <1>1 DEF IInv, TypeOK, Answers, Resting
  <2>7. t = TheOrg => Targets \subseteq spoiled
    BY <1>1 DEF Removed
  <2>8. GroupKept'
    BY <1>1, <2>4, <2>6, <2>7 DEF IInv, GroupKept
  <2>9. Pending' /\ DefaultUnitUnlessSpoiled'
    BY <1>1, <2>4 DEF IInv, Pending, DefaultUnitUnlessSpoiled, LacksDefault
  <2>. QED
    BY <2>1, <2>2, <2>3, <2>5, <2>8, <2>9 DEF IInv
<1>. QED
  BY <1>2, <1>3 DEF Delete

-----------------------------------------------------------------------------
(* The invariant, and what follows from it. *)

LEMMA InitIInv == Init => IInv
<1>. SUFFICES ASSUME Init PROVE IInv
  OBVIOUS
<1>1. /\ \A u \in Units : unit[u] = NoRow
      /\ \A r \in Requests : request[r] = Resting("idle") /\ handler[r] = Finished
      /\ unit \in [Units -> Unit \cup {NoRow}] /\ spoiled = {}
      /\ request \in [Requests -> Request] /\ handler \in [Requests -> Handler]
  BY DEF Init, Resting, Request, Finished, Handling, Handler
<1>2. ProcessesOK /\ GroupKept /\ Pending
  BY <1>1 DEF ProcessesOK, GroupKept, Pending, RequestOK, HandlerOK, Resting, Finished, Handling
<1>3. CASE org = NoRow /\ group = [g \in Groups |-> NoGroup] /\ next = 1
  BY <1>1, <1>2, <1>3 DEF IInv, TypeOK, TreeOK, RowsOK, Row, Targets, DefaultUnitUnlessSpoiled, LacksDefault
<1>4. ASSUME NEW name \in Names,
             org = [name |-> name, group |-> 1, tat |-> 2, default |-> "there"],
             group = [g \in Groups |->
                   IF g = 1 THEN [parent |-> NoGroup, kind |-> "org", name |-> name]
                   ELSE IF g = 2 THEN [parent |-> 1, kind |-> "orgTat", name |-> name]
                   ELSE NoGroup],
             next = 3
      PROVE  IInv
  <2>1. 1 \in Groups /\ 2 \in Groups /\ org \in Org
    BY <1>4, BoundAssumption DEF Groups, Org, Defaults
  <2>2. PICK top, tat : /\ top = [parent |-> NoGroup, kind |-> "org", name |-> name]
                        /\ tat = [parent |-> 1, kind |-> "orgTat", name |-> name]
    OBVIOUS
  <2>3. top \in Group /\ tat \in Group /\ top # NoGroup /\ tat # NoGroup
    BY <2>1, <2>2, SentinelAssumption DEF Group
  <2>4. /\ group[1] = top /\ group[2] = tat
        /\ \A g \in Groups : g # 1 /\ g # 2 => group[g] = NoGroup
        /\ group \in [Groups -> Group \cup {NoGroup}]
    BY <1>4, <2>1, <2>2, <2>3
  <2>5. TypeOK
    BY <1>1, <1>4, <2>1, <2>4 DEF TypeOK
  <2>6. TreeOK
    BY <1>4, <2>1, <2>2, <2>3, <2>4 DEF TreeOK, Exist, Groups
  <2>7. Was(1, "org") /\ Was(2, "orgTat") /\ Tat(TheOrg, 2)
    BY <1>4, <2>1, <2>2, <2>3, <2>4 DEF Was, Tat
  <2>8. RowOK(TheOrg, org)
    BY <1>4, <2>1, <2>7 DEF RowOK
  <2>9. RowsOK
    BY <1>1, <2>8 DEF RowsOK, Row, Targets
  <2>10. DefaultUnitUnlessSpoiled
    BY <1>4 DEF DefaultUnitUnlessSpoiled, LacksDefault
  <2>. QED
    BY <1>2, <2>5, <2>6, <2>9, <2>10 DEF IInv
<1>. QED
  BY <1>3, <1>4 DEF Init

LEMMA NextIInv == IInv /\ [Next]_vars => IInv'
<1>. SUFFICES ASSUME IInv, [Next]_vars PROVE IInv'
  OBVIOUS
<1>1. CASE UNCHANGED vars
  <2>1. UNCHANGED <<org, unit, group, next, request, handler, spoiled>>
    BY <1>1 DEF vars
  <2>2. Keeps /\ TreeOK'
    BY <2>1, NoGroupsTouched
  <2>3. RowsOK' /\ TypeOK'
    BY <2>1, <2>2, RowsKept DEF IInv, SameOrg, TypeOK
  <2>4. ProcessesOK'
    <3>. SUFFICES ASSUME NEW s \in Requests
                  PROVE  /\ RequestOK(request[s])' /\ HandlerOK(handler[s])'
                         /\ (request[s].pc \in {"idle", "save"} => handler[s].pc = "done")'
      BY DEF ProcessesOK
    <3>1. PICK q, h : q = request[s] /\ h = handler[s]
      OBVIOUS
    <3>2. RequestOK(q) /\ HandlerOK(h) /\ (q.pc \in {"idle", "save"} => h.pc = "done")
      BY <3>1 DEF IInv, ProcessesOK
    <3>3. RequestOK(q)' /\ HandlerOK(h)'
      BY <2>2, <3>2, RequestKept, HandlerKept
    <3>4. request'[s] = q /\ handler'[s] = h
      BY <2>1, <3>1
    <3>. QED
      BY <3>2, <3>3, <3>4
  <2>5. GroupKept' /\ Pending' /\ DefaultUnitUnlessSpoiled'
    BY <2>1 DEF IInv, GroupKept, Pending, DefaultUnitUnlessSpoiled, LacksDefault
  <2>. QED
    BY <2>2, <2>3, <2>4, <2>5 DEF IInv
<1>2. ASSUME NEW r \in Requests, Serves(r) PROVE IInv'
  BY <1>2, CreateOrgStep, PreloadOrgStep, CreateUnitStep, PreloadUnitStep, BeginRemoveStep,
     SaveStep, DeleteStep, TakeDefaultStep DEF Serves
<1>3. ASSUME NEW r \in Requests, Handles(r) PROVE IInv'
  BY <1>3, SelectStep, ExistsStep, InsertUnitStep, OrgGroupStep, OrgTatStep, UnitTatsStep,
     CreateTatsStep, UnitTatStep, LinkStep, DeleteUnitStep, DeleteGroupStep,
     HandlerFailsStep DEF Handles
<1>. QED
  BY <1>1, <1>2, <1>3 DEF Next

LEMMA Invariance == Spec => []IInv
<1>. QED
  BY InitIInv, NextIInv, PTL DEF Spec

(* The types, for every number of requests, units and names.                *)
THEOREM TypeCorrect == Spec => []TypeOK
<1>1. IInv => TypeOK
  BY DEF IInv
<1>. QED
  BY Invariance, <1>1, PTL

(* However handlers race and fail, an organization lacks its default unit   *)
(* only while a handler has still to insert it, or after a handler threw, a *)
(* removal was asked for, or the unit itself was removed or given away.     *)
THEOREM DefaultUnitComes == Spec => []DefaultUnitUnlessSpoiled
<1>1. IInv => DefaultUnitUnlessSpoiled
  BY DEF IInv
<1>. QED
  BY Invariance, <1>1, PTL

(* The group that a row's tatGroupId names is in Keycloak and is the TAT    *)
(* group of that row, unless a removal of the row was asked for.            *)
THEOREM LinksHold == Spec => []LinkedGroupExists
<1>1. IInv => LinkedGroupExists
  <2>. SUFFICES ASSUME IInv, NEW t \in Targets, Row(t) # NoRow, Row(t).tat # NoGroup,
                       t \notin spoiled
                PROVE  LinkIsGood(t)
    BY DEF LinkedGroupExists
  <2>1. Tat(t, Row(t).tat)
    BY DEF IInv, RowsOK, RowOK
  <2>. QED
    BY <2>1 DEF Tat, Was, LinkIsGood
<1>. QED
  BY Invariance, <1>1, PTL

(* Once no request and no handler is under way, every unit of an            *)
(* organization whose group id is stored has its TAT group, unless a        *)
(* handler of the unit threw, its removal was asked for or a PATCH undid it.*)
THEOREM UnitsAreLinked == Spec => []UnlinkedOnlyForAReason
<1>1. IInv => UnlinkedOnlyForAReason
  BY DEF IInv, Pending, UnlinkedOnlyForAReason, Quiet
<1>. QED
  BY Invariance, <1>1, PTL
=============================================================================
