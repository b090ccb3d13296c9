----------------------- MODULE OrganizationUsersProofs -----------------------
(***************************************************************************)
(* The invariants of OrganizationUsers for any users, requests, units and  *)
(* layouts.                                                                *)
(*                                                                         *)
(* PathOfUnit: a path is stored by Create and Write only, and both store   *)
(* what validateUnitAttribute computes from a unit and the units as they   *)
(* were read: an account so placed is where its unit is, in those units.   *)
(* When they are not the units of now, the account is outdated. A          *)
(* representation that an update read long ago does no harm, since its     *)
(* path is found again before it is written.                               *)
(*                                                                         *)
(* ActivationAsAnswered and TrainingAsAnswered: while nothing overlapped,  *)
(* one request or one call about an account is under way, and Promise says *)
(* how far it has made true what the answer will say, or said.             *)
(***************************************************************************)
EXTENDS OrganizationUsers, TLAPS

IsAccount(a) ==
    a = [unit |-> a.unit, path |-> a.path, groups |-> a.groups, enabled |-> a.enabled]

\* The account is where its unit lies among the known ones.
InPlace(a, known) == a.path = Placed(a, a.unit, known).path

AccountOK(u) ==
    account[u] # NoAccount => /\ IsAccount(account[u])
                              /\ u \notin outdated => InPlace(account[u], units)

\* What an update is going to write is an account that some read returned.
RequestOK(r) ==
    /\ request[r] = [pc |-> request[r].pc, ask |-> request[r].ask,
                     seen |-> request[r].seen, units |-> request[r].units]
    /\ Active(r) => About(r) \in Users
    /\ request[r].pc = "create" => request[r].ask.op = "create"
    /\ request[r].pc = "group" => \/ request[r].ask.op \in {"create", "assign", "revoke"}
                                  \/ IsAccount(request[r].seen)
    /\ request[r].pc = "write" => IsAccount(request[r].seen)

IInv ==
    /\ account = [u \in Users |-> account[u]]
    /\ request = [r \in Requests |-> request[r]]
    /\ \A u \in Users : AccountOK(u)
    /\ \A r \in Requests : RequestOK(r)

-----------------------------------------------------------------------------
(* Accounts. *)

\* validateUnitAttribute puts an account where its unit is; without a slug it
\* leaves it as it is, which is right for an account without a unit.
LEMMA PlacedInPlace ==
  ASSUME NEW a, IsAccount(a), NEW slug, NEW known, slug = None => a.unit = None
  PROVE  /\ IsAccount(Placed(a, slug, known))
         /\ InPlace(Placed(a, slug, known), known)
<1> DEFINE named == {x \in known : x.slug = slug}
           path == UnitPath(CHOOSE x \in named : TRUE, known)
<1>1. CASE slug = None
  BY <1>1 DEF Placed, InPlace
<1>2. CASE slug # None /\ named = {}
  <2>1. Placed(a, slug, known) = [a EXCEPT !.unit = None, !.path = <<>>]
    BY <1>2 DEF Placed
  <2>2. IsAccount(Placed(a, slug, known)) /\ Placed(a, slug, known).unit = None
    BY <2>1 DEF IsAccount
  <2> QED
    BY <2>2 DEF Placed, InPlace
<1>3. CASE slug # None /\ named # {}
  <2> HIDE DEF path
  <2>1. Placed(a, slug, known) = [a EXCEPT !.unit = slug, !.path = path]
    BY <1>3 DEF Placed, path
  <2>2. /\ IsAccount(Placed(a, slug, known))
        /\ Placed(a, slug, known).unit = slug
        /\ Placed(a, slug, known).path = path
    BY <2>1 DEF IsAccount
  <2>3. ASSUME NEW b, IsAccount(b)
        PROVE  Placed(b, slug, known).path = path
    <3>1. Placed(b, slug, known) = [b EXCEPT !.unit = slug, !.path = path]
      BY <1>3 DEF Placed, path
    <3> QED
      BY <3>1, <2>3 DEF IsAccount
  <2> QED
    BY <2>2, <2>3 DEF InPlace
<1> QED
  BY <1>1, <1>2, <1>3

\* Being in place depends on unit and path only.
LEMMA InPlaceOfBoth ==
  ASSUME NEW a, IsAccount(a), NEW b, IsAccount(b), NEW known,
         a.unit = b.unit, a.path = b.path, InPlace(a, known)
  PROVE  InPlace(b, known)
<1> DEFINE slug == a.unit
           named == {x \in known : x.slug = slug}
           path == UnitPath(CHOOSE x \in named : TRUE, known)
<1>1. CASE slug = None
  BY <1>1 DEF Placed, InPlace
<1>2. CASE slug # None /\ named = {}
  <2>1. /\ Placed(a, slug, known) = [a EXCEPT !.unit = None, !.path = <<>>]
        /\ Placed(b, slug, known) = [b EXCEPT !.unit = None, !.path = <<>>]
    BY <1>2 DEF Placed
  <2> QED
    BY <2>1 DEF InPlace, IsAccount
<1>3. CASE slug # None /\ named # {}
  <2> HIDE DEF path
  <2>1. /\ Placed(a, slug, known) = [a EXCEPT !.unit = slug, !.path = path]
        /\ Placed(b, slug, known) = [b EXCEPT !.unit = slug, !.path = path]
    BY <1>3 DEF Placed, path
  <2> QED
    BY <2>1 DEF InPlace, IsAccount
<1> QED
  BY <1>1, <1>2, <1>3

\* What an update writes is in place, whatever it had read.
LEMMA WrittenInPlace ==
  ASSUME NEW acc, NEW seen, IsAccount(seen), NEW dto, NEW known
  PROVE  /\ IsAccount(Written(acc, seen, dto, known))
         /\ InPlace(Written(acc, seen, dto, known), known)
<1> DEFINE merged == Merge(seen, dto, known)
<1>1. IsAccount(merged) /\ InPlace(merged, known)
  BY PlacedInPlace DEF Merge
<1> HIDE DEF merged
<1>2. Written(acc, seen, dto, known) = [merged EXCEPT !.groups = acc.groups]
  BY DEF Written, merged
<1>3. /\ IsAccount(Written(acc, seen, dto, known))
      /\ Written(acc, seen, dto, known).unit = merged.unit
      /\ Written(acc, seen, dto, known).path = merged.path
  BY <1>1, <1>2 DEF IsAccount
<1> QED
  BY <1>1, <1>3, InPlaceOfBoth

\* A call changes the groups or whether the account is enabled, if anything.
LEMMA DoneInPlace ==
  ASSUME NEW call, NEW acc, IsAccount(acc), Done(call, acc) # NoAccount
  PROVE  /\ IsAccount(Done(call, acc))
         /\ \A known : InPlace(acc, known) => InPlace(Done(call, acc), known)
<1>1. /\ IsAccount(Done(call, acc))
      /\ Done(call, acc).unit = acc.unit
      /\ Done(call, acc).path = acc.path
  BY DEF Done, IsAccount
<1> QED
  BY <1>1, InPlaceOfBoth

-----------------------------------------------------------------------------
(* Requests. *)

\* RequestOK(q) is about request[q] alone.
LEMMA RequestKept ==
  ASSUME NEW q, RequestOK(q), request'[q] = request[q]
  PROVE  RequestOK(q)'
BY DEF RequestOK, Active, About

LEMMA OverOK ==
  ASSUME NEW q, request'[q] = Over
  PROVE  RequestOK(q)'
<1>1. Over = [pc |-> "over", ask |-> Over.ask, units |-> {}, seen |-> NoAccount]
  BY DEF Over, Idle
<1> QED
  BY <1>1 DEF RequestOK, Active

\* A request moves on: all others stay what they are.
LEMMA GoesOK ==
  ASSUME IInv, NEW r \in Requests, NEW pc, Goes(r, pc), Active(r),
         pc \in {"tell", "group", "write"},
         pc = "write" => IsAccount(request[r].seen),
         pc = "group" => request[r].ask.op \in {"create", "assign", "revoke"}
  PROVE  /\ request' = [q \in Requests |-> request'[q]]
         /\ \A q \in Requests : RequestOK(q)'
<1>1. request' = [q \in Requests |-> request'[q]]
  BY DEF Goes, IInv
<1>2. ASSUME NEW q \in Requests, q # r PROVE RequestOK(q)'
  <2>1. request'[q] = request[q]
    BY <1>2 DEF Goes, IInv
  <2> QED
    BY <2>1, RequestKept DEF IInv
<1>3. RequestOK(r)'
  <2>1. request'[r] = IF pc = "tell" THEN [request[r] EXCEPT !.pc = pc, !.units = {}, !.seen = NoAccount]
                      ELSE [request[r] EXCEPT !.pc = pc]
    BY DEF Goes, IInv
  <2>2. RequestOK(r)
    BY DEF IInv
  <2> QED
    BY <2>1, <2>2 DEF RequestOK, Active, About
<1> QED
  BY <1>1, <1>2, <1>3

LEMMA EndsOK ==
  ASSUME IInv, NEW r \in Requests, Ends(r)
  PROVE  /\ request' = [q \in Requests |-> request'[q]]
         /\ \A q \in Requests : RequestOK(q)'
<1>1. request' = [q \in Requests |-> request'[q]]
  BY DEF Ends, IInv
<1>2. ASSUME NEW q \in Requests PROVE RequestOK(q)'
  <2>1. request'[q] = IF q = r THEN Over ELSE request[q]
    BY DEF Ends, IInv
  <2> QED
    BY <2>1, RequestKept, OverOK DEF IInv
<1> QED
  BY <1>1, <1>2

LEMMA AccountsKept ==
  ASSUME IInv, UNCHANGED <<units, account, outdated>>
  PROVE  /\ account' = [u \in Users |-> account'[u]]
         /\ \A u \in Users : AccountOK(u)'
BY DEF IInv, AccountOK

LEMMA RequestsKept ==
  ASSUME IInv, UNCHANGED request
  PROVE  /\ request' = [q \in Requests |-> request'[q]]
         /\ \A q \in Requests : RequestOK(q)'
BY RequestKept DEF IInv

-----------------------------------------------------------------------------
(* One lemma per action that writes an account or reads one. *)

LEMMA BeginKeeps ==
  ASSUME IInv, NEW r \in Requests, Begin(r)
  PROVE  IInv'
<1>1. UNCHANGED <<units, account, outdated>>
  BY DEF Begin
<1>2. PICK ask \in Asks :
        request' = [request EXCEPT ![r] =
           [pc |-> CASE ask.op = "create" -> "create"
                     [] ask.op = "update" -> "read"
                     [] ask.op \in {"assign", "revoke"} -> "group"
                     [] OTHER -> "fire",
            ask |-> ask, seen |-> NoAccount,
            units |-> IF ask.op \in {"create", "update"} THEN units ELSE {}]]
  BY DEF Begin
<1>3. request' = [q \in Requests |-> request'[q]]
  BY <1>2 DEF IInv
<1>4. ASSUME NEW q \in Requests PROVE RequestOK(q)'
  <2>1. CASE q # r
    BY <2>1, <1>2, RequestKept DEF IInv
  <2>2. CASE q = r
    <3>1. request'[r] = [pc |-> CASE ask.op = "create" -> "create"
                     [] ask.op = "update" -> "read"
                     [] ask.op \in {"assign", "revoke"} -> "group"
                     [] OTHER -> "fire",
            ask |-> ask, seen |-> NoAccount,
            units |-> IF ask.op \in {"create", "update"} THEN units ELSE {}]
      BY <1>2 DEF IInv
    <3> QED
      BY <2>2, <3>1, AsksAssumption DEF RequestOK, Active, About, Ask
  <2> QED
    BY <2>1, <2>2
<1> QED
  BY <1>1, <1>3, <1>4, AccountsKept DEF IInv

LEMMA CreateKeeps ==
  ASSUME IInv, NEW r \in Requests, Create(r)
  PROVE  IInv'
<1> DEFINE u == About(r)
           blank == [unit |-> None, path |-> <<>>, groups |-> {}, enabled |-> TRUE]
           placed == Placed(blank, request[r].ask.unit, request[r].units)
<1>1. IsAccount(placed) /\ InPlace(placed, request[r].units)
  <2>1. IsAccount(blank) /\ blank.unit = None
    BY DEF IsAccount
  <2> QED
    BY <2>1, PlacedInPlace
<1>2. /\ account' = [account EXCEPT ![u] = placed]
      /\ outdated' = IF request[r].units = units THEN outdated \ {u} ELSE outdated \cup {u}
      /\ UNCHANGED units
  BY DEF Create
<1>3. account' = [v \in Users |-> account'[v]]
  BY <1>2 DEF IInv
<1> HIDE DEF placed
<1>4. ASSUME NEW v \in Users PROVE AccountOK(v)'
  <2>1. CASE v # u
    BY <2>1, <1>2 DEF IInv, AccountOK
  <2>2. CASE v = u
    <3>1. account'[v] = placed
      BY <2>2, <1>2 DEF IInv
    <3>2. v \notin outdated' => request[r].units = units
      BY <2>2, <1>2
    <3> QED
      BY <1>1, <1>2, <3>1, <3>2 DEF AccountOK
  <2> QED
    BY <2>1, <2>2
<1>5. request[r].ask.op = "create" /\ Active(r)
  BY DEF IInv, RequestOK, Create, Active
<1>6. /\ request' = [q \in Requests |-> request'[q]]
      /\ \A q \in Requests : RequestOK(q)'
  <2>1. PICK pc \in {"tell", "group"} : Goes(r, pc)
    BY DEF Create
  <2> QED
    BY <2>1, <1>5, GoesOK
<1> QED
  BY <1>3, <1>4, <1>6 DEF IInv

LEMMA ReadKeeps ==
  ASSUME IInv, NEW r \in Requests, Read(r)
  PROVE  IInv'
<1> DEFINE pc == IF ChangesTraining(account[About(r)], request[r].ask) THEN "group" ELSE "write"
<1>1. /\ request' = [request EXCEPT ![r].seen = account[About(r)], ![r].pc = pc]
      /\ UNCHANGED <<units, account, outdated>>
  BY DEF Read
<1>2. About(r) \in Users /\ IsAccount(account[About(r)])
  BY DEF IInv, RequestOK, AccountOK, Read, Finds, Active
<1>3. pc \in {"group", "write"}
  OBVIOUS
<1> HIDE DEF pc
<1>4. request' = [q \in Requests |-> request'[q]]
  BY <1>1 DEF IInv
<1>5. ASSUME NEW q \in Requests PROVE RequestOK(q)'
  <2>1. CASE q # r
    BY <2>1, <1>1, RequestKept DEF IInv
  <2>2. CASE q = r
    <3>1. request'[r] = [request[r] EXCEPT !.seen = account[About(r)], !.pc = pc]
      BY <1>1 DEF IInv
    <3>2. RequestOK(r)
      BY DEF IInv
    <3> QED
      BY <2>2, <3>1, <3>2, <1>2, <1>3 DEF RequestOK, Active, About
  <2> QED
    BY <2>1, <2>2
<1> QED
  BY <1>1, <1>4, <1>5, AccountsKept DEF IInv

LEMMA WriteKeeps ==
  ASSUME IInv, NEW r \in Requests, Write(r)
  PROVE  IInv'
<1> DEFINE u == About(r)
           written == Written(account[u], request[r].seen, request[r].ask, request[r].units)
<1>1. IsAccount(written) /\ InPlace(written, request[r].units)
  BY WrittenInPlace DEF IInv, RequestOK, Write
<1>2. /\ account' = [account EXCEPT ![u] = written]
      /\ outdated' = IF request[r].units = units THEN outdated \ {u} ELSE outdated \cup {u}
      /\ UNCHANGED units
  BY DEF Write
<1> HIDE DEF written
<1>3. account' = [v \in Users |-> account'[v]]
  BY <1>2 DEF IInv
<1>4. ASSUME NEW v \in Users PROVE AccountOK(v)'
  <2>1. CASE v # u
    BY <2>1, <1>2 DEF IInv, AccountOK
  <2>2. CASE v = u
    <3>1. account'[v] = written
      BY <2>2, <1>2 DEF IInv
    <3>2. v \notin outdated' => request[r].units = units
      BY <2>2, <1>2
    <3> QED
      BY <1>1, <1>2, <3>1, <3>2 DEF AccountOK
  <2> QED
    BY <2>1, <2>2
<1>5. /\ request' = [q \in Requests |-> request'[q]]
      /\ \A q \in Requests : RequestOK(q)'
  BY GoesOK DEF Write, Active
<1> QED
  BY <1>3, <1>4, <1>5 DEF IInv

LEMMA GroupKeeps ==
  ASSUME IInv, NEW r \in Requests, Group(r)
  PROVE  IInv'
<1> DEFINE op == request[r].ask.op
<1>1. UNCHANGED <<units, account, outdated>>
  BY DEF Group
<1>2. /\ request' = [q \in Requests |-> request'[q]]
      /\ \A q \in Requests : RequestOK(q)'
  <2>1. CASE op \in {"assign", "revoke"}
    BY <2>1, EndsOK DEF Group
  <2>2. CASE op = "create"
    BY <2>2, GoesOK DEF Group, Active
  <2>3. CASE op \notin {"assign", "revoke", "create"}
    <3>1. Goes(r, "write") /\ Active(r) /\ IsAccount(request[r].seen)
      BY <2>3 DEF Group, Active, IInv, RequestOK
    <3> QED
      BY <3>1, GoesOK
  <2> QED
    BY <2>1, <2>2, <2>3
<1> QED
  BY <1>1, <1>2, AccountsKept DEF IInv

LEMMA ArriveKeeps ==
  ASSUME IInv, NEW call \in calls, Arrive(call)
  PROVE  IInv'
<1>1. /\ account' = [account EXCEPT ![call.user] = Done(call, @)]
      /\ UNCHANGED <<units, request, outdated>>
  BY DEF Arrive
<1>2. account' = [v \in Users |-> account'[v]]
  BY <1>1 DEF IInv
<1>3. ASSUME NEW v \in Users PROVE AccountOK(v)'
  <2>1. CASE v # call.user
    BY <2>1, <1>1 DEF IInv, AccountOK
  <2>2. CASE v = call.user
    <3>1. account'[v] = Done(call, account[v])
      BY <2>2, <1>1 DEF IInv
    <3>2. CASE account[v] # NoAccount
      <4>1. IsAccount(account[v])
        BY <3>2 DEF IInv, AccountOK
      <4>2. CASE account'[v] # NoAccount
        BY <3>1, <3>2, <4>1, <4>2, <1>1, DoneInPlace DEF IInv, AccountOK
      <4> QED
        BY <4>2 DEF AccountOK
    <3>3. CASE account[v] = NoAccount
      <4>1. call.kind = "listener"
        BY <3>3, <2>2 DEF Arrive
      <4>2. account'[v] = NoAccount
        BY <4>1, <3>1, <3>3 DEF Done
      <4> QED
        BY <4>2 DEF AccountOK
    <3> QED
      BY <3>2, <3>3
  <2> QED
    BY <2>1, <2>2
<1> QED
  BY <1>1, <1>2, <1>3, RequestsKept DEF IInv

LEMMA StopKeeps ==
  ASSUME IInv, Stop
  PROVE  IInv'
<1>1. /\ request' = [r \in Requests |-> IF Active(r) THEN Over ELSE request[r]]
      /\ UNCHANGED <<units, account, outdated>>
  BY DEF Stop
<1>2. request' = [q \in Requests |-> request'[q]]
  BY <1>1
<1>3. ASSUME NEW q \in Requests PROVE RequestOK(q)'
  <2>1. request'[q] = Over \/ request'[q] = request[q]
    BY <1>1
  <2> QED
    BY <2>1, RequestKept, OverOK DEF IInv
<1> QED
  BY <1>1, <1>2, <1>3, AccountsKept DEF IInv

LEMMA MoveUnitKeeps ==
  ASSUME IInv, MoveUnit
  PROVE  IInv'
<1>1. \A u \in Users : AccountOK(u)'
  BY DEF MoveUnit, IInv, AccountOK
<1> QED
  BY <1>1, RequestsKept DEF IInv, MoveUnit

-----------------------------------------------------------------------------
LEMMA Initially == Init => IInv
<1> SUFFICES ASSUME Init PROVE IInv
  OBVIOUS
<1>1. account = [u \in Users |-> account[u]] /\ \A u \in Users : AccountOK(u)
  BY DEF Init, AccountOK
<1>2. request = [r \in Requests |-> request[r]]
  BY DEF Init
<1>3. ASSUME NEW r \in Requests PROVE RequestOK(r)
  <2>1. request[r] = Idle /\ Idle = [pc |-> "idle", ask |-> Idle.ask, units |-> {}, seen |-> NoAccount]
    BY DEF Init, Idle
  <2> QED
    BY <2>1 DEF RequestOK, Active
<1> QED
  BY <1>1, <1>2, <1>3 DEF IInv

LEMMA Inductive == IInv /\ [Next]_vars => IInv'
<1> SUFFICES ASSUME IInv, [Next]_vars PROVE IInv'
  OBVIOUS
<1>1. ASSUME NEW r \in Requests, Begin(r) PROVE IInv'
  BY <1>1, BeginKeeps
<1>2. ASSUME NEW r \in Requests, Create(r) PROVE IInv'
  BY <1>2, CreateKeeps
<1>3. ASSUME NEW r \in Requests, Read(r) PROVE IInv'
  BY <1>3, ReadKeeps
<1>4. ASSUME NEW r \in Requests, Write(r) PROVE IInv'
  BY <1>4, WriteKeeps
<1>5. ASSUME NEW r \in Requests, Group(r) PROVE IInv'
  BY <1>5, GroupKeeps
<1>6. ASSUME NEW r \in Requests,
             \/ CreateConflict(r) \/ WriteFails(r) \/ Tell(r) \/ NothingToTell(r)
             \/ GroupRefused(r) \/ Fire(r) \/ NotFound(r)
      PROVE  IInv'
  <2>1. Ends(r) /\ UNCHANGED <<units, account, outdated>>
    BY <1>6 DEF CreateConflict, WriteFails, Tell, NothingToTell, GroupRefused, Fire, NotFound, Refuse
  <2> QED
    BY <2>1, EndsOK, AccountsKept DEF IInv
<1>7. ASSUME NEW call \in calls, Arrive(call) PROVE IInv'
  BY <1>7, ArriveKeeps
<1>8. CASE Stop
  BY <1>8, StopKeeps
<1>9. CASE MoveUnit
  BY <1>9, MoveUnitKeeps
<1>10. CASE UNCHANGED vars
  BY <1>10, AccountsKept, RequestsKept DEF IInv, vars
<1> QED
  BY <1>1, <1>2, <1>3, <1>4, <1>5, <1>6, <1>7, <1>8, <1>9, <1>10 DEF Next

(* An account's path is the path of the unit it names until a unit is       *)
(* moved, for any number of users, requests, units and layouts              *)
(* (OrganizationsService.validateUnitAttribute and who writes what it       *)
(* returns).                                                                *)
THEOREM PathsFollowUnits == Spec => []PathOfUnit
<1>1. IInv => PathOfUnit
  BY DEF IInv, AccountOK, InPlace, PathOfUnit
<1> QED
  BY <1>1, Initially, Inductive, PTL DEF Spec

-----------------------------------------------------------------------------
(* Types. *)

Pcs == {"idle", "create", "read", "group", "write", "tell", "fire", "over"}

Said == [account : BOOLEAN, enabled : BOOLEAN, training : BOOLEAN]

RequestTyped(r) ==
    /\ request[r].pc \in Pcs
    /\ request[r].seen \in Account \cup {NoAccount}
    /\ request[r].units \in Layouts \cup {{}}
    /\ Active(r) => request[r].ask \in Ask
    /\ request[r].pc = "group" => \/ request[r].ask.op \in {"create", "assign", "revoke"}
                                  \/ request[r].seen \in Account
    /\ request[r].pc = "read" => request[r].ask.op = "update"
    /\ request[r].pc = "write" => request[r].seen \in Account

CallTyped(c) ==
    /\ c.kind \in {"addToGroup", "delFromGroup", "update", "del", "listener"}
    /\ c.user \in Users
    /\ c.kind \in {"addToGroup", "delFromGroup"} => c.arg \in Groups

Types ==
    /\ units \in Layouts
    /\ account \in [Users -> Account \cup {NoAccount}]
    /\ said \in [Users -> Said \cup {Unsure}]
    /\ \A r \in Requests : RequestTyped(r)
    /\ \A c \in calls : CallTyped(c)

LEMMA PlacedTyped ==
  ASSUME NEW a \in Account, NEW slug \in Slugs \cup {None}, NEW known \in Layouts \cup {{}}
  PROVE  /\ Placed(a, slug, known) \in Account
         /\ Placed(a, slug, known).groups = a.groups
         /\ Placed(a, slug, known).enabled = a.enabled
<1> DEFINE named == {x \in known : x.slug = slug}
           path == UnitPath(CHOOSE x \in named : TRUE, known)
<1>1. CASE slug = None
  BY <1>1 DEF Placed
<1>2. CASE slug # None /\ named = {}
  <2>1. Placed(a, slug, known) = [a EXCEPT !.unit = None, !.path = <<>>]
    BY <1>2 DEF Placed
  <2> QED
    BY <2>1 DEF Account, Paths
<1>3. CASE slug # None /\ named # {}
  <2>1. path \in Paths
    <3>1. known \in Layouts /\ (CHOOSE x \in named : TRUE) \in known
      BY <1>3
    <3>2. PICK y \in known : y = CHOOSE x \in named : TRUE
      BY <3>1
    <3>3. path \in {UnitPath(x, known) : x \in known}
      BY <3>2
    <3> HIDE DEF path
    <3> QED
      BY <3>1, <3>3 DEF Paths
  <2> HIDE DEF path
  <2>2. Placed(a, slug, known) = [a EXCEPT !.unit = slug, !.path = path]
    BY <1>3 DEF Placed, path
  <2> QED
    BY <2>1, <2>2 DEF Account
<1> QED
  BY <1>1, <1>2, <1>3

\* An update writes an account that is enabled as the one it read, and whose groups
\* are those of the one it overwrites.
LEMMA WrittenTyped ==
  ASSUME NEW acc \in Account, NEW seen \in Account, NEW dto \in Ask,
         NEW known \in Layouts \cup {{}}
  PROVE  /\ Written(acc, seen, dto, known) \in Account
         /\ Written(acc, seen, dto, known).groups = acc.groups
         /\ Written(acc, seen, dto, known).enabled = seen.enabled
<1> DEFINE merged == Merge(seen, dto, known)
<1>1. merged \in Account /\ merged.enabled = seen.enabled
  <2> DEFINE slug == IF dto.unit = None THEN seen.unit ELSE dto.unit
  <2>1. slug \in Slugs \cup {None}
    BY DEF Ask, Account
  <2>2. merged = Placed(seen, slug, known)
    BY DEF Merge
  <2> HIDE DEF slug, merged
  <2> QED
    BY <2>1, <2>2, PlacedTyped
<1> HIDE DEF merged
<1>2. Written(acc, seen, dto, known) = [merged EXCEPT !.groups = acc.groups]
  BY DEF Written, merged
<1> QED
  BY <1>1, <1>2 DEF Account

LEMMA DoneTyped ==
  ASSUME NEW c, CallTyped(c), NEW acc \in Account
  PROVE  Done(c, acc) \in Account \cup {NoAccount}
<1>1. CASE c.kind \in {"addToGroup", "delFromGroup"}
  BY <1>1 DEF Done, Account, CallTyped
<1>2. CASE c.kind = "update"
  <2>1. (c.arg = "activate") \in BOOLEAN
    OBVIOUS
  <2>2. Done(c, acc) = [acc EXCEPT !.enabled = (c.arg = "activate")]
    BY <1>2 DEF Done
  <2> QED
    BY <2>1, <2>2 DEF Account
<1>3. CASE c.kind \notin {"addToGroup", "delFromGroup", "update"}
  BY <1>3 DEF Done
<1> QED
  BY <1>1, <1>2, <1>3

LEMMA TypedKept ==
  ASSUME NEW q \in Requests, RequestTyped(q), request'[q] = request[q]
  PROVE  RequestTyped(q)'
BY DEF RequestTyped, Active

LEMMA OverTyped ==
  ASSUME NEW q \in Requests, request'[q] = Over
  PROVE  RequestTyped(q)'
<1>1. Over = [pc |-> "over", ask |-> Over.ask, units |-> {}, seen |-> NoAccount]
  BY DEF Over, Idle
<1> QED
  BY <1>1 DEF RequestTyped, Active, Pcs

LEMMA EndsTyped ==
  ASSUME IInv, Types, NEW r \in Requests, Ends(r)
  PROVE  \A q \in Requests : RequestTyped(q)'
BY OverTyped, TypedKept DEF Ends, IInv, Types

LEMMA GoesTyped ==
  ASSUME IInv, Types, NEW r \in Requests, NEW pc \in {"tell", "group", "write"}, Goes(r, pc),
         Active(r), pc = "write" => request[r].seen \in Account,
         pc = "group" => request[r].ask.op = "create"
  PROVE  \A q \in Requests : RequestTyped(q)'
<1> SUFFICES ASSUME NEW q \in Requests PROVE RequestTyped(q)'
  OBVIOUS
<1>1. CASE q # r
  BY <1>1, TypedKept DEF Goes, IInv, Types
<1>2. CASE q = r
  <2>1. request'[r] = IF pc = "tell" THEN [request[r] EXCEPT !.pc = pc, !.units = {}, !.seen = NoAccount]
                      ELSE [request[r] EXCEPT !.pc = pc]
    BY DEF Goes, IInv
  <2>2. RequestTyped(r) /\ RequestOK(r)
    BY DEF Types, IInv
  <2> QED
    BY <1>2, <2>1, <2>2 DEF RequestTyped, RequestOK, Active, Pcs
<1> QED
  BY <1>1, <1>2

\* Answers that are promised are typed.
LEMMA SaysTyped ==
  ASSUME Types, NEW u \in Users
  PROVE  /\ Nothing \in Said /\ Before(u) \in Said
         /\ \A what \in Said : Says(u, what) => said' \in [Users -> Said \cup {Unsure}]
<1>1. Nothing \in Said
  BY DEF Nothing, Said
<1>2. Before(u) \in Said
  BY <1>1 DEF Types, Before
<1> QED
  BY <1>1, <1>2 DEF Types, Says

LEMMA DoubtsTyped ==
  ASSUME Types
  PROVE  \A us : Doubts(us) \in [Users -> Said \cup {Unsure}]
BY DEF Types, Doubts


LEMMA BeginTyped ==
  ASSUME IInv, Types, NEW r \in Requests, Begin(r)
  PROVE  Types'
<1>1. PICK ask \in Asks :
        /\ request' = [request EXCEPT ![r] =
           [pc |-> CASE ask.op = "create" -> "create"
                     [] ask.op = "update" -> "read"
                     [] ask.op \in {"assign", "revoke"} -> "group"
                     [] OTHER -> "fire",
            ask |-> ask, seen |-> NoAccount,
            units |-> IF ask.op \in {"create", "update"} THEN units ELSE {}]]
        /\ said' = IF Busy(ask.user) THEN Doubts({ask.user}) ELSE said
  BY DEF Begin
<1>2. ask \in Ask /\ ask.user \in Users
  BY AsksAssumption DEF Ask
<1>3. ASSUME NEW q \in Requests PROVE RequestTyped(q)'
  <2>1. CASE q # r
    BY <2>1, <1>1, TypedKept DEF IInv, Types
  <2>2. CASE q = r
    BY <2>2, <1>1, <1>2 DEF RequestTyped, Active, Pcs, IInv, Types
  <2> QED
    BY <2>1, <2>2
<1>4. said' \in [Users -> Said \cup {Unsure}]
  <2>1. Doubts({ask.user}) \in [Users -> Said \cup {Unsure}]
    BY DoubtsTyped
  <2> QED
    BY <1>1, <2>1 DEF Types
<1> QED
  BY <1>3, <1>4 DEF Types, Begin, CallTyped

LEMMA CreateTyped ==
  ASSUME IInv, Types, NEW r \in Requests, Create(r)
  PROVE  Types'
<1> DEFINE u == About(r)
           blank == [unit |-> None, path |-> <<>>, groups |-> {}, enabled |-> TRUE]
           placed == Placed(blank, request[r].ask.unit, request[r].units)
<1>1. Active(r) /\ RequestTyped(r)
  BY DEF Create, Active, Types
<1>2. placed \in Account
  <2>1. blank \in Account
    BY DEF Account, Paths
  <2>2. request[r].ask.unit \in Slugs \cup {None} /\ request[r].units \in Layouts \cup {{}}
    BY <1>1 DEF RequestTyped, Ask
  <2> HIDE DEF blank
  <2> QED
    BY <2>1, <2>2, PlacedTyped
<1>3. account' = [account EXCEPT ![u] = placed] /\ UNCHANGED <<units, calls, said>>
  BY DEF Create
<1> HIDE DEF placed
<1>4. account' \in [Users -> Account \cup {NoAccount}]
  BY <1>2, <1>3 DEF Types
<1>5. \A q \in Requests : RequestTyped(q)'
  <2>1. PICK pc \in {"tell", "group"} : Goes(r, pc)
    BY DEF Create
  <2>2. request[r].ask.op = "create"
    BY DEF Create, IInv, RequestOK
  <2> QED
    BY <2>1, <2>2, <1>1, GoesTyped
<1> QED
  BY <1>3, <1>4, <1>5 DEF Types, CallTyped

LEMMA ReadTyped ==
  ASSUME IInv, Types, NEW r \in Requests, Read(r)
  PROVE  Types'
<1> DEFINE pc == IF ChangesTraining(account[About(r)], request[r].ask) THEN "group" ELSE "write"
<1>1. /\ request' = [request EXCEPT ![r].seen = account[About(r)], ![r].pc = pc]
      /\ UNCHANGED <<units, account, calls, said>>
  BY DEF Read
<1>2. Active(r) /\ RequestTyped(r) /\ RequestOK(r)
  BY DEF Read, Active, Types, IInv
<1>3. account[About(r)] \in Account
  BY <1>2 DEF Types, RequestOK, Read, Finds
<1>4. pc \in {"group", "write"}
  OBVIOUS
<1> HIDE DEF pc
<1>5. ASSUME NEW q \in Requests PROVE RequestTyped(q)'
  <2>1. CASE q # r
    BY <2>1, <1>1, TypedKept DEF IInv, Types
  <2>2. CASE q = r
    <3>1. request'[r] = [request[r] EXCEPT !.seen = account[About(r)], !.pc = pc]
      BY <1>1 DEF IInv
    <3> QED
      BY <2>2, <3>1, <1>2, <1>3, <1>4 DEF RequestTyped, RequestOK, Active, Pcs
  <2> QED
    BY <2>1, <2>2
<1> QED
  BY <1>1, <1>5 DEF Types, CallTyped

LEMMA WriteTyped ==
  ASSUME IInv, Types, NEW r \in Requests, Write(r)
  PROVE  Types'
<1> DEFINE u == About(r)
           written == Written(account[u], request[r].seen, request[r].ask, request[r].units)
<1>1. Active(r) /\ RequestTyped(r) /\ RequestOK(r)
  BY DEF Write, Active, Types, IInv
<1>2. written \in Account
  <2>1. account[u] \in Account
    BY <1>1 DEF Write, Types, RequestOK
  <2>2. /\ request[r].ask \in Ask /\ request[r].units \in Layouts \cup {{}}
        /\ request[r].seen \in Account
    BY <1>1 DEF Write, RequestTyped
  <2> QED
    BY <2>1, <2>2, WrittenTyped
<1>3. account' = [account EXCEPT ![u] = written] /\ UNCHANGED <<units, calls, said>>
  BY DEF Write
<1> HIDE DEF written
<1>4. account' \in [Users -> Account \cup {NoAccount}]
  BY <1>2, <1>3 DEF Types
<1>5. \A q \in Requests : RequestTyped(q)'
  BY <1>1, GoesTyped DEF Write
<1> QED
  BY <1>3, <1>4, <1>5 DEF Types, CallTyped

LEMMA TellTyped ==
  ASSUME IInv, Types, NEW r \in Requests, Tell(r)
  PROVE  Types'
<1> DEFINE u == About(r)
           what == [account |-> TRUE,
                    enabled |-> (request[r].ask.op = "create") \/ Before(u).enabled,
                    training |-> request[r].ask.training = "yes"]
<1>1. Active(r) /\ u \in Users
  BY DEF Tell, Active, IInv, RequestOK
<1>2. what \in Said
  <2>1. Before(u).enabled \in BOOLEAN
    BY <1>1, SaysTyped DEF Said
  <2>2. /\ ((request[r].ask.op = "create") \/ Before(u).enabled) \in BOOLEAN
        /\ (request[r].ask.training = "yes") \in BOOLEAN
    BY <2>1
  <2> QED
    BY <2>2 DEF Said
<1>3. Says(u, what) /\ Ends(r) /\ UNCHANGED <<units, account>>
  BY DEF Tell
<1>4. calls' = calls \/ calls' = calls \cup {[kind |-> "listener", user |-> u, arg |-> None]}
  BY DEF Tell
<1> HIDE DEF what
<1>5. said' \in [Users -> Said \cup {Unsure}]
  BY <1>1, <1>2, <1>3, SaysTyped
<1>6. \A c \in calls' : CallTyped(c)
  BY <1>1, <1>4 DEF Types, CallTyped
<1> QED
  BY <1>3, <1>5, <1>6, EndsTyped DEF Types

LEMMA GroupTyped ==
  ASSUME IInv, Types, NEW r \in Requests, Group(r)
  PROVE  Types'
<1> DEFINE u == About(r)
           own == request[r].ask.op \in {"assign", "revoke"}
           adds == IF own THEN request[r].ask.op = "assign" ELSE request[r].ask.training = "yes"
           g == IF own THEN request[r].ask.group ELSE Training
           kind == IF adds THEN "addToGroup" ELSE "delFromGroup"
           what == [Before(u) EXCEPT !.training = adds]
<1>1. Active(r) /\ RequestTyped(r) /\ u \in Users
  BY DEF Group, Active, IInv, RequestOK, Types
<1>2. g \in Groups /\ kind \in {"addToGroup", "delFromGroup"} /\ adds \in BOOLEAN
  BY <1>1, GroupsAssumption DEF RequestTyped, Ask
<1>3. /\ Send(kind, u, g)
      /\ Says(u, what) \/ UNCHANGED said
      /\ IF own THEN Ends(r) ELSE Goes(r, IF request[r].ask.op = "create" THEN "tell" ELSE "write")
      /\ UNCHANGED <<units, account>>
  BY DEF Group
<1>4. \A q \in Requests : RequestTyped(q)'
  <2>1. CASE own
    BY <1>3, <2>1, EndsTyped
  <2>2. CASE ~own /\ request[r].ask.op = "create"
    BY <1>1, <1>3, <2>2, GoesTyped
  <2>3. CASE ~own /\ request[r].ask.op # "create"
    <3>1. request[r].seen \in Account
      BY <1>1, <2>3 DEF RequestTyped, Group
    <3> QED
      BY <1>1, <1>3, <2>3, <3>1, GoesTyped
  <2> QED
    BY <2>1, <2>2, <2>3
<1> HIDE DEF own, adds, g, kind
<1>5. what \in Said
  BY <1>1, <1>2, SaysTyped DEF Said
<1> HIDE DEF what
<1>6. said' \in [Users -> Said \cup {Unsure}]
  BY <1>1, <1>3, <1>5, SaysTyped DEF Types
<1>7. \A c \in calls' : CallTyped(c)
  BY <1>1, <1>2, <1>3 DEF Send, Types, CallTyped
<1> QED
  BY <1>3, <1>4, <1>6, <1>7 DEF Types

LEMMA FireTyped ==
  ASSUME IInv, Types, NEW r \in Requests, Fire(r)
  PROVE  Types'
<1> DEFINE u == About(r)
           op == request[r].ask.op
           what == [Before(u) EXCEPT !.enabled = (op = "activate")]
<1>1. Active(r) /\ u \in Users
  BY DEF Fire, Active, IInv, RequestOK
<1>2. what \in Said
  <2>1. (op = "activate") \in BOOLEAN
    OBVIOUS
  <2> QED
    BY <1>1, <2>1, SaysTyped DEF Said
<1>3. /\ Ends(r) /\ UNCHANGED <<units, account>>
      /\ \/ Send("del", u, None) /\ Says(u, Nothing)
         \/ Send("update", u, op) /\ Says(u, what)
  BY DEF Fire
<1> HIDE DEF what
<1>4. said' \in [Users -> Said \cup {Unsure}]
  BY <1>1, <1>2, <1>3, SaysTyped
<1>5. \A c \in calls' : CallTyped(c)
  BY <1>1, <1>3 DEF Send, Types, CallTyped
<1> QED
  BY <1>3, <1>4, <1>5, EndsTyped DEF Types

\* A request is answered with an error, which leaves its account in doubt or not.
Refuses(r) ==
    /\ Active(r) /\ Ends(r)
    /\ said' = said \/ said' = Doubts({About(r)})
    /\ UNCHANGED <<units, account, calls, outdated>>

LEMMA Refusals ==
  ASSUME NEW r \in Requests,
         CreateConflict(r) \/ WriteFails(r) \/ NothingToTell(r) \/ GroupRefused(r) \/ NotFound(r)
  PROVE  Refuses(r)
BY DEF CreateConflict, WriteFails, NothingToTell, GroupRefused, NotFound, Refuse, Refuses, Active

LEMMA RefuseTyped ==
  ASSUME IInv, Types, NEW r \in Requests, Refuses(r)
  PROVE  Types'
BY DoubtsTyped, EndsTyped DEF Refuses, Types, CallTyped

LEMMA ArriveTyped ==
  ASSUME IInv, Types, NEW call \in calls, Arrive(call)
  PROVE  Types'
<1>1. CallTyped(call)
  BY DEF Types
<1>2. Done(call, account[call.user]) \in Account \cup {NoAccount}
  <2>1. CASE account[call.user] = NoAccount
    <3>1. call.kind = "listener"
      BY <2>1 DEF Arrive
    <3> QED
      BY <2>1, <3>1 DEF Done
  <2>2. CASE account[call.user] # NoAccount
    BY <1>1, <2>2, DoneTyped DEF Types, CallTyped
  <2> QED
    BY <2>1, <2>2
<1>3. account' \in [Users -> Account \cup {NoAccount}]
  BY <1>2 DEF Arrive, Types
<1>4. \A q \in Requests : RequestTyped(q)'
  BY TypedKept DEF Arrive, Types
<1> QED
  BY <1>3, <1>4 DEF Arrive, Types, CallTyped

LEMMA StopTyped ==
  ASSUME IInv, Types, Stop
  PROVE  Types'
<1>1. ASSUME NEW q \in Requests PROVE RequestTyped(q)'
  <2>1. request'[q] = Over \/ request'[q] = request[q]
    BY DEF Stop
  <2> QED
    BY <2>1, OverTyped, TypedKept DEF Types
<1>2. said' \in [Users -> Said \cup {Unsure}]
  BY DoubtsTyped DEF Stop
<1> QED
  BY <1>1, <1>2 DEF Stop, Types

LEMMA TypesInductive == IInv /\ Types /\ [Next]_vars => Types'
<1> SUFFICES ASSUME IInv, Types, [Next]_vars PROVE Types'
  OBVIOUS
<1>1. ASSUME NEW r \in Requests,
             Begin(r) \/ Create(r) \/ Read(r) \/ Write(r) \/ Tell(r) \/ Group(r) \/ Fire(r)
      PROVE  Types'
  BY <1>1, BeginTyped, CreateTyped, ReadTyped, WriteTyped, TellTyped, GroupTyped, FireTyped
<1>2. ASSUME NEW r \in Requests,
             CreateConflict(r) \/ WriteFails(r) \/ NothingToTell(r) \/ GroupRefused(r) \/ NotFound(r)
      PROVE  Types'
  BY <1>2, Refusals, RefuseTyped
<1>3. ASSUME NEW call \in calls, Arrive(call) PROVE Types'
  BY <1>3, ArriveTyped
<1>4. CASE Stop
  BY <1>4, StopTyped
<1>5. CASE MoveUnit
  BY <1>5, TypedKept DEF MoveUnit, Types, CallTyped
<1>6. CASE UNCHANGED vars
  BY <1>6, TypedKept DEF vars, Types, CallTyped
<1> QED
  BY <1>1, <1>2, <1>3, <1>4, <1>5, <1>6 DEF Next

-----------------------------------------------------------------------------
(* What was said of an account.  As long as nothing about it overlapped,    *)
(* one request or one call about it is under way at most, and what was said *)
(* is so once the call has arrived.                                         *)

AsSaid(acc, what) ==
    /\ acc # NoAccount <=> what.account
    /\ acc # NoAccount => /\ acc.enabled = what.enabled
                          /\ Training \in acc.groups <=> what.training

\* Calls that will change the account.
Moving(u) == {c \in calls : c.user = u /\ c.kind # "listener"}

Still(acc, moving, what) == moving = {} /\ AsSaid(acc, what)

Settles(acc, moving, what) ==
    /\ moving = {} => AsSaid(acc, what)
    /\ \A c \in moving : /\ moving = {c} /\ acc # NoAccount
                         /\ AsSaid(Done(c, acc), what)

Trained(q) == q.ask.training = "yes"

\* How far request q has made true what its answer will say; before it, said was.
Promise(q, acc, moving, before) ==
    /\ q.pc \in {"create", "read", "fire"} => Still(acc, moving, before)
    /\ q.pc = "group" /\ q.ask.op # "create" => Still(acc, moving, before)
    /\ q.pc = "group" /\ q.ask.op \notin {"create", "assign", "revoke"} =>
          q.seen = acc /\ ChangesTraining(acc, q.ask)
    /\ q.pc = "group" /\ q.ask.op = "create" =>
          /\ Trained(q)
          /\ Still(acc, moving, [account |-> TRUE, enabled |-> TRUE, training |-> FALSE])
    /\ q.pc = "write" =>
          /\ q.ask.op # "create"
          /\ before.account /\ q.seen.enabled = before.enabled
          /\ \A c \in moving : c.kind \in {"addToGroup", "delFromGroup"}
          /\ Settles(acc, moving, [before EXCEPT !.training = Trained(q)])
          /\ ~ChangesTraining(q.seen, q.ask) => Still(acc, moving, before)
    /\ q.pc = "tell" =>
          Settles(acc, moving, [account |-> TRUE, enabled |-> q.ask.op = "create" \/ before.enabled,
                                training |-> Trained(q)])

AccountSays(u) ==
    said[u] # Unsure =>
        /\ \A q, r \in Requests : Active(q) /\ Active(r) /\ About(q) = u /\ About(r) = u => q = r
        /\ (\A r \in Requests : Active(r) => About(r) # u) => Settles(account[u], Moving(u), said[u])
        /\ \A r \in Requests : Active(r) /\ About(r) = u =>
               Promise(request[r], account[u], Moving(u), said[u])

SaidInv == \A u \in Users : AccountSays(u)

\* A step about another account.
LEMMA OtherSays ==
  ASSUME NEW v \in Users, AccountSays(v),
         said'[v] = said[v], account'[v] = account[v], Moving(v)' = Moving(v),
         \A q \in Requests : \/ request'[q] = request[q]
                             \/ /\ Active(q) => About(q) # v
                                /\ Active(q)' => About(q)' # v
  PROVE  AccountSays(v)'
<1>1. \A q \in Requests : Active(q)' /\ About(q)' = v =>
         Active(q) /\ About(q) = v /\ request'[q] = request[q]
  BY DEF Active, About
<1>2. \A q \in Requests : Active(q) /\ About(q) = v => Active(q)' /\ About(q)' = v
  BY DEF Active, About
<1>3. SUFFICES ASSUME said[v] # Unsure
               PROVE  /\ \A q, r \in Requests : Active(q)' /\ Active(r)' /\ About(q)' = v /\ About(r)' = v => q = r
                      /\ (\A r \in Requests : Active(r)' => About(r)' # v) => Settles(account'[v], Moving(v)', said'[v])
                      /\ \A r \in Requests : Active(r)' /\ About(r)' = v =>
                            Promise(request'[r], account'[v], Moving(v)', said'[v])
  BY DEF AccountSays
<1> QED
  BY <1>1, <1>2, <1>3 DEF AccountSays

\* What a step of request r about v leaves to be shown: it is the only one about v.
LEMMA OwnSays ==
  ASSUME NEW r \in Requests, NEW v \in Users, v = About(r), Active(r), AccountSays(v),
         said'[v] = Unsure \/ said[v] # Unsure,
         \A q \in Requests \ {r} : request'[q] = request[q],
         About(r)' = v \/ ~Active(r)',
         said'[v] # Unsure =>
            /\ Active(r)' => Promise(request'[r], account'[v], Moving(v)', said'[v])
            /\ ~Active(r)' => Settles(account'[v], Moving(v)', said'[v])
  PROVE  AccountSays(v)'
<1>1. SUFFICES ASSUME said'[v] # Unsure
               PROVE  /\ \A q, s \in Requests : Active(q)' /\ Active(s)' /\ About(q)' = v /\ About(s)' = v => q = s
                      /\ (\A s \in Requests : Active(s)' => About(s)' # v) => Settles(account'[v], Moving(v)', said'[v])
                      /\ \A s \in Requests : Active(s)' /\ About(s)' = v =>
                            Promise(request'[s], account'[v], Moving(v)', said'[v])
  BY DEF AccountSays
<1>2. ASSUME NEW q \in Requests, Active(q)', About(q)' = v
      PROVE  q = r
  <2>1. q # r => Active(q) /\ About(q) = v
    BY <1>2 DEF Active, About
  <2> QED
    BY <2>1, <1>1 DEF AccountSays
<1> QED
  BY <1>1, <1>2

LEMMA StepSays ==
  ASSUME SaidInv, NEW r \in Requests, Active(r), NEW u \in Users, u = About(r),
         \A q \in Requests \ {r} : request'[q] = request[q],
         About(r)' = u \/ ~Active(r)',
         \A v \in Users \ {u} : /\ said'[v] = said[v] /\ account'[v] = account[v]
                                /\ Moving(v)' = Moving(v),
         said'[u] = Unsure \/ said[u] # Unsure,
         said'[u] # Unsure =>
            /\ Active(r)' => Promise(request'[r], account'[u], Moving(u)', said'[u])
            /\ ~Active(r)' => Settles(account'[u], Moving(u)', said'[u])
  PROVE  SaidInv'
<1>1. AccountSays(u)'
  BY OwnSays DEF SaidInv
<1>2. ASSUME NEW v \in Users \ {u} PROVE AccountSays(v)'
  BY <1>2, OtherSays DEF SaidInv
<1> QED
  BY <1>1, <1>2 DEF SaidInv

LEMMA EndsAbout ==
  ASSUME IInv, NEW r \in Requests, Ends(r)
  PROVE  /\ \A q \in Requests \ {r} : request'[q] = request[q]
         /\ ~Active(r)'
<1>1. request'[r] = Over
  BY DEF Ends, IInv
<1>2. Over.pc = "over"
  BY DEF Over, Idle
<1> QED
  BY <1>1, <1>2 DEF Ends, IInv, Active

LEMMA GoesAbout ==
  ASSUME IInv, NEW r \in Requests, NEW pc \in {"tell", "group", "write"}, Goes(r, pc)
  PROVE  /\ \A q \in Requests \ {r} : request'[q] = request[q]
         /\ request'[r].pc = pc /\ request'[r].ask = request[r].ask
         /\ pc # "tell" => request'[r].seen = request[r].seen
         /\ About(r)' = About(r) /\ Active(r)'
<1>1. request'[r] = IF pc = "tell" THEN [request[r] EXCEPT !.pc = pc, !.units = {}, !.seen = NoAccount]
                    ELSE [request[r] EXCEPT !.pc = pc]
  BY DEF Goes, IInv
<1>2. request[r] = [pc |-> request[r].pc, ask |-> request[r].ask,
                    seen |-> request[r].seen, units |-> request[r].units]
  BY DEF IInv, RequestOK
<1> QED
  BY <1>1, <1>2 DEF Goes, IInv, Active, About

\* A request that is active says its account is in doubt, or promises something.
LEMMA Promised ==
  ASSUME IInv, SaidInv, NEW r \in Requests, Active(r), said[About(r)] # Unsure
  PROVE  Promise(request[r], account[About(r)], Moving(About(r)), said[About(r)])
BY DEF SaidInv, AccountSays, IInv, RequestOK

\* Calls of role groups.
LEMMA DoneGroups ==
  ASSUME NEW c, CallTyped(c), c.kind \in {"addToGroup", "delFromGroup"}, NEW acc \in Account
  PROVE  /\ Done(c, acc) \in Account /\ Done(c, acc) # NoAccount
         /\ Done(c, acc).enabled = acc.enabled
         /\ Done(c, acc).groups = IF c.kind = "addToGroup" THEN acc.groups \cup {c.arg}
                                  ELSE acc.groups \ {c.arg}
<1>1. CASE c.kind = "addToGroup"
  <2>1. Done(c, acc) = [acc EXCEPT !.groups = @ \cup {c.arg}]
    BY <1>1 DEF Done
  <2> QED
    BY <1>1, <2>1, SentinelAssumption DEF Account, CallTyped
<1>2. CASE c.kind = "delFromGroup"
  <2>1. Done(c, acc) = [acc EXCEPT !.groups = @ \ {c.arg}]
    BY <1>2 DEF Done
  <2> QED
    BY <1>2, <2>1, SentinelAssumption DEF Account, CallTyped
<1> QED
  BY <1>1, <1>2

-----------------------------------------------------------------------------
LEMMA BeginSays ==
  ASSUME IInv, Types, SaidInv, NEW r \in Requests, Begin(r)
  PROVE  SaidInv'
<1>1. PICK ask \in Asks :
        /\ request' = [request EXCEPT ![r] =
           [pc |-> CASE ask.op = "create" -> "create"
                     [] ask.op = "update" -> "read"
                     [] ask.op \in {"assign", "revoke"} -> "group"
                     [] OTHER -> "fire",
            ask |-> ask, seen |-> NoAccount,
            units |-> IF ask.op \in {"create", "update"} THEN units ELSE {}]]
        /\ said' = IF Busy(ask.user) THEN Doubts({ask.user}) ELSE said
  BY DEF Begin
<1> DEFINE u == ask.user
<1>2. u \in Users
  BY AsksAssumption DEF Ask
<1>3. UNCHANGED <<account, calls>> /\ ~Active(r)
  BY DEF Begin, Active
<1>4. /\ \A q \in Requests \ {r} : request'[q] = request[q]
      /\ About(r)' = u /\ request'[r].ask = ask
      /\ \/ request'[r].pc \in {"create", "read", "fire"}
         \/ request'[r].pc = "group" /\ ask.op \in {"assign", "revoke"}
  BY <1>1 DEF IInv, About
<1>5. ASSUME NEW v \in Users, v # u
      PROVE  AccountSays(v)'
  <2>1. said'[v] = said[v]
    BY <1>1, <1>5 DEF Doubts
  <2>2. Moving(v)' = Moving(v)
    BY <1>3 DEF Moving
  <2> QED
    BY <2>1, <2>2, <1>3, <1>4, <1>5, OtherSays DEF SaidInv
<1>6. AccountSays(u)'
  <2>1. CASE Busy(u)
    <3>1. said'[u] = Unsure
      BY <1>1, <1>2, <2>1 DEF Doubts
    <3> QED
      BY <3>1 DEF AccountSays
  <2>2. CASE ~Busy(u) /\ said[u] # Unsure
    <3>1. said' = said /\ Moving(u)' = {} /\ Moving(u) = {}
      BY <1>1, <1>3, <2>2 DEF Busy, Moving
    <3>2. \A q \in Requests : Active(q) => About(q) # u
      BY <2>2 DEF Busy
    <3>3. AsSaid(account[u], said[u])
      BY <1>2, <2>2, <3>1, <3>2 DEF SaidInv, AccountSays, Settles
    <3>4. Promise(request'[r], account'[u], Moving(u)', said'[u])
      BY <1>3, <1>4, <3>1, <3>3 DEF Promise, Still
    <3>5. \A q \in Requests : Active(q)' /\ About(q)' = u => q = r
      BY <1>4, <3>2 DEF Active, About
    <3>6. Active(r)'
      BY <1>4 DEF Active
    <3> QED
      BY <1>4, <3>4, <3>5, <3>6 DEF AccountSays
  <2>3. CASE ~Busy(u) /\ said[u] = Unsure
    BY <1>1, <2>3 DEF AccountSays
  <2> QED
    BY <2>1, <2>2, <2>3
<1> QED
  BY <1>5, <1>6 DEF SaidInv

LEMMA CreateSays ==
  ASSUME IInv, Types, SaidInv, NEW r \in Requests, Create(r)
  PROVE  SaidInv'
<1> DEFINE u == About(r)
           ask == request[r].ask
           blank == [unit |-> None, path |-> <<>>, groups |-> {}, enabled |-> TRUE]
           placed == Placed(blank, ask.unit, request[r].units)
           pc == IF ask.training = "yes" THEN "group" ELSE "tell"
<1>1. Active(r) /\ RequestTyped(r) /\ u \in Users /\ ask.op = "create"
  BY DEF Create, Active, Types, IInv, RequestOK
<1>2. /\ placed \in Account /\ placed # NoAccount
      /\ placed.groups = {} /\ placed.enabled = TRUE
  <2>1. blank \in Account
    BY DEF Account, Paths
  <2>2. ask.unit \in Slugs \cup {None} /\ request[r].units \in Layouts \cup {{}}
    BY <1>1 DEF RequestTyped, Ask
  <2>3. blank.groups = {} /\ blank.enabled = TRUE
    OBVIOUS
  <2> HIDE DEF blank
  <2> QED
    BY <2>1, <2>2, <2>3, PlacedTyped, SentinelAssumption
<1>3. /\ account' = [account EXCEPT ![u] = placed] /\ UNCHANGED <<units, calls, said>>
      /\ Goes(r, pc)
  BY DEF Create
<1>4. pc \in {"tell", "group", "write"} /\ (pc = "group" <=> ask.training = "yes") /\ (pc = "tell" <=> ask.training # "yes")
  OBVIOUS
<1> HIDE DEF placed, pc
<1>5. /\ account'[u] = placed /\ \A v \in Users \ {u} : account'[v] = account[v]
      /\ \A v \in Users : Moving(v)' = Moving(v)
  BY <1>1, <1>3 DEF Types, Moving
<1>6. /\ \A q \in Requests \ {r} : request'[q] = request[q]
      /\ request'[r].pc = pc /\ request'[r].ask = ask
      /\ About(r)' = About(r) /\ Active(r)'
  BY <1>3, <1>4, GoesAbout
<1>7. ASSUME said[u] # Unsure
      PROVE  Promise(request'[r], placed, Moving(u), said[u])
  <2>1. Moving(u) = {}
    BY <1>1, <1>7, Promised DEF Promise, Still, Create
  <2>2. AsSaid(placed, [account |-> TRUE, enabled |-> TRUE, training |-> FALSE])
    BY <1>2 DEF AsSaid
  <2>3. CASE pc = "group"
    BY <1>1, <1>4, <1>6, <2>1, <2>2, <2>3 DEF Promise, Still, Trained
  <2>4. CASE pc = "tell"
    <3>1. [account |-> TRUE, enabled |-> (ask.op = "create" \/ said[u].enabled), training |-> (ask.training = "yes")]
          = [account |-> TRUE, enabled |-> TRUE, training |-> FALSE]
      BY <1>1, <1>4, <2>4
    <3> QED
      BY <1>1, <1>4, <1>6, <2>1, <2>2, <2>4, <3>1 DEF Promise, Settles, Trained
  <2> QED
    BY <1>4, <2>3, <2>4
<1> QED
  BY <1>1, <1>3, <1>5, <1>6, <1>7, StepSays

LEMMA ReadSays ==
  ASSUME IInv, Types, SaidInv, NEW r \in Requests, Read(r)
  PROVE  SaidInv'
<1> DEFINE u == About(r)
           ask == request[r].ask
           pc == IF ChangesTraining(account[u], ask) THEN "group" ELSE "write"
<1>1. Active(r) /\ u \in Users /\ account[u] # NoAccount
  BY DEF Read, Active, IInv, RequestOK, Finds
<1>2. /\ request' = [request EXCEPT ![r].seen = account[u], ![r].pc = pc]
      /\ UNCHANGED <<units, account, calls, said>>
  BY DEF Read
<1>3. /\ pc \in {"group", "write"}
      /\ pc = "group" <=> ChangesTraining(account[u], ask)
  OBVIOUS
<1> HIDE DEF pc
<1>4. /\ \A q \in Requests \ {r} : request'[q] = request[q]
      /\ request'[r].pc = pc /\ request'[r].ask = ask /\ request'[r].seen = account[u]
      /\ About(r)' = u /\ Active(r)'
  <2>1. request[r] = [pc |-> request[r].pc, ask |-> ask,
                      seen |-> request[r].seen, units |-> request[r].units]
    BY DEF IInv, RequestOK
  <2>2. request'[r] = [request[r] EXCEPT !.seen = account[u], !.pc = pc]
    BY <1>2 DEF IInv
  <2> QED
    BY <1>2, <1>3, <2>1, <2>2 DEF IInv, Active, About
<1>5. \A v \in Users : Moving(v)' = Moving(v)
  BY <1>2 DEF Moving
<1>6. ASSUME said[u] # Unsure
      PROVE  Promise(request'[r], account[u], Moving(u), said[u])
  <2>1. Still(account[u], Moving(u), said[u])
    BY <1>1, <1>6, Promised DEF Promise, Read
  <2>2. ask.op \notin {"create", "assign", "revoke"}
    BY DEF Read, Types, RequestTyped
  <2>3. CASE pc = "group"
    BY <1>3, <1>4, <2>1, <2>2, <2>3 DEF Promise
  <2>4. CASE pc = "write"
    <3>1. Settles(account[u], Moving(u), [said[u] EXCEPT !.training = Trained(request'[r])])
      <4>1. said[u] \in Said
        BY <1>1, <1>6 DEF Types
      <4>2. Training \in account[u].groups <=> ask.training = "yes"
        BY <1>3, <2>4 DEF ChangesTraining
      <4> QED
        BY <1>1, <1>4, <2>1, <4>1, <4>2 DEF Settles, Still, AsSaid, Said, Trained
    <3>2. said[u].account /\ account[u].enabled = said[u].enabled
      BY <1>1, <2>1 DEF Still, AsSaid
    <3> QED
      BY <1>4, <2>1, <2>2, <2>4, <3>1, <3>2 DEF Promise, Still
  <2> QED
    BY <1>3, <2>3, <2>4
<1> QED
  BY <1>1, <1>2, <1>4, <1>5, <1>6, StepSays

LEMMA WriteSays ==
  ASSUME IInv, Types, SaidInv, NEW r \in Requests, Write(r)
  PROVE  SaidInv'
<1> DEFINE u == About(r)
           ask == request[r].ask
           written == Written(account[u], request[r].seen, ask, request[r].units)
<1>1. /\ Active(r) /\ u \in Users /\ RequestTyped(r)
      /\ account[u] \in Account /\ request[r].seen \in Account
  BY DEF Write, Active, IInv, RequestOK, Types, RequestTyped
<1>2. /\ written \in Account /\ written # NoAccount
      /\ written.groups = account[u].groups /\ written.enabled = request[r].seen.enabled
  <2>1. ask \in Ask /\ request[r].units \in Layouts \cup {{}}
    BY <1>1 DEF RequestTyped
  <2> QED
    BY <1>1, <2>1, WrittenTyped, SentinelAssumption
<1>3. /\ account' = [account EXCEPT ![u] = written] /\ UNCHANGED <<units, calls, said>>
      /\ Goes(r, "tell")
  BY DEF Write
<1> HIDE DEF written
<1>4. /\ account'[u] = written /\ \A v \in Users \ {u} : account'[v] = account[v]
      /\ \A v \in Users : Moving(v)' = Moving(v)
  BY <1>1, <1>3 DEF Types, Moving
<1>5. /\ \A q \in Requests \ {r} : request'[q] = request[q]
      /\ request'[r].pc = "tell" /\ request'[r].ask = ask
      /\ About(r)' = About(r) /\ Active(r)'
  BY <1>3, GoesAbout
<1>6. ASSUME said[u] # Unsure
      PROVE  Promise(request'[r], written, Moving(u), said[u])
  <2> DEFINE before == [said[u] EXCEPT !.training = Trained(request[r])]
             after == [account |-> TRUE, enabled |-> (ask.op = "create" \/ said[u].enabled),
                       training |-> Trained(request[r])]
  <2>1. /\ ask.op # "create" /\ said[u].account
        /\ request[r].seen.enabled = said[u].enabled
        /\ \A c \in Moving(u) : c.kind \in {"addToGroup", "delFromGroup"}
        /\ Settles(account[u], Moving(u), before)
    BY <1>1, <1>6, Promised DEF Promise, Write
  <2>2. said[u] \in Said
    BY <1>1, <1>6 DEF Types
  <2>3. after = [account |-> TRUE, enabled |-> said[u].enabled, training |-> Trained(request[r])]
    BY <2>1, <2>2 DEF Said
  <2>4. /\ before.account <=> TRUE
        /\ before.enabled = said[u].enabled
        /\ before.training = Trained(request[r])
    BY <2>1, <2>2 DEF Said
  <2> HIDE DEF before, after
  <2>5. Settles(written, Moving(u), before)
    <3>1. ASSUME Moving(u) = {}
          PROVE  AsSaid(written, before)
      BY <1>1, <1>2, <2>1, <2>4, <3>1 DEF AsSaid, Settles
    <3>2. ASSUME NEW c \in Moving(u)
          PROVE  Moving(u) = {c} /\ AsSaid(Done(c, written), before)
      <4>1. CallTyped(c) /\ c.kind \in {"addToGroup", "delFromGroup"}
        BY <2>1, <3>2 DEF Moving, Types
      <4>2. Moving(u) = {c} /\ AsSaid(Done(c, account[u]), before)
        BY <2>1, <3>2 DEF Settles
      <4>3. /\ Done(c, written) # NoAccount /\ Done(c, written).enabled = written.enabled
            /\ Done(c, written).groups = Done(c, account[u]).groups
            /\ Done(c, account[u]) # NoAccount
        <5>1. /\ Done(c, account[u]) # NoAccount
              /\ Done(c, account[u]).groups = IF c.kind = "addToGroup" THEN account[u].groups \cup {c.arg}
                                              ELSE account[u].groups \ {c.arg}
          BY <1>1, <4>1, DoneGroups
        <5>2. /\ Done(c, written) # NoAccount /\ Done(c, written).enabled = written.enabled
              /\ Done(c, written).groups = IF c.kind = "addToGroup" THEN written.groups \cup {c.arg}
                                           ELSE written.groups \ {c.arg}
          BY <1>2, <4>1, DoneGroups
        <5> QED
          BY <1>2, <5>1, <5>2
      <4> QED
        BY <1>2, <2>1, <2>4, <4>2, <4>3 DEF AsSaid
    <3> QED
      BY <1>2, <3>1, <3>2 DEF Settles
  <2>6. Settles(written, Moving(u), after)
    <3>1. after.account /\ after.enabled = said[u].enabled /\ after.training = Trained(request[r])
      BY <2>3
    <3> QED
      BY <2>4, <2>5, <3>1 DEF Settles, AsSaid
  <2> QED
    BY <1>5, <2>6 DEF Promise, Trained, after
<1> QED
  BY <1>1, <1>3, <1>4, <1>5, <1>6, StepSays

LEMMA TellSays ==
  ASSUME IInv, Types, SaidInv, NEW r \in Requests, Tell(r)
  PROVE  SaidInv'
<1>0. PICK u \in Users : u = About(r)
  BY DEF IInv, RequestOK, Tell, Active
<1> DEFINE ask == request[r].ask
           what == [account |-> TRUE,
                    enabled |-> (ask.op = "create") \/ Before(u).enabled,
                    training |-> ask.training = "yes"]
<1>1. Active(r) /\ u \in Users
  BY <1>0 DEF Tell, Active, IInv, RequestOK
<1>2. Says(u, what) /\ Ends(r) /\ UNCHANGED <<units, account>>
  BY <1>0 DEF Tell
<1>3. calls' = calls \/ calls' = calls \cup {[kind |-> "listener", user |-> u, arg |-> None]}
  BY <1>0 DEF Tell
<1>4. \A v \in Users : Moving(v)' = Moving(v)
  BY <1>3 DEF Moving
<1>5. /\ \A q \in Requests \ {r} : request'[q] = request[q]
      /\ ~Active(r)'
  BY <1>2, EndsAbout
<1>6. /\ \A v \in Users \ {u} : said'[v] = said[v]
      /\ said'[u] = IF said[u] = Unsure THEN Unsure ELSE what
  BY <1>0, <1>1, <1>2 DEF Says, Types
<1>7. ASSUME said[u] # Unsure
      PROVE  Settles(account[u], Moving(u), what)
  <2>1. Settles(account[u], Moving(u),
           [account |-> TRUE, enabled |-> (ask.op = "create" \/ said[u].enabled),
            training |-> Trained(request[r])])
    BY <1>0, <1>1, <1>7, Promised DEF Promise, Tell
  <2> QED
    BY <1>7, <2>1 DEF Before, Trained
<1> HIDE DEF what
<1> QED
  BY <1>0, <1>1, <1>2, <1>4, <1>5, <1>6, <1>7, StepSays

LEMMA MovingAdds ==
  ASSUME NEW c, c.kind # "listener", calls' = calls \cup {c}, NEW v
  PROVE  Moving(v)' = IF v = c.user THEN Moving(v) \cup {c} ELSE Moving(v)
<1>1. \A d : d \in Moving(v)' <=> d \in Moving(v) \/ (d = c /\ v = c.user)
  BY DEF Moving
<1>2. CASE v = c.user
  BY <1>1, <1>2
<1>3. CASE v # c.user
  BY <1>1, <1>3
<1> QED
  BY <1>2, <1>3

\* One call that changes the role groups of an account.
LEMMA GroupSettles ==
  ASSUME NEW c, CallTyped(c), c.kind \in {"addToGroup", "delFromGroup"}, NEW acc \in Account,
         acc # NoAccount, NEW what, what.account, what.enabled = acc.enabled,
         what.training <=> IF c.arg = Training THEN c.kind = "addToGroup"
                           ELSE Training \in acc.groups
  PROVE  Settles(acc, {c}, what)
<1>1. /\ Done(c, acc) # NoAccount /\ Done(c, acc).enabled = acc.enabled
      /\ Done(c, acc).groups = IF c.kind = "addToGroup" THEN acc.groups \cup {c.arg}
                               ELSE acc.groups \ {c.arg}
  BY DoneGroups
<1>2. AsSaid(Done(c, acc), what)
  BY <1>1 DEF AsSaid
<1> QED
  BY <1>2 DEF Settles

LEMMA GroupSays ==
  ASSUME IInv, Types, SaidInv, NEW r \in Requests, Group(r)
  PROVE  SaidInv'
<1>0. PICK u \in Users : u = About(r)
  BY DEF IInv, RequestOK, Group, Active
<1> DEFINE ask == request[r].ask
           own == ask.op \in {"assign", "revoke"}
           adds == IF own THEN ask.op = "assign" ELSE ask.training = "yes"
           g == IF own THEN ask.group ELSE Training
           kind == IF adds THEN "addToGroup" ELSE "delFromGroup"
           call == [kind |-> kind, user |-> u, arg |-> g]
           what == [Before(u) EXCEPT !.training = adds]
<1>1. Active(r) /\ RequestTyped(r) /\ u \in Users /\ request[r].pc = "group"
  BY <1>0 DEF Group, Active, IInv, RequestOK, Types
<1>2. /\ g \in Groups /\ kind \in {"addToGroup", "delFromGroup"} /\ adds \in BOOLEAN
      /\ kind = "addToGroup" <=> adds
  BY <1>0, <1>1, GroupsAssumption DEF RequestTyped, Ask
<1>3. /\ calls' = calls \cup {call}
      /\ IF own /\ g = Training THEN Says(u, what) ELSE UNCHANGED said
      /\ IF own THEN Ends(r) ELSE Goes(r, IF ask.op = "create" THEN "tell" ELSE "write")
      /\ UNCHANGED <<units, account>>
  BY <1>0 DEF Group, Send
<1>4. account[u] \in Account /\ account[u] # NoAccount
  BY <1>0, <1>1 DEF Group, Finds, Types
<1>5. /\ \A q \in Requests \ {r} : request'[q] = request[q]
      /\ IF own THEN ~Active(r)'
         ELSE /\ request'[r].pc = IF ask.op = "create" THEN "tell" ELSE "write"
              /\ request'[r].ask = ask
              /\ ask.op # "create" => request'[r].seen = request[r].seen
              /\ About(r)' = u /\ Active(r)'
  <2>1. CASE own
    BY <1>3, <2>1, EndsAbout
  <2>2. CASE ~own /\ ask.op = "create"
    BY <1>0, <1>3, <2>2, GoesAbout
  <2>3. CASE ~own /\ ask.op # "create"
    BY <1>0, <1>3, <2>3, GoesAbout
  <2> QED
    BY <2>1, <2>2, <2>3
<1>6. own => ask.op \notin {"create", "update"}
  OBVIOUS
<1>7. CallTyped(call) /\ call.kind = kind /\ call.arg = g /\ call.user = u
  BY <1>0, <1>1, <1>2 DEF CallTyped
<1> HIDE DEF call
<1>8. /\ \A v \in Users \ {u} : Moving(v)' = Moving(v)
      /\ Moving(u)' = Moving(u) \cup {call}
  BY <1>2, <1>3, <1>7, MovingAdds
<1>9. /\ \A v \in Users \ {u} : said'[v] = said[v]
      /\ said[u] = Unsure => said'[u] = Unsure
      /\ said[u] # Unsure => said'[u] = IF own /\ g = Training THEN what ELSE said[u]
  BY <1>0, <1>1, <1>3 DEF Says, Types
<1> DEFINE after == IF own /\ g = Training THEN what ELSE said[u]
<1>10. ASSUME said[u] # Unsure
       PROVE  /\ Active(r)' => Promise(request'[r], account[u], Moving(u)', after)
              /\ ~Active(r)' => Settles(account[u], Moving(u)', after)
  <2>1. Promise(request[r], account[u], Moving(u), said[u])
    BY <1>0, <1>1, <1>10, Promised
  <2>2. Moving(u)' = {call}
    BY <1>0, <1>1, <1>8, <2>1 DEF Promise, Still
  <2>3. said[u] \in Said
    BY <1>0, <1>1, <1>10 DEF Types
  <2>4. CASE own
    <3>1. AsSaid(account[u], said[u])
      BY <1>0, <1>1, <1>6, <2>1, <2>4 DEF Promise, Still
    <3>2. said[u].account /\ said[u].enabled = account[u].enabled
          /\ (said[u].training <=> Training \in account[u].groups)
      BY <1>4, <3>1 DEF AsSaid
    <3>3. CASE g = Training
      <4>1. after = [said[u] EXCEPT !.training = adds]
        BY <1>10, <2>4, <3>3 DEF Before
      <4> HIDE DEF after, adds, g, kind
      <4>2. after.account /\ after.enabled = account[u].enabled /\ (after.training <=> adds)
        BY <1>2, <2>3, <3>2, <4>1 DEF Said
      <4> QED
        BY <1>2, <1>4, <1>5, <1>7, <2>2, <2>4, <3>3, <4>2, GroupSettles
    <3>4. CASE g # Training
      <4>1. after = said[u]
        BY <3>4
      <4> HIDE DEF after, adds, g, kind
      <4> QED
        BY <1>2, <1>4, <1>5, <1>7, <2>2, <2>4, <3>2, <3>4, <4>1, GroupSettles
    <3> QED
      BY <3>3, <3>4
  <2>5. CASE ask.op = "create"
    <3>1. /\ Trained(request[r])
          /\ AsSaid(account[u], [account |-> TRUE, enabled |-> TRUE, training |-> FALSE])
      BY <1>0, <1>1, <2>1, <2>5 DEF Promise, Still
    <3>2. account[u].enabled = TRUE /\ kind = "addToGroup" /\ g = Training
      BY <1>4, <2>5, <3>1 DEF AsSaid, Trained
    <3>3. after = said[u]
      BY <2>5
    <3> DEFINE w == [account |-> TRUE, enabled |-> (ask.op = "create" \/ said[u].enabled),
                     training |-> Trained(request'[r])]
    <3>4. w.account /\ w.enabled = TRUE /\ w.training
      BY <1>5, <2>5, <3>1 DEF Trained
    <3> HIDE DEF w, after, adds, g, kind
    <3>5. Settles(account[u], {call}, w)
      BY <1>2, <1>4, <1>7, <3>2, <3>4, GroupSettles
    <3> QED
      BY <1>5, <2>2, <2>5, <3>3, <3>5 DEF Promise, w
  <2>6. CASE ask.op \notin {"create", "assign", "revoke"}
    <3>1. /\ request[r].seen = account[u] /\ ChangesTraining(account[u], ask)
          /\ AsSaid(account[u], said[u])
      BY <1>0, <1>1, <2>1, <2>6 DEF Promise, Still
    <3>2. said[u].account /\ said[u].enabled = account[u].enabled
      BY <1>4, <3>1 DEF AsSaid
    <3>3. after = said[u] /\ (kind = "addToGroup" <=> ask.training = "yes") /\ g = Training
      BY <2>6
    <3> DEFINE w == [said[u] EXCEPT !.training = Trained(request'[r])]
    <3>4. w.account /\ w.enabled = account[u].enabled /\ (w.training <=> ask.training = "yes")
      BY <1>5, <2>3, <2>6, <3>2 DEF Said, Trained
    <3> HIDE DEF w, after, adds, g, kind
    <3>5. Settles(account[u], {call}, w)
      BY <1>2, <1>4, <1>7, <3>2, <3>3, <3>4, GroupSettles
    <3> QED
      BY <1>2, <1>5, <1>7, <2>2, <2>6, <3>1, <3>2, <3>3, <3>5 DEF Promise, w
  <2> QED
    BY <2>4, <2>5, <2>6
<1> HIDE DEF after, what, adds, kind, g
<1> QED
  <2>1. said'[u] # Unsure => said[u] # Unsure /\ said'[u] = after
    BY <1>9 DEF after
  <2>2. /\ account' = account
        /\ said'[u] # Unsure =>
              /\ Active(r)' => Promise(request'[r], account'[u], Moving(u)', said'[u])
              /\ ~Active(r)' => Settles(account'[u], Moving(u)', said'[u])
    BY <1>3, <1>10, <2>1
  <2>3. About(r)' = u \/ ~Active(r)'
    BY <1>5
  <2> QED
    BY <1>0, <1>1, <1>5, <1>8, <1>9, <2>1, <2>2, <2>3, StepSays

LEMMA FireSays ==
  ASSUME IInv, Types, SaidInv, NEW r \in Requests, Fire(r)
  PROVE  SaidInv'
<1>0. PICK u \in Users : u = About(r)
  BY DEF IInv, RequestOK, Fire, Active
<1> DEFINE op == request[r].ask.op
           what == IF op = "delete" THEN Nothing ELSE [Before(u) EXCEPT !.enabled = (op = "activate")]
           call == IF op = "delete" THEN [kind |-> "del", user |-> u, arg |-> None]
                   ELSE [kind |-> "update", user |-> u, arg |-> op]
<1>1. Active(r) /\ u \in Users /\ request[r].pc = "fire"
  BY <1>0 DEF Fire, Active, IInv, RequestOK
<1>2. Says(u, what) /\ Ends(r) /\ calls' = calls \cup {call} /\ UNCHANGED <<units, account>>
  BY <1>0 DEF Fire, Send
<1>3. account[u] \in Account /\ account[u] # NoAccount
  BY <1>0, <1>1 DEF Fire, Finds, Types
<1>4. /\ \A q \in Requests \ {r} : request'[q] = request[q]
      /\ ~Active(r)'
  BY <1>2, EndsAbout
<1>5. call.user = u /\ call.kind # "listener"
  OBVIOUS
<1>6. ASSUME said[u] # Unsure
      PROVE  AsSaid(Done(call, account[u]), what)
  <2>1. AsSaid(account[u], said[u]) /\ said[u] \in Said
    BY <1>0, <1>1, <1>6, Promised DEF Promise, Still, Types
  <2>2. CASE op = "delete"
    BY <2>2 DEF Done, AsSaid, Nothing
  <2>3. CASE op # "delete"
    <3> DEFINE now == (op = "activate")
    <3>1. Done(call, account[u]) = [account[u] EXCEPT !.enabled = now]
      BY <2>3 DEF Done
    <3>2. what = [said[u] EXCEPT !.enabled = now]
      BY <1>6, <2>3 DEF Before
    <3>3. now \in BOOLEAN
      OBVIOUS
    <3> HIDE DEF now, what, call
    <3>4. /\ Done(call, account[u]) # NoAccount
          /\ Done(call, account[u]).enabled = now
          /\ Done(call, account[u]).groups = account[u].groups
      BY <1>3, <3>1, <3>3, SentinelAssumption DEF Account
    <3>5. what.account = said[u].account /\ what.enabled = now /\ what.training = said[u].training
      BY <2>1, <3>2 DEF Said
    <3> QED
      BY <1>3, <2>1, <3>4, <3>5 DEF AsSaid
  <2> QED
    BY <2>2, <2>3
<1> HIDE DEF what, call
<1>7. /\ \A v \in Users \ {u} : Moving(v)' = Moving(v)
      /\ Moving(u)' = Moving(u) \cup {call}
  BY <1>2, <1>5, MovingAdds
<1>8. /\ \A v \in Users \ {u} : said'[v] = said[v]
      /\ said'[u] = IF said[u] = Unsure THEN Unsure ELSE what
  BY <1>0, <1>1, <1>2 DEF Says, Types
<1>9. ASSUME said[u] # Unsure
      PROVE  Settles(account[u], Moving(u)', what)
  <2>1. Moving(u)' = {call}
    BY <1>0, <1>1, <1>7, <1>9, Promised DEF Promise, Still
  <2> QED
    BY <1>3, <1>6, <1>9, <2>1 DEF Settles
<1>10. /\ account' = account
       /\ said'[u] # Unsure =>
             /\ said[u] # Unsure
             /\ Settles(account'[u], Moving(u)', said'[u])
  BY <1>2, <1>8, <1>9
<1> QED
  BY <1>0, <1>1, <1>4, <1>7, <1>8, <1>10, StepSays

LEMMA RefuseSays ==
  ASSUME IInv, Types, SaidInv, NEW r \in Requests,
         CreateConflict(r) \/ WriteFails(r) \/ NothingToTell(r) \/ GroupRefused(r) \/ NotFound(r)
  PROVE  SaidInv'
<1>0. PICK u \in Users : u = About(r)
  BY Refusals DEF IInv, RequestOK, Refuses
<1>1. Active(r) /\ Ends(r) /\ UNCHANGED <<units, account, calls, outdated>>
  BY Refusals DEF Refuses
<1>2. /\ said' = said \/ said' = Doubts({u})
      /\ said[u] # Unsure =>
            \/ Still(account[u], Moving(u), said[u])
            \/ WriteFails(r) /\ ChangesTraining(request[r].seen, request[r].ask)
            \/ NothingToTell(r)
            \/ GroupRefused(r) /\ request[r].ask.op = "create"
  BY <1>0, <1>1, Refusals, Promised
     DEF Refuses, Promise, CreateConflict, WriteFails, GroupRefused, NotFound
<1>3. said'[u] # Unsure => said'[u] = said[u] /\ Still(account[u], Moving(u), said[u])
  <2>1. (\/ WriteFails(r) /\ ChangesTraining(request[r].seen, request[r].ask)
         \/ NothingToTell(r)
         \/ GroupRefused(r) /\ request[r].ask.op = "create") => said' = Doubts({u})
    BY <1>0 DEF WriteFails, NothingToTell, GroupRefused, Refuse
  <2>2. said' = Doubts({u}) => said'[u] = Unsure
    BY DEF Doubts
  <2> QED
    BY <1>2, <2>1, <2>2
<1>4. \A v \in Users \ {u} : said'[v] = said[v]
  BY <1>2 DEF Doubts
<1>5. \A v \in Users : Moving(v)' = Moving(v)
  BY <1>1 DEF Moving
<1>6. /\ \A q \in Requests \ {r} : request'[q] = request[q]
      /\ ~Active(r)'
  BY <1>1, EndsAbout
<1>7. said'[u] # Unsure => Settles(account'[u], Moving(u)', said'[u])
  BY <1>1, <1>3, <1>5 DEF Still, Settles
<1> QED
  BY <1>0, <1>1, <1>3, <1>4, <1>5, <1>6, <1>7, StepSays

LEMMA ArriveSays ==
  ASSUME IInv, Types, SaidInv, NEW call \in calls, Arrive(call)
  PROVE  SaidInv'
<1> DEFINE u == call.user
<1>1. CallTyped(call) /\ u \in Users
  BY DEF Types, CallTyped
<1>2. /\ account' = [account EXCEPT ![u] = Done(call, @)]
      /\ calls' = calls \ {call} /\ UNCHANGED <<units, request, said>>
  BY DEF Arrive
<1>3. /\ account'[u] = Done(call, account[u])
      /\ \A v \in Users \ {u} : account'[v] = account[v]
  BY <1>1, <1>2 DEF Types
<1>4. \A v \in Users : v # u \/ call.kind = "listener" => Moving(v)' = Moving(v)
  BY <1>2 DEF Moving
<1>5. ASSUME NEW v \in Users, v # u \/ call.kind = "listener"
      PROVE  AccountSays(v)'
  <2>1. account'[v] = account[v]
    BY <1>3, <1>5 DEF Done
  <2> QED
    BY <1>2, <1>4, <1>5, <2>1, OtherSays DEF SaidInv
<1>6. ASSUME call.kind # "listener"
      PROVE  AccountSays(u)'
  <2>1. call \in Moving(u) /\ (Moving(u) = {call} => Moving(u)' = {})
    BY <1>2, <1>6 DEF Moving
  <2>2. \A what : Settles(account[u], Moving(u), what) => Settles(account'[u], Moving(u)', what)
    BY <1>3, <2>1 DEF Settles
  <2>3. SUFFICES ASSUME said[u] # Unsure
                 PROVE  /\ \A q, r \in Requests : Active(q) /\ Active(r) /\ About(q) = u /\ About(r) = u => q = r
                        /\ (\A r \in Requests : Active(r) => About(r) # u) =>
                               Settles(account'[u], Moving(u)', said[u])
                        /\ \A r \in Requests : Active(r) /\ About(r) = u =>
                               Promise(request[r], account'[u], Moving(u)', said[u])
    BY <1>2 DEF AccountSays, Active, About
  <2>4. ASSUME NEW r \in Requests, Active(r), About(r) = u
        PROVE  Promise(request[r], account'[u], Moving(u)', said[u])
    <3>1. Promise(request[r], account[u], Moving(u), said[u])
      BY <2>3, <2>4, Promised
    <3>2. ~Still(account[u], Moving(u), said[u]) /\ request[r].pc \in {"write", "tell"}
      <4>1. \A what : ~Still(account[u], Moving(u), what)
        BY <2>1 DEF Still
      <4>2. request[r].pc \in {"create", "read", "group", "write", "tell", "fire"}
        BY <2>4 DEF Types, RequestTyped, Pcs, Active
      <4> QED
        BY <3>1, <4>1, <4>2 DEF Promise
    <3>3. \A c \in Moving(u)' : c \in Moving(u)
      BY <1>2 DEF Moving
    <3> QED
      BY <2>2, <3>1, <3>2, <3>3 DEF Promise
  <2> QED
    BY <1>1, <2>2, <2>3, <2>4 DEF SaidInv, AccountSays
<1> QED
  BY <1>5, <1>6 DEF SaidInv

LEMMA StopSays ==
  ASSUME IInv, Types, SaidInv, Stop
  PROVE  SaidInv'
<1> SUFFICES ASSUME NEW v \in Users PROVE AccountSays(v)'
  BY DEF SaidInv
<1> DEFINE us == {c.user : c \in calls} \cup {About(r) : r \in {q \in Requests : Active(q)}}
<1>1. said' = Doubts(us) /\ calls' = {} /\ account' = account
  BY DEF Stop
<1>2. CASE v \in us
  BY <1>1, <1>2 DEF Doubts, AccountSays
<1>3. CASE v \notin us
  <2>1. said'[v] = said[v]
    BY <1>1, <1>3 DEF Doubts
  <2>2. Moving(v)' = {} /\ Moving(v) = {}
    BY <1>1, <1>3 DEF Moving
  <2>3. \A q \in Requests : Active(q) => About(q) # v
    BY <1>3
  <2>4. \A q \in Requests : \/ request'[q] = request[q]
                            \/ (Active(q) => About(q) # v) /\ (Active(q)' => About(q)' # v)
    <3>1. Over.pc = "over"
      BY DEF Over, Idle
    <3>2. \A q \in Requests : request'[q] = request[q] \/ request'[q] = Over
      BY DEF Stop
    <3> QED
      BY <2>3, <3>1, <3>2 DEF Active
  <2> QED
    BY <1>1, <2>1, <2>2, <2>4, OtherSays DEF SaidInv
<1> QED
  BY <1>2, <1>3

LEMMA SaidInitially == Init => Types /\ SaidInv
<1> SUFFICES ASSUME Init PROVE Types /\ SaidInv
  OBVIOUS
<1>1. Idle.pc = "idle" /\ Idle.units = {} /\ Idle.seen = NoAccount
  BY DEF Idle
<1>2. \A r \in Requests : request[r] = Idle
  BY DEF Init
<1>3. Types
  <2>1. Nothing \in Said
    BY DEF Nothing, Said
  <2> QED
    BY <1>1, <1>2, <2>1 DEF Init, Types, RequestTyped, Active, Pcs
<1>4. ASSUME NEW u \in Users PROVE AccountSays(u)
  <2>1. AsSaid(account[u], said[u])
    BY DEF Init, AsSaid, Nothing
  <2>2. Moving(u) = {}
    BY DEF Init, Moving
  <2>3. Settles(account[u], Moving(u), said[u])
    BY <2>1, <2>2 DEF Settles
  <2> QED
    BY <1>1, <1>2, <2>3 DEF AccountSays, Active
<1> QED
  BY <1>3, <1>4 DEF SaidInv

LEMMA SaidInductive == IInv /\ Types /\ SaidInv /\ [Next]_vars => SaidInv'
<1> SUFFICES ASSUME IInv, Types, SaidInv, [Next]_vars PROVE SaidInv'
  OBVIOUS
<1>1. ASSUME NEW r \in Requests,
             Begin(r) \/ Create(r) \/ Read(r) \/ Write(r) \/ Tell(r) \/ Group(r) \/ Fire(r)
      PROVE  SaidInv'
  BY <1>1, BeginSays, CreateSays, ReadSays, WriteSays, TellSays, GroupSays, FireSays
<1>2. ASSUME NEW r \in Requests,
             CreateConflict(r) \/ WriteFails(r) \/ NothingToTell(r) \/ GroupRefused(r) \/ NotFound(r)
      PROVE  SaidInv'
  BY <1>2, RefuseSays
<1>3. ASSUME NEW call \in calls, Arrive(call) PROVE SaidInv'
  BY <1>3, ArriveSays
<1>4. CASE Stop
  BY <1>4, StopSays
<1>5. CASE UNCHANGED <<account, request, calls, said>>
  BY <1>5, OtherSays DEF SaidInv, Moving
<1> QED
  BY <1>1, <1>2, <1>3, <1>4, <1>5 DEF Next, MoveUnit, vars

\* A quiet account is what was said of it.
LEMMA QuietAsSaid ==
  ASSUME SaidInv, NEW u \in Users, Quiet(u)
  PROVE  AsSaid(account[u], said[u])
BY DEF SaidInv, AccountSays, Settles, Quiet, Busy, Moving

LEMMA SaidInvariance == Spec => [](Types /\ SaidInv)
<1>1. Init => IInv /\ Types /\ SaidInv
  BY Initially, SaidInitially
<1>2. IInv /\ Types /\ SaidInv /\ [Next]_vars => (IInv /\ Types /\ SaidInv)'
  BY Inductive, TypesInductive, SaidInductive
<1> QED
  BY <1>1, <1>2, PTL DEF Spec

(* As long as nothing about an account overlapped or was cut, a deleted     *)
(* account is gone, and one that was activated or deactivated is so         *)
(* (updateUserActivation, updateOrganizationUser and the calls that are     *)
(* not awaited).                                                            *)
THEOREM ActivationHolds == Spec => []ActivationAsAnswered
<1>1. Types /\ SaidInv => ActivationAsAnswered
  <2> SUFFICES ASSUME Types, SaidInv, NEW u \in Users, Quiet(u)
               PROVE  /\ (account[u] # NoAccount) = said[u].account
                      /\ account[u] # NoAccount => account[u].enabled = said[u].enabled
    BY DEF ActivationAsAnswered
  <2>1. AsSaid(account[u], said[u])
    BY QuietAsSaid
  <2>2. said[u].account \in BOOLEAN
    BY DEF Types, Said, Quiet
  <2> QED
    BY <2>1, <2>2 DEF AsSaid
<1> QED
  BY <1>1, SaidInvariance, PTL

(* Under the same condition a user is a training participant exactly if the *)
(* last answer that could say so said it (assignUserToRoleGroup,            *)
(* revokeUserFromRoleGroup).                                                *)
THEOREM TrainingHolds == Spec => []TrainingAsAnswered
<1>1. Types /\ SaidInv => TrainingAsAnswered
  <2> SUFFICES ASSUME Types, SaidInv, NEW u \in Users, Quiet(u), account[u] # NoAccount
               PROVE  (Training \in account[u].groups) = said[u].training
    BY DEF TrainingAsAnswered
  <2>1. AsSaid(account[u], said[u])
    BY QuietAsSaid
  <2>2. said[u].training \in BOOLEAN
    BY DEF Types, Said, Quiet
  <2> QED
    BY <2>1, <2>2 DEF AsSaid
<1> QED
  BY <1>1, SaidInvariance, PTL
=============================================================================
