------------------------- MODULE OrganizationUsers -------------------------
(***************************************************************************)
(* The accounts of one organization's users, as OrganizationsService keeps *)
(* them in Keycloak.  An account names a unit and, beside it, the path of  *)
(* that unit, by which staff of a unit finds the accounts below its own.   *)
(*                                                                         *)
(* The service sends addToGroup, delFromGroup, del and the change of       *)
(* "enabled" without waiting for Keycloak: a request is answered while its *)
(* call is still under way, and nobody catches what the call throws, so    *)
(* that a call that fails stops the process.  The listener of the created  *)
(* event is such a call too.                                               *)
(***************************************************************************)
EXTENDS Access

CONSTANTS
    Users,          \* user names, one account each
    Requests,       \* requests the API serves
    Asks,           \* what requests ask: see Ask
    Org,            \* the slug of the organization
    Slugs,          \* unit slugs a dto may name
    Layouts,        \* the ways the organization's units may lie: sets of units
    Beginnings,     \* pairs <<s, t>> of slugs where string t starts with s
    Groups,         \* role groups
    Training,       \* TRAINING_PARTICIPANT_ROLE_GROUP_PATH
    AllowedGroups,  \* allowedRoleGroups of the organization
    NoAccount,      \* nobody has the user name
    Unsure          \* see said

ASSUME GroupsAssumption == Training \in Groups /\ AllowedGroups \subseteq Groups

VARIABLES
    units,          \* the organization's units
    account,        \* account[u]: Keycloak's account of user name u
    request,        \* request[r]: where request r is
    calls,          \* calls under way that nobody waits for
    said,           \* history: what the last answer about an account said of it, or
                    \* Unsure once requests overlapped, were cut or failed half-way
    outdated        \* history: accounts whose unit may lie elsewhere by now

vars == <<units, account, request, calls, said, outdated>>

-----------------------------------------------------------------------------
\* The path of an account without a unit, and those of the units of any layout.
Paths == {<<>>} \cup UNION {{UnitPath(x, known) : x \in known} : known \in Layouts}

Account == [unit : Slugs \cup {None}, path : Paths, groups : SUBSET Groups, enabled : BOOLEAN]

ASSUME SentinelAssumption == NoAccount \notin Account

\* canAccessTraining of a dto: a boolean that may be absent.
Answers == {"yes", "no", "absent"}

\* unit is None in a dto without a unit; group only counts for the group routes.
Ask == [op : {"create", "update", "delete", "activate", "deactivate", "assign", "revoke"},
        user : Users, caller : [permissions : SUBSET Levels, organization : {Org},
                                unit : Slugs \cup {None}, path : Seq(Slugs \cup {Org})],
        unit : Slugs \cup {None}, training : Answers, group : Groups]

ASSUME AsksAssumption == Asks \subseteq Ask

(* A string begins with another as far as sequences of slugs can tell: only *)
(* the last slug of the prefix may go on.                                   *)
Starts(prefix, path) ==
    /\ prefix # <<>>
    /\ Len(prefix) <= Len(path)
    /\ \A i \in 1..(Len(prefix) - 1) : prefix[i] = path[i]
    /\ <<prefix[Len(prefix)], path[Len(prefix)]>> \in Beginnings

(* findOrganizationUsers: staff above the units sees every account of the   *)
(* organization, any other caller those whose path starts with its own.     *)
Finds(caller, u) ==
    /\ account[u] # NoAccount
    /\ \/ OrganizationLevel(caller) \in {"admin", "organization"}
       \/ Starts(caller.path, account[u].path)

(* validateUnitAttribute: a slug that is no unit of the organization leaves *)
(* the account without a unit.                                              *)
Placed(acc, slug, known) ==
    IF slug = None THEN acc
    ELSE LET named == {x \in known : x.slug = slug}
         IN  IF named = {} THEN [acc EXCEPT !.unit = None, !.path = <<>>]
             ELSE [acc EXCEPT !.unit = slug,
                              !.path = UnitPath(CHOOSE x \in named : TRUE, known)]

\* Mutant: the unit that a dto names is merged after the path was found.
MergesLate(acc, dto, known) ==
    [Placed(acc, acc.unit, known) EXCEPT !.unit = IF dto.unit = None THEN @ ELSE dto.unit]

(* The dto's attributes over those that were read, validated together.      *)
Merge(acc, dto, known) == Placed(acc, IF dto.unit = None THEN acc.unit ELSE dto.unit, known)

MayUseGroup(caller, g) == OrganizationLevel(caller) = "admin" \/ g \in AllowedGroups

-----------------------------------------------------------------------------
(* Requests and what they overlap. *)

Idle == [pc |-> "idle", ask |-> CHOOSE a \in Asks : TRUE, units |-> {}, seen |-> NoAccount]

Over == [Idle EXCEPT !.pc = "over"]

Active(r) == request[r].pc \notin {"idle", "over"}

About(r) == request[r].ask.user

Busy(u) == (\E r \in Requests : Active(r) /\ About(r) = u) \/ (\E c \in calls : c.user = u)

Nothing == [account |-> FALSE, enabled |-> FALSE, training |-> FALSE]

Doubts(us) == [u \in Users |-> IF u \in us THEN Unsure ELSE said[u]]

Init ==
    /\ units \in Layouts
    /\ account = [u \in Users |-> NoAccount]
    /\ request = [r \in Requests |-> Idle]
    /\ calls = {}
    /\ said = [u \in Users |-> Nothing]
    /\ outdated = {}

\* What was read is only kept until it has been written.
Goes(r, pc) ==
    request' = [request EXCEPT ![r] = IF pc = "tell" THEN [@ EXCEPT !.pc = pc, !.units = {}, !.seen = NoAccount]
                                      ELSE [@ EXCEPT !.pc = pc]]
Ends(r) == request' = [request EXCEPT ![r] = Over]

(* Every operation first reads the organization with its units.             *)
Begin(r) ==
    /\ request[r].pc = "idle"
    /\ \E ask \in Asks :
           /\ request' = [request EXCEPT ![r] =
                  [pc |-> CASE ask.op = "create" -> "create"
                            [] ask.op = "update" -> "read"
                            [] ask.op \in {"assign", "revoke"} -> "group"
                            [] OTHER -> "fire",
                   ask |-> ask, seen |-> NoAccount,
                   units |-> IF ask.op \in {"create", "update"} THEN units ELSE {}]]
           /\ said' = IF Busy(ask.user) THEN Doubts({ask.user}) ELSE said
    /\ UNCHANGED <<units, account, calls, outdated>>

Before(u) == IF said[u] = Unsure THEN Nothing ELSE said[u]

\* An answer, and what is known to be so after it.
Says(u, what) == said' = [said EXCEPT ![u] = IF @ = Unsure THEN @ ELSE what]

\* A request that ends with an error, after it had changed something or before.
Refuse(r, half) ==
    /\ Ends(r)
    /\ said' = IF half THEN Doubts({About(r)}) ELSE said
    /\ UNCHANGED <<units, account, calls, outdated>>

-----------------------------------------------------------------------------
(* createOrganizationUser. *)

\* New users are enabled, and a path is found for their unit.
Create(r) ==
    LET u == About(r)
        ask == request[r].ask
        blank == [unit |-> None, path |-> <<>>, groups |-> {}, enabled |-> TRUE]
    IN  /\ request[r].pc = "create"
        /\ account[u] = NoAccount
        /\ account' = [account EXCEPT ![u] = Placed(blank, ask.unit, request[r].units)]
        /\ outdated' = IF request[r].units = units THEN outdated \ {u} ELSE outdated \cup {u}
        /\ Goes(r, IF ask.training = "yes" THEN "group" ELSE "tell")
        /\ UNCHANGED <<units, calls, said>>

CreateConflict(r) ==
    /\ request[r].pc = "create"
    /\ account[About(r)] # NoAccount
    /\ Refuse(r, FALSE)

-----------------------------------------------------------------------------
(* updateOrganizationUser. *)

\* Mutant: training is given, never taken away.
OnlyAssigns(acc, dto) == dto.training = "yes" /\ Training \notin acc.groups

\* canAccessTraining !== shouldAccessTraining, where an absent answer is no boolean.
ChangesTraining(acc, dto) ==
    CASE dto.training = "yes" -> Training \notin acc.groups
      [] dto.training = "no" -> Training \in acc.groups
      [] OTHER -> TRUE

\* Everything the update is going to write is taken from this one read.
Read(r) ==
    LET u == About(r)
        ask == request[r].ask
    IN  /\ request[r].pc = "read"
        /\ Finds(ask.caller, u)
        /\ request' = [request EXCEPT
               ![r].seen = account[u],
               ![r].pc = IF ChangesTraining(account[u], ask) THEN "group" ELSE "write"]
        /\ UNCHANGED <<units, account, calls, said, outdated>>

\* Mutant: an update enables the account, as a creation does.
EnablesAlways(acc, seen, dto, known) == [Merge(seen, dto, known) EXCEPT !.groups = acc.groups,
                                                                        !.enabled = TRUE]

\* Keycloak takes the whole representation but for the groups.
Written(acc, seen, dto, known) == [Merge(seen, dto, known) EXCEPT !.groups = acc.groups]

Write(r) ==
    LET u == About(r)
    IN  /\ request[r].pc = "write"
        /\ account[u] # NoAccount
        /\ account' = [account EXCEPT ![u] =
               Written(@, request[r].seen, request[r].ask, request[r].units)]
        /\ outdated' = IF request[r].units = units THEN outdated \ {u} ELSE outdated \cup {u}
        /\ Goes(r, "tell")
        /\ UNCHANGED <<units, calls, said>>

\* The account is gone, or Keycloak does not take the new name or e-mail.
WriteFails(r) ==
    /\ request[r].pc = "write"
    /\ Refuse(r, ChangesTraining(request[r].seen, request[r].ask))

(* The account is read back, its event emitted and the request answered; of *)
(* an account that is gone there is nothing to tell.  Only the created      *)
(* event has a listener.                                                    *)
Tell(r) ==
    LET u == About(r)
        ask == request[r].ask
        created == ask.op = "create"
    IN  /\ request[r].pc = "tell"
        /\ account[u] # NoAccount
        /\ Ends(r)
        /\ calls' = IF created THEN calls \cup {[kind |-> "listener", user |-> u, arg |-> None]} ELSE calls
        /\ Says(u, [account |-> TRUE, enabled |-> created \/ Before(u).enabled,
                    training |-> ask.training = "yes"])
        /\ UNCHANGED <<units, account, outdated>>

NothingToTell(r) ==
    /\ request[r].pc = "tell"
    /\ account[About(r)] = NoAccount
    /\ Refuse(r, TRUE)

-----------------------------------------------------------------------------
(* Calls that are sent and not waited for.  The account is read at once     *)
(* before; what happens to it then is for the call to find out.             *)

Send(kind, u, arg) == calls' = calls \cup {[kind |-> kind, user |-> u, arg |-> arg]}

\* assignUserToRoleGroup and revokeUserFromRoleGroup, of their own or for a dto.
Group(r) ==
    LET u == About(r)
        ask == request[r].ask
        own == ask.op \in {"assign", "revoke"}
        adds == IF own THEN ask.op = "assign" ELSE ask.training = "yes"
        g == IF own THEN ask.group ELSE Training
    IN  /\ request[r].pc = "group"
        /\ Finds(ask.caller, u)
        /\ MayUseGroup(ask.caller, g)
        /\ Send(IF adds THEN "addToGroup" ELSE "delFromGroup", u, g)
        /\ IF own THEN Ends(r) ELSE Goes(r, IF ask.op = "create" THEN "tell" ELSE "write")
        /\ IF own /\ g = Training THEN Says(u, [Before(u) EXCEPT !.training = adds])
           ELSE UNCHANGED said
        /\ UNCHANGED <<units, account, outdated>>

\* Nothing is undone: a user who was created stays, without a word to anybody.
GroupRefused(r) ==
    LET ask == request[r].ask
    IN  /\ request[r].pc = "group"
        /\ \/ ~Finds(ask.caller, About(r))
           \/ ~MayUseGroup(ask.caller,
                           IF ask.op \in {"assign", "revoke"} THEN ask.group ELSE Training)
        /\ Refuse(r, ask.op = "create")

\* deleteOrganizationUser and updateUserActivation.
Fire(r) ==
    LET u == About(r)
        ask == request[r].ask
    IN  /\ request[r].pc = "fire"
        /\ Finds(ask.caller, u)
        /\ Ends(r)
        /\ IF ask.op = "delete"
           THEN Send("del", u, None) /\ Says(u, Nothing)
           ELSE /\ Send("update", u, ask.op)
                /\ Says(u, [Before(u) EXCEPT !.enabled = ask.op = "activate"])
        /\ UNCHANGED <<units, account, outdated>>

NotFound(r) ==
    /\ request[r].pc \in {"read", "fire"}
    /\ ~Finds(request[r].ask.caller, About(r))
    /\ Refuse(r, FALSE)

(* What a call does once it arrives. *)
Done(call, acc) ==
    CASE call.kind = "addToGroup" -> [acc EXCEPT !.groups = @ \cup {call.arg}]
      [] call.kind = "delFromGroup" -> [acc EXCEPT !.groups = @ \ {call.arg}]
      [] call.kind = "update" -> [acc EXCEPT !.enabled = call.arg = "activate"]
      [] call.kind = "del" -> NoAccount
      [] OTHER -> acc

Arrive(call) ==
    /\ account[call.user] # NoAccount \/ call.kind = "listener"
    /\ account' = [account EXCEPT ![call.user] = Done(call, @)]
    /\ calls' = calls \ {call}
    /\ UNCHANGED <<units, request, said, outdated>>

\* A call may fail: the account is gone, Keycloak does not answer, or the listener
\* has no member to remove.  The process stops, and every request with it.
Stop ==
    /\ calls # {}
    /\ calls' = {}
    /\ request' = [r \in Requests |-> IF Active(r) THEN Over ELSE request[r]]
    /\ said' = Doubts({c.user : c \in calls} \cup {About(r) : r \in {q \in Requests : Active(q)}})
    /\ UNCHANGED <<units, account, outdated>>

\* A unit is moved: the paths in Keycloak stay what they are.
MoveUnit ==
    /\ \E layout \in Layouts \ {units} : units' = layout
    /\ outdated' = {u \in Users : account[u] # NoAccount}
    /\ UNCHANGED <<account, request, calls, said>>

-----------------------------------------------------------------------------
Next ==
    \/ \E r \in Requests :
           \/ Begin(r) \/ Create(r) \/ CreateConflict(r)
           \/ Read(r) \/ Write(r) \/ WriteFails(r) \/ Tell(r) \/ NothingToTell(r)
           \/ Group(r) \/ GroupRefused(r) \/ Fire(r) \/ NotFound(r)
    \/ \E call \in calls : Arrive(call)
    \/ Stop
    \/ MoveUnit

Spec == Init /\ [][Next]_vars

-----------------------------------------------------------------------------
(* Properties. *)

Quiet(u) == ~Busy(u) /\ said[u] # Unsure

(* An account's path is the path of the unit it names, however many         *)
(* requests have rewritten the two and whatever read they wrote them from,  *)
(* until a unit is moved.                                                   *)
PathOfUnit ==
    \A u \in Users :
        account[u] # NoAccount /\ u \notin outdated =>
            account[u].path = Placed(account[u], account[u].unit, units).path

(* As long as no two requests about an account overlap, their unawaited     *)
(* calls included, and none is cut, a deleted account is gone and one that  *)
(* was activated or deactivated is so, whichever updates wrote it since.    *)
ActivationAsAnswered ==
    \A u \in Users :
        Quiet(u) => /\ (account[u] # NoAccount) = said[u].account
                    /\ account[u] # NoAccount => account[u].enabled = said[u].enabled

(* Under the same condition a user has access to training exactly if the    *)
(* last answered request that could say so gave it: a creation or an update *)
(* whose dto does not mention training takes it away.                       *)
TrainingAsAnswered ==
    \A u \in Users :
        Quiet(u) /\ account[u] # NoAccount => (Training \in account[u].groups) = said[u].training
=============================================================================
