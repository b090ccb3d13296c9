-------------------------- MODULE TipNotifications --------------------------
(***************************************************************************)
(* How the threat assessment team (TAT) of a unit hears of a new tip:      *)
(* TipsService saves the tip and emits an event, SubmitTipListener adds a  *)
(* job to the notifications queue, and NotificationsProcessor looks the    *)
(* team's contacts up, in Redis or in Keycloak, and adds one SMS job per   *)
(* phone and one job for all email addresses.                              *)
(*                                                                         *)
(* Neither the listener nor the processor awaits its adds: a job is on its *)
(* way while its caller goes on, and may be lost.  A worker may crash, and *)
(* BullMQ then finds its job stalled.  The queue is external: modelled is  *)
(* what the code's options ask of it.  Delays are left out: SMS jobs may   *)
(* be taken in any order.                                                  *)
(***************************************************************************)
EXTENDS Naturals

CONSTANTS
    Tips,           \* tips, each submitted at most once
    Units, Orgs, Slugs,
    OrgOf,          \* OrgOf[u]: the organization of unit u
    SlugOf,         \* SlugOf[u]: its slug, unique in its organization only
    Linked,         \* units with a tatGroupId
    Users,          \* Keycloak users who may be TAT members
    Phones,         \* users with a verified phone number
    Mails,          \* users with an email address
    Workers,        \* processes that run NotificationsProcessor
    MaxFaults,      \* bound of failures, retries and changes of membership
    None            \* no unit, no place, no job or no cached contacts

ASSUME UnitAssumption ==
    /\ OrgOf \in [Units -> Orgs]
    /\ SlugOf \in [Units -> Slugs]
    /\ Linked \subseteq Units

ASSUME BoundAssumption == MaxFaults \in Nat

ASSUME SentinelAssumption == None \notin Units

VARIABLES
    tips,           \* tips[t]: how far t is, its unit, and the runs of its job
    place,          \* place[x]: where Keycloak has x as a TAT member, or None
    enabled,        \* users with sosNotificationsEnabled
    cache,          \* cache[s]: unit:s:tat-member-contacts
    adding,         \* jobs whose add is on its way to Redis
    status,         \* status[k]: job k, for the jobs in the queue
    worker,         \* worker[w]: the job w runs
    due,            \* history: the messages the processor decided to send
    sent,           \* history: the messages the provider took
    again,          \* history: the messages it took more than once
    lost,           \* history: jobs lost on their way or removed
    rerun,          \* history: tips of whose jobs one may have run again
    faults          \* failures, retries and changes so far

queue == <<adding, status>>
team == <<place, enabled>>
history == <<due, sent, again, rerun>>
vars == <<tips, team, cache, queue, worker, history, lost, faults>>

-----------------------------------------------------------------------------
(* A TAT member is in the group of a unit or an organization (legacy), or   *)
(* in the role group for organizations or for units, with an organization   *)
(* or a unit of it as attributes.  Each user is in one place at a time.     *)
Places == {"group", "role"} \X (Units \cup Orgs)

LegacyPlaces(u) ==
    IF u \in Linked THEN {<<"group", u>>, <<"group", OrgOf[u]>>} ELSE {}

Namesakes(u) == {v \in Units : SlugOf[v] = SlugOf[u]}

\* Members for units are looked up by the unit's slug, of any organization.
RolePlaces(u) == {<<"role", v>> : v \in {OrgOf[u]} \cup Namesakes(u)}

Listed(places) == {x \in Users : place[x] \in places}

\* Of the users listed, those who become contacts.
Reachable(users) == users \cap enabled \cap (Phones \cup Mails)

\* Everyone a lookup for unit u finds now.
Contacts(u) == Reachable(Listed(LegacyPlaces(u) \cup RolePlaces(u)))

Kinds == {"tip", "sms", "email"}

(* run tells the messages of one run of the tip's job from another's. *)
Jobs == [kind : Kinds, tip : Tips, to : SUBSET Users, run : Nat]

TipJob(t) == [kind |-> "tip", tip |-> t, to |-> {}, run |-> 0]

Attempts(kind) == IF kind = "sms" THEN 3 ELSE 1

\* made: failed attempts; stalled: it was once found without a worker.
Status == [state : {"waiting", "active", "completed", "failed"},
           made : Nat, stalled : BOOLEAN]

Tip == [pc : {"new", "saved", "submitted", "silent", "removed"},
        unit : Units \cup {None}, runs : Nat]

Worker == [pc : {"idle", "load", "cache", "legacy", "roles", "add", "send", "complete"},
           job : Jobs \cup {None}, contacts : SUBSET Users, fresh : BOOLEAN]

Messages == [kind : {"sms", "email"}, tip : Tips, user : Users]

MessagesOf(k) == {m \in Messages : m.kind = k.kind /\ m.tip = k.tip /\ m.user \in k.to}

\* A job in the hands of a worker is active, and in no other's.
TypeOK ==
    /\ tips \in [Tips -> Tip]
    /\ place \in [Users -> Places \cup {None}]
    /\ enabled \in SUBSET Users
    /\ cache \in [Slugs -> (SUBSET Users) \cup {None}]
    /\ \A k \in adding \cup lost \cup DOMAIN status : k \in Jobs
    /\ \A k \in DOMAIN status : status[k] \in Status
    /\ worker \in [Workers -> Worker]
    /\ \A w \in Workers : worker[w].pc # "idle" => status[worker[w].job].state = "active"
    /\ \A v, w \in Workers : v # w => worker[v].job = None \/ worker[v].job # worker[w].job
    /\ due \subseteq Messages /\ sent \subseteq due /\ again \subseteq sent
    /\ rerun \subseteq Tips
    /\ faults \in 0 .. MaxFaults

Idle == [pc |-> "idle", job |-> None, contacts |-> {}, fresh |-> FALSE]

Init ==
    /\ tips = [t \in Tips |-> [pc |-> "new", unit |-> None, runs |-> 0]]
    /\ place \in [Users -> Places]
    /\ enabled = Users
    /\ cache = [s \in Slugs |-> None]
    /\ adding = {}
    /\ status = [k \in {} |-> None]
    /\ worker = [w \in Workers |-> Idle]
    /\ due = {} /\ sent = {} /\ again = {} /\ lost = {} /\ rerun = {}
    /\ faults = 0

Fault == faults < MaxFaults /\ faults' = faults + 1

-----------------------------------------------------------------------------
(* Submission. *)

\* POST /tips: the submission, and then the tip, are saved.
SaveTip(t, u) ==
    /\ tips[t].pc = "new"
    /\ tips' = [tips EXCEPT ![t].pc = "saved", ![t].unit = u]
    /\ UNCHANGED <<team, cache, queue, worker, history, lost, faults>>

\* tip.submitted: the listener calls queue.add and does not await it.
Emit(t) ==
    /\ tips[t].pc = "saved"
    /\ tips' = [tips EXCEPT ![t].pc = "submitted"]
    /\ adding' = adding \cup {TipJob(t)}
    /\ UNCHANGED <<team, cache, status, worker, history, lost, faults>>

\* Reading the saved tip back throws: the request fails, nothing is emitted.
EmitFails(t) ==
    /\ tips[t].pc = "saved"
    /\ Fault
    /\ tips' = [tips EXCEPT ![t].pc = "silent"]
    /\ UNCHANGED <<team, cache, queue, worker, history, lost>>

RemoveTip(t) ==
    /\ tips[t].pc = "submitted"
    /\ Fault
    /\ tips' = [tips EXCEPT ![t].pc = "removed"]
    /\ UNCHANGED <<team, cache, queue, worker, history, lost>>

-----------------------------------------------------------------------------
(* The queue. *)

Put(k, s) == status' = [j \in DOMAIN status \cup {k} |-> IF j = k THEN s ELSE status[j]]

Land(k) ==
    /\ k \in adding
    /\ adding' = adding \ {k}
    /\ Put(k, [state |-> "waiting", made |-> 0, stalled |-> FALSE])
    /\ UNCHANGED <<tips, team, cache, worker, history, lost, faults>>

\* Redis refuses, or the process ends, before the add is through.
Lose(k) ==
    /\ k \in adding
    /\ Fault
    /\ adding' = adding \ {k}
    /\ lost' = lost \cup {k}
    /\ UNCHANGED <<tips, team, cache, status, worker, history>>

\* Mutant: the job of a crashed worker is never looked at again.
NeverStalls(k) == FALSE /\ UNCHANGED vars

\* The job of a crashed worker goes back once, and then fails.
Stall(k) ==
    /\ k \in DOMAIN status
    /\ status[k].state = "active"
    /\ \A w \in Workers : worker[w].job # k
    /\ Put(k, [state |-> IF status[k].stalled THEN "failed" ELSE "waiting",
               made |-> status[k].made, stalled |-> TRUE])
    /\ UNCHANGED <<tips, team, cache, adding, worker, history, lost, faults>>

\* POST retry-job, of a failed job.
Retry(k) ==
    /\ k \in DOMAIN status
    /\ status[k].state = "failed"
    /\ Fault
    /\ Put(k, [status[k] EXCEPT !.state = "waiting"])
    /\ rerun' = rerun \cup {k.tip}
    /\ UNCHANGED <<tips, team, cache, adding, worker, due, sent, again, lost>>

\* POST remove-job: a job that a worker has locked stays.
RemoveJob(k) ==
    /\ k \in DOMAIN status
    /\ status[k].state # "active"
    /\ Fault
    /\ status' = [j \in DOMAIN status \ {k} |-> status[j]]
    /\ lost' = lost \cup {k}
    /\ UNCHANGED <<tips, team, cache, adding, worker, history>>

-----------------------------------------------------------------------------
(* The processor. *)

At(w, pc) == worker[w].pc = pc

Job(w) == worker[w].job

UnitOf(w) == tips[Job(w).tip].unit

Goes(w, pc) == worker' = [worker EXCEPT ![w].pc = pc]

Take(w, k) ==
    /\ At(w, "idle")
    /\ k \in DOMAIN status
    /\ status[k].state = "waiting"
    /\ Put(k, [status[k] EXCEPT !.state = "active"])
    /\ worker' = [worker EXCEPT ![w] =
          [Idle EXCEPT !.pc = IF k.kind = "tip" THEN "load" ELSE "send", !.job = k]]
    /\ UNCHANGED <<tips, team, cache, adding, history, lost, faults>>

\* Mutant: errors of a job are caught and logged.
Swallows(w) ==
    /\ worker' = [worker EXCEPT ![w] = Idle]
    /\ Put(Job(w), [status[Job(w)] EXCEPT !.state = "completed"])

\* The job threw: it waits again while it has attempts left.
Throws(w) ==
    LET k == Job(w)
        s == status[k]
    IN  /\ worker' = [worker EXCEPT ![w] = Idle]
        /\ Put(k, [state |-> IF s.made + 1 < Attempts(k.kind) THEN "waiting" ELSE "failed",
                   made |-> s.made + 1, stalled |-> s.stalled])

\* PostgreSQL, Redis, Keycloak or the provider refuses the call.
CallFails(w) ==
    /\ worker[w].pc \in {"load", "cache", "legacy", "roles", "send"}
    /\ Fault
    /\ Throws(w)
    /\ UNCHANGED <<tips, team, cache, adding, history, lost>>

\* findOneOrFail, with the unit and its organization.
Load(w) ==
    /\ At(w, "load")
    /\ IF tips[Job(w).tip].pc = "removed" THEN Throws(w)
       ELSE Goes(w, "cache") /\ UNCHANGED status
    /\ UNCHANGED <<tips, team, cache, adding, history, lost, faults>>

CacheGet(w) ==
    LET cached == cache[SlugOf[UnitOf(w)]]
    IN  /\ At(w, "cache")
        /\ worker' = [worker EXCEPT
              ![w].pc = IF cached = None THEN "legacy" ELSE "add",
              ![w].contacts = IF cached = None THEN {} ELSE cached]
        /\ UNCHANGED <<tips, team, cache, queue, history, lost, faults>>

\* listMembers of the unit's group and its organization's, if the unit has one.
Legacy(w) ==
    /\ At(w, "legacy")
    /\ worker' = [worker EXCEPT ![w].pc = "roles",
                                ![w].contacts = Reachable(Listed(LegacyPlaces(UnitOf(w))))]
    /\ UNCHANGED <<tips, team, cache, queue, history, lost, faults>>

\* Mutant: the role groups are used only where there is no legacy member.
RolesInstead(w) ==
    /\ At(w, "roles")
    /\ worker' = [worker EXCEPT ![w].pc = "add", ![w].fresh = TRUE,
          ![w].contacts = IF @ = {} THEN Reachable(Listed(RolePlaces(UnitOf(w)))) ELSE @]
    /\ UNCHANGED <<tips, team, cache, queue, history, lost, faults>>

\* findUsersByAttribute per role group; who was listed before counts as listed now.
Roles(w) ==
    LET listed == Listed(RolePlaces(UnitOf(w)))
    IN  /\ At(w, "roles")
        /\ worker' = [worker EXCEPT
              ![w].pc = "add", ![w].fresh = TRUE,
              ![w].contacts = (@ \ listed) \cup Reachable(listed)]
        /\ UNCHANGED <<tips, team, cache, queue, history, lost, faults>>

\* The messages of the next run of the job of tip t.
NewJobs(t, contacts) ==
    LET new(kind, to) ==
            [kind |-> kind, tip |-> t, to |-> to, run |-> tips[t].runs + 1]
    IN  {new("sms", {x}) : x \in contacts \cap Phones}
        \cup {new("email", to) : to \in {contacts \cap Mails} \ {{}}}

\* cache.set and the adds are started and not awaited.
Add(w) ==
    LET t == Job(w).tip
        new == NewJobs(t, worker[w].contacts)
    IN  /\ At(w, "add")
        /\ adding' = adding \cup new
        /\ due' = due \cup UNION {MessagesOf(k) : k \in new}
        /\ tips' = [tips EXCEPT ![t].runs = @ + 1]
        /\ Goes(w, "complete")
        /\ \/ /\ cache' = IF worker[w].fresh
                           THEN [cache EXCEPT ![SlugOf[UnitOf(w)]] = worker[w].contacts]
                           ELSE cache
              /\ UNCHANGED faults
           \/ worker[w].fresh /\ Fault /\ UNCHANGED cache
        /\ UNCHANGED <<team, status, sent, again, rerun, lost>>

\* SES or Pinpoint takes the message.
Send(w) ==
    LET messages == MessagesOf(Job(w))
    IN  /\ At(w, "send")
        /\ sent' = sent \cup messages
        /\ again' = again \cup (sent \cap messages)
        /\ Goes(w, "complete")
        /\ UNCHANGED <<tips, team, cache, queue, due, rerun, lost, faults>>

\* Mutant: a job that is done goes back to the queue.
Recycles(w) ==
    /\ At(w, "complete")
    /\ Put(Job(w), [status[Job(w)] EXCEPT !.state = "waiting"])
    /\ worker' = [worker EXCEPT ![w] = Idle]
    /\ UNCHANGED <<tips, team, cache, adding, history, lost, faults>>

Complete(w) ==
    /\ At(w, "complete")
    /\ Put(Job(w), [status[Job(w)] EXCEPT !.state = "completed"])
    /\ worker' = [worker EXCEPT ![w] = Idle]
    /\ UNCHANGED <<tips, team, cache, adding, history, lost, faults>>

\* The provider took the message, its answer does not arrive.
AnswerLost(w) ==
    /\ At(w, "complete")
    /\ Job(w).kind # "tip"
    /\ Fault
    /\ Throws(w)
    /\ rerun' = rerun \cup {Job(w).tip}
    /\ UNCHANGED <<tips, team, cache, adding, due, sent, again, lost>>

\* The process ends: its job stays active.
Crash(w) ==
    /\ ~At(w, "idle")
    /\ Fault
    /\ worker' = [worker EXCEPT ![w] = Idle]
    /\ rerun' = IF At(w, "complete") THEN rerun \cup {Job(w).tip} ELSE rerun
    /\ UNCHANGED <<tips, team, cache, queue, due, sent, again, lost>>

-----------------------------------------------------------------------------
(* Keycloak and Redis. *)

Move(x, p) ==
    /\ place[x] # p
    /\ Fault
    /\ place' = [place EXCEPT ![x] = p]
    /\ UNCHANGED <<tips, enabled, cache, queue, worker, history, lost>>

Toggle(x) ==
    /\ Fault
    /\ enabled' = IF x \in enabled THEN enabled \ {x} ELSE enabled \cup {x}
    /\ UNCHANGED <<tips, place, cache, queue, worker, history, lost>>

\* Five minutes are over.
Expire(s) ==
    /\ cache[s] # None
    /\ cache' = [cache EXCEPT ![s] = None]
    /\ UNCHANGED <<tips, team, queue, worker, history, lost, faults>>

-----------------------------------------------------------------------------
Works(w) ==
    \/ \E k \in DOMAIN status : Take(w, k)
    \/ Load(w) \/ CacheGet(w) \/ Legacy(w) \/ Roles(w) \/ Add(w)
    \/ Send(w) \/ Complete(w)

Delivers == (\E k \in adding : Land(k)) \/ (\E k \in DOMAIN status : Stall(k))

Breaks ==
    \/ \E t \in Tips : EmitFails(t) \/ RemoveTip(t)
    \/ \E k \in adding : Lose(k)
    \/ \E k \in DOMAIN status : Retry(k) \/ RemoveJob(k)
    \/ \E w \in Workers : CallFails(w) \/ AnswerLost(w) \/ Crash(w)

Next ==
    \/ \E t \in Tips : Emit(t) \/ \E u \in Units : SaveTip(t, u)
    \/ Delivers
    \/ \E w \in Workers : Works(w)
    \/ Breaks
    \/ \E x \in Users : Toggle(x) \/ \E p \in Places \cup {None} : Move(x, p)
    \/ \E s \in Slugs : Expire(s)

(* Adds get through or are lost, workers go on and stalled jobs are found;  *)
(* nobody has to submit a tip, and nothing has to break.                    *)
Fairness ==
    /\ \A t \in Tips : WF_vars(Emit(t))
    /\ WF_vars(Delivers)
    /\ \A w \in Workers : WF_vars(Works(w))

Spec == Init /\ [][Next]_vars /\ Fairness

-----------------------------------------------------------------------------
(* Properties. *)

\* Job k is on its way, or in the queue and not done.
Open(k) ==
    \/ k \in adding
    \/ k \in DOMAIN status /\ status[k].state # "completed"

(* No job that failed counts as done: until it decided whom to tell, the    *)
(* job of a submitted tip is on its way or in the queue, where an           *)
(* administrator finds it, and so is a message until the provider took it.  *)
(* The exceptions are an add that did not get through, which nobody awaits, *)
(* and a job that an administrator removed.                                 *)
NothingForgotten ==
    /\ \A t \in Tips :
          tips[t].pc \in {"submitted", "removed"} =>
              tips[t].runs > 0 \/ Open(TipJob(t)) \/ TipJob(t) \in lost
    /\ \A m \in due :
          m \in sent \/ \E k \in adding \cup lost \cup DOMAIN status :
                            m \in MessagesOf(k) /\ (Open(k) \/ k \in lost)

(* A TAT member hears of a tip twice only if the provider's answer was lost, *)
(* a worker crashed when its job was all but done, or a job was retried.     *)
TwiceOnlyForAReason == \A m \in again : m.tip \in rerun

\* Who should hear of a tip: the members of unit u's team and its organization's.
Team(u) == Reachable(Listed({"group", "role"} \X {u, OrgOf[u]}))

Told(t) == {m.user : m \in {n \in due : n.tip = t}}

\* Other units that have a tip and may have filled the cache for unit u.
Cached(u) == {tips[r].unit : r \in Tips} \cap (Namesakes(u) \ {u})

(* If nothing broke and nobody came or went, the team of the unit is told   *)
(* of a tip, all but the members of legacy groups where the unit has none   *)
(* of its own; and nobody else is, but the members for a unit of the same   *)
(* slug.  Contacts are cached by that slug, so where another unit of the    *)
(* slug has a tip the team told may be that unit's.                         *)
TatIsTold ==
    \A t \in Tips : \A x \in Users :
        LET u == tips[t].unit
        IN  (faults = 0 /\ tips[t].runs > 0)
            => /\ x \in Team(u)
                  => \/ x \in Told(t)
                     \/ u \notin Linked /\ place[x] \in {"group"} \X {u, OrgOf[u]}
                     \/ Cached(u) # {} /\ place[x] # <<"role", u>>
               /\ x \in Told(t)
                  => \/ x \in Team(u)
                     \/ \E v \in Namesakes(u) : place[x] = <<"role", v>>
                     \/ \E v \in Cached(u) : x \in Team(v)

(* Whatever breaks, every job ends, completed or failed, and the workers    *)
(* come to rest: no job stays active for ever after a crash.                *)
EventuallySettled ==
    <>[](/\ adding = {}
         /\ \A k \in DOMAIN status : status[k].state \in {"completed", "failed"})
=============================================================================
