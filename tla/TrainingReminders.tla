-------------------------- MODULE TrainingReminders --------------------------
(***************************************************************************)
(* TrainingReminderTasks.handleReminders: every noon, the task looks up    *)
(* which sections of the enrollment's course have their initial or their   *)
(* follow-up reminder on that day, and mails the participants, page by     *)
(* page, as Keycloak lists them.  Each mail carries links with tokens of   *)
(* their own, which the synchronisation of TrainingLinks later visits.     *)
(*                                                                         *)
(* Every process of the service has the cron job, and nothing is locked:   *)
(* each runs the task for itself and knows nothing of the mails of others. *)
(*                                                                         *)
(* One organization and one enrollment; the task treats each on its own    *)
(* and catches what an enrollment throws.  A day of dayjs is an integer;   *)
(* durations are whole days.                                               *)
(***************************************************************************)
EXTENDS TrainingLinks, Sequences, SequencesExt

CONSTANTS
    Processes,      \* processes of the service
    Sections,       \* the course has sections 1..Sections, in order
    Participants,   \* the training participants at first, by first name
    Lengths,        \* durations a section may have, in days
    FirstDays,      \* days of the week that day 0 may be
    Starts,         \* start dates the enrollment may have
    LastDay,        \* its end date
    PageSize,       \* participants in a page (1000)
    MaxDay          \* bound: days

ASSUME CalendarAssumption ==
    /\ Sections \in Nat \ {0} /\ PageSize \in Nat \ {0}
    /\ Lengths \cup Starts \cup {LastDay, MaxDay} \subseteq Nat
    /\ FirstDays \subseteq 0..6
    /\ Participants \in Seq(Persons) /\ IsInjective(Participants)

VARIABLES
    calendar,   \* weekday of day 0, start date and durations of the sections
    open,       \* the enrollment is visible and its organization active
    enabled,    \* the kinds of reminders the organization wants
    running,    \* the processes that run
    morning,    \* the processes whose noon of today is to come
    roster,     \* the training participants of the organization, by first name
    task,       \* task[w]: what the task of process w is doing
    edited,     \* history: an administrator changed the enrollment or its people
    held,       \* history: reminders that a process sent to the end of the list
    missed      \* history: <<w, day>>: process w was down that day, or threw

taskVars == <<calendar, open, enabled, running, morning, roster, task, edited, held, missed>>

remindersVars == <<day, mailOf, linkVars, scenario, ghosts, taskVars>>

-----------------------------------------------------------------------------
(* Dates *)

ReminderKinds == {"initial", "followup"}

LeastOf(m, n) == IF m <= n THEN m ELSE n

\* dayjs: 0 is Sunday, 6 is Saturday.
DayOfWeek(c, d) == (c.weekday + d) % 7

\* Mutant: Saturday is moved to Sunday.
WeekdayAfterSaturday(c, d) == IF DayOfWeek(c, d) \in {0, 6} THEN d + 1 ELSE d

FirstWeekday(c, d) ==
    CASE DayOfWeek(c, d) = 0 -> d + 1
      [] DayOfWeek(c, d) = 6 -> d + 2
      [] OTHER -> d

\* A section opens when those before it are over, whether they are or not.
AvailableOn(c, s) ==
    LET opening[n \in 1..Sections] ==
            IF n = 1 THEN c.start ELSE opening[n - 1] + c.lengths[n - 1]
    IN  opening[s]

\* Half of the availability and at most 14 days; dayjs rounds a half day up.
DateOf(c, s, kind) ==
    LET half == (LeastOf(28, c.lengths[s]) + 1) \div 2
    IN  FirstWeekday(c, AvailableOn(c, s) + IF kind = "initial" THEN 0 ELSE half)

Reminder == [section : 1..Sections, kind : ReminderKinds]

\* What is due on day d.
Due(c, d) == {b \in Reminder : b.kind \in enabled /\ DateOf(c, b.section, b.kind) = d}

\* The order of the loop.
Place(b) == 2 * b.section + IF b.kind = "initial" THEN 0 ELSE 1

IsNext(w, b) == b \in task[w].due /\ \A o \in task[w].due : Place(b) <= Place(o)

-----------------------------------------------------------------------------
\* calendar, the enrollment read at noon; due, the reminders still to send, the
\* first of them being sent; first, last, page and seen, the generator; finished,
\* the completions read when a follow-up began.  The others are history:
\* expected, told, again and failed are people, unsettled says that the list of
\* people changed under the generator.
Idle ==
    [due |-> {}, begun |-> FALSE, calendar |-> calendar,
     first |-> 0, last |-> FALSE, page |-> <<>>, seen |-> {}, finished |-> {},
     expected |-> {}, told |-> {}, again |-> {}, failed |-> {}, asked |-> {},
     open |-> {}, unsettled |-> FALSE]

Calendar == [weekday : FirstDays, start : Starts, lengths : [1..Sections -> Lengths]]

RemindersTypeOK ==
    /\ LinksTypeOK
    /\ day <= MaxDay
    /\ calendar \in Calendar
    /\ enabled \subseteq ReminderKinds
    /\ open \in BOOLEAN
    /\ morning \subseteq running /\ running \subseteq Processes
    /\ IsInjective(roster) /\ ToSet(roster) \subseteq Persons
    /\ \A w \in Processes :
          /\ {task[w].begun, task[w].last, task[w].unsettled} \subseteq BOOLEAN
          /\ task[w].told \cup task[w].failed \subseteq Persons
          /\ task[w].seen \subseteq Mails /\ task[w].finished \subseteq Mails \X CourseItems
          /\ task[w].asked \cup task[w].open \subseteq Persons \X CourseItems
    /\ missed \subseteq Processes \X (0..MaxDay)

RemindersInit ==
    /\ LinksInit
    /\ calendar \in Calendar
    /\ open = scenario.open
    /\ enabled = ReminderKinds
    /\ running \in SUBSET Processes \ {{}}
    /\ morning = running
    /\ roster = Participants
    /\ task = [w \in Processes |-> Idle]
    /\ edited = FALSE
    /\ held = {}
    /\ missed = {}

-----------------------------------------------------------------------------
(* handleReminders, in process w *)

Becomes(w, t) == task' = [task EXCEPT ![w] = t]

\* The query and the dates; the rest of the day uses this reading.  Noon is
\* late enough for the synchronisation of midnight to be over.
HandleReminders(w) ==
    /\ w \in morning
    /\ pending = {}
    /\ morning' = morning \ {w}
    /\ Becomes(w, [Idle EXCEPT
         !.due = IF open /\ day \in calendar.start..LastDay THEN Due(calendar, day) ELSE {}])
    /\ UNCHANGED <<day, mailOf, linkVars, scenario, ghosts, calendar, open, enabled,
                   running, roster, edited, held, missed>>

\* Nobody catches up with a noon at which the process did not run.
MissNoon(w) ==
    /\ w \in morning
    /\ pending = {}
    /\ morning' = morning \ {w}
    /\ Spend("faults")
    /\ missed' = missed \cup {<<w, day>>}
    /\ UNCHANGED <<day, mailOf, linkVars, ghosts, calendar, open,
                   enabled, running, roster, task, edited, held>>

\* The rest of the day stands still while a task and its history change.
TaskStep == UNCHANGED <<day, mailOf, mailed, request, pending,
                        ghosts, reps, records, done, calendar, open,
                        enabled, running, morning, roster, edited>>

\* The items p has not finished, by any account or link of p.
Unfinished(p) ==
    {i \in CourseItems : ~ \E r \in reps :
        <<r.id, i>> \in done /\ (r.owner = p \/ (r.owner = NoOwner /\ r.mail = mailOf[p]))}

\* A follow-up reads who completed what, by the representation's address.
BeginReminder(w) ==
    /\ ~ task[w].begun
    /\ \E b \in task[w].due :
          LET all == b.kind = "initial"
              todo == {x \in Persons \X CourseItems : all \/ x[2] \in Unfinished(x[1])}
          IN  /\ IsNext(w, b)
              /\ Becomes(w, [Idle EXCEPT
                   !.due = task[w].due, !.begun = TRUE, !.calendar = task[w].calendar,
                   !.finished = IF all THEN {}
                                ELSE {x \in Mails \X CourseItems : \E r \in At(x[1]) : <<r.id, x[2]>> \in done},
                   !.open = todo,
                   !.expected = {p \in ToSet(roster) : \E i \in CourseItems : <<p, i>> \in todo}])
    /\ UNCHANGED <<tokens, scenario, held, missed>>
    /\ TaskStep

\* The generator has to ask Keycloak for a page.
NeedsPage(t) == t.begun /\ t.page = <<>> /\ ~ t.last

\* getKeycloakUsersAndOpaqueTokensGenerator: the next page, by offset.
ReadPage(w) ==
    /\ NeedsPage(task[w])
    /\ LET page == SubSeq(roster, task[w].first + 1,
                         LeastOf(Len(roster), task[w].first + PageSize))
       IN Becomes(w, [task[w] EXCEPT !.page = page,
                                     !.first = @ + PageSize,
                                     !.last = Len(page) < PageSize])
    /\ UNCHANGED <<tokens, scenario, held, missed>>
    /\ TaskStep

\* Keycloak does not answer: what was still due for the enrollment is dropped.
DropEnrollment(w) ==
    /\ NeedsPage(task[w])
    /\ Spend("faults")
    /\ Becomes(w, Idle)
    /\ missed' = missed \cup {<<w, day>>}
    /\ UNCHANGED <<tokens, held>>
    /\ TaskStep

\* sendReminderEmail: a token for each item.
ReminderTokens(p, items) ==
    {[person |-> p, mail |-> mailOf[p], type |-> "training-reminder", item |-> i,
      expires |-> day + ReminderDays] : i \in items}

\* Mutant: an address is written to however often the list shows it.
RemindsAgain(t, m) == FALSE

Reminded(t, m) == m \in t.seen

\* Mutant: a follow-up names all items of the section.
AllItems(t, m) == CourseItems

IncompleteItems(t, m) == {i \in CourseItems : <<m, i>> \notin t.finished}

\* One participant: an address seen before is passed over, and so is who has
\* finished; an error is logged, whether tokens were made by then or not.
Remind(w) ==
    /\ task[w].page # <<>>
    /\ LET p == Head(task[w].page)
           m == mailOf[p]
           items == IncompleteItems(task[w], m)
           next == [task[w] EXCEPT !.page = Tail(@), !.seen = @ \cup {m}]
           passedOver == Reminded(task[w], m) \/ items = {}
       IN  \/ /\ passedOver
              /\ Becomes(w, next)
              /\ UNCHANGED <<tokens, scenario>>
           \/ /\ ~ passedOver
              /\ tokens' = tokens \cup ReminderTokens(p, items)
              /\ Becomes(w, [next EXCEPT !.told = @ \cup {p},
                                         !.again = @ \cup ({p} \cap task[w].told),
                                         !.asked = @ \cup {p} \X items])
              /\ UNCHANGED scenario
           \/ /\ ~ passedOver
              /\ Spend("faults")
              /\ tokens' \in {tokens, tokens \cup ReminderTokens(p, items)}
              /\ Becomes(w, [next EXCEPT !.failed = @ \cup {p}])
    /\ UNCHANGED <<held, missed>>
    /\ TaskStep

ListRead(t) == t.begun /\ t.page = <<>> /\ t.last

EndReminder(w) ==
    /\ ListRead(task[w])
    /\ \E b \in task[w].due :
          /\ IsNext(w, b)
          /\ held' = held \cup {[reminder |-> b, day |-> day, calendar |-> task[w].calendar, by |-> w]}
          /\ Becomes(w, [Idle EXCEPT !.due = task[w].due \ {b}, !.calendar = task[w].calendar])
    /\ UNCHANGED <<tokens, scenario, missed>>
    /\ TaskStep

-----------------------------------------------------------------------------
(* What else happens *)

\* TrainingAdminService.sendTrainingReminder, for one participant and item.
SendTrainingReminder(p, i) ==
    /\ Spend("edits")
    /\ p \in ToSet(roster)
    /\ tokens' = tokens \cup ReminderTokens(p, {i})
    /\ UNCHANGED <<day, mailOf, reps, records, done, mailed, request, pending,
                   ghosts, calendar, open, enabled, running, morning, roster, task, edited, held, missed>>

Edit ==
    /\ Spend("edits")
    /\ edited' = TRUE
    /\ UNCHANGED <<day, mailOf, linkVars, ghosts, running, morning, held, missed>>

\* PATCH of the enrollment, the organization's status or its settings.
EditEnrollment ==
    /\ Edit
    /\ \/ /\ \E d \in Starts : calendar' = [calendar EXCEPT !.start = d]
          /\ UNCHANGED <<open, enabled>>
       \/ /\ open' = ~ open
          /\ UNCHANGED <<calendar, enabled>>
       \/ /\ enabled' \in SUBSET ReminderKinds
          /\ UNCHANGED <<calendar, open>>
    /\ UNCHANGED <<roster, task>>

\* Somebody joins or leaves the participants, is disabled or enabled, or gets
\* another first name: the list that is read by offset moves.
EditRoster ==
    /\ Edit
    /\ \/ \E n \in DOMAIN roster : roster' = RemoveAt(roster, n)
       \/ \E p \in Persons \ ToSet(roster), n \in 1..(Len(roster) + 1) :
             roster' = InsertAt(roster, n, p)
       \/ \E n, k \in DOMAIN roster : roster' = InsertAt(RemoveAt(roster, n), k, roster[n])
    /\ task' = [w \in Processes |-> [task[w] EXCEPT !.unsettled = task[w].begun]]
    /\ UNCHANGED <<calendar, open, enabled>>

\* Process w stops and is started again; its next run is at the next noon.
Stop(w) ==
    /\ Spend("faults")
    /\ LinksStop
    /\ missed' = IF task[w].due # {} THEN missed \cup {<<w, day>>} ELSE missed
    /\ Becomes(w, Idle)
    /\ UNCHANGED <<day, mailOf, calendar, open, enabled, running, morning,
                   roster, edited, held>>

\* The next day begins with a synchronisation.
Midnight ==
    /\ morning = {}
    /\ \A w \in Processes : task[w].due = {}
    /\ pending = {}
    /\ day < MaxDay
    /\ day' = day + 1
    /\ morning' = running
    /\ BeginSync
    /\ UNCHANGED <<mailOf, tokens, reps, records, done, mailed, request, scenario, ghosts,
                   calendar, open, enabled, running, roster, task, edited, held, missed>>

TaskNext(w) ==
    \/ HandleReminders(w)
    \/ MissNoon(w)
    \/ BeginReminder(w)
    \/ ReadPage(w)
    \/ DropEnrollment(w)
    \/ Remind(w)
    \/ EndReminder(w)
    \/ Stop(w)

RemindersNext ==
    \/ LinksNext /\ UNCHANGED taskVars
    \/ \E w \in running : TaskNext(w)
    \/ \E p \in Persons, i \in CourseItems : SendTrainingReminder(p, i)
    \/ EditEnrollment
    \/ EditRoster
    \/ Midnight

RemindersSpec == RemindersInit /\ [][RemindersNext]_remindersVars

-----------------------------------------------------------------------------
(* Properties. *)

Weekend(c, d) == DayOfWeek(c, d) \in {0, 6}

\* The day from which the reminder could be sent: the opening of the section, or
\* the middle of its availability, at most 14 days later.
Ripe(h, d) ==
    LET c == h.calendar
        s == h.reminder.section
        opening == AvailableOn(c, s)
    IN  IF h.reminder.kind = "initial" THEN d >= opening
        ELSE 2 * (d - opening) >= LeastOf(28, c.lengths[s])

(* A reminder goes out on the first working day from which it is ripe: never *)
(* on a weekend, never before the section opens or before the middle of its  *)
(* availability, and no working day later, whatever the durations add up to. *)
OnItsDay ==
    \A h \in held :
        /\ Ripe(h, h.day) /\ ~ Weekend(h.calendar, h.day)
        /\ \A d \in 0..MaxDay :
              d < h.day /\ Ripe(h, d) => Weekend(h.calendar, d)

\* The reminder of the first calendar that was to be sent on a day gone by.
Owed(b) ==
    LET d == DateOf(calendar, b.section, b.kind)
    IN  d < day /\ d \in calendar.start..LastDay

\* What process w knows of whom it has written to.
EachOnce(t) ==
    /\ ListRead(t) =>
          \A p \in t.expected :
              \/ p \in t.told \cup t.failed
              \/ t.unsettled
              \/ moved # {}
    /\ t.again \subseteq moved

(* Each process gives each participant each reminder once; with several      *)
(* processes everybody is written to as often as processes came to that noon,*)
(* because no lock and no row says that a reminder was sent.  When a process *)
(* has read the list, it has written to whoever was on it from the beginning,*)
(* unless the mail failed or the list moved under the pages, and to nobody   *)
(* twice but one whose address changed meanwhile.  Over the days, the        *)
(* processes that sent a reminder are those that run, without those that     *)
(* failed that day, and none sent it on two days, unless an administrator    *)
(* changed the enrollment.                                                   *)
OncePerProcess ==
    /\ \A w \in running : EachOnce(task[w])
    /\ ~ edited /\ open =>
          /\ \A s \in 1..Sections, k \in ReminderKinds :
                LET b == [section |-> s, kind |-> k]
                    senders == {h.by : h \in {g \in held : g.reminder = b}}
                IN  Owed(b) => \A w \in running \ senders : <<w, DateOf(calendar, s, k)>> \in missed
          /\ \A g, h \in held : g.reminder = h.reminder /\ g.by = h.by => g = h

(* A follow-up asks nobody for what that person had finished when the        *)
(* follow-up began, however it was finished: unless somebody's address       *)
(* changed, since completions and participants are matched by address.       *)
FollowupOnlyToUnfinished ==
    \A w \in running : task[w].asked \subseteq task[w].open \/ moved # {}
=============================================================================
