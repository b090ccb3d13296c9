----------------------- MODULE TipNotificationsProofs -----------------------
(***************************************************************************)
(* Proofs about TipNotifications: nothing is forgotten, nothing is sent    *)
(* twice without a reason, and the team is told, for every number of tips, *)
(* units, users, workers and faults.                                       *)
(***************************************************************************)
EXTENDS TipNotifications, TLAPS

-----------------------------------------------------------------------------
(* The inductive invariant. *)

\* Job k is open, or one that NothingForgotten excepts.
Kept(k) == Open(k) \/ k \in lost

\* Jobs that may still run, as far as the queue knows.
Known == adding \cup DOMAIN status

Types ==
    /\ tips \in [Tips -> Tip]
    /\ Known \subseteq Jobs
    /\ status = [k \in DOMAIN status |-> status[k]]
    /\ \A k \in DOMAIN status : status[k] \in Status
    /\ worker \in [Workers -> Worker]
    /\ cache \in [Slugs -> (SUBSET Users) \cup {None}]
    /\ due \subseteq Messages /\ sent \subseteq Messages /\ again \subseteq Messages

(* The job of a tip is known once the tip was submitted, the jobs of its    *)
(* messages were made by a run of it, and no job is added twice.            *)
JobsOK ==
    /\ \A t \in Tips : tips[t].pc \in {"new", "saved", "silent"} =>
            tips[t].runs = 0 /\ TipJob(t) \notin Known
    /\ \A t \in Tips : tips[t].pc # "new" => tips[t].unit \in Units
    /\ \A k \in Known :
            /\ k.kind = "tip" => k = TipJob(k.tip)
            /\ k.kind # "tip" => k.run \in 1 .. tips[k.tip].runs
    /\ adding \cap DOMAIN status = {}

(* A worker has an active job that no other has, of the kind it works on.   *)
WorkersOK ==
    /\ \A w \in Workers : worker[w].pc # "idle" =>
            /\ Job(w) \in DOMAIN status
            /\ status[Job(w)].state = "active"
            /\ worker[w].pc = "send" => Job(w).kind # "tip"
            /\ worker[w].pc \notin {"send", "complete"} => Job(w).kind = "tip"
    /\ \A v, w \in Workers :
            v # w /\ worker[v].pc # "idle" /\ worker[w].pc # "idle" => Job(v) # Job(w)

\* What a job is there for has happened.
Served(k) == IF k.kind = "tip" THEN tips[k.tip].runs > 0 ELSE MessagesOf(k) \subseteq sent

ServedOK ==
    /\ \A k \in DOMAIN status : status[k].state = "completed" => Served(k)
    /\ \A w \in Workers : worker[w].pc = "complete" => Served(Job(w))

\* Job k is completed, or its worker has only to say so.
AllButDone(k) ==
    /\ k \in DOMAIN status
    /\ \/ status[k].state = "completed"
       \/ \E w \in Workers : worker[w].pc = "complete" /\ Job(w) = k

\* The job of a tip runs once, unless a reason made it run again.
RunsOnce ==
    \A t \in Tips \ rerun :
        \/ tips[t].runs = 0
        \/ tips[t].runs = 1 /\ (TipJob(t) \in Known => AllButDone(TipJob(t)))

(* What was sent is in no job that may still be taken; one run of the job   *)
(* of a tip puts a message in one job.                                      *)
SentOnce ==
    /\ \A m \in sent : tips[m.tip].runs > 0
    /\ \A m \in sent, k \in Known :
            m.tip \notin rerun /\ m \in MessagesOf(k) => AllButDone(k)
    /\ \A m \in Messages, j, k \in Known :
            m.tip \notin rerun /\ m \in MessagesOf(j) /\ m \in MessagesOf(k) => j = k

IInv ==
    /\ Types /\ JobsOK /\ WorkersOK /\ ServedOK /\ RunsOnce /\ SentOnce
    /\ NothingForgotten /\ TwiceOnlyForAReason

-----------------------------------------------------------------------------
(* Facts about jobs and their messages. *)

LEMMA TipJobsSayNothing ==
    ASSUME NEW k, k.kind = "tip"
    PROVE  MessagesOf(k) = {}
BY DEF MessagesOf, Messages

LEMMA MessageTypes ==
    ASSUME NEW k
    PROVE  /\ MessagesOf(k) \subseteq Messages
           /\ \A m \in MessagesOf(k) : m.tip = k.tip /\ m.kind = k.kind /\ m.tip \in Tips
BY DEF MessagesOf, Messages

LEMMA TipJobType ==
    ASSUME NEW t \in Tips
    PROVE  TipJob(t) \in Jobs /\ TipJob(t).kind = "tip" /\ TipJob(t).tip = t /\ TipJob(t).run = 0
BY DEF TipJob, Jobs, Kinds

LEMMA PutEffect ==
    ASSUME NEW k, NEW s, Put(k, s)
    PROVE  /\ DOMAIN status' = DOMAIN status \cup {k}
           /\ status' = [j \in DOMAIN status' |-> status'[j]]
           /\ status'[k] = s
           /\ \A j \in DOMAIN status \ {k} : status'[j] = status[j]
BY DEF Put

LEMMA KnownTips ==
    ASSUME Types
    PROVE  /\ \A k \in Known : k \in Jobs /\ k.tip \in Tips
           /\ \A k \in DOMAIN status : k \in Jobs /\ k.tip \in Tips
           /\ \A m \in Messages : m.tip \in Tips
BY DEF Types, Known, Jobs, Messages

-----------------------------------------------------------------------------
(* Steps that only tips, members or the cache notice. *)

Unsubmitted == {"new", "saved", "silent"}

LEMMA OutsideStep ==
    ASSUME IInv, Types',
           UNCHANGED <<adding, status, worker, due, sent, again, rerun, lost>>,
           \A t \in Tips :
                /\ tips'[t].runs = tips[t].runs
                /\ tips'[t].pc \in Unsubmitted <=> tips[t].pc \in Unsubmitted
                /\ tips'[t].pc # "new" => tips'[t].unit \in Units
    PROVE  IInv'
<1>1. \A t \in Tips : tips[t] \in Tip /\ tips'[t] \in Tip
  BY DEF IInv, Types
<1>2. Known' = Known
  BY DEF Known
<1>3. JobsOK'
  BY <1>1, <1>2, KnownTips DEF IInv, JobsOK, Unsubmitted
<1>4. WorkersOK'
  BY DEF IInv, WorkersOK, Job
<1>5. \A k \in Jobs : Served(k)' = Served(k)
  BY DEF Served, Jobs
<1>6. \A w \in Workers : worker[w].pc # "idle" => Job(w) \in Jobs
  BY KnownTips DEF IInv, WorkersOK
<1>7. ServedOK'
  BY <1>5, <1>6, KnownTips DEF IInv, ServedOK, Job
<1>8. \A k : AllButDone(k)' = AllButDone(k)
  BY DEF AllButDone, Job
<1>9. RunsOnce'
  BY <1>2, <1>8 DEF IInv, RunsOnce
<1>10. SentOnce'
  BY <1>2, <1>8, KnownTips DEF IInv, SentOnce, Types
<1>11. \A k : Kept(k)' = Kept(k)
  BY DEF Open, Kept
<1>12. NothingForgotten'
  BY <1>1, <1>11 DEF IInv, NothingForgotten, Kept, Unsubmitted, Tip
<1>13. TwiceOnlyForAReason'
  BY DEF IInv, TwiceOnlyForAReason
<1> QED
  BY <1>3, <1>4, <1>7, <1>9, <1>10, <1>12, <1>13 DEF IInv

LEMMA Outside ==
    ASSUME IInv,
           \/ \E t \in Tips : EmitFails(t) \/ RemoveTip(t) \/ \E u \in Units : SaveTip(t, u)
           \/ \E x \in Users : Toggle(x) \/ \E q \in Places \cup {None} : Move(x, q)
           \/ \E c \in Slugs : Expire(c)
           \/ UNCHANGED vars
    PROVE  IInv'
<1>1. UNCHANGED <<adding, status, worker, due, sent, again, rerun, lost>>
  BY DEF EmitFails, RemoveTip, SaveTip, Toggle, Move, Expire, vars, queue, history
<1>2. cache' \in [Slugs -> (SUBSET Users) \cup {None}]
  <2>1. ASSUME NEW c \in Slugs, Expire(c)
        PROVE  cache' \in [Slugs -> (SUBSET Users) \cup {None}]
    BY <2>1 DEF IInv, Types, Expire
  <2>2. CASE UNCHANGED cache
    BY <2>2 DEF IInv, Types
  <2> QED
    BY <2>1, <2>2 DEF EmitFails, RemoveTip, SaveTip, Toggle, Move, vars
<1>3. /\ tips' \in [Tips -> Tip]
      /\ \A t \in Tips :
            /\ tips'[t].runs = tips[t].runs
            /\ tips'[t].pc \in Unsubmitted <=> tips[t].pc \in Unsubmitted
            /\ tips'[t].pc # "new" => tips'[t].unit \in Units
  <2> DEFINE Good == /\ tips' \in [Tips -> Tip]
                     /\ \A t \in Tips :
                            /\ tips'[t].runs = tips[t].runs
                            /\ tips'[t].pc \in Unsubmitted <=> tips[t].pc \in Unsubmitted
                            /\ tips'[t].pc # "new" => tips'[t].unit \in Units
  <2>1. ASSUME NEW t \in Tips, NEW u \in Units, SaveTip(t, u)
        PROVE  Good
    BY <2>1 DEF IInv, Types, JobsOK, SaveTip, Tip, Unsubmitted
  <2>2. ASSUME NEW t \in Tips, EmitFails(t)
        PROVE  Good
    BY <2>2 DEF IInv, Types, JobsOK, EmitFails, Tip, Unsubmitted
  <2>3. ASSUME NEW t \in Tips, RemoveTip(t)
        PROVE  Good
    BY <2>3 DEF IInv, Types, JobsOK, RemoveTip, Tip, Unsubmitted
  <2>4. CASE UNCHANGED tips
    BY <2>4 DEF IInv, Types, JobsOK
  <2> QED
    BY <2>1, <2>2, <2>3, <2>4 DEF Toggle, Move, Expire, vars
<1>4. Types'
  BY <1>1, <1>2, <1>3 DEF IInv, Types, Known
<1> QED
  BY <1>1, <1>3, <1>4, OutsideStep

-----------------------------------------------------------------------------
(* Steps in which a job waits again, or fails, before it was all but done,  *)
(* or with its tip among those whose jobs may run again.                    *)

LEMMA RequeueStep ==
    ASSUME IInv, NEW k \in DOMAIN status, NEW s \in Status, Put(k, s),
           s.state \in {"waiting", "failed"},
           UNCHANGED <<tips, cache, adding, due, sent, again, lost>>,
           rerun \subseteq rerun',
           ~AllButDone(k) \/ k.tip \in rerun',
           worker' \in [Workers -> Worker],
           \A v \in Workers :
                \/ worker'[v].pc = "idle" /\ (worker[v].pc = "idle" \/ Job(v) = k)
                \/ worker'[v] = worker[v] /\ Job(v) # k
    PROVE  IInv'
<1>1. /\ DOMAIN status' = DOMAIN status /\ Known' = Known
      /\ status' = [j \in DOMAIN status' |-> status'[j]]
      /\ status'[k] = s
      /\ \A j \in DOMAIN status \ {k} : status'[j] = status[j]
  BY PutEffect DEF Known
<1>2. Types'
  BY <1>1 DEF IInv, Types
<1>3. JobsOK'
  BY <1>1 DEF IInv, JobsOK
<1>4. WorkersOK'
  BY <1>1 DEF IInv, WorkersOK, Job
<1>5. \A j : Served(j)' = Served(j)
  BY DEF Served
<1>6. ServedOK'
  BY <1>1, <1>5 DEF IInv, ServedOK, Job
<1>7. \A j : AllButDone(j) /\ j # k => AllButDone(j)'
  <2> SUFFICES ASSUME NEW j, AllButDone(j), j # k
               PROVE  AllButDone(j)'
    OBVIOUS
  <2>1. CASE status[j].state = "completed"
    BY <1>1, <2>1 DEF AllButDone
  <2>2. CASE \E w \in Workers : worker[w].pc = "complete" /\ Job(w) = j
    <3>1. PICK w \in Workers : worker[w].pc = "complete" /\ Job(w) = j
      BY <2>2
    <3>2. worker'[w] = worker[w]
      BY <3>1
    <3> QED
      BY <1>1, <3>1, <3>2 DEF AllButDone, Job
  <2> QED
    BY <2>1, <2>2 DEF AllButDone
<1>8. RunsOnce'
  BY <1>1, <1>7, TipJobType DEF IInv, RunsOnce
<1>9. SentOnce'
  BY <1>1, <1>7, MessageTypes DEF IInv, SentOnce
<1>10. \A j : Kept(j) => Kept(j)'
  BY <1>1 DEF Open, Kept
<1>11. NothingForgotten'
  BY <1>1, <1>10 DEF IInv, NothingForgotten, Kept
<1>12. TwiceOnlyForAReason'
  BY DEF IInv, TwiceOnlyForAReason
<1> QED
  BY <1>2, <1>3, <1>4, <1>6, <1>8, <1>9, <1>11, <1>12 DEF IInv

\* A job in the hands of a worker that is not at its end is not all but done.
LEMMA HeldIsNotDone ==
    ASSUME IInv, NEW w \in Workers, worker[w].pc \notin {"idle", "complete"}
    PROVE  ~AllButDone(Job(w))
<1>1. status[Job(w)].state = "active"
  BY DEF IInv, WorkersOK
<1>2. \A v \in Workers : worker[v].pc = "complete" => Job(v) # Job(w)
  BY DEF IInv, WorkersOK
<1> QED
  BY <1>1, <1>2 DEF AllButDone

LEMMA IdleType == Idle \in Worker /\ Idle.pc = "idle"
BY DEF Idle, Worker

LEMMA ThrowsStep ==
    ASSUME IInv, NEW w \in Workers, worker[w].pc # "idle", Throws(w),
           UNCHANGED <<tips, cache, adding, due, sent, again, lost>>,
           rerun \subseteq rerun',
           worker[w].pc = "complete" => Job(w).tip \in rerun'
    PROVE  IInv'
<1> DEFINE k == Job(w)
           s == [state |-> IF status[k].made + 1 < Attempts(k.kind) THEN "waiting" ELSE "failed",
                 made |-> status[k].made + 1, stalled |-> status[k].stalled]
<1>1. k \in DOMAIN status /\ status[k] \in Status
  BY DEF IInv, Types, WorkersOK
<1>2. s \in Status /\ s.state \in {"waiting", "failed"}
  BY <1>1 DEF Status
<1>3. worker' = [worker EXCEPT ![w] = Idle] /\ Put(k, s)
  BY DEF Throws
<1>4. worker' \in [Workers -> Worker]
  BY <1>3, IdleType DEF IInv, Types
<1>5. \A v \in Workers :
        \/ worker'[v].pc = "idle" /\ (worker[v].pc = "idle" \/ Job(v) = k)
        \/ worker'[v] = worker[v] /\ Job(v) # k
  <2> SUFFICES ASSUME NEW v \in Workers
               PROVE  \/ worker'[v].pc = "idle" /\ (worker[v].pc = "idle" \/ Job(v) = k)
                      \/ worker'[v] = worker[v] /\ Job(v) # k
    OBVIOUS
  <2>1. CASE v = w
    BY <1>3, <2>1, IdleType DEF IInv, Types
  <2>2. CASE v # w
    BY <1>3, <2>2 DEF IInv, Types, WorkersOK
  <2> QED
    BY <2>1, <2>2
<1>6. ~AllButDone(k) \/ k.tip \in rerun'
  BY HeldIsNotDone
<1> HIDE DEF s, k
<1> QED
  BY <1>1, <1>2, <1>3, <1>4, <1>5, <1>6, RequeueStep

LEMMA CallFailsStep ==
    ASSUME IInv, NEW w \in Workers, CallFails(w)
    PROVE  IInv'
<1>1. worker[w].pc \notin {"idle", "complete"} /\ Throws(w)
  BY DEF CallFails
<1>2. UNCHANGED <<tips, cache, adding, due, sent, again, lost, rerun>>
  BY DEF CallFails, history
<1> QED
  BY <1>1, <1>2, ThrowsStep

LEMMA AnswerLostStep ==
    ASSUME IInv, NEW w \in Workers, AnswerLost(w)
    PROVE  IInv'
<1>1. worker[w].pc = "complete" /\ Throws(w)
  BY DEF AnswerLost, At
<1>2. UNCHANGED <<tips, cache, adding, due, sent, again, lost>>
  BY DEF AnswerLost
<1>3. rerun \subseteq rerun' /\ Job(w).tip \in rerun'
  BY DEF AnswerLost
<1> QED
  BY <1>1, <1>2, <1>3, ThrowsStep

LEMMA StallStep ==
    ASSUME IInv, NEW k \in DOMAIN status, Stall(k)
    PROVE  IInv'
<1> DEFINE s == [state |-> IF status[k].stalled THEN "failed" ELSE "waiting",
                 made |-> status[k].made, stalled |-> TRUE]
<1>1. status[k] \in Status
  BY DEF IInv, Types
<1>2. s \in Status /\ s.state \in {"waiting", "failed"}
  BY <1>1 DEF Status
<1>3. Put(k, s) /\ UNCHANGED <<tips, cache, adding, worker, due, sent, again, lost, rerun>>
  BY DEF Stall, history
<1>4. worker' \in [Workers -> Worker]
  BY <1>3 DEF IInv, Types
<1>5. \A v \in Workers : worker'[v] = worker[v] /\ Job(v) # k
  BY <1>3 DEF Stall, Job
<1>6. ~AllButDone(k)
  BY <1>5 DEF Stall, AllButDone
<1> HIDE DEF s
<1> QED
  BY <1>2, <1>3, <1>4, <1>5, <1>6, RequeueStep

LEMMA RetryStep ==
    ASSUME IInv, NEW k \in DOMAIN status, Retry(k)
    PROVE  IInv'
<1> DEFINE s == [status[k] EXCEPT !.state = "waiting"]
<1>1. status[k] \in Status
  BY DEF IInv, Types
<1>2. s \in Status /\ s.state \in {"waiting", "failed"}
  BY <1>1 DEF Status
<1>3. Put(k, s) /\ UNCHANGED <<tips, cache, adding, worker, due, sent, again, lost>>
  BY DEF Retry
<1>4. worker' \in [Workers -> Worker]
  BY <1>3 DEF IInv, Types
<1>5. \A v \in Workers :
        \/ worker'[v].pc = "idle" /\ (worker[v].pc = "idle" \/ Job(v) = k)
        \/ worker'[v] = worker[v] /\ Job(v) # k
  <2>1. \A v \in Workers : worker[v].pc # "idle" => Job(v) # k
    BY DEF IInv, WorkersOK, Retry
  <2> QED
    BY <1>3, <2>1
<1>6. rerun \subseteq rerun' /\ k.tip \in rerun'
  BY DEF Retry
<1> HIDE DEF s
<1> QED
  BY <1>2, <1>3, <1>4, <1>5, <1>6, RequeueStep

-----------------------------------------------------------------------------
(* Steps of the queue. *)

LEMMA EmitStep ==
    ASSUME IInv, NEW t \in Tips, Emit(t)
    PROVE  IInv'
<1> DEFINE k == TipJob(t)
<1>1. /\ tips[t].pc = "saved"
      /\ tips' = [tips EXCEPT ![t].pc = "submitted"]
      /\ adding' = adding \cup {k}
      /\ UNCHANGED <<cache, status, worker, due, sent, again, rerun, lost>>
  BY DEF Emit, history
<1>2. k \in Jobs /\ k.kind = "tip" /\ k.tip = t /\ MessagesOf(k) = {}
  BY TipJobType, TipJobsSayNothing
<1>3. k \notin Known /\ tips[t].runs = 0
  BY <1>1 DEF IInv, JobsOK
<1>4. /\ tips' \in [Tips -> Tip]
      /\ tips'[t].pc = "submitted"
      /\ \A u \in Tips : tips'[u].runs = tips[u].runs /\ tips'[u].unit = tips[u].unit
      /\ \A u \in Tips \ {t} : tips'[u] = tips[u]
  BY <1>1 DEF IInv, Types, Tip
<1>5. Known' = Known \cup {k}
  BY <1>1 DEF Known
<1> HIDE DEF k
<1>6. Types'
  BY <1>1, <1>2, <1>4, <1>5 DEF IInv, Types
<1>7. JobsOK'
  <2>1. ASSUME NEW u \in Tips, tips'[u].pc \in {"new", "saved", "silent"}
        PROVE  tips'[u].runs = 0 /\ TipJob(u) \notin Known'
    <3>1. u # t
      BY <1>4, <2>1
    <3>2. TipJob(u) # k
      BY <3>1, <1>2, TipJobType
    <3> QED
      BY <3>1, <3>2, <1>4, <1>5, <2>1 DEF IInv, JobsOK
  <2>2. \A u \in Tips : tips'[u].pc # "new" => tips'[u].unit \in Units
    BY <1>1, <1>4 DEF IInv, JobsOK
  <2>3. \A j \in Known' :
            /\ j.kind = "tip" => j = TipJob(j.tip)
            /\ j.kind # "tip" => j.run \in 1 .. tips'[j.tip].runs
    BY <1>2, <1>4, <1>5, KnownTips DEF IInv, JobsOK, k
  <2>4. adding' \cap DOMAIN status' = {}
    BY <1>1, <1>3 DEF IInv, JobsOK, Known
  <2> QED
    BY <2>1, <2>2, <2>3, <2>4 DEF JobsOK
<1>8. WorkersOK'
  BY <1>1 DEF IInv, WorkersOK, Job
<1>9. \A j \in Jobs : Served(j)' = Served(j)
  BY <1>1, <1>4 DEF Served, Jobs
<1>10. ServedOK'
  BY <1>1, <1>9, KnownTips DEF IInv, ServedOK, WorkersOK, Job
<1>11. \A j : AllButDone(j)' = AllButDone(j)
  BY <1>1 DEF AllButDone, Job
<1>12. RunsOnce'
  <2>1. \A u \in Tips \ {t} : TipJob(u) # k
    BY <1>2, TipJobType
  <2> QED
    BY <1>1, <1>3, <1>4, <1>5, <1>11, <2>1 DEF IInv, RunsOnce
<1>13. SentOnce'
  BY <1>1, <1>2, <1>4, <1>5, <1>11, KnownTips DEF IInv, SentOnce, Types
<1>14. (\A j : Kept(j) => Kept(j)') /\ Kept(k)'
  BY <1>1 DEF Open, Kept
<1>15. NothingForgotten'
  BY <1>1, <1>4, <1>5, <1>14 DEF IInv, NothingForgotten, Kept, Known, k
<1>16. TwiceOnlyForAReason'
  BY <1>1 DEF IInv, TwiceOnlyForAReason
<1> QED
  BY <1>6, <1>7, <1>8, <1>10, <1>12, <1>13, <1>15, <1>16 DEF IInv

LEMMA LandStep ==
    ASSUME IInv, NEW k \in adding, Land(k)
    PROVE  IInv'
<1> DEFINE s == [state |-> "waiting", made |-> 0, stalled |-> FALSE]
<1>1. /\ adding' = adding \ {k}
      /\ Put(k, s)
      /\ UNCHANGED <<tips, cache, worker, due, sent, again, rerun, lost>>
  BY DEF Land, history
<1>2. /\ DOMAIN status' = DOMAIN status \cup {k}
      /\ status' = [j \in DOMAIN status' |-> status'[j]]
      /\ status'[k] = s
      /\ \A j \in DOMAIN status \ {k} : status'[j] = status[j]
  BY <1>1, PutEffect
<1>3. s \in Status /\ s.state = "waiting"
  BY DEF Status
<1>4. k \notin DOMAIN status /\ Known' = Known
  BY <1>1, <1>2 DEF IInv, JobsOK, Known
<1> HIDE DEF s
<1>5. Types'
  BY <1>1, <1>2, <1>3, <1>4 DEF IInv, Types
<1>6. JobsOK'
  BY <1>1, <1>2, <1>4 DEF IInv, JobsOK
<1>7. WorkersOK'
  BY <1>1, <1>2, <1>4 DEF IInv, WorkersOK, Job
<1>8. \A j : Served(j)' = Served(j)
  BY <1>1 DEF Served
<1>9. ServedOK'
  BY <1>1, <1>2, <1>3, <1>8 DEF IInv, ServedOK, Job
<1>10. \A j : AllButDone(j) => AllButDone(j)'
  BY <1>1, <1>2, <1>4 DEF AllButDone, Job
<1>11. RunsOnce'
  BY <1>1, <1>4, <1>10 DEF IInv, RunsOnce
<1>12. SentOnce'
  BY <1>1, <1>4, <1>10 DEF IInv, SentOnce
<1>13. \A j : Kept(j) => Kept(j)'
  BY <1>1, <1>2, <1>3, <1>4 DEF Open, Kept
<1>14. NothingForgotten'
  BY <1>1, <1>2, <1>13 DEF IInv, NothingForgotten, Kept
<1>15. TwiceOnlyForAReason'
  BY <1>1 DEF IInv, TwiceOnlyForAReason
<1> QED
  BY <1>5, <1>6, <1>7, <1>9, <1>11, <1>12, <1>14, <1>15 DEF IInv

\* A job that is lost on its way, or removed while no worker has it.
LEMMA DroppedStep ==
    ASSUME IInv, NEW k \in Known,
           UNCHANGED <<tips, cache, worker, due, sent, again, rerun>>,
           lost' = lost \cup {k},
           \/ adding' = adding \ {k} /\ status' = status
           \/ /\ adding' = adding
              /\ k \in DOMAIN status /\ status[k].state # "active"
              /\ status' = [j \in DOMAIN status \ {k} |-> status[j]]
    PROVE  IInv'
<1>1. /\ Known' \subseteq Known
      /\ DOMAIN status' \subseteq DOMAIN status
      /\ status' = [j \in DOMAIN status' |-> status'[j]]
      /\ \A j \in DOMAIN status' : status'[j] = status[j]
      /\ adding' \subseteq adding
      /\ \A j \in Known : j # k => j \in Known'
      /\ \A j \in DOMAIN status : j # k => j \in DOMAIN status'
  BY DEF Known, IInv, Types
<1>2. \A w \in Workers : worker[w].pc # "idle" => Job(w) \in DOMAIN status'
  BY DEF IInv, WorkersOK
<1>3. Types'
  BY <1>1 DEF IInv, Types
<1>4. JobsOK'
  BY <1>1 DEF IInv, JobsOK
<1>5. WorkersOK'
  BY <1>1, <1>2 DEF IInv, WorkersOK, Job
<1>6. \A j : Served(j)' = Served(j)
  BY DEF Served
<1>7. ServedOK'
  BY <1>1, <1>6 DEF IInv, ServedOK, Job
<1>8. \A j \in Known' : AllButDone(j) => AllButDone(j)'
  BY <1>1, <1>2 DEF AllButDone, Job, Known, IInv, JobsOK
<1>9. RunsOnce'
  BY <1>1, <1>8 DEF IInv, RunsOnce
<1>10. SentOnce'
  BY <1>1, <1>8 DEF IInv, SentOnce
<1>11. \A j : Kept(j) => Kept(j)'
  BY <1>1 DEF Open, Kept
<1>12. NothingForgotten'
  BY <1>1, <1>11 DEF IInv, NothingForgotten, Kept, Known
<1>13. TwiceOnlyForAReason'
  BY DEF IInv, TwiceOnlyForAReason
<1> QED
  BY <1>3, <1>4, <1>5, <1>7, <1>9, <1>10, <1>12, <1>13 DEF IInv

LEMMA LoseStep ==
    ASSUME IInv, NEW k \in adding, Lose(k)
    PROVE  IInv'
<1>1. k \in Known
  BY DEF Known
<1>2. UNCHANGED <<tips, cache, worker, due, sent, again, rerun>>
      /\ lost' = lost \cup {k} /\ adding' = adding \ {k} /\ status' = status
  BY DEF Lose, history
<1> QED
  BY <1>1, <1>2, DroppedStep

LEMMA RemoveJobStep ==
    ASSUME IInv, NEW k \in DOMAIN status, RemoveJob(k)
    PROVE  IInv'
<1>1. k \in Known
  BY DEF Known
<1>2. /\ UNCHANGED <<tips, cache, worker, due, sent, again, rerun>>
      /\ lost' = lost \cup {k} /\ adding' = adding
      /\ status[k].state # "active"
      /\ status' = [j \in DOMAIN status \ {k} |-> status[j]]
  BY DEF RemoveJob, history
<1> QED
  BY <1>1, <1>2, DroppedStep

-----------------------------------------------------------------------------
(* Steps of workers. *)

LEMMA TakeStep ==
    ASSUME IInv, NEW w \in Workers, NEW k \in DOMAIN status, Take(w, k)
    PROVE  IInv'
<1> DEFINE s == [status[k] EXCEPT !.state = "active"]
           pc == IF k.kind = "tip" THEN "load" ELSE "send"
           x == [Idle EXCEPT !.pc = pc, !.job = k]
<1>1. /\ worker[w].pc = "idle" /\ status[k].state = "waiting"
      /\ Put(k, s)
      /\ worker' = [worker EXCEPT ![w] = x]
      /\ UNCHANGED <<tips, cache, adding, due, sent, again, rerun, lost>>
  BY DEF Take, At, history
<1>2. status[k] \in Status
  BY DEF IInv, Types
<1>3. s \in Status /\ s.state = "active"
  BY <1>2 DEF Status
<1>4. k \in Jobs
  BY KnownTips DEF IInv
<1>5. pc \in {"load", "send"} /\ (pc = "load" <=> k.kind = "tip")
  OBVIOUS
<1> HIDE DEF pc
<1>6. x \in Worker /\ x.pc = pc /\ x.job = k
  BY <1>4, <1>5, IdleType DEF Worker
<1>7. /\ worker' \in [Workers -> Worker] /\ worker'[w] = x
      /\ \A v \in Workers \ {w} : worker'[v] = worker[v]
  BY <1>1, <1>6 DEF IInv, Types
<1> HIDE DEF s, x
<1>8. /\ DOMAIN status' = DOMAIN status /\ Known' = Known
      /\ status' = [j \in DOMAIN status' |-> status'[j]]
      /\ status'[k] = s
      /\ \A j \in DOMAIN status \ {k} : status'[j] = status[j]
  BY <1>1, PutEffect DEF Known
<1>9. Types'
  BY <1>1, <1>3, <1>7, <1>8 DEF IInv, Types
<1>10. JobsOK'
  BY <1>1, <1>8 DEF IInv, JobsOK
<1>11. \A v \in Workers : worker[v].pc # "idle" => Job(v) # k
  BY <1>1 DEF IInv, WorkersOK
<1>12. WorkersOK'
  BY <1>1, <1>3, <1>5, <1>6, <1>7, <1>8, <1>11 DEF IInv, WorkersOK, Job
<1>13. \A j : Served(j)' = Served(j)
  BY <1>1 DEF Served
<1>14. ServedOK'
  BY <1>3, <1>5, <1>6, <1>7, <1>8, <1>13 DEF IInv, ServedOK, Job
<1>15. \A j : AllButDone(j) => AllButDone(j)'
  <2> SUFFICES ASSUME NEW j, AllButDone(j)
               PROVE  AllButDone(j)'
    OBVIOUS
  <2>1. CASE status[j].state = "completed"
    BY <1>1, <1>8, <2>1 DEF AllButDone
  <2>2. CASE \E v \in Workers : worker[v].pc = "complete" /\ Job(v) = j
    <3>1. PICK v \in Workers : worker[v].pc = "complete" /\ Job(v) = j
      BY <2>2
    <3>2. v # w
      BY <1>1, <3>1
    <3> QED
      BY <1>7, <1>8, <3>1, <3>2 DEF AllButDone, Job
  <2> QED
    BY <2>1, <2>2 DEF AllButDone
<1>16. RunsOnce'
  BY <1>1, <1>8, <1>15 DEF IInv, RunsOnce
<1>17. SentOnce'
  BY <1>1, <1>8, <1>15 DEF IInv, SentOnce
<1>18. \A j : Kept(j) => Kept(j)'
  BY <1>1, <1>3, <1>8 DEF Open, Kept
<1>19. NothingForgotten'
  BY <1>1, <1>8, <1>18 DEF IInv, NothingForgotten, Kept
<1>20. TwiceOnlyForAReason'
  BY <1>1 DEF IInv, TwiceOnlyForAReason
<1> QED
  BY <1>9, <1>10, <1>12, <1>14, <1>16, <1>17, <1>19, <1>20 DEF IInv

(* A worker goes on with its job, or, in a crash, lets go of it.  What was  *)
(* all but done stays so, or may run again.                                 *)
LEMMA WorkerStep ==
    ASSUME IInv, NEW w \in Workers, NEW x \in Worker, worker[w].pc # "idle",
           worker' = [worker EXCEPT ![w] = x],
           \/ x.pc = "idle"
           \/ /\ x.job = Job(w) /\ Job(w).kind = "tip"
              /\ x.pc \in {"load", "cache", "legacy", "roles", "add"}
              /\ worker[w].pc # "complete",
           UNCHANGED <<tips, cache, adding, status, due, sent, again, lost>>,
           rerun \subseteq rerun',
           worker[w].pc = "complete" => Job(w).tip \in rerun'
    PROVE  IInv'
<1>1. /\ worker' \in [Workers -> Worker] /\ worker'[w] = x
      /\ \A v \in Workers \ {w} : worker'[v] = worker[v]
  BY DEF IInv, Types
<1>2. Known' = Known
  BY DEF Known
<1>3. Types'
  BY <1>1, <1>2 DEF IInv, Types
<1>4. JobsOK'
  BY <1>2 DEF IInv, JobsOK
<1>5. WorkersOK'
  BY <1>1 DEF IInv, WorkersOK, Job
<1>6. \A j : Served(j)' = Served(j)
  BY DEF Served
<1>7. ServedOK'
  BY <1>1, <1>6 DEF IInv, ServedOK, Job
<1>8. \A j : AllButDone(j) => AllButDone(j)' \/ (worker[w].pc = "complete" /\ j = Job(w))
  BY <1>1 DEF AllButDone, Job
<1>9. \A j : AllButDone(j) /\ j.tip \notin rerun' => AllButDone(j)'
  BY <1>8
<1>10. RunsOnce'
  BY <1>2, <1>9, TipJobType DEF IInv, RunsOnce
<1>11. SentOnce'
  BY <1>2, <1>9, MessageTypes DEF IInv, SentOnce
<1>12. \A j : Kept(j)' = Kept(j)
  BY DEF Open, Kept
<1>13. NothingForgotten'
  BY <1>12 DEF IInv, NothingForgotten, Kept
<1>14. TwiceOnlyForAReason'
  BY DEF IInv, TwiceOnlyForAReason
<1> QED
  BY <1>3, <1>4, <1>5, <1>7, <1>10, <1>11, <1>13, <1>14 DEF IInv

LEMMA CrashStep ==
    ASSUME IInv, NEW w \in Workers, Crash(w)
    PROVE  IInv'
<1>1. /\ worker[w].pc # "idle" /\ worker' = [worker EXCEPT ![w] = Idle]
      /\ UNCHANGED <<tips, cache, adding, status, due, sent, again, lost>>
  BY DEF Crash, At, queue
<1>2. rerun \subseteq rerun' /\ (worker[w].pc = "complete" => Job(w).tip \in rerun')
  BY DEF Crash, At
<1> QED
  BY <1>1, <1>2, IdleType, WorkerStep

\* The tip of a job in the hands of a worker was submitted.
LEMMA HeldTip ==
    ASSUME IInv, NEW w \in Workers, worker[w].pc \notin {"idle", "send", "complete"}
    PROVE  /\ Job(w) \in Jobs /\ Job(w).tip \in Tips /\ Job(w) = TipJob(Job(w).tip)
           /\ tips[Job(w).tip].pc \in {"submitted", "removed"}
           /\ UnitOf(w) \in Units
           /\ worker[w] \in Worker
<1>1. Job(w) \in DOMAIN status /\ Job(w).kind = "tip" /\ worker[w] \in Worker
  BY DEF IInv, WorkersOK, Types
<1>2. Job(w) \in Known /\ Job(w) \in Jobs /\ Job(w).tip \in Tips
  BY <1>1, KnownTips DEF Known, IInv
<1>3. Job(w) = TipJob(Job(w).tip)
  BY <1>1, <1>2 DEF IInv, JobsOK
<1>4. tips[Job(w).tip] \in Tip
  BY <1>2 DEF IInv, Types
<1>5. tips[Job(w).tip].pc \in {"submitted", "removed"}
  BY <1>2, <1>3, <1>4 DEF IInv, JobsOK, Tip
<1>6. UnitOf(w) \in Units
  BY <1>2, <1>5 DEF IInv, JobsOK, UnitOf
<1> QED
  BY <1>1, <1>2, <1>3, <1>5, <1>6

LEMMA ReachableType ==
    ASSUME NEW users
    PROVE  Reachable(Listed(users)) \subseteq Users
BY DEF Reachable, Listed

LEMMA LookUpStep ==
    ASSUME IInv, NEW w \in Workers, Load(w) \/ CacheGet(w) \/ Legacy(w) \/ Roles(w)
    PROVE  IInv'
<1>1. worker[w].pc \in {"load", "cache", "legacy", "roles"} /\ UNCHANGED <<tips, cache, adding, due, sent, again, lost, rerun>>
  BY DEF Load, CacheGet, Legacy, Roles, At, queue, history
<1>2. worker[w] \in Worker /\ UnitOf(w) \in Units /\ Job(w).kind = "tip"
  BY <1>1, HeldTip, TipJobType DEF IInv, WorkersOK
<1>3. CASE Load(w) /\ tips[Job(w).tip].pc = "removed"
  <2>1. Throws(w)
    BY <1>3 DEF Load
  <2> QED
    BY <1>1, <2>1, ThrowsStep
<1>4. CASE Load(w) /\ tips[Job(w).tip].pc # "removed"
  <2> DEFINE x == [worker[w] EXCEPT !.pc = "cache"]
  <2>1. worker' = [worker EXCEPT ![w] = x] /\ UNCHANGED status
    BY <1>4 DEF Load, Goes
  <2>2. x \in Worker /\ x.job = Job(w) /\ x.pc = "cache"
    BY <1>2 DEF Worker, Job
  <2> HIDE DEF x
  <2> QED
    BY <1>1, <1>2, <2>1, <2>2, WorkerStep
<1>5. CASE CacheGet(w)
  <2> DEFINE cached == cache[SlugOf[UnitOf(w)]]
             x == [worker[w] EXCEPT !.pc = IF cached = None THEN "legacy" ELSE "add",
                                    !.contacts = IF cached = None THEN {} ELSE cached]
  <2>1. worker' = [worker EXCEPT ![w] = x] /\ UNCHANGED status
    BY <1>5 DEF CacheGet, queue
  <2>2. cached \in (SUBSET Users) \cup {None}
    BY <1>2, UnitAssumption DEF IInv, Types
  <2> HIDE DEF cached
  <2>3. x \in Worker /\ x.job = Job(w) /\ x.pc \in {"legacy", "add"}
    BY <1>2, <2>2 DEF Worker, Job
  <2> HIDE DEF x
  <2> QED
    BY <1>1, <1>2, <2>1, <2>3, WorkerStep
<1>6. CASE Legacy(w)
  <2> DEFINE users == Reachable(Listed(LegacyPlaces(UnitOf(w))))
             x == [worker[w] EXCEPT !.pc = "roles", !.contacts = users]
  <2>1. worker' = [worker EXCEPT ![w] = x] /\ UNCHANGED status
    BY <1>6 DEF Legacy, queue
  <2>2. users \subseteq Users
    BY ReachableType
  <2> HIDE DEF users
  <2>3. x \in Worker /\ x.job = Job(w) /\ x.pc = "roles"
    BY <1>2, <2>2 DEF Worker, Job
  <2> HIDE DEF x
  <2> QED
    BY <1>1, <1>2, <2>1, <2>3, WorkerStep
<1>7. CASE Roles(w)
  <2> DEFINE listed == Listed(RolePlaces(UnitOf(w)))
             users == (worker[w].contacts \ listed) \cup Reachable(listed)
             x == [worker[w] EXCEPT !.pc = "add", !.fresh = TRUE, !.contacts = users]
  <2>1. worker' = [worker EXCEPT ![w] = x] /\ UNCHANGED status
    BY <1>7 DEF Roles, queue
  <2>2. users \subseteq Users
    BY <1>2, ReachableType DEF Worker
  <2> HIDE DEF users
  <2>3. x \in Worker /\ x.job = Job(w) /\ x.pc = "add"
    BY <1>2, <2>2 DEF Worker, Job
  <2> HIDE DEF x
  <2> QED
    BY <1>1, <1>2, <2>1, <2>3, WorkerStep
<1> QED
  BY <1>3, <1>4, <1>5, <1>6, <1>7

(* The jobs that one run of the job of a tip makes: each message is in one. *)
LEMMA NewJobsOK ==
    ASSUME Types, NEW t \in Tips, NEW contacts \in SUBSET Users
    PROVE  /\ NewJobs(t, contacts) \subseteq Jobs
           /\ \A k \in NewJobs(t, contacts) :
                    k.kind # "tip" /\ k.tip = t /\ k.run = tips[t].runs + 1
           /\ \A m, j, k : /\ j \in NewJobs(t, contacts) /\ m \in MessagesOf(j)
                           /\ k \in NewJobs(t, contacts) /\ m \in MessagesOf(k)
                           => j = k
<1> DEFINE run == tips[t].runs + 1
           mails == contacts \cap Mails
           sms(x) == [kind |-> "sms", tip |-> t, to |-> {x}, run |-> run]
           email == [kind |-> "email", tip |-> t, to |-> mails, run |-> run]
<1>1. tips[t] \in Tip /\ run \in Nat
  BY DEF Types, Tip
<1>2. mails \in SUBSET Users
  OBVIOUS
<1>3. \A k \in NewJobs(t, contacts) : (\E x \in Users : k = sms(x)) \/ k = email
  BY DEF NewJobs
<1> HIDE DEF run, mails
<1>4. email \in Jobs
  BY <1>1, <1>2 DEF Jobs, Kinds
<1>5. \A x \in Users : sms(x) \in Jobs
  BY <1>1 DEF Jobs, Kinds
<1>6. NewJobs(t, contacts) \subseteq Jobs
  BY <1>3, <1>4, <1>5
<1>7. \A k \in NewJobs(t, contacts) : k.kind # "tip" /\ k.tip = t /\ k.run = run
  BY <1>3
<1>8. \A m, x : m \in MessagesOf(sms(x)) => m.kind = "sms" /\ m.user = x
  BY DEF MessagesOf
<1>9. \A m : m \in MessagesOf(email) => m.kind = "email"
  BY DEF MessagesOf
<1>10. ASSUME NEW m, NEW j \in NewJobs(t, contacts), m \in MessagesOf(j),
              NEW k \in NewJobs(t, contacts), m \in MessagesOf(k)
       PROVE  j = k
  <2>1. CASE j = email /\ k = email
    BY <2>1
  <2>2. CASE j = email /\ k # email
    BY <1>3, <1>8, <1>9, <1>10, <2>2
  <2>3. CASE j # email /\ k = email
    BY <1>3, <1>8, <1>9, <1>10, <2>3
  <2>4. CASE j # email /\ k # email
    <3>1. PICK x \in Users, y \in Users : j = sms(x) /\ k = sms(y)
      BY <1>3, <2>4
    <3>2. m.user = x /\ m.user = y
      BY <1>8, <1>10, <3>1
    <3> QED
      BY <3>1, <3>2
  <2> QED
    BY <2>1, <2>2, <2>3, <2>4
<1> QED
  BY <1>6, <1>7, <1>10 DEF run

LEMMA AddStep ==
    ASSUME IInv, NEW w \in Workers, Add(w)
    PROVE  IInv'
<1>1. PICK t \in Tips : t = Job(w).tip
  BY HeldTip DEF Add, At
<1> DEFINE new == NewJobs(t, worker[w].contacts)
           x == [worker[w] EXCEPT !.pc = "complete"]
<1>2. /\ worker[w].pc = "add"
      /\ adding' = adding \cup new
      /\ due' = due \cup UNION {MessagesOf(k) : k \in new}
      /\ tips' = [tips EXCEPT ![t].runs = @ + 1]
      /\ worker' = [worker EXCEPT ![w] = x]
      /\ UNCHANGED <<status, sent, again, rerun, lost>>
  BY <1>1 DEF Add, At, Goes
<1>3. /\ Job(w) \in Jobs /\ Job(w) = TipJob(t)
      /\ tips[t].pc \in {"submitted", "removed"}
      /\ UnitOf(w) \in Units /\ worker[w] \in Worker
  BY <1>1, <1>2, HeldTip
<1>4. worker[w].contacts \in SUBSET Users
  BY <1>3 DEF Worker
<1>5. /\ new \subseteq Jobs
      /\ \A k \in new : k.kind # "tip" /\ k.tip = t /\ k.run = tips[t].runs + 1
      /\ \A m, j, k : /\ j \in new /\ m \in MessagesOf(j)
                      /\ k \in new /\ m \in MessagesOf(k)
                      => j = k
  BY <1>3, <1>4, NewJobsOK DEF IInv
<1>6. cache' \in [Slugs -> (SUBSET Users) \cup {None}]
  <2>1. cache' = cache \/ cache' = [cache EXCEPT ![SlugOf[UnitOf(w)]] = worker[w].contacts]
    BY DEF Add
  <2> QED
    BY <1>4, <2>1 DEF IInv, Types
<1>7. x \in Worker /\ x.pc = "complete" /\ x.job = Job(w)
  BY <1>3 DEF Worker, Job
<1> HIDE DEF new, x
<1>8. /\ worker' \in [Workers -> Worker] /\ worker'[w] = x
      /\ \A v \in Workers \ {w} : worker'[v] = worker[v]
      /\ \A v \in Workers : worker'[v].job = worker[v].job
  BY <1>2, <1>7 DEF IInv, Types, Job
<1>9. tips[t] \in Tip
  BY <1>3 DEF IInv, Types
<1>10. /\ tips' \in [Tips -> Tip]
      /\ tips'[t].runs = tips[t].runs + 1
      /\ tips'[t].pc = tips[t].pc /\ tips'[t].unit = tips[t].unit
      /\ \A u \in Tips \ {t} : tips'[u] = tips[u]
  BY <1>2, <1>3, <1>9 DEF IInv, Types, Tip
<1>11. tips[t].runs \in Nat /\ \A u \in Tips : tips[u].runs \in Nat
  BY <1>3 DEF IInv, Types, Tip
<1>12. Known' = Known \cup new
  BY <1>2 DEF Known
<1>13. \A k \in Known : k \notin new
  BY <1>5, <1>11 DEF IInv, JobsOK
<1>14. Types'
  <2>1. due' \subseteq Messages
    BY <1>2, MessageTypes DEF IInv, Types
  <2> QED
    BY <1>2, <1>5, <1>6, <1>8, <1>10, <1>12, <2>1 DEF IInv, Types
<1>15. JobsOK'
  <2>1. ASSUME NEW u \in Tips, tips'[u].pc \in {"new", "saved", "silent"}
        PROVE  tips'[u].runs = 0 /\ TipJob(u) \notin Known'
    <3>1. u # t
      BY <1>3, <1>10, <2>1
    <3>2. TipJob(u) \notin new
      BY <1>5, TipJobType
    <3> QED
      BY <1>10, <1>12, <2>1, <3>1, <3>2 DEF IInv, JobsOK
  <2>2. \A u \in Tips : tips'[u].pc # "new" => tips'[u].unit \in Units
    BY <1>10 DEF IInv, JobsOK
  <2>3. ASSUME NEW k \in Known
        PROVE  /\ k.kind = "tip" => k = TipJob(k.tip)
               /\ k.kind # "tip" => k.run \in 1 .. tips'[k.tip].runs
    <3>1. /\ k.kind = "tip" => k = TipJob(k.tip)
          /\ k.kind # "tip" => k.run \in 1 .. tips[k.tip].runs
      BY DEF IInv, JobsOK
    <3>2. k.tip \in Tips
      BY KnownTips DEF IInv
    <3>3. tips'[k.tip].runs \in {tips[k.tip].runs, tips[k.tip].runs + 1}
      BY <1>10, <3>2
    <3> QED
      BY <1>11, <3>1, <3>2, <3>3
  <2>4. ASSUME NEW k \in new
        PROVE  k.kind # "tip" /\ k.run \in 1 .. tips'[k.tip].runs
    BY <1>5, <1>10, <1>11
  <2>5. adding' \cap DOMAIN status' = {}
    BY <1>2, <1>13 DEF IInv, JobsOK, Known
  <2> QED
    BY <1>12, <2>1, <2>2, <2>3, <2>4, <2>5 DEF JobsOK
<1>16. WorkersOK'
  BY <1>2, <1>3, <1>7, <1>8 DEF IInv, WorkersOK, Job
<1>17. \A k \in Jobs : Served(k) => Served(k)'
  BY <1>2, <1>10, <1>11 DEF Served, Jobs
<1>18. Served(Job(w))'
  <2>1. Job(w).kind = "tip" /\ Job(w).tip = t
    BY <1>3, TipJobType
  <2>2. Job(w)' = Job(w)
    BY <1>8 DEF Job
  <2> QED
    BY <1>10, <1>11, <2>1, <2>2 DEF Served
<1>19. ServedOK'
  <2>1. ASSUME NEW v \in Workers, worker'[v].pc = "complete"
        PROVE  Served(Job(v))'
    <3>1. CASE v = w
      BY <1>18, <3>1
    <3>2. CASE v # w
      <4>1. worker[v].pc = "complete" /\ Job(v)' = Job(v)
        BY <1>8, <2>1, <3>2 DEF Job
      <4>2. Job(v) \in Jobs /\ Served(Job(v))
        BY <4>1, KnownTips DEF IInv, WorkersOK, ServedOK
      <4> QED
        BY <1>17, <4>1, <4>2
    <3> QED
      BY <3>1, <3>2
  <2>2. \A k \in DOMAIN status : status[k].state = "completed" => Served(k)'
    BY <1>17, KnownTips DEF IInv, ServedOK
  <2> QED
    BY <1>2, <2>1, <2>2 DEF ServedOK
<1>20. \A k : AllButDone(k) => AllButDone(k)'
  BY <1>2, <1>8 DEF AllButDone, Job
<1>21. AllButDone(TipJob(t))'
  <2>1. Job(w) \in DOMAIN status
    BY <1>2 DEF IInv, WorkersOK
  <2> QED
    BY <1>2, <1>3, <1>7, <1>8, <2>1 DEF AllButDone, Job
<1>22. t \notin rerun => tips[t].runs = 0
  <2>1. ~AllButDone(TipJob(t)) /\ Job(w) \in Known
    BY <1>2, <1>3, HeldIsNotDone DEF IInv, WorkersOK, Known
  <2> QED
    BY <1>3, <2>1 DEF IInv, RunsOnce
<1>23. RunsOnce'
  <2>1. ASSUME NEW u \in Tips \ rerun', u # t
        PROVE  \/ tips'[u].runs = 0
               \/ tips'[u].runs = 1 /\ (TipJob(u) \in Known' => AllButDone(TipJob(u))')
    <3>1. TipJob(u) \notin new
      BY <1>5, TipJobType
    <3> QED
      BY <1>2, <1>10, <1>12, <1>20, <2>1, <3>1 DEF IInv, RunsOnce
  <2>2. t \notin rerun' => tips'[t].runs = 1
    BY <1>2, <1>10, <1>22
  <2> QED
    BY <1>21, <2>1, <2>2 DEF RunsOnce
<1>24. SentOnce'
  <2>1. \A m \in sent : tips'[m.tip].runs > 0
    BY <1>10, <1>11, KnownTips DEF IInv, SentOnce, Types
  <2>2. ASSUME NEW m \in sent, NEW k \in new, m.tip \notin rerun, m \in MessagesOf(k)
        PROVE  FALSE
    <3>1. m.tip = t
      BY <1>5, <2>2, MessageTypes
    <3> QED
      BY <1>22, <2>2, <3>1 DEF IInv, SentOnce
  <2>3. ASSUME NEW m, NEW j \in Known, NEW k \in new,
               m.tip \notin rerun, m \in MessagesOf(j), m \in MessagesOf(k)
        PROVE  FALSE
    <3>1. m.tip = t /\ j.tip = t /\ tips[t].runs = 0
      BY <1>5, <1>22, <2>3, MessageTypes
    <3>2. j.kind # "tip"
      BY <2>3, TipJobsSayNothing
    <3>3. j.run \in 1 .. 0
      BY <3>1, <3>2 DEF IInv, JobsOK
    <3> QED
      BY <3>3
  <2>4. ASSUME NEW m \in Messages, NEW j \in Known', NEW k \in Known',
               m.tip \notin rerun, m \in MessagesOf(j), m \in MessagesOf(k)
        PROVE  j = k
    BY <1>5, <1>12, <2>3, <2>4 DEF IInv, SentOnce
  <2>5. ASSUME NEW m \in sent, NEW k \in Known', m.tip \notin rerun, m \in MessagesOf(k)
        PROVE  AllButDone(k)'
    BY <1>12, <1>20, <2>2, <2>5 DEF IInv, SentOnce
  <2> QED
    BY <1>2, <2>1, <2>4, <2>5 DEF SentOnce
<1>25. (\A k : Kept(k) => Kept(k)') /\ (\A k \in new : Kept(k)')
  BY <1>2 DEF Open, Kept
<1>26. NothingForgotten'
  <2>1. ASSUME NEW u \in Tips, tips'[u].pc \in {"submitted", "removed"}
        PROVE  tips'[u].runs > 0 \/ Kept(TipJob(u))'
    BY <1>10, <1>11, <1>25, <2>1 DEF IInv, NothingForgotten, Kept
  <2>2. ASSUME NEW m \in due
        PROVE  m \in sent \/ \E k \in (adding \cup lost \cup DOMAIN status)' :
                                m \in MessagesOf(k) /\ Kept(k)'
    <3>1. CASE m \in sent
      BY <3>1
    <3>2. CASE \E k \in adding \cup lost \cup DOMAIN status : m \in MessagesOf(k) /\ Kept(k)
      BY <1>2, <1>25, <3>2
    <3> QED
      BY <3>1, <3>2 DEF IInv, NothingForgotten, Kept
  <2>3. ASSUME NEW k \in new, NEW m \in MessagesOf(k)
        PROVE  \E j \in (adding \cup lost \cup DOMAIN status)' :
                    m \in MessagesOf(j) /\ Kept(j)'
    BY <1>2, <1>25
  <2> QED
    BY <1>2, <2>1, <2>2, <2>3 DEF NothingForgotten, Kept
<1>27. TwiceOnlyForAReason'
  BY <1>2 DEF IInv, TwiceOnlyForAReason
<1> QED
  BY <1>14, <1>15, <1>16, <1>19, <1>23, <1>24, <1>26, <1>27 DEF IInv

LEMMA SendStep ==
    ASSUME IInv, NEW w \in Workers, Send(w)
    PROVE  IInv'
<1>1. PICK k \in DOMAIN status : k = Job(w)
  BY DEF IInv, WorkersOK, Send, At
<1> DEFINE x == [worker[w] EXCEPT !.pc = "complete"]
<1>2. /\ worker[w].pc = "send"
      /\ sent' = sent \cup MessagesOf(k)
      /\ again' = again \cup (sent \cap MessagesOf(k))
      /\ worker' = [worker EXCEPT ![w] = x]
      /\ UNCHANGED <<tips, cache, adding, status, due, rerun, lost>>
  BY <1>1 DEF Send, At, Goes, queue
<1>3. /\ k \in Known /\ k \in Jobs /\ k.tip \in Tips /\ k.kind # "tip"
      /\ worker[w] \in Worker
  BY <1>1, <1>2, KnownTips DEF IInv, WorkersOK, Types, Known
<1>4. x \in Worker /\ x.pc = "complete" /\ x.job = k
  BY <1>1, <1>3 DEF Worker, Job
<1> HIDE DEF x
<1>5. /\ worker' \in [Workers -> Worker] /\ worker'[w] = x
      /\ \A v \in Workers \ {w} : worker'[v] = worker[v]
  BY <1>2, <1>4 DEF IInv, Types
<1>6. Known' = Known
  BY <1>2 DEF Known
<1>7. Types'
  BY <1>2, <1>5, <1>6, MessageTypes DEF IInv, Types
<1>8. JobsOK'
  BY <1>2, <1>6 DEF IInv, JobsOK
<1>9. WorkersOK'
  BY <1>1, <1>2, <1>4, <1>5 DEF IInv, WorkersOK, Job
<1>10. (\A j : Served(j) => Served(j)') /\ Served(k)'
  BY <1>2, <1>3 DEF Served
<1>11. ServedOK'
  BY <1>2, <1>4, <1>5, <1>10 DEF IInv, ServedOK, Job
<1>12. \A j : AllButDone(j) => AllButDone(j)'
  BY <1>2, <1>4, <1>5 DEF AllButDone, Job
<1>13. AllButDone(k)'
  BY <1>2, <1>4, <1>5 DEF AllButDone, Job
<1>14. ~AllButDone(k)
  BY <1>1, <1>2, HeldIsNotDone
<1>15. RunsOnce'
  BY <1>2, <1>6, <1>12 DEF IInv, RunsOnce
<1>16. SentOnce'
  <2>1. \A m \in MessagesOf(k) : m \in Messages /\ tips[m.tip].runs > 0
    <3>1. k.run \in 1 .. tips[k.tip].runs /\ tips[k.tip].runs \in Nat
      BY <1>3 DEF IInv, JobsOK, Types, Tip
    <3> QED
      BY <3>1, MessageTypes
  <2>2. ASSUME NEW m \in MessagesOf(k), NEW j \in Known, m.tip \notin rerun, m \in MessagesOf(j)
        PROVE  AllButDone(j)'
    <3>1. j = k
      BY <1>3, <2>1, <2>2 DEF IInv, SentOnce
    <3> QED
      BY <1>13, <3>1
  <2>3. \A m \in sent, j \in Known :
            m.tip \notin rerun /\ m \in MessagesOf(j) => AllButDone(j)'
    BY <1>12 DEF IInv, SentOnce
  <2>4. \A m \in sent' : tips[m.tip].runs > 0
    BY <1>2, <2>1 DEF IInv, SentOnce
  <2>5. \A m \in sent', j \in Known :
            m.tip \notin rerun /\ m \in MessagesOf(j) => AllButDone(j)'
    BY <1>2, <2>2, <2>3
  <2> QED
    BY <1>2, <1>6, <2>4, <2>5 DEF IInv, SentOnce
<1>17. \A j : Kept(j)' = Kept(j)
  BY <1>2 DEF Open, Kept
<1>18. NothingForgotten'
  BY <1>2, <1>17 DEF IInv, NothingForgotten, Kept
<1>19. TwiceOnlyForAReason'
  <2>1. \A m \in sent \cap MessagesOf(k) : m.tip \in rerun
    BY <1>3, <1>14 DEF IInv, SentOnce
  <2> QED
    BY <1>2, <2>1 DEF IInv, TwiceOnlyForAReason
<1> QED
  BY <1>7, <1>8, <1>9, <1>11, <1>15, <1>16, <1>18, <1>19 DEF IInv

LEMMA CompleteStep ==
    ASSUME IInv, NEW w \in Workers, Complete(w)
    PROVE  IInv'
<1>1. PICK k \in DOMAIN status : k = Job(w)
  BY DEF IInv, WorkersOK, Complete, At
<1> DEFINE s == [status[k] EXCEPT !.state = "completed"]
<1>2. /\ worker[w].pc = "complete" /\ Put(k, s)
      /\ worker' = [worker EXCEPT ![w] = Idle]
      /\ UNCHANGED <<tips, cache, adding, due, sent, again, rerun, lost>>
  BY <1>1 DEF Complete, At, history
<1>3. status[k] \in Status
  BY DEF IInv, Types
<1>4. s \in Status /\ s.state = "completed"
  BY <1>3 DEF Status
<1> HIDE DEF s
<1>5. /\ DOMAIN status' = DOMAIN status /\ Known' = Known
      /\ status' = [j \in DOMAIN status' |-> status'[j]]
      /\ status'[k] = s
      /\ \A j \in DOMAIN status \ {k} : status'[j] = status[j]
  BY <1>2, PutEffect DEF Known
<1>6. /\ worker' \in [Workers -> Worker] /\ worker'[w].pc = "idle"
      /\ \A v \in Workers \ {w} : worker'[v] = worker[v]
  BY <1>2, IdleType DEF IInv, Types
<1>7. Types'
  BY <1>2, <1>4, <1>5, <1>6 DEF IInv, Types
<1>8. JobsOK'
  BY <1>2, <1>5 DEF IInv, JobsOK
<1>9. \A v \in Workers \ {w} : worker[v].pc # "idle" => Job(v) # k
  BY <1>1, <1>2 DEF IInv, WorkersOK
<1>10. WorkersOK'
  BY <1>2, <1>5, <1>6, <1>9 DEF IInv, WorkersOK, Job
<1>11. (\A j : Served(j)' = Served(j)) /\ Served(k)
  BY <1>1, <1>2 DEF Served, IInv, ServedOK
<1>12. ServedOK'
  BY <1>5, <1>6, <1>11 DEF IInv, ServedOK, Job
<1>13. \A j : AllButDone(j) => AllButDone(j)'
  <2> SUFFICES ASSUME NEW j, AllButDone(j), j # k
               PROVE  AllButDone(j)'
    BY <1>4, <1>5 DEF AllButDone
  <2>1. CASE status[j].state = "completed"
    BY <1>5, <2>1 DEF AllButDone
  <2>2. CASE \E v \in Workers : worker[v].pc = "complete" /\ Job(v) = j
    <3>1. PICK v \in Workers : worker[v].pc = "complete" /\ Job(v) = j
      BY <2>2
    <3>2. v # w
      BY <1>1, <3>1
    <3> QED
      BY <1>5, <1>6, <3>1, <3>2 DEF AllButDone, Job
  <2> QED
    BY <2>1, <2>2 DEF AllButDone
<1>14. RunsOnce'
  BY <1>2, <1>5, <1>13 DEF IInv, RunsOnce
<1>15. SentOnce'
  BY <1>2, <1>5, <1>13 DEF IInv, SentOnce
<1>16. \A j : j # k /\ Kept(j) => Kept(j)'
  BY <1>2, <1>5 DEF Open, Kept
<1>17. NothingForgotten'
  <2>1. ASSUME NEW t \in Tips, tips[t].pc \in {"submitted", "removed"}
        PROVE  tips[t].runs > 0 \/ Kept(TipJob(t))'
    <3>1. CASE TipJob(t) = k
      BY <1>11, <3>1, TipJobType DEF Served
    <3>2. CASE TipJob(t) # k
      BY <1>16, <2>1, <3>2 DEF IInv, NothingForgotten, Kept
    <3> QED
      BY <3>1, <3>2
  <2>2. ASSUME NEW m \in due, m \notin sent
        PROVE  \E j \in (adding \cup lost \cup DOMAIN status)' :
                    m \in MessagesOf(j) /\ Kept(j)'
    <3>1. PICK j \in adding \cup lost \cup DOMAIN status : m \in MessagesOf(j) /\ Kept(j)
      BY <2>2 DEF IInv, NothingForgotten, Kept
    <3>2. j # k
      BY <1>11, <2>2, <3>1, TipJobsSayNothing DEF Served
    <3> QED
      BY <1>2, <1>5, <1>16, <3>1, <3>2
  <2> QED
    BY <1>2, <2>1, <2>2 DEF NothingForgotten, Kept
<1>18. TwiceOnlyForAReason'
  BY <1>2 DEF IInv, TwiceOnlyForAReason
<1> QED
  BY <1>7, <1>8, <1>10, <1>12, <1>14, <1>15, <1>17, <1>18 DEF IInv

-----------------------------------------------------------------------------
LEMMA Initially == Init => IInv
<1> SUFFICES ASSUME Init PROVE IInv
  OBVIOUS
<1>1. DOMAIN status = {} /\ status = [k \in DOMAIN status |-> status[k]] /\ Known = {}
  BY DEF Init, Known
<1>2. \A t \in Tips : tips[t].pc = "new" /\ tips[t].runs = 0
  BY DEF Init
<1>3. \A w \in Workers : worker[w].pc = "idle"
  BY IdleType DEF Init
<1>4. Types
  BY <1>1, IdleType DEF Init, Types, Tip
<1>5. JobsOK /\ WorkersOK /\ ServedOK
  BY <1>1, <1>2, <1>3 DEF Init, JobsOK, WorkersOK, ServedOK
<1>6. RunsOnce /\ SentOnce
  BY <1>1, <1>2 DEF Init, RunsOnce, SentOnce
<1>7. NothingForgotten /\ TwiceOnlyForAReason
  BY <1>2 DEF Init, NothingForgotten, Kept, TwiceOnlyForAReason
<1> QED
  BY <1>4, <1>5, <1>6, <1>7 DEF IInv

LEMMA Inductive == IInv /\ [Next]_vars => IInv'
<1> SUFFICES ASSUME IInv, [Next]_vars PROVE IInv'
  OBVIOUS
<1>1. ASSUME NEW t \in Tips, Emit(t)
      PROVE  IInv'
  BY <1>1, EmitStep
<1>2. CASE \/ \E t \in Tips : EmitFails(t) \/ RemoveTip(t) \/ \E u \in Units : SaveTip(t, u)
           \/ \E x \in Users : Toggle(x) \/ \E q \in Places \cup {None} : Move(x, q)
           \/ \E c \in Slugs : Expire(c)
           \/ UNCHANGED vars
  BY <1>2, Outside
<1>3. CASE Delivers
  BY <1>3, LandStep, StallStep DEF Delivers
<1>4. ASSUME NEW w \in Workers, Works(w)
      PROVE  IInv'
  BY <1>4, TakeStep, LookUpStep, AddStep, SendStep, CompleteStep DEF Works
<1>5. CASE Breaks
  <2>1. CASE \E t \in Tips : EmitFails(t) \/ RemoveTip(t)
    BY <1>2, <2>1
  <2>2. ASSUME NEW k \in adding, Lose(k)
        PROVE  IInv'
    BY <2>2, LoseStep
  <2>3. ASSUME NEW k \in DOMAIN status, Retry(k) \/ RemoveJob(k)
        PROVE  IInv'
    BY <2>3, RetryStep, RemoveJobStep
  <2>4. ASSUME NEW w \in Workers, CallFails(w) \/ AnswerLost(w) \/ Crash(w)
        PROVE  IInv'
    BY <2>4, CallFailsStep, AnswerLostStep, CrashStep
  <2> QED
    BY <1>5, <2>1, <2>2, <2>3, <2>4 DEF Breaks
<1> QED
  BY <1>1, <1>2, <1>3, <1>4, <1>5 DEF Next

LEMMA Invariance == Spec => []IInv
BY Initially, Inductive, PTL DEF Spec

-----------------------------------------------------------------------------
(* The job of a submitted tip is on its way or in the queue until it has    *)
(* decided whom to tell, and so is the job of a message until the provider  *)
(* took it, unless an add did not get through or an administrator removed   *)
(* the job (SubmitTipListener, NotificationsProcessor).                     *)
THEOREM TipsAreNotForgotten == Spec => []NothingForgotten
<1>1. IInv => NothingForgotten
  BY DEF IInv
<1> QED
  BY <1>1, Invariance, PTL

(* A member of the team hears of a tip twice only if the provider's answer  *)
(* was lost, a worker crashed when its job was all but done, or a job was   *)
(* retried (NotificationsProcessor.process).                                *)
THEOREM ToldTwiceForAReason == Spec => []TwiceOnlyForAReason
<1>1. IInv => TwiceOnlyForAReason
  BY DEF IInv
<1> QED
  BY <1>1, Invariance, PTL

-----------------------------------------------------------------------------
(* The team that is told.  While nothing broke, what goes through the cache *)
(* and the workers is the whole team of a unit with the slug in question.   *)

\* users are the contacts of a unit of slug s that has a tip.
TeamOf(users, s) ==
    \E r \in Tips : /\ tips[r].unit \in Units /\ SlugOf[tips[r].unit] = s
                    /\ users = Contacts(tips[r].unit)

CacheTeam == \A s \in Slugs : cache[s] # None => TeamOf(cache[s], s)

FoundTeam(w) ==
    /\ worker[w].pc = "roles" =>
          worker[w].contacts = Reachable(Listed(LegacyPlaces(UnitOf(w))))
    /\ worker[w].pc = "add" => TeamOf(worker[w].contacts, SlugOf[UnitOf(w)])

WorkerTeam == \A w \in Workers : FoundTeam(w)

ToldTeam(t) ==
    /\ tips[t].runs = 0 => Told(t) = {}
    /\ tips[t].runs > 0 => TeamOf(Told(t), SlugOf[tips[t].unit])

DueTeam == \A t \in Tips : ToldTeam(t)

TeamInv ==
    /\ faults \in 0 .. MaxFaults
    /\ \A t \in Tips : tips[t].pc = "new" => tips[t].unit = None
    /\ faults = 0 => rerun = {} /\ CacheTeam /\ WorkerTeam /\ DueTeam

\* A team stays one as long as members and the units of tips do.
LEMMA TeamKept ==
    ASSUME UNCHANGED team,
           \A r \in Tips : tips[r].unit \in Units => tips'[r].unit = tips[r].unit,
           NEW users, NEW s, TeamOf(users, s)
    PROVE  TeamOf(users, s)'
<1>1. PICK r \in Tips : /\ tips[r].unit \in Units /\ SlugOf[tips[r].unit] = s
                        /\ users = Contacts(tips[r].unit)
  BY DEF TeamOf
<1>2. tips'[r].unit = tips[r].unit
  BY <1>1
<1>3. Contacts(tips[r].unit)' = Contacts(tips[r].unit)
  BY <1>2 DEF Contacts, Reachable, Listed, LegacyPlaces, RolePlaces, Namesakes, team
<1> QED
  BY <1>1, <1>2, <1>3 DEF TeamOf

\* Once something broke, nothing is claimed any more.
LEMMA BrokenTeam ==
    ASSUME TeamInv, Fault, \A t \in Tips : tips'[t].pc = "new" => tips'[t].unit = None
    PROVE  TeamInv'
BY BoundAssumption DEF TeamInv, Fault

LEMMA SameTeam ==
    ASSUME IInv, TeamInv, UNCHANGED <<team, due, rerun, faults>>,
           \A t \in Tips : /\ tips[t].unit \in Units => tips'[t].unit = tips[t].unit
                           /\ tips'[t].runs = tips[t].runs
                           /\ tips'[t].pc = "new" => tips'[t].unit = None,
           \A s \in Slugs : cache'[s] \in {None, cache[s]},
           \A w \in Workers : worker'[w].pc \in {"roles", "add"} => worker'[w] = worker[w]
    PROVE  TeamInv'
<1> SUFFICES ASSUME faults = 0
             PROVE  (rerun = {} /\ CacheTeam /\ WorkerTeam /\ DueTeam)'
  BY DEF TeamInv
<1>1. rerun = {} /\ CacheTeam /\ WorkerTeam /\ DueTeam
  BY DEF TeamInv
<1>2. CacheTeam'
  BY <1>1, TeamKept DEF CacheTeam
<1>3. ASSUME NEW w \in Workers, worker'[w].pc \in {"roles", "add"}
      PROVE  /\ worker'[w] = worker[w]
             /\ UnitOf(w)' = UnitOf(w)
  <2>1. worker'[w] = worker[w]
    BY <1>3
  <2>2. Job(w).tip \in Tips /\ UnitOf(w) \in Units
    BY <1>3, <2>1, HeldTip
  <2> QED
    BY <2>1, <2>2 DEF UnitOf, Job
<1>4. WorkerTeam'
  <2> SUFFICES ASSUME NEW w \in Workers, worker'[w].pc \in {"roles", "add"}
               PROVE  FoundTeam(w)'
    BY DEF WorkerTeam, FoundTeam
  <2>1. worker'[w] = worker[w] /\ UnitOf(w)' = UnitOf(w)
    BY <1>3
  <2>2. Reachable(Listed(LegacyPlaces(UnitOf(w))))' = Reachable(Listed(LegacyPlaces(UnitOf(w))))
    BY <2>1 DEF Reachable, Listed, LegacyPlaces, team
  <2>3. FoundTeam(w)
    BY <1>1 DEF WorkerTeam
  <2>4. CASE worker[w].pc = "roles"
    BY <2>1, <2>2, <2>3, <2>4 DEF FoundTeam
  <2>5. CASE worker[w].pc = "add"
    <3>1. PICK users, s : users = worker[w].contacts /\ s = SlugOf[UnitOf(w)]
      OBVIOUS
    <3>2. TeamOf(users, s)
      BY <2>3, <2>5, <3>1 DEF FoundTeam
    <3>3. TeamOf(users, s)'
      BY <2>1, <3>2, TeamKept
    <3> QED
      BY <2>1, <2>5, <3>1, <3>3 DEF FoundTeam
  <2> QED
    BY <1>3, <2>1, <2>4, <2>5
<1>5. DueTeam'
  <2> SUFFICES ASSUME NEW t \in Tips
               PROVE  ToldTeam(t)'
    BY DEF DueTeam
  <2>1. Told(t)' = Told(t)
    BY DEF Told
  <2>2. tips[t].runs > 0 => tips[t].unit \in Units
    BY DEF IInv, JobsOK
  <2>3. tips[t].runs > 0 => TeamOf(Told(t), SlugOf[tips[t].unit])
    BY <1>1 DEF DueTeam, ToldTeam
  <2>4. tips[t].runs > 0 => TeamOf(Told(t), SlugOf[tips[t].unit])'
    BY <2>1, <2>2, <2>3, TeamKept
  <2> QED
    BY <1>1, <2>1, <2>2, <2>4 DEF DueTeam, ToldTeam
<1> QED
  BY <1>1, <1>2, <1>4, <1>5

\* A step of worker w that looks contacts up.
LEMMA FoundStep ==
    ASSUME IInv, TeamInv, UNCHANGED <<tips, team, cache, due, rerun, faults>>,
           NEW w \in Workers, \A v \in Workers \ {w} : worker'[v] = worker[v],
           faults = 0 => FoundTeam(w)'
    PROVE  TeamInv'
<1> SUFFICES ASSUME faults = 0
             PROVE  (rerun = {} /\ CacheTeam /\ WorkerTeam /\ DueTeam)'
  BY DEF TeamInv
<1>1. rerun = {} /\ CacheTeam /\ WorkerTeam /\ DueTeam
  BY DEF TeamInv
<1>2. CacheTeam'
  BY <1>1, TeamKept DEF CacheTeam
<1>3. ASSUME NEW v \in Workers \ {w}
      PROVE  FoundTeam(v)'
  <2>1. worker'[v] = worker[v] /\ UnitOf(v)' = UnitOf(v) /\ FoundTeam(v)
    BY <1>1 DEF UnitOf, Job, WorkerTeam
  <2>2. Reachable(Listed(LegacyPlaces(UnitOf(v))))' = Reachable(Listed(LegacyPlaces(UnitOf(v))))
    BY <2>1 DEF Reachable, Listed, LegacyPlaces, team
  <2>3. CASE worker[v].pc = "add"
    <3>1. PICK users, s : users = worker[v].contacts /\ s = SlugOf[UnitOf(v)]
      OBVIOUS
    <3>2. TeamOf(users, s)
      BY <2>1, <2>3, <3>1 DEF FoundTeam
    <3>3. TeamOf(users, s)'
      BY <2>1, <3>2, TeamKept
    <3> QED
      BY <2>1, <2>3, <3>1, <3>3 DEF FoundTeam
  <2> QED
    BY <2>1, <2>2, <2>3 DEF FoundTeam
<1>4. WorkerTeam'
  BY <1>3 DEF WorkerTeam
<1>5. ASSUME NEW t \in Tips
      PROVE  ToldTeam(t)'
  <2>1. Told(t)' = Told(t) /\ ToldTeam(t)
    BY <1>1 DEF Told, DueTeam
  <2>2. PICK users, s : users = Told(t) /\ s = SlugOf[tips[t].unit]
    OBVIOUS
  <2>3. TeamOf(users, s) => TeamOf(users, s)'
    BY TeamKept
  <2> QED
    BY <2>1, <2>2, <2>3 DEF ToldTeam
<1> QED
  BY <1>1, <1>2, <1>4, <1>5 DEF DueTeam

LEMMA LookUpTeam ==
    ASSUME IInv, TeamInv, NEW w \in Workers, CacheGet(w) \/ Legacy(w) \/ Roles(w)
    PROVE  TeamInv'
<1>1. /\ UNCHANGED <<tips, team, cache, due, rerun, faults>>
      /\ \A v \in Workers \ {w} : worker'[v] = worker[v]
  BY DEF CacheGet, Legacy, Roles, history, IInv, Types
<1>2. /\ UnitOf(w) \in Units /\ worker[w] \in Worker
      /\ Job(w).tip \in Tips
  BY HeldTip DEF CacheGet, Legacy, Roles, At
<1>3. worker \in [Workers -> Worker]
  BY DEF IInv, Types
<1>4. ASSUME faults = 0
      PROVE  FoundTeam(w)'
  <2>1. CacheTeam /\ FoundTeam(w)
    BY <1>4 DEF TeamInv, WorkerTeam
  <2>2. CASE CacheGet(w)
    <3>0. PICK s, users : s = SlugOf[UnitOf(w)] /\ users = cache[s]
      OBVIOUS
    <3>1. /\ worker'[w].job = worker[w].job
          /\ worker'[w].pc = IF users = None THEN "legacy" ELSE "add"
          /\ worker'[w].contacts = IF users = None THEN {} ELSE users
      BY <1>2, <1>3, <2>2, <3>0 DEF CacheGet, Worker
    <3>2. UnitOf(w)' = UnitOf(w)
      BY <1>1, <3>1 DEF UnitOf, Job
    <3>3. s \in Slugs
      BY <1>2, <3>0, UnitAssumption
    <3>4. CASE users = None
      BY <3>1, <3>4 DEF FoundTeam
    <3>5. CASE users # None
      <4>1. TeamOf(users, s)
        BY <2>1, <3>0, <3>3, <3>5 DEF CacheTeam
      <4>2. TeamOf(users, s)'
        BY <1>1, <4>1, TeamKept
      <4> QED
        BY <1>1, <3>0, <3>1, <3>2, <3>5, <4>2 DEF FoundTeam
    <3> QED
      BY <3>4, <3>5
  <2>3. CASE Legacy(w)
    <3>1. /\ worker'[w].job = worker[w].job /\ worker'[w].pc = "roles"
          /\ worker'[w].contacts = Reachable(Listed(LegacyPlaces(UnitOf(w))))
      BY <1>2, <1>3, <2>3 DEF Legacy, Worker
    <3>2. UnitOf(w)' = UnitOf(w)
      BY <1>1, <3>1 DEF UnitOf, Job
    <3>3. Reachable(Listed(LegacyPlaces(UnitOf(w))))' = Reachable(Listed(LegacyPlaces(UnitOf(w))))
      BY <1>1, <3>2 DEF Reachable, Listed, LegacyPlaces, team
    <3> QED
      BY <3>1, <3>3 DEF FoundTeam
  <2>4. CASE Roles(w)
    <3> DEFINE listed == Listed(RolePlaces(UnitOf(w)))
    <3>0. PICK users, s : /\ users = (worker[w].contacts \ listed) \cup Reachable(listed)
                          /\ s = SlugOf[UnitOf(w)]
      OBVIOUS
    <3>1. /\ worker'[w].job = worker[w].job /\ worker'[w].pc = "add"
          /\ worker'[w].contacts = users /\ worker[w].pc = "roles"
      BY <1>2, <1>3, <2>4, <3>0 DEF Roles, Worker, At
    <3>2. UnitOf(w)' = UnitOf(w)
      BY <1>1, <3>1 DEF UnitOf, Job
    <3>3. worker[w].contacts = Reachable(Listed(LegacyPlaces(UnitOf(w))))
      BY <2>1, <3>1 DEF FoundTeam
    <3>4. users = Contacts(UnitOf(w))
      BY <3>0, <3>3 DEF Contacts, Reachable, Listed
    <3>5. TeamOf(users, s)
      BY <1>2, <3>0, <3>4 DEF TeamOf, UnitOf
    <3>6. TeamOf(users, s)'
      BY <1>1, <3>5, TeamKept
    <3> QED
      BY <1>1, <3>0, <3>1, <3>2, <3>6 DEF FoundTeam
  <2> QED
    BY <2>2, <2>3, <2>4
<1> QED
  BY <1>1, <1>4, FoundStep

\* The messages of one run are addressed to all contacts and to nobody else.
LEMMA EverybodyIsAddressed ==
    ASSUME Types, NEW t \in Tips, NEW contacts \in SUBSET Users,
           contacts \subseteq Phones \cup Mails
    PROVE  LET messages == UNION {MessagesOf(k) : k \in NewJobs(t, contacts)}
           IN  /\ \A m \in messages : m.tip = t
               /\ {m.user : m \in messages} = contacts
<1> DEFINE run == tips[t].runs + 1
           mails == contacts \cap Mails
           sms(x) == [kind |-> "sms", tip |-> t, to |-> {x}, run |-> run]
           email == [kind |-> "email", tip |-> t, to |-> mails, run |-> run]
           messages == UNION {MessagesOf(k) : k \in NewJobs(t, contacts)}
<1>1. \A k \in NewJobs(t, contacts) :
          (\E x \in contacts \cap Phones : k = sms(x)) \/ (k = email /\ mails # {})
  BY DEF NewJobs
<1>2. \A x \in contacts \cap Phones : sms(x) \in NewJobs(t, contacts)
  BY DEF NewJobs
<1>3. mails # {} => email \in NewJobs(t, contacts)
  BY DEF NewJobs
<1>4. \A m \in messages : m.tip = t /\ m.user \in contacts
  BY <1>1 DEF MessagesOf
<1>5. ASSUME NEW x \in contacts
      PROVE  \E m \in messages : m.user = x
  <2>1. CASE x \in Phones
    <3>1. [kind |-> "sms", tip |-> t, user |-> x] \in MessagesOf(sms(x))
      BY DEF MessagesOf, Messages
    <3> QED
      BY <1>2, <2>1, <3>1
  <2>2. CASE x \in Mails
    <3>1. [kind |-> "email", tip |-> t, user |-> x] \in MessagesOf(email)
      BY <2>2 DEF MessagesOf, Messages
    <3> QED
      BY <1>3, <2>2, <3>1
  <2> QED
    BY <2>1, <2>2
<1> QED
  BY <1>4, <1>5

LEMMA AddTeam ==
    ASSUME IInv, TeamInv, NEW w \in Workers, Add(w)
    PROVE  TeamInv'
<1>1. /\ UnitOf(w) \in Units /\ worker[w] \in Worker
      /\ Job(w).tip \in Tips /\ worker[w].pc = "add"
      /\ Job(w) = TipJob(Job(w).tip)
      /\ tips[Job(w).tip].pc \in {"submitted", "removed"}
  BY HeldTip DEF Add, At
<1>t. PICK t \in Tips : t = Job(w).tip
  BY <1>1
<1>0. PICK users, s, new :
        /\ t = Job(w).tip /\ users = worker[w].contacts
        /\ s = SlugOf[UnitOf(w)] /\ new = NewJobs(t, users)
  BY <1>t
<1>2. /\ tips' = [tips EXCEPT ![t].runs = @ + 1]
      /\ due' = due \cup UNION {MessagesOf(k) : k \in new}
      /\ worker' = [worker EXCEPT ![w].pc = "complete"]
      /\ UNCHANGED <<team, rerun>>
  BY <1>0 DEF Add, Goes
<1>3. /\ tips \in [Tips -> Tip] /\ tips[t].runs \in Nat
      /\ worker \in [Workers -> Worker]
  BY <1>0 DEF IInv, Types, Tip
<1>4. /\ \A r \in Tips : tips'[r].unit = tips[r].unit /\ tips'[r].pc = tips[r].pc
      /\ \A r \in Tips \ {t} : tips'[r] = tips[r]
      /\ tips'[t].runs = tips[t].runs + 1
  BY <1>1, <1>2, <1>3 DEF Tip
<1>5. CASE worker[w].fresh /\ Fault
  BY <1>4, <1>5, BrokenTeam DEF TeamInv
<1>6. CASE /\ UNCHANGED faults
           /\ cache' = cache \/ cache' = [cache EXCEPT ![s] = users]
  <2> SUFFICES ASSUME faults = 0
               PROVE  (rerun = {} /\ CacheTeam /\ WorkerTeam /\ DueTeam)'
    BY <1>4, <1>6 DEF TeamInv
  <2>1. rerun = {} /\ CacheTeam /\ WorkerTeam /\ DueTeam
    BY DEF TeamInv
  <2>2. TeamOf(users, s) /\ TeamOf(users, s)'
    <3>1. TeamOf(users, s)
      BY <1>0, <1>1, <2>1 DEF WorkerTeam, FoundTeam
    <3> QED
      BY <1>2, <1>4, <3>1, TeamKept
  <2>3. CacheTeam'
    <3> SUFFICES ASSUME NEW c \in Slugs, cache'[c] # None
                 PROVE  TeamOf(cache[c], c)'
      BY DEF CacheTeam
    <3>1. CASE cache'[c] = cache[c]
      <4>1. PICK there : there = cache[c]
        OBVIOUS
      <4>2. TeamOf(there, c)
        BY <2>1, <3>1, <4>1 DEF CacheTeam
      <4>3. TeamOf(there, c)'
        BY <1>2, <1>4, <4>2, TeamKept
      <4> QED
        BY <3>1, <4>1, <4>3
    <3>2. CASE cache'[c] # cache[c]
      <4>1. c = s /\ cache'[c] = users
        BY <1>6, <3>2 DEF IInv, Types
      <4> QED
        BY <2>2, <4>1
    <3> QED
      BY <3>1, <3>2
  <2>4. WorkerTeam'
    <3> SUFFICES ASSUME NEW v \in Workers, v # w
                 PROVE  FoundTeam(v)'
      BY <1>2, <1>3 DEF WorkerTeam, FoundTeam
    <3>1. worker'[v] = worker[v] /\ FoundTeam(v)
      BY <1>2, <1>3, <2>1 DEF WorkerTeam
    <3>2. worker[v].pc \in {"roles", "add"} => UnitOf(v)' = UnitOf(v)
      BY <1>4, <3>1, HeldTip DEF UnitOf, Job
    <3>3. CASE worker[v].pc = "roles"
      <4>1. Reachable(Listed(LegacyPlaces(UnitOf(v))))' = Reachable(Listed(LegacyPlaces(UnitOf(v))))
        BY <1>2, <3>2, <3>3 DEF Reachable, Listed, LegacyPlaces, team
      <4> QED
        BY <3>1, <3>3, <4>1 DEF FoundTeam
    <3>4. CASE worker[v].pc = "add"
      <4>1. PICK found, c : found = worker[v].contacts /\ c = SlugOf[UnitOf(v)]
        OBVIOUS
      <4>2. TeamOf(found, c)
        BY <3>1, <3>4, <4>1 DEF FoundTeam
      <4>3. TeamOf(found, c)'
        BY <1>2, <1>4, <4>2, TeamKept
      <4> QED
        BY <3>1, <3>2, <3>4, <4>1, <4>3 DEF FoundTeam
    <3> QED
      BY <3>1, <3>3, <3>4 DEF FoundTeam
  <2>5. tips[t].runs = 0 /\ Told(t) = {}
    <3>1. ~AllButDone(Job(w)) /\ Job(w) \in Known /\ Job(w) = TipJob(t)
      BY <1>0, <1>1, HeldIsNotDone DEF IInv, WorkersOK, Known
    <3>2. t \in Tips \ rerun
      BY <2>1
    <3>3. tips[t].runs = 0
      BY <3>1, <3>2 DEF IInv, RunsOnce
    <3> QED
      BY <2>1, <3>3 DEF DueTeam, ToldTeam
  <2>6. /\ \A m \in UNION {MessagesOf(k) : k \in new} : m.tip = t
        /\ {m.user : m \in UNION {MessagesOf(k) : k \in new}} = users
    <3>1. users \subseteq Phones \cup Mails
      BY <2>2 DEF TeamOf, Contacts, Reachable
    <3>2. users \in SUBSET Users /\ t \in Tips
      BY <1>0, <1>1 DEF Worker
    <3> QED
      BY <1>0, <3>1, <3>2, EverybodyIsAddressed DEF IInv
  <2>7. Told(t)' = users
    BY <1>1, <1>2, <2>5, <2>6 DEF Told
  <2>8. ASSUME NEW r \in Tips
        PROVE  ToldTeam(r)'
    <3>1. CASE r = t
      <4>1. tips'[r].runs > 0
        BY <1>3, <1>4, <2>5, <3>1
      <4>2. SlugOf[tips'[r].unit] = s
        BY <1>0, <1>4, <3>1 DEF UnitOf
      <4> QED
        BY <2>2, <2>7, <3>1, <4>1, <4>2 DEF ToldTeam
    <3>2. CASE r # t
      <4>0. PICK told, c : told = Told(r) /\ c = SlugOf[tips[r].unit]
        OBVIOUS
      <4>1. Told(r)' = told
        BY <1>2, <2>6, <3>2, <4>0 DEF Told
      <4>2. tips'[r] = tips[r]
        BY <1>4, <3>2
      <4>3. ToldTeam(r)
        BY <2>1 DEF DueTeam
      <4>4. TeamOf(told, c) => TeamOf(told, c)'
        BY <1>2, <1>4, TeamKept
      <4> QED
        BY <4>0, <4>1, <4>2, <4>3, <4>4 DEF ToldTeam
    <3> QED
      BY <3>1, <3>2
  <2> QED
    BY <1>2, <2>1, <2>3, <2>4, <2>8 DEF DueTeam
<1> QED
  BY <1>0, <1>5, <1>6 DEF Add

LEMMA TeamInitially == Init => TeamInv
<1> SUFFICES ASSUME Init PROVE TeamInv
  OBVIOUS
<1>1. CacheTeam /\ WorkerTeam
  BY IdleType DEF Init, CacheTeam, WorkerTeam, FoundTeam
<1>2. ASSUME NEW t \in Tips
      PROVE  ToldTeam(t)
  <2>1. tips[t].runs = 0 /\ due = {}
    BY DEF Init
  <2>2. Told(t) = {}
    BY <2>1 DEF Told
  <2> QED
    BY <2>1, <2>2 DEF ToldTeam
<1> QED
  BY <1>1, <1>2, BoundAssumption DEF Init, TeamInv, DueTeam

LEMMA TeamInductive == IInv /\ TeamInv /\ [Next]_vars => TeamInv'
<1> SUFFICES ASSUME IInv, TeamInv, [Next]_vars PROVE TeamInv'
  OBVIOUS
<1>1. /\ tips \in [Tips -> Tip] /\ worker \in [Workers -> Worker]
      /\ cache \in [Slugs -> (SUBSET Users) \cup {None}]
  BY DEF IInv, Types
<1>2. \A t \in Tips : tips[t].pc = "new" => tips[t].unit = None
  BY DEF TeamInv
<1>3. ASSUME NEW t \in Tips, NEW u \in Units, SaveTip(t, u)
      PROVE  TeamInv'
  <2>1. \A r \in Tips : /\ tips[r].unit \in Units => tips'[r].unit = tips[r].unit
                        /\ tips'[r].runs = tips[r].runs
                        /\ tips'[r].pc = "new" => tips'[r].unit = None
    BY <1>1, <1>2, <1>3, SentinelAssumption DEF SaveTip, Tip
  <2> QED
    BY <1>3, <2>1, SameTeam DEF SaveTip, history
<1>4. ASSUME NEW t \in Tips, Emit(t)
      PROVE  TeamInv'
  <2>1. \A r \in Tips : /\ tips'[r].unit = tips[r].unit
                        /\ tips'[r].runs = tips[r].runs
                        /\ tips'[r].pc = "new" => tips'[r].unit = None
    BY <1>1, <1>2, <1>4 DEF Emit, Tip
  <2> QED
    BY <1>4, <2>1, SameTeam DEF Emit, history
<1>5. CASE Delivers
  <2>1. UNCHANGED <<tips, team, cache, worker, due, rerun, faults>>
    BY <1>5 DEF Delivers, Land, Stall, history
  <2> QED
    BY <1>2, <2>1, SameTeam
<1>6. ASSUME NEW w \in Workers, Works(w)
      PROVE  TeamInv'
  <2>1. CASE \/ \E k \in DOMAIN status : Take(w, k)
             \/ Load(w) \/ Send(w) \/ Complete(w)
    <3>1. UNCHANGED <<tips, team, cache, due, rerun, faults>>
      BY <2>1 DEF Take, Load, Send, Complete, history
    <3>2. /\ \A v \in Workers \ {w} : worker'[v] = worker[v]
          /\ worker'[w].pc \notin {"roles", "add"}
      <4>1. CASE \E k \in DOMAIN status : Take(w, k)
        BY <1>1, <4>1 DEF Take, Idle, At
      <4>2. CASE Load(w) \/ Send(w)
        <5>1. worker' = [worker EXCEPT ![w] = Idle] \/ Goes(w, "cache") \/ Goes(w, "complete")
          BY <4>2 DEF Load, Send, Throws
        <5> QED
          BY <1>1, <5>1, IdleType DEF Goes, Worker
      <4>3. CASE Complete(w)
        BY <1>1, <4>3, IdleType DEF Complete
      <4> QED
        BY <2>1, <4>1, <4>2, <4>3
    <3> QED
      BY <1>2, <3>1, <3>2, SameTeam
  <2>2. CASE CacheGet(w) \/ Legacy(w) \/ Roles(w)
    BY <2>2, LookUpTeam
  <2>3. CASE Add(w)
    BY <2>3, AddTeam
  <2> QED
    BY <1>6, <2>1, <2>2, <2>3 DEF Works
<1>7. CASE Breaks \/ \E x \in Users : Toggle(x) \/ \E p \in Places \cup {None} : Move(x, p)
  <2>1. Fault
    BY <1>7 DEF Breaks, EmitFails, RemoveTip, Lose, Retry, RemoveJob, CallFails, AnswerLost,
                Crash, Toggle, Move
  <2>2. \A t \in Tips : tips'[t].pc = "new" => tips'[t].unit = None
    <3>1. ASSUME NEW t \in Tips, EmitFails(t) \/ RemoveTip(t)
          PROVE  \A r \in Tips : tips'[r].pc = "new" => tips'[r].unit = None
      BY <1>1, <1>2, <3>1 DEF EmitFails, RemoveTip, Tip
    <3>2. CASE UNCHANGED tips
      BY <1>2, <3>2
    <3> QED
      BY <1>7, <3>1, <3>2 DEF Breaks, Lose, Retry, RemoveJob, CallFails, AnswerLost, Crash,
                              Toggle, Move
  <2> QED
    BY <2>1, <2>2, BrokenTeam
<1>8. ASSUME NEW s \in Slugs, Expire(s)
      PROVE  TeamInv'
  <2>1. \A c \in Slugs : cache'[c] \in {None, cache[c]}
    BY <1>1, <1>8 DEF Expire
  <2> QED
    BY <1>2, <1>8, <2>1, SameTeam DEF Expire, history
<1>9. CASE UNCHANGED vars
  <2>1. UNCHANGED <<tips, team, cache, worker, due, rerun, faults>>
    BY <1>9 DEF vars, history
  <2> QED
    BY <1>2, <2>1, SameTeam
<1> QED
  BY <1>3, <1>4, <1>5, <1>6, <1>7, <1>8, <1>9 DEF Next

LEMMA ContactsAreTheTeam ==
    ASSUME NEW v \in Units, NEW x \in Contacts(v)
    PROVE  x \in Team(v) \/ \E n \in Namesakes(v) : place[x] = <<"role", n>>
BY DEF Contacts, Team, Reachable, Listed, LegacyPlaces, RolePlaces

LEMMA TheTeamIsFound ==
    ASSUME NEW u \in Units, NEW x \in Team(u)
    PROVE  \/ x \in Contacts(u)
           \/ u \notin Linked /\ place[x] \in {"group"} \X {u, OrgOf[u]}
<1>1. /\ x \in Users \cap enabled \cap (Phones \cup Mails)
      /\ place[x] \in {"group", "role"} \X {u, OrgOf[u]}
  BY DEF Team, Reachable, Listed
<1>2. CASE place[x] \in {"role"} \X {u, OrgOf[u]}
  BY <1>1, <1>2 DEF Contacts, Reachable, Listed, RolePlaces, Namesakes
<1>3. CASE place[x] \in {"group"} \X {u, OrgOf[u]}
  BY <1>1, <1>3 DEF Contacts, Reachable, Listed, LegacyPlaces
<1> QED
  BY <1>1, <1>2, <1>3

(* While nothing broke, who hears of a tip is who should: the team of the   *)
(* unit and its organization, but for legacy groups where the unit has none *)
(* and for the two ways in which units of one slug are taken for each other *)
(* (sendNewTipNotifications looks unit members up, and caches, by slug).    *)
THEOREM TheTeamIsTold == Spec => []TatIsTold
<1>1. IInv /\ TeamInv => TatIsTold
  <2> SUFFICES ASSUME IInv, TeamInv, NEW t \in Tips, NEW x \in Users,
                      faults = 0, tips[t].runs > 0,
                      NEW u, u = tips[t].unit
               PROVE  /\ x \in Team(u)
                         => \/ x \in Told(t)
                            \/ u \notin Linked /\ place[x] \in {"group"} \X {u, OrgOf[u]}
                            \/ Cached(u) # {} /\ place[x] # <<"role", u>>
                      /\ x \in Told(t)
                         => \/ x \in Team(u)
                            \/ \E n \in Namesakes(u) : place[x] = <<"role", n>>
                            \/ \E n \in Cached(u) : x \in Team(n)
    BY DEF TatIsTold
  <2>1. TeamOf(Told(t), SlugOf[u])
    BY DEF TeamInv, DueTeam, ToldTeam
  <2>2. PICK r \in Tips : /\ tips[r].unit \in Units /\ SlugOf[tips[r].unit] = SlugOf[u]
                          /\ Told(t) = Contacts(tips[r].unit)
    BY <2>1 DEF TeamOf
  <2>3. PICK v \in Units : v = tips[r].unit
    BY <2>2
  <2>4. u \in Units
    <3>1. tips[t].pc # "new"
      <4>1. tips[t].pc = "new" => tips[t].runs = 0
        BY DEF IInv, JobsOK
      <4> QED
        BY <4>1
    <3> QED
      BY <3>1 DEF IInv, JobsOK
  <2>5. /\ Namesakes(v) = Namesakes(u)
        /\ u \in Namesakes(u) /\ v \in Namesakes(u)
    BY <2>2, <2>3, <2>4 DEF Namesakes
  <2>6. v = u \/ v \in Cached(u)
    BY <2>3, <2>5 DEF Cached
  <2>7. ASSUME x \in Team(u), v # u, place[x] = <<"role", u>>
        PROVE  x \in Told(t)
    <3>1. x \in Users \cap enabled \cap (Phones \cup Mails)
      BY <2>7 DEF Team, Reachable
    <3>2. x \in Contacts(v)
      BY <2>5, <2>7, <3>1 DEF Contacts, Reachable, Listed, RolePlaces
    <3> QED
      BY <2>2, <2>3, <3>2
  <2>8. ASSUME x \in Team(u)
        PROVE  \/ x \in Told(t)
               \/ u \notin Linked /\ place[x] \in {"group"} \X {u, OrgOf[u]}
               \/ Cached(u) # {} /\ place[x] # <<"role", u>>
    BY <2>2, <2>3, <2>4, <2>6, <2>7, <2>8, TheTeamIsFound
  <2>9. ASSUME x \in Told(t)
        PROVE  \/ x \in Team(u)
               \/ \E n \in Namesakes(u) : place[x] = <<"role", n>>
               \/ \E n \in Cached(u) : x \in Team(n)
    BY <2>2, <2>3, <2>5, <2>6, <2>9, ContactsAreTheTeam
  <2> QED
    BY <2>8, <2>9
<1>2. IInv /\ TeamInv /\ [Next]_vars => (IInv /\ TeamInv)'
  BY Inductive, TeamInductive
<1>3. Init => IInv /\ TeamInv
  BY Initially, TeamInitially
<1> QED
  BY <1>1, <1>2, <1>3, PTL DEF Spec
=============================================================================
