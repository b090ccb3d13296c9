--------------------------- MODULE RequestsProofs ---------------------------
(***************************************************************************)
(* Proofs about Requests: whose organization a query runs on, where a note *)
(* is, who gets past the guards to what, and that the queries of           *)
(* enrollments agree, for every number of clients, organizations, notes,   *)
(* enrollments and asks.                                                   *)
(***************************************************************************)
EXTENDS Requests, FiniteSetTheorems, TLAPS

-----------------------------------------------------------------------------
(* The inductive invariant.  A request under way was asked for in some      *)
(* session; the tables have their types; an entry of the cache names an     *)
(* organization with the slug of its key, or the slug changed hands.        *)

RequestsOK ==
    /\ session \in DOMAIN Sessions
    /\ request = [c \in Clients |-> request[c]]
    /\ \A c \in Clients : request[c].pc # "idle" => request[c].ask \in Asks

CacheOK ==
    /\ slugOf \in [Orgs -> Slugs]
    /\ idBySlug \in [Slugs -> Orgs \cup {NoOrg}]
    /\ \A s \in Slugs : idBySlug[s] # NoOrg => slugOf[idBySlug[s]] = s \/ s \in renamed

\* Between the look-up and the query: the organization that has the slug of the token.
Holds(c) ==
    /\ User(c).organization \in Slugs
    /\ request[c].org \in Orgs
    /\ slugOf[request[c].org] = User(c).organization \/ User(c).organization \in renamed

LookedUp(c) ==
    /\ request[c].pc = "select" => User(c).organization \in Slugs
    /\ request[c].pc = "fill" => Holds(c)
    /\ request[c].pc = "query" => E!AsksForAny(User(c)) \/ Holds(c)

LookUpsOK == \A c \in Clients : LookedUp(c)

Authors == {Caller(ask.bearer, ask.claims).sub : ask \in Asks}

Written == [author : Authors, on : SUBSET Submissions, origin : Submissions]

NotesOK ==
    /\ notes \in [NoteIds -> Written \cup {NoNote}]
    /\ submitted \subseteq Submissions

IInv == RequestsOK /\ CacheOK /\ LookUpsOK /\ NotesOK /\ NotesStay

-----------------------------------------------------------------------------
(* Facts about callers and requests. *)

\* The organization of a caller is the one of the token, or none.
LEMMA CallerType ==
    ASSUME NEW ask \in Asks
    PROVE  LET user == Caller(ask.bearer, ask.claims)
           IN  user.organization \in Slugs \cup {None} /\ user.sub \in Authors
<1>1. ask.claims \in [sub : STRING, permissions : SUBSET STRING,
                      organization : Slugs \cup {None}, unit : STRING,
                      path : STRING, peers : SUBSET STRING]
  BY AsksAssumption
<1>2. FromJwtPayload(ask.claims).organization = ask.claims.organization
  BY <1>1 DEF FromJwtPayload
<1>3. Caller(ask.bearer, ask.claims).organization \in Slugs \cup {None}
  BY <1>1, <1>2 DEF Caller, NoUser
<1> QED
  BY <1>3 DEF Authors

\* An answered request.
LEMMA AnswerOK ==
    ASSUME IInv, NEW c \in Clients, Answer(c), session' = session
    PROVE  RequestsOK' /\ request'[c].pc = "idle"
           /\ \A d \in Clients \ {c} : request'[d] = request[d]
BY DEF IInv, RequestsOK, Answer, Idle

\* A request that goes on.
LEMMA GoOK ==
    ASSUME IInv, NEW c \in Clients, NEW pc, NEW org, Go(c, pc, org),
           request[c].pc # "idle", session' = session
    PROVE  /\ RequestsOK'
           /\ request'[c] = Served(pc, request[c].ask, org)
           /\ \A d \in Clients \ {c} : request'[d] = request[d]
BY DEF IInv, RequestsOK, Go, Served

\* Nothing that a request has looked up changes while slugs, cache and history stay.
LEMMA LookedUpStays ==
    ASSUME NEW d \in Clients, LookedUp(d), request'[d] = request[d],
           UNCHANGED <<slugOf, renamed>>
    PROVE  LookedUp(d)'
BY DEF LookedUp, Holds, User

LEMMA CacheStays ==
    ASSUME CacheOK, UNCHANGED <<slugOf, idBySlug, renamed>>
    PROVE  CacheOK'
BY DEF CacheOK

\* A request that waits for nothing has looked up nothing.
LEMMA NothingLookedUp ==
    ASSUME NEW c \in Clients, request[c].pc \in {"idle", "handler", "statement"}
    PROVE  LookedUp(c)
BY DEF LookedUp

LEMMA NotesStand ==
    ASSUME NotesOK, NotesStay, UNCHANGED notesVars
    PROVE  NotesOK' /\ NotesStay'
BY DEF NotesOK, NotesStay, notesVars, N!NotesStay, N!Misaddressed

-----------------------------------------------------------------------------
(* The statements of the notes. *)

LEMMA AddNoteOK ==
    ASSUME NotesOK, NotesStay, NEW user, user.sub \in Authors, NEW s, N!AddNote(user, s)
    PROVE  NotesOK' /\ NotesStay'
<1>1. CASE UNCHANGED notes
  BY <1>1, NotesStand DEF N!AddNote, notesVars
<1>2. CASE ~UNCHANGED notes
  <2>1. PICK n \in NoteIds :
            /\ notes[n] = NoNote /\ s \in submitted
            /\ notes' = [notes EXCEPT ![n] = [author |-> user.sub, on |-> {s}, origin |-> s]]
            /\ UNCHANGED <<submitted, strayed, stayed>>
    BY <1>2 DEF N!AddNote
  <2>2. [author |-> user.sub, on |-> {s}, origin |-> s] \in Written
    BY <2>1 DEF NotesOK, Written
  <2>3. NotesOK'
    BY <2>1, <2>2 DEF NotesOK
  <2>4. NotesStay'
    BY <2>1 DEF NotesOK, NotesStay, N!NotesStay, N!Misaddressed
  <2> QED
    BY <2>3, <2>4
<1> QED
  BY <1>1, <1>2

LEMMA EditNoteOK ==
    ASSUME NotesOK, NotesStay, NEW user, NEW s, NEW n \in NoteIds, N!EditNote(user, s, n)
    PROVE  NotesOK' /\ NotesStay'
<1>1. CASE UNCHANGED <<notes, strayed>>
  BY <1>1, NotesStand DEF N!EditNote, notesVars
<1>2. CASE ~UNCHANGED <<notes, strayed>>
  <2>1. /\ notes[n] # NoNote /\ s \in submitted
        /\ notes' = [notes EXCEPT ![n].on = N!Put(@, s)]
        /\ strayed' = IF notes[n].on # {s} THEN strayed \cup {n} ELSE strayed
        /\ UNCHANGED <<submitted, stayed>>
    BY <1>2 DEF N!EditNote, N!Stray, N!Owned
  <2>2. notes[n] \in Written
    BY <2>1 DEF NotesOK
  <2>3. /\ s \in N!Put(notes[n].on, s)
        /\ N!Put(notes[n].on, s) \subseteq notes[n].on \cup {s}
        /\ notes[n].on = {s} => N!Put(notes[n].on, s) = {s}
    BY DEF N!Put
  <2>4. notes' = [notes EXCEPT ![n] = [notes[n] EXCEPT !.on = N!Put(notes[n].on, s)]]
    BY <2>1 DEF NotesOK
  <2>5. [notes[n] EXCEPT !.on = N!Put(notes[n].on, s)] \in Written
    BY <2>1, <2>2, <2>3 DEF NotesOK, Written
  <2>6. NotesOK'
    BY <2>1, <2>4, <2>5 DEF NotesOK
  <2>7. /\ notes'[n].on = N!Put(notes[n].on, s)
        /\ notes'[n].origin = notes[n].origin
        /\ \A m \in NoteIds \ {n} : notes'[m] = notes[m]
    BY <2>2, <2>4 DEF NotesOK, Written
  <2>8. ASSUME NEW m \in NoteIds, notes'[m] # NoNote
        PROVE  /\ m \in strayed' \/ notes'[m].on = {notes'[m].origin}
               /\ notes'[m].on # {} /\ notes'[m].on \subseteq submitted'
    <3>1. CASE m = n
      BY <3>1, <2>1, <2>3, <2>7 DEF NotesStay, N!NotesStay
    <3>2. CASE m # n
      BY <3>2, <2>1, <2>7, <2>8 DEF NotesStay, N!NotesStay
    <3> QED
      BY <3>1, <3>2
  <2>9. NotesStay'
    BY <2>1, <2>8 DEF NotesStay, N!NotesStay, N!Misaddressed
  <2> QED
    BY <2>6, <2>9
<1> QED
  BY <1>1, <1>2

LEMMA RemoveNoteOK ==
    ASSUME NotesOK, NotesStay, NEW user, NEW s, NEW n \in NoteIds, N!RemoveNote(user, s, n)
    PROVE  NotesOK' /\ NotesStay'
<1>1. /\ \A m \in NoteIds : notes'[m] \in {notes[m], NoNote}
      /\ \A m \in NoteIds \ {n} : notes'[m] = notes[m]
      /\ NotesOK'
  BY DEF N!RemoveNote, NotesOK
<1>2. /\ notes'[n] # NoNote => strayed' = strayed
      /\ strayed \ {n} \subseteq strayed'
      /\ stayed' \subseteq stayed /\ submitted' = submitted
  BY DEF N!RemoveNote
<1>3. \A m \in NoteIds : notes'[m] # NoNote =>
        /\ notes'[m] = notes[m]
        /\ m \in strayed => m \in strayed'
  BY <1>1, <1>2
<1>4. NotesStay'
  BY <1>2, <1>3 DEF NotesStay, N!NotesStay, N!Misaddressed
<1> QED
  BY <1>1, <1>4

\* A removal that is answered without a statement although the note can be seen.
LEMMA RemoveNothingOK ==
    ASSUME NotesOK, NotesStay, NEW user, NEW s, NEW n,
           ~N!Found("removeNote", user, s), N!RemoveNothing(user, s, n)
    PROVE  NotesOK' /\ NotesStay'
<1>1. UNCHANGED <<notes, submitted, strayed>>
  BY DEF N!RemoveNothing
<1>2. \A p \in stayed' : p \in stayed \/ (p = <<n, s>> /\ N!Misaddressed(s))
  BY DEF N!RemoveNothing, N!Found
<1> QED
  BY <1>1, <1>2 DEF NotesOK, NotesStay, N!NotesStay, N!Misaddressed

LEMMA RemoveSubmissionOK ==
    ASSUME NotesOK, NotesStay, NEW s, N!RemoveSubmission(s)
    PROVE  NotesOK' /\ NotesStay'
<1>1. submitted' \subseteq submitted /\ UNCHANGED <<notes, strayed, stayed>>
  BY DEF N!RemoveSubmission
<1>2. ASSUME NEW n \in NoteIds, notes[n] # NoNote
      PROVE  notes[n].on \subseteq submitted'
  BY <1>2 DEF N!RemoveSubmission, NotesStay, N!NotesStay
<1> QED
  BY <1>1, <1>2 DEF NotesOK, NotesStay, N!NotesStay, N!Misaddressed

-----------------------------------------------------------------------------
(* The steps. *)

\* The callers of requests under way.
LEMMA UserType ==
    ASSUME IInv, NEW c \in Clients, request[c].pc # "idle"
    PROVE  User(c).organization \in Slugs \cup {None} /\ User(c).sub \in Authors
BY CallerType DEF IInv, RequestsOK, User

\* A note that a request under way is about.
LEMMA NoteAsked ==
    ASSUME IInv, NEW c \in Clients, request[c].pc # "idle", AboutNotes(c)
    PROVE  Second(c) \in NoteIds
BY AsksAssumption DEF IInv, RequestsOK, AboutNotes, Handler, Second

\* What is left when the tables of enrollments do not change.
LEMMA EnrollmentsStand ==
    ASSUME IInv, NEW c \in Clients, UNCHANGED <<slugOf, idBySlug, renamed>>,
           \A d \in Clients \ {c} : request'[d] = request[d],
           LookedUp(c)'
    PROVE  CacheOK' /\ LookUpsOK'
<1>1. \A d \in Clients \ {c} : LookedUp(d)'
  BY LookedUpStays DEF IInv, LookUpsOK
<1> QED
  BY <1>1, CacheStays DEF IInv, LookUpsOK

LEMMA AnswerStep ==
    ASSUME IInv, NEW c \in Clients, Answer(c),
           UNCHANGED <<session, slugOf, idBySlug, renamed>>, NotesOK', NotesStay'
    PROVE  IInv'
<1>1. RequestsOK' /\ request'[c].pc = "idle" /\ \A d \in Clients \ {c} : request'[d] = request[d]
  BY AnswerOK
<1>2. LookedUp(c)'
  BY <1>1 DEF LookedUp
<1> QED
  BY <1>1, <1>2, EnrollmentsStand DEF IInv

LEMMA GoStep ==
    ASSUME IInv, NEW c \in Clients, NEW pc, NEW org, Go(c, pc, org),
           request[c].pc # "idle",
           UNCHANGED <<session, slugOf, idBySlug, renamed>>, NotesOK', NotesStay',
           pc = "select" => User(c).organization \in Slugs,
           pc \in {"fill", "query"} =>
                \/ pc = "query" /\ E!AsksForAny(User(c))
                \/ /\ User(c).organization \in Slugs
                   /\ org \in Orgs
                   /\ slugOf[org] = User(c).organization \/ User(c).organization \in renamed
    PROVE  IInv'
<1>1. /\ RequestsOK'
      /\ request'[c] = Served(pc, request[c].ask, org)
      /\ \A d \in Clients \ {c} : request'[d] = request[d]
  BY GoOK
<1>2. request'[c].pc = pc /\ request'[c].org = org /\ User(c)' = User(c)
  BY <1>1 DEF Served, User
<1>3. LookedUp(c)'
  BY <1>2 DEF LookedUp, Holds
<1> QED
  BY <1>1, <1>3, EnrollmentsStand DEF IInv

\* The organization that a query by slug finds.
LEMMA LookUpFinds ==
    ASSUME NEW slug
    PROVE  E!LookUp(slug) = NoOrg \/ (E!LookUp(slug) \in Orgs /\ slugOf[E!LookUp(slug)] = slug)
<1> DEFINE named == {o \in Orgs : slugOf[o] = slug}
<1>1. CASE named = {}
  BY <1>1 DEF E!LookUp
<1>2. CASE named # {}
  <2>1. (CHOOSE o \in named : TRUE) \in named
    BY <1>2
  <2> QED
    BY <1>2, <2>1 DEF E!LookUp
<1> QED
  BY <1>1, <1>2

LEMMA AskStep ==
    ASSUME IInv, NEW c \in Clients, NEW ask \in Passing[session], Ask(c, ask)
    PROVE  IInv'
<1>1. ask \in Asks
  BY DEF IInv, RequestsOK, Passing, Asks
<1>2. /\ request' = [request EXCEPT ![c] = Served("handler", ask, NoOrg)]
      /\ UNCHANGED <<session, notesVars, enrollmentsVars>>
  BY DEF Ask
<1>3. /\ request'[c].pc = "handler" /\ request'[c].ask = ask
      /\ \A d \in Clients \ {c} : request'[d] = request[d]
  BY <1>2 DEF IInv, RequestsOK, Served
<1>4. RequestsOK'
  BY <1>1, <1>2, <1>3 DEF IInv, RequestsOK
<1>5. LookedUp(c)'
  BY <1>3 DEF LookedUp
<1>6. CacheOK' /\ LookUpsOK'
  BY <1>2, <1>3, <1>5, EnrollmentsStand DEF enrollmentsVars
<1>7. NotesOK' /\ NotesStay'
  BY <1>2, NotesStand DEF IInv
<1> QED
  BY <1>4, <1>6, <1>7 DEF IInv

LEMMA LookForSubmissionStep ==
    ASSUME IInv, NEW c \in Clients, LookForSubmission(c)
    PROVE  IInv'
<1>1. request[c].pc = "handler" /\ UNCHANGED <<session, slugOf, idBySlug, renamed>>
  BY DEF LookForSubmission, At, enrollmentsVars
<1>2. CASE N!Found(Handler(c), User(c), First(c))
  <2>1. Go(c, "statement", NoOrg) /\ UNCHANGED notesVars
    BY <1>2 DEF LookForSubmission
  <2>2. NotesOK' /\ NotesStay'
    BY <2>1, NotesStand DEF IInv
  <2> QED
    BY <1>1, <2>1, <2>2, GoStep
<1>3. CASE ~N!Found(Handler(c), User(c), First(c))
  <2>1. Answer(c)
    BY <1>3 DEF LookForSubmission
  <2>2. CASE Handler(c) = "removeNote"
    <3>1. N!RemoveNothing(User(c), First(c), Second(c))
      BY <1>3, <2>2 DEF LookForSubmission
    <3>2. NotesOK' /\ NotesStay'
      BY <1>3, <2>2, <3>1, RemoveNothingOK DEF IInv
    <3> QED
      BY <1>1, <2>1, <3>2, AnswerStep
  <2>3. CASE Handler(c) # "removeNote"
    <3>1. UNCHANGED notesVars
      BY <1>3, <2>3 DEF LookForSubmission
    <3>2. NotesOK' /\ NotesStay'
      BY <3>1, NotesStand DEF IInv
    <3> QED
      BY <1>1, <2>1, <3>2, AnswerStep
  <2> QED
    BY <2>2, <2>3
<1> QED
  BY <1>2, <1>3

LEMMA StateNoteStep ==
    ASSUME IInv, NEW c \in Clients, StateNote(c)
    PROVE  IInv'
<1>1. request[c].pc = "statement" /\ Answer(c) /\ UNCHANGED <<session, slugOf, idBySlug, renamed>>
  BY DEF StateNote, At, enrollmentsVars
<1>2. NotesOK' /\ NotesStay'
  <2>1. CASE Handler(c) = "addNote" /\ N!AddNote(User(c), First(c))
    BY <1>1, <2>1, UserType, AddNoteOK DEF IInv
  <2>2. CASE Handler(c) = "editNote" /\ N!EditNote(User(c), First(c), Second(c))
    <3>1. Second(c) \in NoteIds
      BY <1>1, <2>2, NoteAsked DEF AboutNotes
    <3> QED
      BY <2>2, <3>1, EditNoteOK DEF IInv
  <2>3. CASE Handler(c) = "removeNote" /\ N!RemoveNote(User(c), First(c), Second(c))
    <3>1. Second(c) \in NoteIds
      BY <1>1, <2>3, NoteAsked DEF AboutNotes
    <3> QED
      BY <2>3, <3>1, RemoveNoteOK DEF IInv
  <2> QED
    BY <2>1, <2>2, <2>3 DEF StateNote
<1> QED
  BY <1>1, <1>2, AnswerStep

LEMMA ValidateStep ==
    ASSUME IInv, NEW c \in Clients, ValidateOrganizationId(c)
    PROVE  IInv'
<1>1. /\ request[c].pc = "handler"
      /\ UNCHANGED <<session, slugOf, idBySlug, renamed>> /\ UNCHANGED notesVars
  BY DEF ValidateOrganizationId, At, enrollmentsVars
<1>2. NotesOK' /\ NotesStay'
  BY <1>1, NotesStand DEF IInv
<1>3. User(c).organization \in Slugs \cup {None}
  BY <1>1, UserType
<1>4. CASE E!AsksForAny(User(c)) /\ Go(c, "query", First(c))
  BY <1>1, <1>2, <1>4, GoStep
<1>5. CASE E!Cached(User(c)) # NoOrg /\ Go(c, "query", E!Cached(User(c)))
  <2>1. /\ User(c).organization \in Slugs
        /\ E!Cached(User(c)) = idBySlug[User(c).organization]
    BY <1>3, <1>5 DEF E!Cached, E!None, None
  <2>2. /\ E!Cached(User(c)) \in Orgs
        /\ slugOf[E!Cached(User(c))] = User(c).organization \/ User(c).organization \in renamed
    BY <1>5, <2>1 DEF IInv, CacheOK
  <2> QED
    BY <1>1, <1>2, <1>5, <2>1, <2>2, GoStep
<1>6. CASE IF User(c).organization = None THEN Answer(c) ELSE Go(c, "select", NoOrg)
  <2>1. CASE User(c).organization = None
    BY <1>1, <1>2, <1>6, <2>1, AnswerStep
  <2>2. CASE User(c).organization # None
    BY <1>1, <1>2, <1>3, <1>6, <2>2, GoStep
  <2> QED
    BY <2>1, <2>2
<1> QED
  BY <1>4, <1>5, <1>6 DEF ValidateOrganizationId

LEMMA SelectStep ==
    ASSUME IInv, NEW c \in Clients, SelectOrganization(c)
    PROVE  IInv'
<1> DEFINE org == E!LookUp(User(c).organization)
<1>1. /\ request[c].pc = "select"
      /\ UNCHANGED <<session, slugOf, idBySlug, renamed>> /\ UNCHANGED notesVars
      /\ IF org = NoOrg THEN Answer(c) ELSE Go(c, "fill", org)
  BY DEF SelectOrganization, enrollmentsVars
<1>2. NotesOK' /\ NotesStay'
  BY <1>1, NotesStand DEF IInv
<1>3. User(c).organization \in Slugs
  BY <1>1 DEF IInv, LookUpsOK, LookedUp
<1>4. CASE org = NoOrg
  BY <1>1, <1>2, <1>4, AnswerStep
<1>5. CASE org # NoOrg
  <2>1. org \in Orgs /\ slugOf[org] = User(c).organization
    BY <1>5, LookUpFinds
  <2>2. Go(c, "fill", org)
    BY <1>1, <1>5
  <2> QED
    BY <1>1, <1>2, <1>3, <2>1, <2>2, GoStep
<1> QED
  BY <1>4, <1>5

LEMMA FillStep ==
    ASSUME IInv, NEW c \in Clients, FillCache(c)
    PROVE  IInv'
<1>1. /\ request[c].pc = "fill" /\ Go(c, "query", request[c].org)
      /\ idBySlug' = [idBySlug EXCEPT ![User(c).organization] = request[c].org]
      /\ UNCHANGED <<session, slugOf, renamed>> /\ UNCHANGED notesVars
  BY DEF FillCache, E!CacheId
<1>2. Holds(c)
  BY <1>1 DEF IInv, LookUpsOK, LookedUp
<1>3. /\ RequestsOK'
      /\ request'[c] = Served("query", request[c].ask, request[c].org)
      /\ \A d \in Clients \ {c} : request'[d] = request[d]
  BY <1>1, GoOK
<1>4. CacheOK'
  BY <1>1, <1>2 DEF IInv, CacheOK, Holds
<1>5. request'[c].pc = "query" /\ request'[c].org = request[c].org /\ User(c)' = User(c)
  BY <1>3 DEF Served, User
<1>6. LookedUp(c)'
  BY <1>1, <1>2, <1>5 DEF LookedUp, Holds
<1>7. \A d \in Clients \ {c} : LookedUp(d)'
  BY <1>1, <1>3, LookedUpStays DEF IInv, LookUpsOK
<1>8. NotesOK' /\ NotesStay'
  BY <1>1, NotesStand DEF IInv
<1> QED
  BY <1>3, <1>4, <1>6, <1>7, <1>8 DEF IInv, LookUpsOK

LEMMA AnsweredStep ==
    ASSUME IInv, NEW c \in Clients,
           RemoveSubmission(c) \/ Query(c) \/ ChangeEnrollments(c) \/ Handle(c)
    PROVE  IInv'
<1>1. Answer(c) /\ session' = session
  BY DEF RemoveSubmission, Query, ChangeEnrollments, Handle
<1>2. UNCHANGED <<slugOf, idBySlug, renamed>>
  BY DEF RemoveSubmission, Query, ChangeEnrollments, Handle, enrollmentsVars,
         E!CreateEnrollment, E!UpdateEnrollment, E!RemoveEnrollment
<1>3. NotesOK' /\ NotesStay'
  <2>1. CASE N!RemoveSubmission(First(c))
    BY <2>1, RemoveSubmissionOK DEF IInv
  <2>2. CASE UNCHANGED notesVars
    BY <2>2, NotesStand DEF IInv
  <2> QED
    BY <2>1, <2>2 DEF RemoveSubmission, Query, ChangeEnrollments, Handle
<1> QED
  BY <1>1, <1>2, <1>3, AnswerStep

\* What is looked up while slugs change hands is in the history.
LEMMA OrganizationsStep ==
    ASSUME IInv, OrganizationsChange
    PROVE  IInv'
<1>1. UNCHANGED <<session, request>> /\ UNCHANGED notesVars
  BY DEF OrganizationsChange
<1>2. RequestsOK' /\ NotesOK' /\ NotesStay'
  BY <1>1, NotesStand DEF IInv, RequestsOK
<1>3. \A d \in Clients : User(d)' = User(d)
  BY <1>1 DEF User
<1>4. ASSUME NEW d \in Clients, request[d].pc \in {"select", "fill", "query"}
      PROVE  User(d).organization \in Busy
  BY <1>4 DEF Busy
<1>5. CASE \E slug \in Slugs : E!Expire(slug, Busy)
  <2>1. PICK slug \in Slugs : E!Expire(slug, Busy)
    BY <1>5
  <2>2. /\ idBySlug' = [idBySlug EXCEPT ![slug] = NoOrg]
        /\ slugOf' = slugOf
        /\ \A s \in renamed : s \in renamed' \/ (s = slug /\ slug \notin Busy)
    BY <2>1 DEF E!Expire
  <2>3. CacheOK'
    BY <2>2 DEF IInv, CacheOK
  <2>4. ASSUME NEW d \in Clients
        PROVE  LookedUp(d)'
    BY <1>1, <1>3, <1>4, <2>2 DEF IInv, LookUpsOK, LookedUp, Holds
  <2> QED
    BY <1>2, <2>3, <2>4 DEF IInv, LookUpsOK
<1>6. CASE \E org \in Orgs, slug \in Slugs : E!Rename(org, slug, Busy)
  <2>1. PICK org \in Orgs, slug \in Slugs : E!Rename(org, slug, Busy)
    BY <1>6
  <2>2. /\ slugOf' = [slugOf EXCEPT ![org] = slug]
        /\ idBySlug' = idBySlug
        /\ renamed \subseteq renamed'
        /\ slugOf[org] \in Busy \/ idBySlug[slugOf[org]] # NoOrg => slugOf[org] \in renamed'
    BY <2>1 DEF E!Rename
  <2>3. CacheOK'
    BY <2>2 DEF IInv, CacheOK
  <2>4. ASSUME NEW d \in Clients, Holds(d), User(d).organization \in Busy
        PROVE  Holds(d)'
    BY <1>1, <1>3, <2>2, <2>4 DEF IInv, CacheOK, Holds
  <2>5. ASSUME NEW d \in Clients
        PROVE  LookedUp(d)'
    BY <1>1, <1>3, <1>4, <2>4 DEF IInv, LookUpsOK, LookedUp
  <2> QED
    BY <1>2, <2>3, <2>5 DEF IInv, LookUpsOK
<1> QED
  BY <1>5, <1>6 DEF OrganizationsChange

-----------------------------------------------------------------------------
LEMMA Initially == Init => IInv
<1> SUFFICES ASSUME Init PROVE IInv
  OBVIOUS
<1>1. \A c \in Clients : request[c].pc = "idle"
  BY DEF Init, Idle
<1>2. RequestsOK /\ LookUpsOK
  BY <1>1 DEF Init, RequestsOK, LookUpsOK, LookedUp
<1>3. CacheOK
  BY SlugAssumption DEF Init, E!EnrollmentsInit, CacheOK
<1>4. NotesOK /\ NotesStay
  BY DEF Init, N!NotesInit, NotesOK, NotesStay, N!NotesStay
<1> QED
  BY <1>2, <1>3, <1>4 DEF IInv

LEMMA Inductive == IInv /\ [Next]_vars => IInv'
<1> SUFFICES ASSUME IInv, [Next]_vars PROVE IInv'
  OBVIOUS
<1>1. ASSUME NEW c \in Clients, NEW ask \in Passing[session], Ask(c, ask)
      PROVE  IInv'
  BY <1>1, AskStep
<1>2. ASSUME NEW c \in Clients, LookForSubmission(c)
      PROVE  IInv'
  BY <1>2, LookForSubmissionStep
<1>3. ASSUME NEW c \in Clients, StateNote(c)
      PROVE  IInv'
  BY <1>3, StateNoteStep
<1>4. ASSUME NEW c \in Clients,
             RemoveSubmission(c) \/ Query(c) \/ ChangeEnrollments(c) \/ Handle(c)
      PROVE  IInv'
  BY <1>4, AnsweredStep
<1>5. ASSUME NEW c \in Clients, ValidateOrganizationId(c)
      PROVE  IInv'
  BY <1>5, ValidateStep
<1>6. ASSUME NEW c \in Clients, SelectOrganization(c)
      PROVE  IInv'
  BY <1>6, SelectStep
<1>7. ASSUME NEW c \in Clients, FillCache(c)
      PROVE  IInv'
  BY <1>7, FillStep
<1>8. CASE OrganizationsChange
  BY <1>8, OrganizationsStep
<1>9. CASE UNCHANGED vars
  <2>1. UNCHANGED <<session, request, rows, slugOf, idBySlug, renamed>> /\ UNCHANGED notesVars
    BY <1>9 DEF vars, notesVars, enrollmentsVars
  <2>2. \A c \in Clients : User(c)' = User(c)
    BY <2>1 DEF User
  <2>3. RequestsOK' /\ CacheOK' /\ NotesOK' /\ NotesStay'
    BY <2>1, NotesStand DEF IInv, RequestsOK, CacheOK
  <2>4. LookUpsOK'
    BY <2>1, <2>2 DEF IInv, LookUpsOK, LookedUp, Holds
  <2> QED
    BY <2>3, <2>4 DEF IInv
<1> QED
  BY <1>1, <1>2, <1>3, <1>4, <1>5, <1>6, <1>7, <1>8, <1>9 DEF Next

LEMMA Invariance == Spec => []IInv
BY Initially, Inductive, PTL DEF Spec

-----------------------------------------------------------------------------
(* A query runs on the organization that has the slug of the caller's       *)
(* token, unless the caller is a global administrator or the slug changed   *)
(* hands meanwhile (OrganizationsService.getValidOrganizationId).           *)
THEOREM QueriesStayAtHome == Spec => []AsksOwnOrganization
<1>1. IInv => AsksOwnOrganization
  BY DEF IInv, LookUpsOK, LookedUp, Holds, AsksOwnOrganization
<1> QED
  BY <1>1, Invariance, PTL

(* A note stays on the submission it was written on, which is not removed   *)
(* meanwhile, and is gone once its author has removed it, with the          *)
(* exceptions that NotesStay names (UsersService.editNote, removeNote).     *)
THEOREM NotesKeepTheirPlace == Spec => []NotesStay
<1>1. IInv => NotesStay
  BY DEF IInv
<1> QED
  BY <1>1, Invariance, PTL

-----------------------------------------------------------------------------
(* Who is admitted to what. *)

Writing == {"level:admin"} \cup WritePermissions

RuleActions == {"read", "create", "update", "manage"}

OtherSubjects ==
    FormsSubjects \cup TrainingSubjects \cup LmsSubjects
    \cup {"Organization", "Unit", "Location", "CourseEnrollment", "OrganizationUser", "OrganizationIdp",
          "ThreatAssessment", "Tip", "ViolentIncidentReport", "WatchStats",
          "SendTrainingLinks", "ResourceItem", "VideoEvent", "UserRepresentation", "Language"}

RuleSubjects == OtherSubjects \cup {"ItemCompletion"}

Rule == [applies : BOOLEAN, allows : BOOLEAN, action : RuleActions, subjects : SUBSET RuleSubjects]

\* A rule that allows more than to read is for callers with a permission to write, but for
\* the creation of tips and of video events; one about completions is for who may read
\* statistics.
GuardedRules(user) ==
    {rule \in Rule :
        rule.applies /\ rule.allows =>
            /\ rule.action # "read" =>
                \/ user.permissions \cap Writing # {}
                \/ rule.action = "create" /\ rule.subjects \subseteq {"Tip", "VideoEvent"}
            /\ "ItemCompletion" \in rule.subjects => "read:training-stats" \in user.permissions}

LEMMA CanIsGuarded ==
    ASSUME NEW user, NEW applies \in BOOLEAN, NEW action \in RuleActions, NEW subjects \in SUBSET OtherSubjects,
           applies /\ action # "read" =>
               \/ user.permissions \cap Writing # {}
               \/ action = "create" /\ subjects \subseteq {"Tip", "VideoEvent"}
    PROVE  Can(applies, action, subjects) \in GuardedRules(user)
<1>1. PICK r : r = Can(applies, action, subjects)
  OBVIOUS
<1>2. r \in Rule /\ r.applies = applies /\ r.action = action /\ r.subjects = subjects
  BY <1>1 DEF Can, Rule, RuleSubjects
<1>3. "ItemCompletion" \notin OtherSubjects
  BY DEF OtherSubjects, FormsSubjects, TrainingSubjects, LmsSubjects
<1> QED
  BY <1>1, <1>2, <1>3 DEF GuardedRules

LEMMA CannotIsGuarded ==
    ASSUME NEW user, NEW applies \in BOOLEAN, NEW action \in RuleActions, NEW subjects \in SUBSET OtherSubjects
    PROVE  Cannot(applies, action, subjects) \in GuardedRules(user)
<1>1. PICK r : r = Cannot(applies, action, subjects)
  OBVIOUS
<1>2. r \in Rule /\ ~r.allows
  BY <1>1 DEF Cannot, Can, Rule, RuleSubjects
<1> QED
  BY <1>1, <1>2 DEF GuardedRules

\* A rule for those who have the permissions: one of them is to write, or the rule is to read.
LEMMA PermittedIsGuarded ==
    ASSUME NEW user, NEW permissions, NEW action \in RuleActions, NEW subjects \in SUBSET OtherSubjects,
           action = "read" \/ \E p \in permissions : p \in Writing
    PROVE  Can(Has(user, permissions), action, subjects) \in GuardedRules(user)
<1>1. PICK applies : applies = Has(user, permissions)
  OBVIOUS
<1>2. applies \in BOOLEAN
  BY <1>1 DEF Has
<1>3. applies /\ action # "read" => user.permissions \cap Writing # {}
  BY <1>1 DEF Has
<1>4. Can(applies, action, subjects) \in GuardedRules(user)
  BY <1>2, <1>3, CanIsGuarded
<1> QED
  BY <1>1, <1>4

LEMMA WriterIsGuarded ==
    ASSUME NEW user, NEW p \in Writing, NEW permissions, p \in permissions,
           NEW action \in RuleActions, NEW subjects \in SUBSET OtherSubjects
    PROVE  Can(Has(user, permissions), action, subjects) \in GuardedRules(user)
BY PermittedIsGuarded

LEMMA ReaderIsGuarded ==
    ASSUME NEW user, NEW permissions, NEW subjects \in SUBSET OtherSubjects
    PROVE  /\ Can(Has(user, permissions), "read", subjects) \in GuardedRules(user)
           /\ Can(TRUE, "read", subjects) \in GuardedRules(user)
<1>1. PICK applies : applies = TRUE
  OBVIOUS
<1>2. applies \in BOOLEAN
  BY <1>1
<1>3. Can(applies, "read", subjects) \in GuardedRules(user)
  BY <1>2, CanIsGuarded DEF RuleActions
<1> QED
  BY <1>1, <1>3, PermittedIsGuarded DEF RuleActions

LEMMA FormsGuarded == ASSUME NEW user PROVE FormsRules(user) \in Seq(GuardedRules(user))
<1>1. FormsSubjects \in SUBSET OtherSubjects /\ "manage" \in RuleActions /\ "write:forms" \in Writing
  BY DEF OtherSubjects, RuleActions, Writing, WritePermissions
<1>2. Can(Has(user, {"level:admin", "write:forms"}), "manage", FormsSubjects) \in GuardedRules(user)
  BY <1>1, WriterIsGuarded
<1>3. Can(Has(user, {"read:forms"}), "read", FormsSubjects) \in GuardedRules(user)
  BY <1>1, ReaderIsGuarded
<1> QED
  BY <1>2, <1>3 DEF FormsRules

LEMMA TrainingGuarded == ASSUME NEW user PROVE TrainingRules(user) \in Seq(GuardedRules(user))
<1>1. TrainingSubjects \in SUBSET OtherSubjects /\ "manage" \in RuleActions /\ "write:courses" \in Writing
  BY DEF OtherSubjects, RuleActions, Writing, WritePermissions
<1>2. Can(Has(user, {"level:admin", "write:courses"}), "manage", TrainingSubjects) \in GuardedRules(user)
  BY <1>1, WriterIsGuarded
<1>3. Can(Has(user, {"read:courses"}), "read", TrainingSubjects) \in GuardedRules(user)
  BY <1>1, ReaderIsGuarded
<1> QED
  BY <1>2, <1>3 DEF TrainingRules

LEMMA OrganizationsGuarded == ASSUME NEW user PROVE OrganizationsRules(user) \in Seq(GuardedRules(user))
<1> DEFINE G == GuardedRules(user)
<1>1. /\ {"manage", "update", "create"} \subseteq RuleActions
      /\ {"write:organizations", "write:units", "write:course-enrollments", "write:organization-users",
          "write:organization-idps", "write:organization-lms-content"} \subseteq Writing
  BY DEF RuleActions, Writing, WritePermissions
<1>2. /\ LmsSubjects \in SUBSET OtherSubjects
      /\ {"Organization", "Unit", "Location"} \in SUBSET OtherSubjects /\ {"Organization"} \in SUBSET OtherSubjects
      /\ {"Unit", "Location"} \in SUBSET OtherSubjects /\ {"CourseEnrollment"} \in SUBSET OtherSubjects
      /\ {"OrganizationUser"} \in SUBSET OtherSubjects /\ {"OrganizationIdp"} \in SUBSET OtherSubjects
      /\ {"Organization", "Unit", "Location", "CourseEnrollment"} \in SUBSET OtherSubjects
  BY DEF OtherSubjects
<1>3. /\ Can(Has(user, {"write:organizations"}), "manage", {"Organization", "Unit", "Location"}) \in G
      /\ Can(Has(user, {"write:units"}), "manage", {"Unit", "Location"}) \in G
      /\ Can(Has(user, {"write:course-enrollments"}), "manage", {"CourseEnrollment"}) \in G
      /\ Can(Has(user, {"write:organizations"}), "manage", {"Unit", "Location"}) \in G
      /\ Can(Has(user, {"write:organizations"}), "update", {"Organization"}) \in G
      /\ Can(Has(user, {"write:organization-users"}), "manage", {"OrganizationUser"}) \in G
      /\ Can(Has(user, {"write:organization-idps"}), "manage", {"OrganizationIdp"}) \in G
      /\ Can(Has(user, {"write:organization-lms-content"}), "manage", LmsSubjects) \in G
  BY <1>1, <1>2, WriterIsGuarded
<1>4. /\ Can(Has(user, {"read:organization-users"}), "read", {"OrganizationUser"}) \in G
      /\ Can(Has(user, {"read:organization-idps"}), "read", {"OrganizationIdp"}) \in G
      /\ Can(Has(user, {"read:organization-lms-content"}), "read", LmsSubjects) \in G
  BY <1>2, ReaderIsGuarded
<1>5. Cannot(~Has(user, {"level:admin"}), "create", {"Organization"}) \in G
  <2>1. PICK applies : applies = ~Has(user, {"level:admin"})
    OBVIOUS
  <2>2. applies \in BOOLEAN
    BY <2>1
  <2>3. Cannot(applies, "create", {"Organization"}) \in G
    BY <1>1, <1>2, <2>2, CannotIsGuarded
  <2> QED
    BY <2>1, <2>3
<1>6. PICK anyone \in G : anyone = Can(TRUE, "read", {"Organization", "Unit", "Location", "CourseEnrollment"})
  BY <1>2, ReaderIsGuarded
<1>7. OrganizationsRules(user) =
        <<Can(Has(user, {"write:organizations"}), "manage", {"Organization", "Unit", "Location"}),
          Cannot(~Has(user, {"level:admin"}), "create", {"Organization"}),
          Can(Has(user, {"write:units"}), "manage", {"Unit", "Location"}),
          Can(Has(user, {"write:course-enrollments"}), "manage", {"CourseEnrollment"}),
          Can(Has(user, {"write:organizations"}), "manage", {"Unit", "Location"}),
          Can(Has(user, {"write:organizations"}), "update", {"Organization"}),
          Can(Has(user, {"read:organization-users"}), "read", {"OrganizationUser"}),
          Can(Has(user, {"write:organization-users"}), "manage", {"OrganizationUser"}),
          Can(Has(user, {"read:organization-idps"}), "read", {"OrganizationIdp"}),
          Can(Has(user, {"write:organization-idps"}), "manage", {"OrganizationIdp"}),
          Can(Has(user, {"read:organization-lms-content"}), "read", LmsSubjects),
          Can(Has(user, {"write:organization-lms-content"}), "manage", LmsSubjects),
          anyone>>
  BY <1>6 DEF OrganizationsRules
<1> HIDE DEF G
<1> QED
  BY <1>3, <1>4, <1>5, <1>7 DEF G

LEMMA SubmissionGuarded ==
    ASSUME NEW user, NEW write \in Writing, NEW subject \in OtherSubjects
    PROVE  Submission(user, write, subject) \in Seq(GuardedRules(user))
<1>1. {"manage", "update", "create", "read"} \subseteq RuleActions /\ {subject} \in SUBSET OtherSubjects
  BY DEF RuleActions
<1>2. PICK staff : staff = (Has(user, {"level:organization", write}) \/ Has(user, {"level:unit", write}))
  OBVIOUS
<1>3. PICK creates : creates = (staff /\ subject # "Tip")
  OBVIOUS
<1>4. staff \in BOOLEAN /\ creates \in BOOLEAN
  BY <1>2, <1>3
<1>5. staff \/ creates => user.permissions \cap Writing # {}
  BY <1>2, <1>3 DEF Has
<1>6. Can(staff, "update", {subject}) \in GuardedRules(user) /\ Can(creates, "create", {subject}) \in GuardedRules(user)
  BY <1>1, <1>4, <1>5, CanIsGuarded
<1>7. /\ Can(Has(user, {"level:admin", write}), "manage", {subject}) \in GuardedRules(user)
      /\ Can(Has(user, {write}), "read", {subject}) \in GuardedRules(user)
  BY <1>1, WriterIsGuarded
<1>8. Submission(user, write, subject) =
        <<Can(Has(user, {"level:admin", write}), "manage", {subject}), Can(creates, "create", {subject}),
          Can(staff, "update", {subject}), Can(Has(user, {write}), "read", {subject})>>
  BY <1>2, <1>3 DEF Submission
<1> QED
  BY <1>6, <1>7, <1>8

LEMMA AnyoneIsGuarded ==
    ASSUME NEW user, NEW subjects \in SUBSET {"Tip", "VideoEvent"}
    PROVE  Can(TRUE, "create", subjects) \in GuardedRules(user)
<1>1. PICK applies : applies = TRUE
  OBVIOUS
<1>2. applies \in BOOLEAN /\ subjects \in SUBSET OtherSubjects /\ "create" \in RuleActions
  BY <1>1 DEF OtherSubjects, RuleActions
<1>3. Can(applies, "create", subjects) \in GuardedRules(user)
  BY <1>2, CanIsGuarded
<1> QED
  BY <1>1, <1>3

LEMMA StatisticsGuarded ==
    ASSUME NEW user
    PROVE  Can(Has(user, {"read:training-stats"}), "read", {"WatchStats", "ItemCompletion"}) \in GuardedRules(user)
<1>1. PICK r : r = Can(Has(user, {"read:training-stats"}), "read", {"WatchStats", "ItemCompletion"})
  OBVIOUS
<1>2. r \in Rule /\ r.action = "read" /\ (r.applies => "read:training-stats" \in user.permissions)
  BY <1>1 DEF Can, Has, Rule, RuleActions, RuleSubjects, OtherSubjects
<1> QED
  BY <1>1, <1>2 DEF GuardedRules

LEMMA SafetyGuarded == ASSUME NEW user PROVE SafetyRules(user) \in Seq(GuardedRules(user))
<1> DEFINE G == GuardedRules(user)
<1>1. /\ {"SendTrainingLinks"} \in SUBSET OtherSubjects
      /\ {"ThreatAssessment", "Tip", "ViolentIncidentReport"} \subseteq OtherSubjects /\ "manage" \in RuleActions
      /\ {"write:training-links", "write:threat-assessments", "write:tips",
          "write:violent-incident-reports"} \subseteq Writing
  BY DEF OtherSubjects, RuleActions, Writing, WritePermissions
<1>2. /\ Can(Has(user, {"read:training-stats"}), "read", {"WatchStats", "ItemCompletion"}) \in G
      /\ Can(Has(user, {"write:training-links"}), "manage", {"SendTrainingLinks"}) \in G
  BY <1>1, StatisticsGuarded, WriterIsGuarded
<1>3. /\ Submission(user, "write:threat-assessments", "ThreatAssessment") \in Seq(G)
      /\ Submission(user, "write:tips", "Tip") \in Seq(G)
      /\ Submission(user, "write:violent-incident-reports", "ViolentIncidentReport") \in Seq(G)
  BY <1>1, SubmissionGuarded
<1>4. PICK anyone \in G : anyone = Can(TRUE, "create", {"Tip"})
  BY AnyoneIsGuarded
<1>5. SafetyRules(user) =
        <<Can(Has(user, {"read:training-stats"}), "read", {"WatchStats", "ItemCompletion"}),
          Can(Has(user, {"write:training-links"}), "manage", {"SendTrainingLinks"})>>
        \o Submission(user, "write:threat-assessments", "ThreatAssessment")
        \o Submission(user, "write:tips", "Tip")
        \o Submission(user, "write:violent-incident-reports", "ViolentIncidentReport")
        \o <<anyone>>
  BY <1>4 DEF SafetyRules
<1> HIDE DEF G
<1> QED
  BY <1>2, <1>3, <1>5 DEF G

LEMMA OthersGuarded == ASSUME NEW user PROVE OtherRules(user) \in Seq(GuardedRules(user))
<1> DEFINE G == GuardedRules(user)
<1>1. /\ {"ResourceItem"} \in SUBSET OtherSubjects /\ {"UserRepresentation"} \in SUBSET OtherSubjects
      /\ {"Language"} \in SUBSET OtherSubjects /\ "manage" \in RuleActions
      /\ {"write:resources", "write:users", "write:languages"} \subseteq Writing
  BY DEF OtherSubjects, RuleActions, Writing, WritePermissions
<1>2. /\ Can(Has(user, {"level:admin", "write:resources"}), "manage", {"ResourceItem"}) \in G
      /\ Can(Has(user, {"level:admin", "write:users"}), "manage", {"UserRepresentation"}) \in G
      /\ Can(Has(user, {"write:languages"}), "manage", {"Language"}) \in G
  BY <1>1, WriterIsGuarded
<1>3. Can(Has(user, {"read:resources"}), "read", {"ResourceItem"}) \in G
  BY <1>1, ReaderIsGuarded
<1>4. PICK film \in G, anyone \in G :
         film = Can(TRUE, "create", {"VideoEvent"}) /\ anyone = Can(TRUE, "read", {"Language"})
  BY <1>1, ReaderIsGuarded, AnyoneIsGuarded
<1>5. OtherRules(user) =
        <<Can(Has(user, {"level:admin", "write:resources"}), "manage", {"ResourceItem"}),
          Can(Has(user, {"read:resources"}), "read", {"ResourceItem"}), film,
          Can(Has(user, {"level:admin", "write:users"}), "manage", {"UserRepresentation"}),
          Can(Has(user, {"write:languages"}), "manage", {"Language"}), anyone>>
  BY <1>4 DEF OtherRules
<1> HIDE DEF G
<1> QED
  BY <1>2, <1>3, <1>5 DEF G

LEMMA RulesGuarded == ASSUME NEW user PROVE CreateForUser(user) \in Seq(GuardedRules(user))
BY FormsGuarded, TrainingGuarded, OrganizationsGuarded, SafetyGuarded, OthersGuarded DEF CreateForUser

\* Only who has a permission to write may do more than read, create tips or video events.
LEMMA MayWrite ==
    ASSUME NEW user, NEW action, NEW subject, action # "read", May(user, action, subject)
    PROVE  \/ user.permissions \cap Writing # {}
           \/ action = "create" /\ subject \in {"Tip", "VideoEvent"}
<1>1. PICK rules : rules = CreateForUser(user)
  OBVIOUS
<1>2. rules \in Seq(GuardedRules(user))
  BY <1>1, RulesGuarded
<1>3. PICK i \in DOMAIN rules : /\ rules[i].applies /\ rules[i].allows
                               /\ rules[i].action \in {action, "manage"} /\ subject \in rules[i].subjects
  BY <1>1 DEF May
<1>4. rules[i] \in GuardedRules(user)
  BY <1>2
<1> QED
  BY <1>3, <1>4 DEF GuardedRules

\* And nobody has a rule about what has none.
LEMMA MayKnown ==
    ASSUME NEW user, NEW action, NEW subject, May(user, action, subject)
    PROVE  subject \in RuleSubjects
<1>1. PICK rules : rules = CreateForUser(user)
  OBVIOUS
<1>2. rules \in Seq(GuardedRules(user))
  BY <1>1, RulesGuarded
<1>3. PICK i \in DOMAIN rules : subject \in rules[i].subjects
  BY <1>1 DEF May
<1>4. rules[i] \in GuardedRules(user)
  BY <1>2
<1> QED
  BY <1>3, <1>4 DEF GuardedRules, Rule

\* Only who may read the statistics of trainings may read completions.
LEMMA MayReadCompletions ==
    ASSUME NEW user, May(user, "read", "ItemCompletion")
    PROVE  "read:training-stats" \in user.permissions
<1>1. PICK rules : rules = CreateForUser(user)
  OBVIOUS
<1>2. rules \in Seq(GuardedRules(user))
  BY <1>1, RulesGuarded
<1>3. PICK i \in DOMAIN rules : rules[i].applies /\ rules[i].allows /\ "ItemCompletion" \in rules[i].subjects
  BY <1>1 DEF May
<1>4. PICK rule \in GuardedRules(user) : rule = rules[i]
  BY <1>2
<1>5. rule.applies /\ rule.allows /\ "ItemCompletion" \in rule.subjects => "read:training-stats" \in user.permissions
  BY <1>4 DEF GuardedRules
<1> QED
  BY <1>3, <1>4, <1>5

-----------------------------------------------------------------------------
(* What the routes ask. *)

\* An alternative that only who may write can satisfy, or nobody.
ForWriters(alternative) ==
    \/ alternative[1] = "has" /\ alternative[2] = "level:admin"
    \/ /\ alternative[1] # "has"
       /\ \/ alternative[2] \notin RuleSubjects
          \/ /\ alternative[1] # "read"
             /\ ~(alternative[1] = "create" /\ alternative[2] \in {"Tip", "VideoEvent"})

Unguarded(route) ==
    \/ route.method = "GET"
    \/ route.public
    \/ route.controller = "tips" /\ route.handler = "addNote"

RouteGuarded(route) ==
    Unguarded(route) \/ \A alternative \in route.policy : ForWriters(alternative)

LEMMA RouteFields ==
    ASSUME NEW controller, NEW handler, NEW method, NEW policy,
           NEW route, route = Route(controller, handler, method, policy)
    PROVE  /\ route.controller = controller /\ route.handler = handler /\ route.method = method
           /\ route.policy = policy
           /\ Public(route).public /\ RouteGuarded(Public(route))
<1>1. route.controller = controller /\ route.handler = handler /\ route.method = method
      /\ route.policy = policy
  BY DEF Route
<1>2. Public(route).public
  BY DEF Route, Public
<1> QED
  BY <1>1, <1>2 DEF RouteGuarded, Unguarded

LEMMA AskedGuarded ==
    ASSUME NEW controller, NEW handler, NEW method, NEW policy, \A a \in policy : ForWriters(a)
    PROVE  RouteGuarded(Route(controller, handler, method, policy))
BY RouteFields DEF RouteGuarded

LEMMA CheckedGuarded ==
    ASSUME NEW controller, NEW handler, NEW method, NEW subject,
           \/ subject \notin RuleSubjects
           \/ method \in {"GET", "PATCH", "DELETE"}
           \/ method = "POST" /\ (subject \notin {"Tip", "VideoEvent"} \/ (controller = "tips" /\ handler = "addNote"))
    PROVE  RouteGuarded(Checked(controller, handler, method, subject))
<1>1. PICK route : route = Checked(controller, handler, method, subject)
  OBVIOUS
<1>2. /\ route.controller = controller /\ route.handler = handler /\ route.method = method
      /\ route.policy = {<<EntityAction(method), subject>>}
  BY <1>1, RouteFields DEF Checked
<1>3. EntityAction(method) # "has"
  BY DEF EntityAction
<1>4. method = "POST" => EntityAction(method) = "create"
  BY DEF EntityAction
<1>5. method \in {"PATCH", "DELETE"} => EntityAction(method) \in {"update", "delete"}
  BY DEF EntityAction
<1>6. CASE Unguarded(route)
  BY <1>1, <1>6 DEF RouteGuarded
<1>7. CASE ~Unguarded(route)
  <2>1. ForWriters(<<EntityAction(method), subject>>)
    BY <1>2, <1>3, <1>4, <1>5, <1>7 DEF Unguarded, ForWriters
  <2> QED
    BY <1>1, <1>2, <2>1 DEF RouteGuarded
<1> QED
  BY <1>6, <1>7

Known == {"GET", "POST", "PATCH", "DELETE"}

LEMMA EachGuarded ==
    ASSUME NEW controller, NEW subject, NEW handlers, subject \notin {"Tip", "VideoEvent"},
           subject \notin RuleSubjects \/ \A h \in handlers : h[2] \in Known
    PROVE  \A r \in Each(controller, subject, handlers) : RouteGuarded(r)
BY CheckedGuarded DEF Each, Known

LEMMA CrudGuarded ==
    ASSUME NEW controller, NEW subject, subject \notin {"Tip", "VideoEvent"}
    PROVE  \A r \in Crud(controller, subject) : RouteGuarded(r)
BY CheckedGuarded DEF Crud

LEMMA FormsAsk == \A r \in FormsRoutes \cup FieldsRoutes \cup FieldGroupsRoutes : RouteGuarded(r)
BY EachGuarded, CrudGuarded DEF FormsRoutes, FieldsRoutes, FieldGroupsRoutes, Known

LEMMA TrainingAsks ==
    \A r \in CoursesRoutes \cup SectionsRoutes \cup AudiencesRoutes \cup TrainingAdminRoutes \cup EnrollmentsRoutes :
        RouteGuarded(r)
BY EachGuarded, CrudGuarded DEF CoursesRoutes, SectionsRoutes, AudiencesRoutes, TrainingAdminRoutes,
   EnrollmentsRoutes, Known

LEMMA OpenGuarded ==
    ASSUME NEW controller, NEW subject, NEW handlers
    PROVE  \A r \in Each(controller, subject, handlers) : RouteGuarded(Public(r))
<1>1. ASSUME NEW h
      PROVE  RouteGuarded(Public(Checked(controller, h[1], h[2], subject)))
  BY RouteFields DEF Checked
<1> QED
  BY <1>1 DEF Each

LEMMA ItemsAsk == \A r \in ItemsRoutes : RouteGuarded(r)
<1>1. PICK open : open = Each("items", "TrainingItem",
            {<<"createMyItemCompletion", "POST">>, <<"getMyItemCompletions", "GET">>,
             <<"updateMyItemCompletion", "PATCH">>, <<"updateOrCreateMyItemCompletion", "PUT">>,
             <<"watch", "GET">>, <<"lmsWatch", "GET">>})
  OBVIOUS
<1>2. \A r \in open : RouteGuarded(Public(r))
  BY <1>1, OpenGuarded
<1>3. \A r \in Each("items", "ItemCompletion",
            {<<"findItemCompletions", "GET">>, <<"getItemCompletionsSummary", "GET">>,
             <<"findItemCompletionsCsv", "GET">>}) : RouteGuarded(r)
  BY EachGuarded DEF Known
<1>4. \A r \in Crud("items", "TrainingItem") : RouteGuarded(r)
  BY CrudGuarded
<1> QED
  BY <1>1, <1>2, <1>3, <1>4 DEF ItemsRoutes

\* A route that names its actions.
LEMMA NamedGuarded ==
    ASSUME NEW controller, NEW handler, NEW method, NEW actions, NEW subject,
           subject \notin {"Tip", "VideoEvent"}, "has" \notin actions,
           subject \notin RuleSubjects \/ "read" \notin actions
    PROVE  RouteGuarded(Route(controller, handler, method, {<<a, subject>> : a \in actions}))
<1>1. \A b \in {<<a, subject>> : a \in actions} : ForWriters(b)
  BY DEF ForWriters
<1> QED
  BY <1>1, AskedGuarded

LEMMA FetchGuarded ==
    ASSUME NEW controller, NEW handler, NEW policy
    PROVE  RouteGuarded(Route(controller, handler, "GET", policy))
BY RouteFields DEF RouteGuarded, Unguarded

LEMMA OrganizationsAsk == \A r \in OrganizationsRoutes : RouteGuarded(r)
<1>1. \A r \in Each("organizations", "Organization",
                {<<"slugUnique", "GET">>, <<"idpSlugUnique", "GET">>, <<"findOneBySlug", "GET">>,
                 <<"getRoleGroups", "GET">>}) : RouteGuarded(r)
  BY EachGuarded DEF Known
<1>2. \A r \in Crud("organizations", "Organization") : RouteGuarded(r)
  BY CrudGuarded
<1>3. RouteGuarded(Public(Checked("organizations", "findMyOrganization", "GET", "Organization")))
  BY RouteFields DEF Checked
<1> DEFINE Named(handler, method, actions, subject) ==
              Route("organizations", handler, method, {<<a, subject>> : a \in actions})
<1>4. /\ RouteGuarded(Named("getLmsTokens", "GET", {"read"}, "lmsToken"))
      /\ RouteGuarded(Named("downloadScormPackage", "GET", {"read"}, "lmsScormPackage"))
      /\ RouteGuarded(Named("getIdp", "GET", {"read"}, "OrganizationIdp"))
  BY FetchGuarded
<1>5. ASSUME NEW handler, NEW method, NEW actions, NEW subject,
             subject \notin {"Tip", "VideoEvent"}, "has" \notin actions, "read" \notin actions
      PROVE  RouteGuarded(Named(handler, method, actions, subject))
  BY <1>5, NamedGuarded
<1> HIDE DEF Named
<1>6. /\ RouteGuarded(Named("createLmsToken", "POST", {"create"}, "lmsToken"))
      /\ RouteGuarded(Named("setLmsTokenExpiration", "PATCH", {"update"}, "lmsToken"))
      /\ RouteGuarded(Named("loadImportedConfig", "POST", {"create", "update"}, "OrganizationIdp"))
      /\ RouteGuarded(Named("createIdp", "POST", {"create"}, "OrganizationIdp"))
      /\ RouteGuarded(Named("updateIdp", "PUT", {"update"}, "OrganizationIdp"))
      /\ RouteGuarded(Named("deleteIdp", "DELETE", {"delete"}, "OrganizationIdp"))
      /\ RouteGuarded(Named("getPresignedUploadUrls", "POST", {"update"}, "Organization"))
  BY <1>5
<1>7. OrganizationsRoutes =
        Crud("organizations", "Organization")
        \cup {Public(Checked("organizations", "findMyOrganization", "GET", "Organization"))}
        \cup Each("organizations", "Organization",
                {<<"slugUnique", "GET">>, <<"idpSlugUnique", "GET">>, <<"findOneBySlug", "GET">>,
                 <<"getRoleGroups", "GET">>})
        \cup {Named("createLmsToken", "POST", {"create"}, "lmsToken"),
              Named("getLmsTokens", "GET", {"read"}, "lmsToken"),
              Named("setLmsTokenExpiration", "PATCH", {"update"}, "lmsToken"),
              Named("downloadScormPackage", "GET", {"read"}, "lmsScormPackage"),
              Named("loadImportedConfig", "POST", {"create", "update"}, "OrganizationIdp"),
              Named("getIdp", "GET", {"read"}, "OrganizationIdp"),
              Named("createIdp", "POST", {"create"}, "OrganizationIdp"),
              Named("updateIdp", "PUT", {"update"}, "OrganizationIdp"),
              Named("deleteIdp", "DELETE", {"delete"}, "OrganizationIdp"),
              Named("getPresignedUploadUrls", "POST", {"update"}, "Organization")}
  BY DEF OrganizationsRoutes, Named
<1> QED
  BY <1>1, <1>2, <1>3, <1>4, <1>6, <1>7

LEMMA OfOrganizationsAsk ==
    \A r \in OrganizationUsersRoutes \cup UnitsRoutes \cup LocationsRoutes : RouteGuarded(r)
<1>1. \A r \in OrganizationUsersRoutes : RouteGuarded(r)
  BY EachGuarded DEF OrganizationUsersRoutes, Known
<1>2. \A r \in UnitsRoutes : RouteGuarded(r)
  <2>1. \A a \in {<<"update", "Unit">>} : ForWriters(a)
    BY DEF ForWriters
  <2>2. RouteGuarded(Route("units", "getPresignedUploadUrls", "POST", {<<"update", "Unit">>}))
    BY <2>1, AskedGuarded
  <2>3. RouteGuarded(Checked("units", "slugUnique", "GET", "Unit"))
    BY CheckedGuarded
  <2> QED
    BY <2>2, <2>3, CrudGuarded DEF UnitsRoutes
<1>3. \A r \in LocationsRoutes : RouteGuarded(r)
  BY CrudGuarded, CheckedGuarded DEF LocationsRoutes
<1> QED
  BY <1>1, <1>2, <1>3

LEMMA ReportsAsk ==
    ASSUME NEW controller, NEW subject, subject \notin {"Tip", "VideoEvent"}
    PROVE  \A r \in SubmissionRoutes(controller, subject) : RouteGuarded(r)
BY CrudGuarded, EachGuarded DEF SubmissionRoutes, Known

LEMMA OthersAsk ==
    \A r \in POCFilesRoutes \cup UsersRoutes \cup ResourcesRoutes \cup LanguagesRoutes \cup OtherRoutes :
        RouteGuarded(r)
<1>1. \A r \in POCFilesRoutes : RouteGuarded(r)
  BY CrudGuarded, EachGuarded DEF POCFilesRoutes, RuleSubjects, OtherSubjects, FormsSubjects, TrainingSubjects, LmsSubjects
<1>2. \A a \in AdminOnly : ForWriters(a)
  BY DEF AdminOnly, ForWriters
<1>3. \A r \in UsersRoutes : RouteGuarded(r)
  BY <1>2, AskedGuarded, EachGuarded DEF UsersRoutes, Known
<1>4. \A r \in ResourcesRoutes \cup LanguagesRoutes : RouteGuarded(r)
  BY CrudGuarded DEF ResourcesRoutes, LanguagesRoutes
<1>5. \A r \in OtherRoutes : RouteGuarded(r)
  BY <1>2, AskedGuarded, FetchGuarded, RouteFields DEF OtherRoutes
<1> QED
  BY <1>1, <1>3, <1>4, <1>5

LEMMA TipsAsk == \A r \in TipsRoutes : RouteGuarded(r)
<1> DEFINE Opened == {"create", "getForm", "getForms", "getPresignedUploadUrls"}
<1>1. ASSUME NEW handler, NEW method, method \in Known,
             method = "POST" => handler \in Opened \cup {"addNote"},
             NEW r, r = Checked("tips", handler, method, "Tip")
      PROVE  RouteGuarded(IF r.handler \in Opened THEN Public(r) ELSE r)
  <2>1. r.handler = handler /\ RouteGuarded(Public(r))
    BY <1>1, RouteFields DEF Checked
  <2>2. r.handler \notin Opened => RouteGuarded(r)
    BY <1>1, <2>1, CheckedGuarded DEF Known
  <2> QED
    BY <2>1, <2>2
<1>2. \A r \in SubmissionRoutes("tips", "Tip") :
         \E handler, method :
            /\ method \in Known /\ (method = "POST" => handler \in Opened \cup {"addNote"})
            /\ r = Checked("tips", handler, method, "Tip")
  <2>1. ASSUME NEW r \in Crud("tips", "Tip")
        PROVE  \E handler, method :
                  /\ method \in Known /\ (method = "POST" => handler \in Opened \cup {"addNote"})
                  /\ r = Checked("tips", handler, method, "Tip")
    BY DEF Crud, Known
  <2>2. PICK handlers : handlers =
            {<<"getForm", "GET">>, <<"getForms", "GET">>, <<"generateFormPDF", "GET">>,
             <<"getPresignedUploadUrls", "POST">>, <<"addNote", "POST">>, <<"getNotes", "GET">>,
             <<"editNote", "PATCH">>, <<"removeNote", "DELETE">>, <<"getCountStats", "GET">>}
    OBVIOUS
  <2>3. \A h \in handlers : h[2] \in Known /\ (h[2] = "POST" => h[1] \in Opened \cup {"addNote"})
    BY <2>2 DEF Known
  <2>4. ASSUME NEW r \in Each("tips", "Tip", handlers)
        PROVE  \E handler, method :
                  /\ method \in Known /\ (method = "POST" => handler \in Opened \cup {"addNote"})
                  /\ r = Checked("tips", handler, method, "Tip")
    BY <2>3 DEF Each
  <2> QED
    BY <2>1, <2>2, <2>4 DEF SubmissionRoutes
<1> HIDE DEF Opened
<1>3. ASSUME NEW r \in SubmissionRoutes("tips", "Tip")
      PROVE  RouteGuarded(IF r.handler \in Opened THEN Public(r) ELSE r)
  BY <1>1, <1>2
<1> QED
  BY <1>3 DEF TipsRoutes, Opened

LEMMA AllAsk == \A r \in AllRoutes : RouteGuarded(r)
<1>1. \A r \in ThreatAssessmentsRoutes \cup ViolentIncidentReportsRoutes : RouteGuarded(r)
  BY ReportsAsk DEF ThreatAssessmentsRoutes, ViolentIncidentReportsRoutes
<1> QED
  BY <1>1, FormsAsk, TrainingAsks, ItemsAsk, OrganizationsAsk, OfOrganizationsAsk, TipsAsk, OthersAsk
     DEF AllRoutes

\* Who passes the guards of a route that is not public and not a GET may write.
LEMMA AdmittedWriters ==
    ASSUME NEW route \in AllRoutes, NEW bearer, NEW claims, Admitted(route, bearer, claims), ~Unguarded(route)
    PROVE  Caller(bearer, claims).permissions \cap Writing # {}
<1>1. PICK user : user = Caller(bearer, claims)
  OBVIOUS
<1>2. PICK alternative \in route.policy : Satisfied(user, alternative)
  BY <1>1 DEF Admitted, PoliciesGuard, Unguarded
<1>3. ForWriters(alternative)
  BY <1>2, AllAsk DEF RouteGuarded
<1>4. CASE alternative[1] = "has"
  BY <1>1, <1>2, <1>3, <1>4 DEF ForWriters, Satisfied, Has, Writing
<1>5. CASE alternative[1] # "has"
  <2>1. May(user, alternative[1], alternative[2])
    BY <1>2, <1>5 DEF Satisfied
  <2> QED
    BY <1>1, <1>3, <1>5, <2>1, MayWrite, MayKnown DEF ForWriters
<1> QED
  BY <1>4, <1>5

\* A GET that inserts rows is public, or asks whether the caller may read completions.
LEMMA WritingGetsAsk ==
    \A r \in WritingGets :
        r.public \/ (r.handler = "getItemCompletionsSummary" /\ r.policy = {<<"read", "ItemCompletion">>})
<1> DEFINE Rows == {<<"findItemCompletions", "GET">>, <<"getItemCompletionsSummary", "GET">>,
                    <<"findItemCompletionsCsv", "GET">>}
<1>1. PICK open : open = Each("items", "TrainingItem",
            {<<"createMyItemCompletion", "POST">>, <<"getMyItemCompletions", "GET">>,
             <<"updateMyItemCompletion", "PATCH">>, <<"updateOrCreateMyItemCompletion", "PUT">>,
             <<"watch", "GET">>, <<"lmsWatch", "GET">>})
  OBVIOUS
<1>2. \A r \in open : Public(r).public
  <2>1. ASSUME NEW h
        PROVE  Public(Checked("items", h[1], h[2], "TrainingItem")).public
    BY RouteFields DEF Checked
  <2> QED
    BY <1>1, <2>1 DEF Each
<1>3. \A r \in Crud("items", "TrainingItem") :
         r.handler \in {"create", "findAll", "findOne", "update", "remove"}
  BY RouteFields DEF Crud, Checked
<1>4. \A r \in Each("items", "ItemCompletion", Rows) :
         r.handler \in {"findItemCompletions", "getItemCompletionsSummary", "findItemCompletionsCsv"}
         /\ r.policy = {<<"read", "ItemCompletion">>}
  <2>1. EntityAction("GET") = "read"
    BY DEF EntityAction
  <2>2. ASSUME NEW h \in Rows, NEW r, r = Checked("items", h[1], h[2], "ItemCompletion")
        PROVE  r.handler = h[1] /\ r.policy = {<<"read", "ItemCompletion">>}
    BY <2>1, <2>2, RouteFields DEF Checked
  <2> QED
    BY <2>2 DEF Each
<1>5. ItemsRoutes = Crud("items", "TrainingItem") \cup {Public(r) : r \in open} \cup Each("items", "ItemCompletion", Rows)
  BY <1>1 DEF ItemsRoutes
<1> QED
  BY <1>2, <1>3, <1>4, <1>5 DEF WritingGets

\* Who gets to them may read the statistics of trainings.
LEMMA AdmittedReaders ==
    ASSUME NEW route \in WritingGets, NEW bearer, NEW claims, Admitted(route, bearer, claims), ~route.public
    PROVE  /\ route.handler = "getItemCompletionsSummary"
           /\ "read:training-stats" \in Caller(bearer, claims).permissions
<1>1. PICK user : user = Caller(bearer, claims)
  OBVIOUS
<1>2. route.handler = "getItemCompletionsSummary" /\ route.policy = {<<"read", "ItemCompletion">>}
  BY WritingGetsAsk
<1>3. Satisfied(user, <<"read", "ItemCompletion">>)
  BY <1>1, <1>2 DEF Admitted, PoliciesGuard
<1>4. May(user, "read", "ItemCompletion")
  BY <1>3 DEF Satisfied
<1> QED
  BY <1>1, <1>2, <1>4, MayReadCompletions

-----------------------------------------------------------------------------
(* Requests under way have passed the guards. *)

GuardsPassed ==
    /\ session \in DOMAIN Sessions
    /\ request = [c \in Clients |-> request[c]]
    /\ \A c \in Clients :
        request[c].pc # "idle" =>
            /\ request[c].ask \in Asks
            /\ Admitted(request[c].ask.route, request[c].ask.bearer, request[c].ask.claims)

\* A step leaves a request alone, answers it, takes it on, or begins a new one.
LEMMA RequestsProceed ==
    ASSUME GuardsPassed, [Next]_vars, NEW c \in Clients
    PROVE  /\ session' = session /\ request' = [d \in Clients |-> request'[d]]
           /\ \/ request'[c] = request[c] \/ request'[c].pc = "idle"
              \/ request[c].pc # "idle" /\ request'[c].ask = request[c].ask
              \/ \E ask \in Passing[session] : request'[c].ask = ask
<1> DEFINE Proceeds ==
        /\ session' = session /\ request' = [d \in Clients |-> request'[d]]
        /\ \/ request'[c] = request[c] \/ request'[c].pc = "idle"
           \/ request[c].pc # "idle" /\ request'[c].ask = request[c].ask
           \/ \E ask \in Passing[session] : request'[c].ask = ask
<1>1. ASSUME NEW d \in Clients, Answer(d), session' = session
      PROVE  Proceeds
  BY <1>1 DEF GuardsPassed, Answer, Idle
<1>2. ASSUME NEW d \in Clients, NEW pc, NEW org, Go(d, pc, org), request[d].pc # "idle", session' = session
      PROVE  Proceeds
  BY <1>2 DEF GuardsPassed, Go, Served
<1>3. ASSUME UNCHANGED <<session, request>>
      PROVE  Proceeds
  BY <1>3 DEF GuardsPassed
<1>4. ASSUME NEW d \in Clients, NEW ask \in Passing[session], Ask(d, ask)
      PROVE  Proceeds
  BY <1>4 DEF GuardsPassed, Ask, Served
<1> HIDE DEF Proceeds
<1>5. ASSUME NEW d \in Clients, ValidateOrganizationId(d)
      PROVE  Proceeds
  <2>1. request[d].pc # "idle" /\ session' = session
    BY <1>5 DEF ValidateOrganizationId, At
  <2>2. \/ Go(d, "query", First(d)) \/ Go(d, "query", E!Cached(User(d)))
        \/ Answer(d) \/ Go(d, "select", NoOrg)
    BY <1>5 DEF ValidateOrganizationId
  <2> QED
    BY <1>1, <1>2, <2>1, <2>2
<1>6. ASSUME NEW d \in Clients, SelectOrganization(d)
      PROVE  Proceeds
  <2>1. request[d].pc # "idle" /\ session' = session
    BY <1>6 DEF SelectOrganization
  <2>2. Answer(d) \/ Go(d, "fill", E!LookUp(User(d).organization))
    BY <1>6 DEF SelectOrganization
  <2> QED
    BY <1>1, <1>2, <2>1, <2>2
<1>7. ASSUME NEW d \in Clients, FillCache(d)
      PROVE  Proceeds
  BY <1>2, <1>7 DEF FillCache
<1>8. ASSUME NEW d \in Clients, LookForSubmission(d)
      PROVE  Proceeds
  <2>1. request[d].pc # "idle" /\ session' = session /\ (Answer(d) \/ Go(d, "statement", NoOrg))
    BY <1>8 DEF LookForSubmission, At
  <2> QED
    BY <1>1, <1>2, <2>1
<1>9. ASSUME NEW d \in Clients,
             StateNote(d) \/ RemoveSubmission(d) \/ Query(d) \/ ChangeEnrollments(d) \/ Handle(d)
      PROVE  Proceeds
  <2>1. Answer(d) /\ session' = session
    BY <1>9 DEF StateNote, RemoveSubmission, Query, ChangeEnrollments, Handle
  <2> QED
    BY <1>1, <2>1
<1>10. ASSUME OrganizationsChange
       PROVE  Proceeds
  BY <1>3, <1>10 DEF OrganizationsChange
<1>11. ASSUME UNCHANGED vars
       PROVE  Proceeds
  BY <1>3, <1>11 DEF vars
<1>12. Proceeds
  BY <1>4, <1>5, <1>6, <1>7, <1>8, <1>9, <1>10, <1>11 DEF Next
<1> QED
  BY <1>12 DEF Proceeds

(* Every request that a handler works on has passed the guards: no step but *)
(* the next request of a client changes who asks or what for.               *)
LEMMA GuardsPassedAlways == Spec => []GuardsPassed
<1>1. Init => GuardsPassed
  BY DEF Init, GuardsPassed, Idle
<1>2. ASSUME GuardsPassed, [Next]_vars
      PROVE  GuardsPassed'
  <2>1. session' = session /\ session \in DOMAIN Sessions
    <3>1. CASE Clients = {}
      <4>1. session' = session
        BY <1>2, <3>1 DEF Next, OrganizationsChange, vars
      <4> QED
        BY <1>2, <4>1 DEF GuardsPassed
    <3>2. CASE Clients # {}
      BY <1>2, <3>2, RequestsProceed DEF GuardsPassed
    <3> QED
      BY <3>1, <3>2
  <2>2. request' = [d \in Clients |-> request'[d]]
    <3>1. CASE Clients = {}
      BY <1>2, <3>1 DEF GuardsPassed, Next, OrganizationsChange, vars
    <3>2. CASE Clients # {}
      BY <1>2, <3>2, RequestsProceed
    <3> QED
      BY <3>1, <3>2
  <2>3. ASSUME NEW c \in Clients, request'[c].pc # "idle"
        PROVE  /\ request'[c].ask \in Asks
               /\ Admitted(request'[c].ask.route, request'[c].ask.bearer, request'[c].ask.claims)
    <3>1. CASE request'[c] = request[c] \/ (request[c].pc # "idle" /\ request'[c].ask = request[c].ask)
      BY <1>2, <2>3, <3>1 DEF GuardsPassed
    <3>2. ASSUME NEW ask \in Passing[session], request'[c].ask = ask
          PROVE  /\ request'[c].ask \in Asks
                 /\ Admitted(request'[c].ask.route, request'[c].ask.bearer, request'[c].ask.claims)
      BY <2>1, <3>2 DEF Passing, Asks
    <3> QED
      BY <1>2, <2>3, <3>1, <3>2, RequestsProceed
  <2> QED
    BY <2>1, <2>2, <2>3 DEF GuardsPassed
<1> QED
  BY <1>1, <1>2, PTL DEF Spec

(* A caller without a permission to write reaches no handler that changes   *)
(* a row, but for the public routes, the notes of tips, and the GET of the  *)
(* summary of completions, which is for those who may read the statistics   *)
(* of trainings (PoliciesGuard, CaslAbilityFactory), whatever the asks and  *)
(* the sessions are.                                                        *)
THEOREM ChangesNeedPermission == Spec => []ChangesArePermitted
<1>1. ASSUME GuardsPassed
      PROVE  ChangesArePermitted
  <2>1. ASSUME NEW c \in Clients, Reached(c)
        PROVE  /\ request[c].ask.route \in AllRoutes
               /\ Admitted(request[c].ask.route, request[c].ask.bearer, request[c].ask.claims)
    BY <1>1, <2>1, AsksAssumption DEF GuardsPassed, Reached
  <2>2. ASSUME NEW c \in Clients, Reached(c), ~Unguarded(request[c].ask.route)
        PROVE  User(c).permissions \cap Writing # {}
    <3>1. PICK ask : ask = request[c].ask
      OBVIOUS
    <3> QED
      BY <2>1, <2>2, <3>1, AdmittedWriters DEF User
  <2>3. ASSUME NEW c \in Clients, Reached(c), request[c].ask.route \in WritingGets, ~request[c].ask.route.public
        PROVE  Handler(c) = "getItemCompletionsSummary" /\ "read:training-stats" \in User(c).permissions
    <3>1. PICK ask : ask = request[c].ask
      OBVIOUS
    <3> QED
      BY <2>1, <2>3, <3>1, AdmittedReaders DEF User, Handler
  <2> QED
    BY <2>2, <2>3 DEF ChangesArePermitted, Changes, Unguarded, Handler, Writing
<1> QED
  BY <1>1, GuardsPassedAlways, PTL

-----------------------------------------------------------------------------
(* The queries by which a client walks through the enrollments. *)

\* The naturals are well-founded, as a fact without an operator.
LEMMA LessOnNat ==
    \E R : IsWellFoundedOn(R, Nat) /\ \A x, y \in Nat : y < x => <<y, x>> \in R
<1> DEFINE R == OpToRel(<, Nat)
<1>1. IsWellFoundedOn(R, Nat)
  BY NatLessThanWellFounded
<1>2. \A x, y \in Nat : y < x => <<y, x>> \in R
  BY DEF OpToRel
<1> HIDE DEF R
<1> QED
  BY <1>1, <1>2

LEMMA LeastNatural ==
    ASSUME NEW T, T \subseteq Nat, T # {}
    PROVE  \E x \in T : \A y \in T : x <= y
<1>1. PICK R : IsWellFoundedOn(R, Nat) /\ \A x, y \in Nat : y < x => <<y, x>> \in R
  BY LessOnNat
<1>2. PICK x \in T : \A y \in T : ~(<<y, x>> \in R)
  BY <1>1, WFMin
<1>3. ASSUME NEW y \in T PROVE x <= y
  <2>1. x \in Nat /\ y \in Nat
    OBVIOUS
  <2>2. ~(y < x)
    BY <1>1, <1>2, <2>1
  <2> QED
    BY <2>1, <2>2
<1> QED
  BY <1>3

\* Of dated enrollments one is the first to start, and the last if something bounds them.
LEMMA FirstToStart ==
    ASSUME NEW es, es # {}, \A e \in es : E!Dated(e)
    PROVE  \E e \in es : \A f \in es : rows[e].start <= rows[f].start
<1>1. \A e \in es : rows[e].start \in Nat
  BY DatesAssumption DEF E!Dated
<1>2. PICK T : T = {rows[e].start : e \in es}
  OBVIOUS
<1>3. PICK x \in T : \A y \in T : x <= y
  BY <1>1, <1>2, LeastNatural
<1> QED
  BY <1>2, <1>3

LEMMA LastToStart ==
    ASSUME NEW es, es # {}, \A e \in es : E!Dated(e),
           NEW bound \in Nat, \A e \in es : rows[e].start <= bound
    PROVE  \E e \in es : \A f \in es : rows[e].start >= rows[f].start
<1>1. \A e \in es : rows[e].start \in Nat
  BY DatesAssumption DEF E!Dated
<1>2. PICK T : T = {bound - rows[e].start : e \in es}
  OBVIOUS
<1>3. T \subseteq Nat /\ T # {}
  BY <1>1, <1>2
<1>4. PICK x \in T : \A y \in T : x <= y
  BY <1>3, LeastNatural
<1>5. PICK e \in es : x = bound - rows[e].start
  BY <1>2
<1>6. ASSUME NEW f \in es
      PROVE  rows[e].start >= rows[f].start
  <2>1. bound - rows[e].start <= bound - rows[f].start
    BY <1>2, <1>4, <1>5
  <2> QED
    BY <1>1, <2>1
<1> QED
  BY <1>6

\* Rows of one course that no two of start together.
Ordered(es) ==
    \A e, f \in es : E!Dated(e) /\ (rows[e].start = rows[f].start => e = f)

After(es, e) == {f \in es \ {e} : rows[f].start >= rows[e].start}

Before(es, e) == {f \in es \ {e} : rows[f].start <= rows[e].start}

Firsts(es) == {f \in es : E!Earliest(f, es)}

Lasts(es) == {f \in es : E!Last(f, es)}

\* What Earliest and Last say when every row has a date.
LEMMA RanksOfDated ==
    ASSUME NEW es, \A e \in es : E!Dated(e), NEW e \in es
    PROVE  /\ E!Earliest(e, es) <=> \A f \in es : rows[e].start <= rows[f].start
           /\ E!Last(e, es) <=> \A f \in es : rows[e].start >= rows[f].start
BY DEF E!Earliest, E!Last

LEMMA WalkAgrees ==
    ASSUME NEW es, Ordered(es), NEW e \in es,
           NEW after, after = After(es, e),
           NEW before, before = Before(es, e)
    PROVE  /\ E!Last(e, es) <=> Firsts(after) = {}
           /\ E!Earliest(e, es) <=> Lasts(before) = {}
           /\ E!Last(e, es) <=> Lasts(es) = {e}
<1>1. /\ \A f \in es : E!Dated(f) /\ rows[f].start \in Nat
      /\ after \subseteq es /\ before \subseteq es
  BY DatesAssumption DEF Ordered, E!Dated, After, Before
<1>2. E!Last(e, es) <=> after = {}
  <2>1. E!Last(e, es) <=> \A f \in es : rows[e].start >= rows[f].start
    BY <1>1, RanksOfDated
  <2> QED
    BY <1>1, <2>1 DEF Ordered, After
<1>3. E!Earliest(e, es) <=> before = {}
  <2>1. E!Earliest(e, es) <=> \A f \in es : rows[e].start <= rows[f].start
    BY <1>1, RanksOfDated
  <2> QED
    BY <1>1, <2>1 DEF Ordered, Before
<1>4. ASSUME after # {}
      PROVE  Firsts(after) # {}
  <2>1. PICK f \in after : \A g \in after : rows[f].start <= rows[g].start
    BY <1>1, <1>4, FirstToStart
  <2>2. E!Earliest(f, after)
    BY <1>1, <2>1, RanksOfDated
  <2> QED
    BY <2>2 DEF Firsts
<1>5. ASSUME before # {}
      PROVE  Lasts(before) # {}
  <2>1. PICK f \in before : \A g \in before : rows[f].start >= rows[g].start
    <3>1. \A g \in before : rows[g].start <= rows[e].start
      BY DEF Before
    <3> QED
      BY <1>1, <1>5, <3>1, LastToStart
  <2>2. E!Last(f, before)
    BY <1>1, <2>1, RanksOfDated
  <2> QED
    BY <2>2 DEF Lasts
<1>6. ASSUME NEW f \in es, E!Last(f, es), E!Last(e, es)
      PROVE  f = e
  <2>1. rows[f].start >= rows[e].start /\ rows[e].start >= rows[f].start
    BY <1>1, <1>6, RanksOfDated
  <2> QED
    BY <1>1, <2>1 DEF Ordered
<1> QED
  BY <1>2, <1>3, <1>4, <1>5, <1>6 DEF Firsts, Lasts

\* Back from the next row is where the walk came from.
LEMMA BackFromNext ==
    ASSUME NEW es, Ordered(es), NEW e \in es,
           NEW after, after = After(es, e),
           NEW f \in after, E!Earliest(f, after),
           NEW before, before = Before(es, f)
    PROVE  Lasts(before) = {e}
<1>1. /\ \A g \in es : E!Dated(g) /\ rows[g].start \in Nat
      /\ after \subseteq es /\ before \subseteq es
  BY DatesAssumption DEF Ordered, E!Dated, After, Before
<1>2. e \in before
  BY <1>1 DEF After, Before
<1>3. ASSUME NEW g \in before
      PROVE  rows[e].start >= rows[g].start
  <2>1. CASE g \in after
    <3>1. rows[f].start <= rows[g].start
      BY <1>1, <2>1, RanksOfDated
    <3>2. rows[f].start = rows[g].start
      BY <1>1, <1>3, <3>1 DEF Before
    <3> QED
      BY <1>1, <1>3, <3>2 DEF Ordered, Before
  <2>2. CASE g \notin after
    BY <1>1, <1>3, <2>2 DEF After, Before
  <2> QED
    BY <2>1, <2>2
<1>4. E!Last(e, before)
  BY <1>1, <1>2, <1>3, RanksOfDated
<1>5. ASSUME NEW g \in before, E!Last(g, before)
      PROVE  g = e
  <2>1. rows[g].start >= rows[e].start
    BY <1>1, <1>2, <1>5, RanksOfDated
  <2> QED
    BY <1>1, <1>2, <1>3, <2>1 DEF Ordered
<1> QED
  BY <1>2, <1>4, <1>5 DEF Lasts

\* The queries in order, in terms of one set of rows.
LEMMA QueriesInOrder ==
    ASSUME NEW org \in Orgs, NEW course \in Courses, NEW hidden \in BOOLEAN,
           E!InOrder(org, course, hidden), NEW e \in E!Of(org, course)
    PROVE  LET es == E!Of(org, course) IN
           /\ Ordered(es)
           /\ E!Relative(e, org, hidden).found
           /\ E!Relative(e, org, hidden).latest <=> E!Last(e, es)
           /\ E!Relative(e, org, hidden).earliest <=> E!Earliest(e, es)
           /\ E!Latest(org, course, hidden, FALSE) = Lasts(es)
           /\ E!Adjacent(e, org, TRUE, hidden) = Firsts(After(es, e))
           /\ E!Adjacent(e, org, FALSE, hidden) = Lasts(Before(es, e))
<1> DEFINE es == E!Of(org, course)
<1>1. Ordered(es) /\ E!Shown(org, course, hidden) = es
  BY DEF E!InOrder, Ordered
<1>2. rows[e].course = course
  BY DEF E!Of
<1>3. E!Dated(e) /\ \A f \in es : E!Dated(f)
  BY <1>1 DEF Ordered
<1>4. /\ E!Relative(e, org, hidden).found
      /\ E!Relative(e, org, hidden).latest <=> E!Last(e, es)
      /\ E!Relative(e, org, hidden).earliest <=> E!Earliest(e, es)
  BY <1>1, <1>2, <1>3 DEF E!Relative
<1>5. ASSUME NEW current \in BOOLEAN, ~current
      PROVE  E!Latest(org, course, hidden, current) = Lasts(es)
  <2>1. PICK ranked : ranked = {f \in E!Shown(org, course, hidden) :
                                  current => E!Dated(f) /\ rows[f].start <= Today}
    OBVIOUS
  <2>2. ranked = es
    BY <1>1, <1>5, <2>1
  <2>3. {f \in ranked : ~E!Dated(f)} = {}
    BY <1>3, <2>2
  <2> QED
    BY <2>1, <2>2, <2>3 DEF E!Latest, Lasts
<1>6. ASSUME NEW forward \in BOOLEAN
      PROVE  /\ forward => E!Adjacent(e, org, forward, hidden) = Firsts(After(es, e))
             /\ ~forward => E!Adjacent(e, org, forward, hidden) = Lasts(Before(es, e))
  <2>1. PICK beyond : beyond = {f \in E!Of(org, course) \ {e} :
                    /\ E!Dated(f)
                    /\ IF forward THEN rows[f].start >= rows[e].start
                       ELSE rows[f].start <= rows[e].start}
    OBVIOUS
  <2>2. E!Adjacent(e, org, forward, hidden) =
            {f \in beyond : IF forward THEN E!Earliest(f, beyond) ELSE E!Last(f, beyond)}
    BY <1>1, <1>2, <1>3, <2>1 DEF E!Adjacent
  <2>3. CASE forward
    <3>1. beyond = After(es, e)
      BY <1>3, <2>1, <2>3 DEF After
    <3> QED
      BY <2>2, <2>3, <3>1 DEF Firsts
  <2>4. CASE ~forward
    <3>1. beyond = Before(es, e)
      BY <1>3, <2>1, <2>4 DEF Before
    <3> QED
      BY <2>2, <2>4, <3>1 DEF Lasts
  <2> QED
    BY <2>3, <2>4
<1>7. /\ TRUE \in BOOLEAN /\ FALSE \in BOOLEAN /\ TRUE /\ ~FALSE
  OBVIOUS
<1>8. E!Latest(org, course, hidden, FALSE) = Lasts(es)
  BY <1>5, <1>7, Zenon
<1>9. /\ E!Adjacent(e, org, TRUE, hidden) = Firsts(After(es, e))
      /\ E!Adjacent(e, org, FALSE, hidden) = Lasts(Before(es, e))
  BY <1>6, <1>7, Zenon
<1> QED
  BY <1>1, <1>4, <1>8, <1>9, Zenon

LEMMA QueriesAgreeHere == QueriesAgree
<1>1. ASSUME NEW org \in Orgs, NEW course \in Courses, NEW hidden \in BOOLEAN,
             E!InOrder(org, course, hidden), NEW e \in E!Of(org, course)
      PROVE  /\ E!Relative(e, org, hidden).found
             /\ E!Relative(e, org, hidden).latest <=> E!Adjacent(e, org, TRUE, hidden) = {}
             /\ E!Relative(e, org, hidden).earliest <=> E!Adjacent(e, org, FALSE, hidden) = {}
             /\ E!Relative(e, org, hidden).latest <=> E!Latest(org, course, hidden, FALSE) = {e}
             /\ \A f \in E!Adjacent(e, org, TRUE, hidden) : E!Adjacent(f, org, FALSE, hidden) = {e}
  <2> DEFINE es == E!Of(org, course)
  <2>1. e \in es
    BY <1>1
  <2>2. /\ Ordered(es)
        /\ E!Relative(e, org, hidden).found
        /\ E!Relative(e, org, hidden).latest <=> E!Last(e, es)
        /\ E!Relative(e, org, hidden).earliest <=> E!Earliest(e, es)
        /\ E!Latest(org, course, hidden, FALSE) = Lasts(es)
        /\ E!Adjacent(e, org, TRUE, hidden) = Firsts(After(es, e))
        /\ E!Adjacent(e, org, FALSE, hidden) = Lasts(Before(es, e))
    BY <1>1, QueriesInOrder, Zenon
  <2>3. Ordered(es)
    BY <2>2, Zenon
  <2>4. /\ E!Last(e, es) <=> Firsts(After(es, e)) = {}
        /\ E!Earliest(e, es) <=> Lasts(Before(es, e)) = {}
        /\ E!Last(e, es) <=> Lasts(es) = {e}
    BY <2>1, <2>3, WalkAgrees
  <2>5. ASSUME NEW f \in Firsts(After(es, e))
        PROVE  E!Adjacent(f, org, FALSE, hidden) = {e}
    <3>1. f \in After(es, e) /\ f \in es /\ E!Earliest(f, After(es, e))
      BY DEF Firsts, After
    <3>2. E!Adjacent(f, org, FALSE, hidden) = Lasts(Before(es, f))
      BY <1>1, <3>1, QueriesInOrder, Zenon
    <3>3. Lasts(Before(es, f)) = {e}
      BY <2>1, <2>3, <3>1, BackFromNext
    <3> QED
      BY <3>2, <3>3, Zenon
  <2> QED
    BY <2>2, <2>4, <2>5, Zenon
<1> QED
  BY <1>1, Zenon DEF QueriesAgree, E!QueriesAgree

(* The four queries about the enrollments of a course agree on one order of *)
(* them, as long as no two start together and none is hidden or undated:    *)
(* whatever the table holds (EnrollmentsService.getLatestEnrollments,       *)
(* getRelativeEnrollment, getAdjacentEnrollment).                           *)
THEOREM TheQueriesAgree == Spec => []QueriesAgree
<1>1. QueriesAgree
  BY QueriesAgreeHere
<1> QED
  BY <1>1, QueriesAgreeHere, PTL
=============================================================================
