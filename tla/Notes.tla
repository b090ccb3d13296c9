------------------------------- MODULE Notes -------------------------------
(***************************************************************************)
(* The notes on tips, threat assessments and violent incident reports.  A  *)
(* note is one row with a column per kind of submission.  Each operation   *)
(* first asks whether the caller's queries find the submission and, when   *)
(* they do not, answers all the same; the statement comes after an await.  *)
(***************************************************************************)
EXTENDS Access

CONSTANTS
    NoteIds,        \* ids of notes
    Submissions,    \* records [kind, id, unit]
    Units,          \* records [org, slug, parent]
    NoNote          \* no row with this id

VARIABLES
    notes,          \* notes[n]: the row n, or NoNote
    submitted,      \* the submissions that exist
    strayed,        \* history: notes their author edited through another submission
    stayed          \* history: notes that outlived a removal by their author, with the submission

notesVars == <<notes, submitted, strayed, stayed>>

-----------------------------------------------------------------------------
\* origin is a history: the submission the note was written on.
Note == [author : STRING, on : SUBSET Submissions, origin : Submissions]

NotesTypeOK ==
    /\ notes \in [NoteIds -> Note \cup {NoNote}]
    /\ submitted \subseteq Submissions
    /\ strayed \subseteq NoteIds
    /\ stayed \subseteq NoteIds \X Submissions

NotesInit ==
    /\ notes = [n \in NoteIds |-> NoNote]
    /\ submitted = Submissions
    /\ strayed = {}
    /\ stayed = {}

(* getQbSingle(id).getExists() *)
Exists(user, s) == s \in submitted /\ InScope(user, s.unit, Units)

\* Rows of other kinds stay: only the column of this kind is written.
Put(on, s) == {t \in on : t.kind # s.kind} \cup {s}

Owned(user, n) == notes[n] # NoNote /\ notes[n].author = user.sub

-----------------------------------------------------------------------------
(* An id of its own, as long as NoteIds has one left. *)
AddNote(user, s) ==
    /\ IF s \in submitted /\ \E n \in NoteIds : notes[n] = NoNote
       THEN \E n \in {n \in NoteIds : notes[n] = NoNote} :
                notes' = [notes EXCEPT ![n] = [author |-> user.sub, on |-> {s}, origin |-> s]]
       ELSE UNCHANGED notes
    /\ UNCHANGED <<submitted, strayed, stayed>>

Stray(user, s, n) ==
    strayed' = IF Owned(user, n) /\ notes[n].on # {s} THEN strayed \cup {n} ELSE strayed

\* A mutant: the statement does not name the author.
EditAnyNote(user, s, n) ==
    /\ IF notes[n] # NoNote /\ s \in submitted
       THEN notes' = [notes EXCEPT ![n].on = Put(@, s)] /\ Stray(user, s, n)
       ELSE UNCHANGED <<notes, strayed>>
    /\ UNCHANGED <<submitted, stayed>>

(* UPDATE ... WHERE id AND userId: the row may be on any submission. *)
EditNote(user, s, n) ==
    /\ IF Owned(user, n) /\ s \in submitted
       THEN notes' = [notes EXCEPT ![n].on = Put(@, s)] /\ Stray(user, s, n)
       ELSE UNCHANGED <<notes, strayed>>
    /\ UNCHANGED <<submitted, stayed>>

(* DELETE ... WHERE id AND userId AND the column of this kind. *)
RemoveNote(user, s, n) ==
    /\ notes' = IF Owned(user, n) /\ s \in notes[n].on THEN [notes EXCEPT ![n] = NoNote] ELSE notes
    /\ strayed' = IF notes'[n] = NoNote THEN strayed \ {n} ELSE strayed
    /\ stayed' = {p \in stayed : notes'[p[1]] # NoNote}
    /\ UNCHANGED submitted

(* The route that removes a note of a tip names both parameters tipId: the  *)
(* tip looked for has the id of the note, none is found, and the answer is  *)
(* the one of a removal.                                                    *)
Misaddressed(s) == s.kind = "tip"

Found(handler, user, s) ==
    ~(handler = "removeNote" /\ Misaddressed(s)) /\ Exists(user, s)

(* A removal answered without a statement. *)
RemoveNothing(user, s, n) ==
    /\ stayed' = IF Owned(user, n) /\ s \in notes[n].on /\ Exists(user, s)
                 THEN stayed \cup {<<n, s>>} ELSE stayed
    /\ UNCHANGED <<notes, submitted, strayed>>

(* A note's foreign keys keep a submission from being removed.  The removal *)
(* itself is not narrowed to the caller's scope.                            *)
RemoveSubmission(s) ==
    /\ submitted' = IF \E n \in NoteIds : notes[n] # NoNote /\ s \in notes[n].on
                    THEN submitted ELSE submitted \ {s}
    /\ UNCHANGED <<notes, strayed, stayed>>

-----------------------------------------------------------------------------
(* A note is on the submission it was written on and on no other, unless    *)
(* its author edited it through the URL of another one; it never outlives   *)
(* its submission; and a note that its author removed through a submission  *)
(* he sees is gone, unless the submission is a tip                          *)
(* (UsersService.editNote, removeNote, TipsController.removeNote).          *)
NotesStay ==
    /\ \A n \in NoteIds : notes[n] # NoNote =>
        /\ n \in strayed \/ notes[n].on = {notes[n].origin}
        /\ notes[n].on # {} /\ notes[n].on \subseteq submitted
    /\ \A p \in stayed : Misaddressed(p[2])
=============================================================================
