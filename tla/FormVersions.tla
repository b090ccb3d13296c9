---------------------------- MODULE FormVersions ----------------------------
(***************************************************************************)
(* Forms and what may still be changed once they are published.  A form    *)
(* has a slug, a language and a version; a draft has version 0 unless a    *)
(* client numbers it, and publishing it asks for the highest version and   *)
(* takes the next.  A published form keeps its version and its questions,  *)
(* and is not deleted, as far as the handlers see that it is published:    *)
(* each reads the form first and writes by what it read.                   *)
(*                                                                         *)
(* A field belongs to a form, to a group of a form, or to both; of a group *)
(* only the form at its root counts.  A submission answers one field.      *)
(***************************************************************************)
EXTENDS Naturals, FiniteSetsExt

CONSTANTS
    Requests,       \* requests, each served once
    Forms, Fields,  \* ids
    Slugs, Languages,
    Labels,         \* labels of fields
    Numbers,        \* versions that a dto names; 0 when it names none
    Patches,        \* what dtos of fields say
    MaxVersion,     \* bound of the versions
    NoForm,         \* no row, or no form
    NoLanguage,     \* languageId IS NULL
    NoField,        \* no field yet, or no question
    Gone,           \* the field was deleted
    Keep            \* what the dto does not name

ASSUME BoundAssumption == MaxVersion \in Nat \ {0} /\ Numbers \subseteq 0 .. MaxVersion

VARIABLES
    forms,          \* forms[f]: the row f
    field,          \* field[q]: the row of field q
    submitted,      \* forms with submissions
    answered,       \* fields with responses
    ids,            \* the ids of forms that were handed out
    request,        \* request[r]: the request r
    first,          \* history: the version with which f was first published, or 0
    asked,          \* history: the question q that was first answered once published
    overtaken,      \* history: forms published between read and write of a request
    exposed         \* history: fields that the checks do not protect, see QuestionsKept

answers == <<submitted, answered>>
rows == <<forms, field, answers, ids>>
history == <<first, asked, overtaken, exposed>>
vars == <<rows, request, history>>

-----------------------------------------------------------------------------
States == {"draft", "published"}

Form == [slug : Slugs, language : Languages \cup {NoLanguage},
         version : 0 .. MaxVersion, state : States]

\* What a dto of PATCH asks for; its version is 0 if it names none.
Changes == [slug : Slugs \cup {Keep}, language : Languages \cup {Keep},
            version : 0 .. MaxVersion, state : States \cup {Keep}]

\* none: the type is NONE, of a text that asks nothing.
Field == [form : Forms \cup {NoForm}, group : Forms \cup {NoForm},
          label : Labels, none : BOOLEAN]

FieldChanges == [form : Forms \cup {NoForm, Keep}, group : Forms \cup {NoForm, Keep},
                 label : Labels \cup {Keep}, none : BOOLEAN \cup {Keep}]

ASSUME PatchAssumption == Patches \subseteq FieldChanges

ASSUME SentinelAssumption ==
    /\ NoForm \notin Form \cup Forms
    /\ Keep \notin Slugs \cup Languages \cup States \cup Forms \cup Labels \cup {NoForm}
    /\ {NoField, Gone} \cap Field = {}
    /\ NoField # Gone

\* form, seen: the form that was read and its state; read: the fields it had.
Request == [pc : {"idle", "clone", "number", "save", "delete", "saveField",
                  "deleteField", "submit", "done"},
            form : Forms \cup {NoForm}, seen : States \cup {Keep},
            changes : Changes \cup FieldChanges \cup {NoForm},
            field : Fields \cup {NoField},
            read : [Fields -> Field \cup {NoField}]]

Nothing == [q \in Fields |-> NoField]

Resting(pc) == [pc |-> pc, form |-> NoForm, seen |-> Keep, changes |-> NoForm,
                field |-> NoField, read |-> Nothing]

\* The unique (slug, version, language), for which no NULL equals another.
Free(f, row) ==
    \A g \in Forms \ {f} :
        forms[g] # NoForm =>
            \/ forms[g].slug # row.slug
            \/ forms[g].version # row.version
            \/ forms[g].language # row.language
            \/ row.language = NoLanguage

\* The check of the table.
Versioned(row) == row.state = "published" => row.version > 0

UniqueVersions ==
    \A f \in Forms : forms[f] # NoForm => Versioned(forms[f]) /\ Free(f, forms[f])

Exists(q) == field[q] \notin {NoField, Gone}

TypeOK ==
    /\ forms \in [Forms -> Form \cup {NoForm}]
    /\ UniqueVersions
    /\ field \in [Fields -> Field \cup {NoField, Gone}]
    /\ submitted \subseteq {f \in Forms : forms[f] # NoForm}
    /\ answered \subseteq {q \in Fields : Exists(q)}
    /\ ids \subseteq Forms
    /\ request \in [Requests -> Request]
    /\ first \in [Forms -> 0 .. MaxVersion]
    /\ asked \in [Fields -> [form : Forms, label : Labels] \cup {NoField}]
    /\ overtaken \subseteq Forms
    /\ exposed \subseteq Fields

\* A form that exists at the start is a draft, or published with version 1; a
\* field is in no group yet.
Init ==
    /\ forms \in [Forms -> [slug : Slugs, language : Languages, version : {0}, state : {"draft"}]
                           \cup [slug : Slugs, language : Languages, version : {1},
                                 state : {"published"}]
                           \cup {NoForm}]
    /\ UniqueVersions
    /\ ids = {f \in Forms : forms[f] # NoForm}
    /\ field \in [Fields -> [form : ids, group : {NoForm}, label : Labels, none : BOOLEAN]
                             \cup {NoField}]
    /\ submitted = {} /\ answered = {}
    /\ request = [r \in Requests |-> Resting("idle")]
    /\ first = [f \in Forms |-> IF f \in ids THEN forms[f].version ELSE 0]
    /\ asked = [q \in Fields |-> NoField]
    /\ overtaken = {} /\ exposed = {}

-----------------------------------------------------------------------------
(* Steps of a request. *)

At(r, pc) == request[r].pc = pc

Answers(r) == request' = [request EXCEPT ![r] = Resting("done")]

\* The request goes on with form f, in the state it has now.
Reads(r, pc, f, changes) ==
    request' = [request EXCEPT ![r] =
        [Resting(pc) EXCEPT !.form = f, !.seen = forms[f].state, !.changes = changes]]

IsPublished(f) == f \in Forms /\ forms[f] # NoForm /\ forms[f].state = "published"

\* The fields of form f, of its own and in its groups.
FieldsOf(f) == {q \in Fields : Exists(q) /\ f \in {field[q].form, field[q].group}}

\* The request goes on with form f and its fields, of which one is to be answered.
ReadsAll(r, pc, f, changes, q) ==
    request' = [request EXCEPT ![r] =
        [pc |-> pc, form |-> f, seen |-> forms[f].state, changes |-> changes, field |-> q,
         read |-> [p \in Fields |-> IF p \in FieldsOf(f) THEN field[p] ELSE NoField]]]

\* The history of a write by a request that read form f: it was overtaken.
Overtakes(r) ==
    LET f == request[r].form
    IN  overtaken' = overtaken \cup
            {g \in {f} : IsPublished(f) /\ request[r].seen = "draft"}

\* Row f is written as the table allows.
Writes(f, row) ==
    /\ Versioned(row)
    /\ Free(f, row)
    /\ forms' = [forms EXCEPT ![f] = row]
    /\ ids' = ids \cup {f}
    /\ first' = IF row.state = "published" /\ first[f] = 0
                THEN [first EXCEPT ![f] = row.version] ELSE first

Refused(f, row) == ~(Versioned(row) /\ Free(f, row))

-----------------------------------------------------------------------------
(* Forms. *)

\* POST /forms, with any state and version.
Create(r, f, row) ==
    /\ At(r, "idle")
    /\ f \notin ids
    /\ row.version \in Numbers
    /\ Answers(r)
    /\ \/ Writes(f, row)
       \/ Refused(f, row) /\ UNCHANGED <<forms, ids, first>>
    /\ UNCHANGED <<field, answers, asked, overtaken, exposed>>

\* Mutant: the draft is numbered at once.
NumberedDraft(r, f, language) ==
    /\ At(r, "idle")
    /\ forms[f] # NoForm
    /\ forms[f].version < MaxVersion
    /\ ReadsAll(r, "clone", f,
                [slug |-> forms[f].slug, language |-> language,
                 version |-> forms[f].version + 1, state |-> "draft"], NoField)
    /\ UNCHANGED <<rows, history>>

\* POST /forms/:id/new-draft: the form is read with its fields.
NewDraft(r, f, language) ==
    /\ At(r, "idle")
    /\ forms[f] # NoForm
    /\ ReadsAll(r, "clone", f,
                [slug |-> forms[f].slug, language |-> language, version |-> 0,
                 state |-> "draft"], NoField)
    /\ UNCHANGED <<rows, history>>

\* What is copied: the fields of the form, and those in copies of its groups.
ToCopy(r) ==
    {c \in Fields \X {"form", "group"} :
        LET row == request[r].read[c[1]]
        IN  row # NoField /\ row[c[2]] = request[r].form}

Copy(row, side, g) == [row EXCEPT !.form = IF side = "form" THEN g ELSE NoForm,
                                  !.group = IF side = "group" THEN g ELSE NoForm]

\* The transaction of asNewDraft: the draft, and the fields with new ids.
Clone(r, g) ==
    LET row == request[r].changes
        new == {q \in Fields : field[q] = NoField}
    IN  /\ At(r, "clone")
        /\ g \notin ids
        /\ Answers(r)
        /\ \/ /\ Writes(g, row)
              /\ \E origin \in [new -> ToCopy(r) \cup {NoField}] :
                    /\ \A c \in ToCopy(r) : \E q \in new :
                            \A p \in new : origin[p] = c <=> p = q
                    /\ field' = [q \in Fields |->
                          IF q \in new /\ origin[q] # NoField
                          THEN Copy(request[r].read[origin[q][1]], origin[q][2], g)
                          ELSE field[q]]
           \/ Refused(g, row) /\ UNCHANGED <<forms, ids, first, field>>
        /\ UNCHANGED <<answers, asked, overtaken, exposed>>

\* Of a published form the version stays.
Validated(f, c) ==
    IF IsPublished(f) THEN [c EXCEPT !.version = forms[f].version] ELSE c

\* PATCH /forms/:id: the form is read and the changes are validated.
Update(r, f, c) ==
    /\ At(r, "idle")
    /\ forms[f] # NoForm
    /\ \/ IsPublished(f) /\ c.state = "draft" /\ Answers(r)
       \/ /\ ~(IsPublished(f) /\ c.state = "draft")
          /\ LET numbers == ~IsPublished(f) /\ c.slug # Keep /\ c.state = "published"
             IN  Reads(r, IF numbers THEN "number" ELSE "save", f, Validated(f, c))
    /\ UNCHANGED <<rows, history>>

\* The versions of a slug in a language, or in all when the dto names none.
VersionsOf(slug, language) ==
    {forms[g].version : g \in {h \in Forms : /\ forms[h] # NoForm
                                             /\ forms[h].slug = slug
                                             /\ language \in {Keep, forms[h].language}}}

\* previousForm.version + 1, or 1.
NextVersion(c) == Max({0} \cup VersionsOf(c.slug, c.language)) + 1

Number(r) ==
    LET c == request[r].changes
    IN  /\ At(r, "number")
        /\ NextVersion(c) \in 1 .. MaxVersion
        /\ request' = [request EXCEPT ![r].pc = "save", ![r].changes.version = NextVersion(c)]
        /\ UNCHANGED <<rows, history>>

\* What save writes: the changes over the row there is now; over none, a new row,
\* which needs a slug.
Patched(row, c) ==
    [slug |-> IF c.slug = Keep THEN row.slug ELSE c.slug,
     language |-> IF c.language # Keep THEN c.language
                  ELSE IF row = NoForm THEN NoLanguage ELSE row.language,
     version |-> c.version,
     state |-> IF c.state # Keep THEN c.state
               ELSE IF row = NoForm THEN "draft" ELSE row.state]

Save(r) ==
    LET f == request[r].form
        c == request[r].changes
    IN  /\ At(r, "save")
        /\ Answers(r)
        /\ \/ /\ forms[f] = NoForm /\ c.slug = Keep
              /\ UNCHANGED <<forms, ids, first, overtaken>>
           \/ /\ forms[f] # NoForm \/ c.slug # Keep
              /\ Writes(f, Patched(forms[f], c))
              /\ Overtakes(r)
           \/ /\ forms[f] # NoForm \/ c.slug # Keep
              /\ Refused(f, Patched(forms[f], c))
              /\ UNCHANGED <<forms, ids, first, overtaken>>
        /\ UNCHANGED <<field, answers, asked, exposed>>

\* Mutant: no beforeRemove.
UncheckedRemove(r, f) ==
    /\ At(r, "idle")
    /\ forms[f] # NoForm
    /\ Reads(r, "delete", f, NoForm)
    /\ UNCHANGED <<rows, history>>

\* DELETE /forms/:id: beforeRemove refuses a published form.
Remove(r, f) ==
    /\ At(r, "idle")
    /\ forms[f] # NoForm
    /\ \/ IsPublished(f) /\ Answers(r)
       \/ ~IsPublished(f) /\ Reads(r, "delete", f, NoForm)
    /\ UNCHANGED <<rows, history>>

\* A form with a submission, or with a field that was answered, cannot go; its
\* fields go with it.
Delete(r) ==
    LET f == request[r].form
        stays == f \in submitted \/ FieldsOf(f) \cap answered # {}
    IN  /\ At(r, "delete")
        /\ Answers(r)
        /\ \/ /\ ~stays
              /\ forms' = [forms EXCEPT ![f] = NoForm]
              /\ field' = [q \in Fields |-> IF q \in FieldsOf(f) THEN Gone ELSE field[q]]
              /\ Overtakes(r)
           \/ stays /\ UNCHANGED <<forms, field, overtaken>>
        /\ UNCHANGED <<answers, ids, first, asked, exposed>>

-----------------------------------------------------------------------------
(* Fields. *)

\* The form whose state is looked at: of a field in a group, the group's.
Guard(q) == IF field[q].group # NoForm THEN field[q].group ELSE field[q].form

\* The label and the type of field q cannot be altered.
Fixed(q) == ~field[q].none /\ IsPublished(Guard(q))

\* Somebody may be asked q in a published form.
Shown(q) == \E f \in {field[q].form, field[q].group} : IsPublished(f)

ReadsField(r, pc, q, changes) ==
    request' = [request EXCEPT ![r] =
        [Resting(pc) EXCEPT !.form = Guard(q), !.changes = changes, !.field = q,
                            !.seen = IF Fixed(q) THEN "published" ELSE "draft"]]

Either(old, new) == IF new = Keep THEN old ELSE new

Applied(row, c) == [form |-> Either(row.form, c.form), group |-> Either(row.group, c.group),
                    label |-> Either(row.label, c.label), none |-> Either(row.none, c.none)]

NewField(c) == Applied([form |-> NoForm, group |-> NoForm, label |-> c.label, none |-> FALSE], c)

\* The foreign keys of what a dto names.
Refers(c) == \A f \in {c.form, c.group} \cap Forms : forms[f] # NoForm

\* POST /forms/fields: nothing asks whether the form is published.
AddField(r, q, c) ==
    /\ At(r, "idle")
    /\ field[q] = NoField
    /\ c.label # Keep /\ {c.form, c.group} \cap Forms # {}
    /\ field' = IF Refers(c) THEN [field EXCEPT ![q] = NewField(c)] ELSE field
    /\ Answers(r)
    /\ UNCHANGED <<forms, answers, ids, history>>

\* Mutant: the label may be altered as the other values may.
UncheckedUpdateField(r, q, c) ==
    /\ At(r, "idle")
    /\ Exists(q)
    /\ ReadsField(r, "saveField", q, c)
    /\ UNCHANGED <<rows, history>>

\* PATCH /forms/fields/:id: label and type cannot be altered once the form is
\* published, unless the type is NONE; the form and the group are not compared.
UpdateField(r, q, c) ==
    LET alters == \/ c.label \notin {Keep, field[q].label}
                  \/ c.none \notin {Keep, field[q].none}
    IN  /\ At(r, "idle")
        /\ Exists(q)
        /\ \/ Fixed(q) /\ alters /\ Answers(r)
           \/ ~(Fixed(q) /\ alters) /\ ReadsField(r, "saveField", q, c)
        /\ UNCHANGED <<rows, history>>

\* The history of a save that the check did not cover.
Exposes(r, q, row) ==
    exposed' = exposed \cup
        {p \in {q} : \/ field[q] = Gone
                     \/ Fixed(q) /\ (request[r].seen # "published" \/ request[r].form # Guard(q))
                     \/ Shown(q) /\ <<row.form, row.group>> # <<field[q].form, field[q].group>>}

\* A field that was deleted meanwhile is inserted anew.
SaveField(r) ==
    LET q == request[r].field
        c == request[r].changes
        row == IF field[q] = Gone THEN NewField(c) ELSE Applied(field[q], c)
        stored == Refers(c) /\ (field[q] = Gone => c.label # Keep)
    IN  /\ At(r, "saveField")
        /\ Answers(r)
        /\ \/ stored /\ field' = [field EXCEPT ![q] = row] /\ Exposes(r, q, row)
           \/ ~stored /\ UNCHANGED <<field, exposed>>
        /\ UNCHANGED <<forms, answers, ids, first, asked, overtaken>>

\* DELETE /forms/fields/:id
RemoveField(r, q) ==
    /\ At(r, "idle")
    /\ Exists(q)
    /\ \/ IsPublished(Guard(q)) /\ Answers(r)
       \/ ~IsPublished(Guard(q)) /\ ReadsField(r, "deleteField", q, NoForm)
    /\ UNCHANGED <<rows, history>>

\* A field that was answered cannot go.
DeleteField(r) ==
    LET q == request[r].field
    IN  /\ At(r, "deleteField")
        /\ Answers(r)
        /\ field' = IF q \in answered THEN field ELSE [field EXCEPT ![q] = Gone]
        /\ UNCHANGED <<forms, answers, ids, history>>

\* PATCH /forms/groups/:id: nothing asks whether a form is published; the fields
\* of the group come along.
MoveGroup(r, f, g) ==
    /\ At(r, "idle")
    /\ f # g /\ forms[g] # NoForm
    /\ \E group \in SUBSET {q \in Fields : Exists(q) /\ field[q].group = f} :
          /\ group # {}
          /\ field' = [q \in Fields |->
                IF q \in group THEN [field[q] EXCEPT !.group = g] ELSE field[q]]
          /\ exposed' = exposed \cup {q \in group : Shown(q)}
    /\ Answers(r)
    /\ UNCHANGED <<forms, answers, ids, first, asked, overtaken>>

-----------------------------------------------------------------------------
(* Submissions. *)

\* validateSubmission reads the form with its fields.
Submit(r, f, q) ==
    /\ At(r, "idle")
    /\ forms[f] # NoForm
    /\ q \in FieldsOf(f)
    /\ ReadsAll(r, "submit", f, NoForm, q)
    /\ UNCHANGED <<rows, history>>

\* The transaction: the submission, its uploads, the submission again.
SaveSubmission(r) ==
    LET f == request[r].form
        q == request[r].field
        there == forms[f] # NoForm /\ Exists(q)
        row == request[r].read[q]
        counts == asked[q] = NoField /\ request[r].seen = "published" /\ ~row.none
    IN  /\ At(r, "submit")
        /\ Answers(r)
        /\ \/ /\ there
              /\ submitted' = submitted \cup {f}
              /\ answered' = answered \cup {q}
              /\ asked' = IF counts THEN [asked EXCEPT ![q] = [form |-> f, label |-> row.label]]
                          ELSE asked
              /\ exposed' = exposed \cup {p \in {q} : counts /\ Guard(q) # f}
           \/ ~there /\ UNCHANGED <<answers, asked, exposed>>
        /\ UNCHANGED <<forms, field, ids, first, overtaken>>

\* The process, PostgreSQL or an upload fails: a transaction is rolled back.
Fail(r) ==
    /\ request[r].pc \notin {"idle", "done"}
    /\ Answers(r)
    /\ UNCHANGED <<rows, history>>

-----------------------------------------------------------------------------
ServesForm(r, f) ==
    \/ \E row \in Form : row.language # NoLanguage /\ Create(r, f, row)
    \/ \E language \in Languages : NewDraft(r, f, language)
    \/ Clone(r, f)
    \/ \E c \in Changes : c.version \in Numbers /\ Update(r, f, c)
    \/ Remove(r, f)

ServesField(r, q) ==
    \/ \E c \in Patches : AddField(r, q, c) \/ UpdateField(r, q, c)
    \/ RemoveField(r, q)
    \/ \E f \in Forms : Submit(r, f, q)

Proceeds(r) ==
    \/ Number(r) \/ Save(r) \/ Delete(r) \/ SaveField(r) \/ DeleteField(r)
    \/ SaveSubmission(r) \/ Fail(r)

Next ==
    \E r \in Requests :
        \/ Proceeds(r)
        \/ \E f \in Forms : ServesForm(r, f) \/ \E g \in Forms : MoveGroup(r, f, g)
        \/ \E q \in Fields : ServesField(r, q)

Spec == Init /\ [][Next]_vars

-----------------------------------------------------------------------------
(* Properties. *)

(* "Form cannot be changed from published to draft" and "Cannot delete      *)
(* published form": a form that was published stays, with the version it    *)
(* got, unless a request that had read the draft wrote after that.          *)
PublishedForGood ==
    \A f \in Forms :
        first[f] > 0 => \/ IsPublished(f) /\ forms[f].version = first[f]
                        \/ f \in overtaken

(* Answers keep their questions: a field that was answered in a published   *)
(* form is there, with the label that was read, unless the form was         *)
(* overtaken by a request that had read the draft, or the checks did not    *)
(* cover the field: a PATCH that had read it in a draft, in another form or *)
(* as of type NONE overtook, or inserted it anew; a PATCH gave it or its    *)
(* group another form; or the form is not its group's, which alone counts.  *)
QuestionsKept ==
    \A q \in Fields :
        asked[q] # NoField =>
            \/ /\ q \in FieldsOf(asked[q].form)
               /\ field[q].label = asked[q].label
            \/ asked[q].form \in overtaken
            \/ q \in exposed

\* The forms of a slug and a language, the last version first.
Latest(slug, language) ==
    LET versions == {g \in Forms : /\ forms[g] # NoForm
                                   /\ forms[g].slug = slug
                                   /\ forms[g].language = language}
    IN  {g \in versions : \A h \in versions : forms[h].version <= forms[g].version}

(* findAllLatestByLanguage looks at the highest version only: where a form  *)
(* is published it finds a published one, unless a client numbered a draft  *)
(* or a form was overtaken.                                                 *)
LatestIsPublished ==
    \A slug \in Slugs, language \in Languages :
        (\E f \in Forms : IsPublished(f) /\ forms[f].slug = slug
                          /\ forms[f].language = language)
        => \A g \in Latest(slug, language) :
              IsPublished(g) \/ forms[g].version \in Numbers \ {0} \/ g \in overtaken
=============================================================================
