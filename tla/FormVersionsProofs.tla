-------------------------- MODULE FormVersionsProofs --------------------------
(***************************************************************************)
(* The invariants of FormVersions for any forms, requests and versions.    *)
(*                                                                         *)
(* What makes the checks of the handlers effective is what a request       *)
(* carries from its read to its write: one that read a draft overtakes a   *)
(* publication or finds none, one that read a published form writes the    *)
(* version and the label it read, and these have stayed as long as nobody  *)
(* overtook and the field is one that the checks protect.                  *)
(***************************************************************************)
EXTENDS FormVersions, TLAPS

\* Whoever read field q of form f with label l, published, finds it so: unless
\* the form was overtaken, the field is exposed or deleted, or another form guards it.
Kept(q, f, l) ==
    /\ first[f] # 0
    /\ \/ f \in overtaken
       \/ q \in exposed
       \/ field[q] = Gone
       \/ /\ q \in FieldsOf(f)
          /\ Guard(q) = f => field[q].label = l /\ ~field[q].none

\* What the handlers rely on of a request between its read and its write.
ReqOK(x) ==
    /\ x.pc \in {"number", "save", "delete", "submit"} => x.form \in ids
    /\ x.pc \in {"saveField", "deleteField", "submit"} =>
          x.field \in Fields /\ field[x.field] # NoField
    /\ x.pc \in {"number", "delete"} => x.seen = "draft"
    /\ x.pc = "save" => x.seen \in States
    /\ x.pc = "clone" => /\ x.changes \in Form
                         /\ x.changes.state = "draft" /\ x.changes.version = 0
    /\ x.pc \in {"number", "save"} => x.changes \in Changes
    /\ x.pc = "number" => x.changes.state = "published"
    /\ x.pc = "save" /\ x.seen = "draft" =>
          x.changes.version \in Numbers \/ x.changes.state = "published"
    /\ x.pc = "save" /\ x.seen = "published" =>
          /\ x.changes.state # "draft"
          /\ first[x.form] # 0
          /\ x.changes.version = first[x.form] \/ x.form \in overtaken
    /\ x.pc = "saveField" => x.changes \in FieldChanges
    /\ x.pc = "saveField" /\ x.seen = "published" =>
          /\ x.form \in Forms /\ x.changes.none \in {Keep, FALSE}
          /\ \E l \in Labels : Kept(x.field, x.form, l) /\ x.changes.label \in {Keep, l}
    /\ x.pc = "submit" => x.read[x.field] \in Field
    /\ x.pc = "submit" /\ x.seen = "published" /\ ~x.read[x.field].none =>
          Kept(x.field, x.form, x.read[x.field].label)

FormOK(f) ==
    /\ f \notin ids => forms[f] = NoForm /\ first[f] = 0
    /\ IsPublished(f) => first[f] # 0
    /\ first[f] # 0 => (IsPublished(f) /\ forms[f].version = first[f]) \/ f \in overtaken
    /\ forms[f] # NoForm /\ ~IsPublished(f) =>
          forms[f].version \in Numbers \cup {0} \/ f \in overtaken

\* An answered question is what was asked, as long as the checks protect it.
FieldOK(q) ==
    asked[q] # NoField =>
        /\ q \in answered
        /\ Kept(q, asked[q].form, asked[q].label)
        /\ Guard(q) = asked[q].form \/ asked[q].form \in overtaken \/ q \in exposed

IInv ==
    /\ TypeOK
    /\ \A f \in Forms : FormOK(f)
    /\ \A q \in Fields : FieldOK(q)
    /\ \A r \in Requests : ReqOK(request[r])

-----------------------------------------------------------------------------
(* What a step does to the fields. *)

\* A step leaves field q as it is, adds it, deletes it unanswered, exposes it, or
\* changes what nobody who could see it published relies on.
FieldStep(q) ==
    \/ field[q] = NoField
    \/ field'[q] = field[q]
    \/ field'[q] = Gone /\ q \notin answered
    \/ field'[q] \in Field /\ q \in exposed'
    \/ /\ Exists(q) /\ field'[q] \in Field
       /\ Shown(q) => field'[q].form = field[q].form /\ field'[q].group = field[q].group
       /\ Fixed(q) /\ Guard(q) \notin overtaken =>
             field'[q].label = field[q].label /\ field'[q].none = field[q].none

Evolves ==
    /\ overtaken \subseteq overtaken' /\ exposed \subseteq exposed' /\ ids \subseteq ids'
    /\ \A f \in Forms : first[f] # 0 => first'[f] = first[f]
    /\ \A q \in Fields : FieldStep(q)

LEMMA StandsStill ==
  ASSUME UNCHANGED <<field, overtaken, exposed, ids, first>>
  PROVE  Evolves
BY DEF Evolves, FieldStep

LEMMA KeptStays ==
  ASSUME IInv, Evolves, NEW q \in Fields, NEW f \in Forms, NEW l, Kept(q, f, l)
  PROVE  /\ Kept(q, f, l)'
         /\ q \in answered /\ (Guard(q) = f \/ f \in overtaken \/ q \in exposed)
            => (Guard(q) = f \/ f \in overtaken \/ q \in exposed)'
<1>1. /\ first'[f] # 0 /\ FieldStep(q)
      /\ NoField \notin Field /\ Gone \notin Field /\ NoField # Gone /\ NoForm \notin Forms
  BY SentinelAssumption DEF Kept, Evolves
<1>2. CASE f \in overtaken \/ q \in exposed
  BY <1>1, <1>2 DEF Kept, Evolves
<1>3. CASE f \notin overtaken /\ q \notin exposed /\ field[q] = Gone
  <2>1. field'[q] = Gone \/ q \in exposed'
    BY <1>1, <1>3 DEF FieldStep, Exists
  <2>2. q \notin answered
    BY <1>3 DEF IInv, TypeOK, Exists
  <2> QED
    BY <1>1, <2>1, <2>2 DEF Kept
<1>4. CASE f \notin overtaken /\ q \in FieldsOf(f)
                /\ (Guard(q) = f => field[q].label = l /\ ~field[q].none)
  <2>1. IsPublished(f) /\ f \in {field[q].form, field[q].group} /\ Exists(q)
    BY <1>4 DEF IInv, FormOK, Kept, FieldsOf
  <2>2. Shown(q) /\ (Guard(q) = f /\ ~field[q].none => Fixed(q))
    BY <2>1 DEF Shown, Fixed
  <2>3. CASE field'[q] = field[q]
    <3>1. q \in FieldsOf(f)' /\ Guard(q)' = Guard(q)
      BY <2>1, <2>3 DEF FieldsOf, Exists, Guard
    <3> QED
      BY <1>1, <1>4, <2>3, <3>1 DEF Kept, Evolves
  <2>4. CASE field'[q] = Gone /\ q \notin answered
    BY <1>1, <2>4 DEF Kept
  <2>5. CASE q \in exposed'
    BY <1>1, <2>5 DEF Kept
  <2>6. CASE /\ field'[q] \in Field
             /\ field'[q].form = field[q].form /\ field'[q].group = field[q].group
             /\ Fixed(q) /\ Guard(q) \notin overtaken =>
                   field'[q].label = field[q].label /\ field'[q].none = field[q].none
    <3>1. q \in FieldsOf(f)' /\ Guard(q)' = Guard(q)
      BY <1>1, <2>1, <2>6 DEF FieldsOf, Exists, Guard
    <3>2. Guard(q)' = f => field'[q].label = l /\ ~field'[q].none
      BY <1>4, <2>2, <2>6, <3>1
    <3> QED
      BY <1>1, <1>4, <3>1, <3>2 DEF Kept, Evolves
  <2> QED
    BY <1>1, <2>1, <2>2, <2>3, <2>4, <2>5, <2>6 DEF FieldStep, Exists
<1> QED
  BY <1>2, <1>3, <1>4 DEF Kept

LEMMA ReqStays ==
  ASSUME IInv, Evolves, NEW x \in Request, ReqOK(x)
  PROVE  ReqOK(x)'
<1>1. x.pc \in {"saveField", "deleteField", "submit"} => field'[x.field] # NoField
  <2> SUFFICES ASSUME x.field \in Fields, field[x.field] # NoField
               PROVE  field'[x.field] # NoField
    BY DEF ReqOK
  <2>1. FieldStep(x.field) /\ NoField \notin Field /\ NoField # Gone
    BY SentinelAssumption DEF Evolves
  <2> QED
    BY <2>1 DEF FieldStep
<1>2. x.pc = "saveField" /\ x.seen = "published" =>
          \E l \in Labels : Kept(x.field, x.form, l)' /\ x.changes.label \in {Keep, l}
  BY KeptStays DEF ReqOK
<1>3. x.pc = "submit" /\ x.seen = "published" /\ ~x.read[x.field].none =>
          Kept(x.field, x.form, x.read[x.field].label)'
  <2> SUFFICES ASSUME x.pc = "submit", x.seen = "published", ~x.read[x.field].none
               PROVE  Kept(x.field, x.form, x.read[x.field].label)'
    OBVIOUS
  <2>1. x.field \in Fields /\ x.form \in Forms /\ Kept(x.field, x.form, x.read[x.field].label)
    BY DEF ReqOK, IInv, TypeOK
  <2> QED
    BY <2>1, KeptStays
<1>4. x.pc = "save" => x.form \in Forms
  BY DEF ReqOK, IInv, TypeOK
<1>5. /\ ids \subseteq ids' /\ overtaken \subseteq overtaken'
      /\ x.form \in Forms /\ first[x.form] # 0 => first'[x.form] = first[x.form]
  BY DEF Evolves
<1> QED
  BY <1>1, <1>2, <1>3, <1>4, <1>5 DEF ReqOK

LEMMA FieldStays ==
  ASSUME IInv, Evolves, NEW q \in Fields, asked'[q] = asked[q], answered \subseteq answered'
  PROVE  FieldOK(q)'
<1> SUFFICES ASSUME asked[q] # NoField
             PROVE  /\ q \in answered
                    /\ Kept(q, asked[q].form, asked[q].label)'
                    /\ (Guard(q) = asked[q].form \/ asked[q].form \in overtaken \/ q \in exposed)'
  BY DEF FieldOK
<1>1. PICK f \in Forms, l \in Labels : f = asked[q].form /\ l = asked[q].label
  BY DEF IInv, TypeOK
<1>2. q \in answered /\ Kept(q, f, l) /\ (Guard(q) = f \/ f \in overtaken \/ q \in exposed)
  BY <1>1 DEF IInv, FieldOK
<1>3. Kept(q, f, l)' /\ (Guard(q) = f \/ f \in overtaken \/ q \in exposed)'
  BY <1>2, KeptStays
<1> QED
  BY <1>1, <1>2, <1>3

-----------------------------------------------------------------------------
(* Requests. *)

LEMMA RestingOK ==
  ASSUME NEW pc \in {"idle", "done"}
  PROVE  Resting(pc) \in Request /\ ReqOK(Resting(pc)) /\ ReqOK(Resting(pc))'
BY DEF Resting, Request, ReqOK, Nothing

\* One request goes on or is answered, and the others stay good.
LEMMA RequestsOK ==
  ASSUME IInv, Evolves, NEW r \in Requests, NEW x \in Request, ReqOK(x)',
         request' = [request EXCEPT ![r] = x]
  PROVE  request' \in [Requests -> Request] /\ \A p \in Requests : ReqOK(request[p])'
<1>1. request \in [Requests -> Request]
  BY DEF IInv, TypeOK
<1>2. ASSUME NEW p \in Requests PROVE ReqOK(request[p])'
  <2>1. CASE p = r
    <3>1. request'[p] = x
      BY <2>1, <1>1
    <3> QED
      BY <3>1 DEF ReqOK
  <2>2. CASE p # r
    <3>1. PICK y \in Request : y = request[p]
      BY <1>1
    <3>2. request'[p] = y /\ ReqOK(y)
      BY <2>2, <1>1, <3>1 DEF IInv
    <3>3. ReqOK(y)'
      BY <3>2, ReqStays
    <3> QED
      BY <3>2, <3>3 DEF ReqOK
  <2> QED
    BY <2>1, <2>2
<1> QED
  BY <1>1, <1>2

LEMMA AnswersOK ==
  ASSUME IInv, Evolves, NEW r \in Requests, Answers(r)
  PROVE  request' \in [Requests -> Request] /\ \A p \in Requests : ReqOK(request[p])'
BY RestingOK, RequestsOK DEF Answers

\* A request moves on without writing anything.
LEMMA MovesOK ==
  ASSUME IInv, NEW r \in Requests, NEW x \in Request, ReqOK(x),
         request' = [request EXCEPT ![r] = x], UNCHANGED <<rows, history>>
  PROVE  IInv'
<1>1. UNCHANGED <<forms, field, submitted, answered, ids, first, asked, overtaken, exposed>>
  BY DEF rows, history, answers
<1>2. Evolves
  BY <1>1, StandsStill
<1>3. request' \in [Requests -> Request] /\ \A p \in Requests : ReqOK(request[p])'
  BY <1>2, ReqStays, RequestsOK
<1>4. TypeOK'
  BY <1>1, <1>3 DEF IInv, TypeOK, UniqueVersions, Versioned, Free, Exists
<1>5. \A f \in Forms : FormOK(f)'
  BY <1>1 DEF IInv, FormOK, IsPublished
<1>6. \A q \in Fields : FieldOK(q)'
  BY <1>1, <1>2, FieldStays
<1> QED
  BY <1>3, <1>4, <1>5, <1>6 DEF IInv

LEMMA AnswersOnlyOK ==
  ASSUME IInv, NEW r \in Requests, Answers(r), UNCHANGED <<rows, history>>
  PROVE  IInv'
BY RestingOK, MovesOK DEF Answers

-----------------------------------------------------------------------------
(* Requests that read. *)

\* A form that is there is in one of two states, and handed out.
LEMMA There ==
  ASSUME IInv, NEW f \in Forms, forms[f] # NoForm
  PROVE  forms[f] \in Form /\ f \in ids
BY DEF IInv, TypeOK, FormOK

LEMMA ReadsType ==
  ASSUME IInv, NEW r \in Requests, NEW f \in Forms, forms[f] # NoForm,
         NEW pc \in {"save", "number", "delete"}, NEW c \in Changes \cup {NoForm},
         Reads(r, pc, f, c)
  PROVE  \E x \in Request : /\ request' = [request EXCEPT ![r] = x]
                            /\ x.pc = pc /\ x.form = f /\ x.seen = forms[f].state
                            /\ x.changes = c
<1> DEFINE x == [Resting(pc) EXCEPT !.form = f, !.seen = forms[f].state, !.changes = c]
<1>1. forms[f].state \in States
  BY There DEF Form
<1>2. /\ x \in Request /\ x.pc = pc /\ x.form = f /\ x.seen = forms[f].state
      /\ x.changes = c
  BY <1>1 DEF Resting, Request, Nothing
<1>3. request' = [request EXCEPT ![r] = x]
  BY DEF Reads
<1> QED
  BY <1>2, <1>3

LEMMA ReadsAllType ==
  ASSUME IInv, NEW r \in Requests, NEW f \in Forms, forms[f] # NoForm,
         NEW pc \in {"clone", "submit"}, NEW c \in Changes \cup {NoForm},
         NEW q \in Fields \cup {NoField}, ReadsAll(r, pc, f, c, q)
  PROVE  \E x \in Request : /\ request' = [request EXCEPT ![r] = x]
                            /\ x.pc = pc /\ x.form = f /\ x.seen = forms[f].state
                            /\ x.changes = c /\ x.field = q
                            /\ q \in FieldsOf(f) => x.read[q] = field[q]
<1> DEFINE found == [p \in Fields |-> IF p \in FieldsOf(f) THEN field[p] ELSE NoField]
           x == [pc |-> pc, form |-> f, seen |-> forms[f].state, changes |-> c, field |-> q,
                 read |-> found]
<1>1. found \in [Fields -> Field \cup {NoField}]
  BY DEF FieldsOf, Exists, IInv, TypeOK
<1>2. forms[f].state \in States
  BY There DEF Form
<1>3. q \in FieldsOf(f) => found[q] = field[q]
  BY DEF FieldsOf
<1>4. request' = [request EXCEPT ![r] = x]
  BY DEF ReadsAll
<1> HIDE DEF found
<1>5. x \in Request
  BY <1>1, <1>2 DEF Request
<1> QED
  BY <1>3, <1>4, <1>5

LEMMA ReadsFieldType ==
  ASSUME IInv, NEW r \in Requests, NEW q \in Fields, Exists(q),
         NEW pc \in {"saveField", "deleteField"}, NEW c \in FieldChanges \cup {NoForm},
         ReadsField(r, pc, q, c)
  PROVE  \E x \in Request : /\ request' = [request EXCEPT ![r] = x]
                            /\ x.pc = pc /\ x.form = Guard(q) /\ x.field = q
                            /\ x.seen = (IF Fixed(q) THEN "published" ELSE "draft")
                            /\ x.changes = c
<1> DEFINE seen == IF Fixed(q) THEN "published" ELSE "draft"
           x == [Resting(pc) EXCEPT !.form = Guard(q), !.changes = c, !.field = q, !.seen = seen]
<1>1. seen \in States
  BY DEF States
<1>2. Guard(q) \in Forms \cup {NoForm}
  BY DEF Guard, Exists, IInv, TypeOK, Field
<1>3. request' = [request EXCEPT ![r] = x]
  BY DEF ReadsField
<1> HIDE DEF seen
<1>4. x \in Request /\ x.pc = pc /\ x.form = Guard(q) /\ x.field = q /\ x.seen = seen /\ x.changes = c
  BY <1>1, <1>2 DEF Resting, Request, Nothing
<1> QED
  BY <1>3, <1>4 DEF seen

LEMMA NewDraftKeeps ==
  ASSUME IInv, NEW r \in Requests, NEW f \in Forms, NEW language \in Languages,
         NewDraft(r, f, language)
  PROVE  IInv'
<1> DEFINE c == [slug |-> forms[f].slug, language |-> language, version |-> 0, state |-> "draft"]
<1>1. forms[f] \in Form /\ forms[f] # NoForm
  BY There DEF NewDraft
<1>2. c \in Form /\ c \in Changes /\ c.state = "draft" /\ c.version = 0
  BY <1>1, BoundAssumption DEF Form, Changes, States
<1>3. ReadsAll(r, "clone", f, c, NoField) /\ UNCHANGED <<rows, history>>
  BY DEF NewDraft
<1> HIDE DEF c
<1>4. PICK x \in Request : /\ request' = [request EXCEPT ![r] = x]
                          /\ x.pc = "clone" /\ x.changes = c
  BY <1>1, <1>2, <1>3, ReadsAllType
<1>5. ReqOK(x)
  BY <1>2, <1>4 DEF ReqOK
<1> QED
  BY <1>3, <1>4, <1>5, MovesOK

LEMMA UpdateKeeps ==
  ASSUME IInv, NEW r \in Requests, NEW f \in Forms, NEW c \in Changes, c.version \in Numbers,
         Update(r, f, c)
  PROVE  IInv'
<1>1. CASE Answers(r)
  BY <1>1, AnswersOnlyOK DEF Update
<1>2. CASE ~Answers(r)
  <2> DEFINE numbers == ~IsPublished(f) /\ c.slug # Keep /\ c.state = "published"
             pc == IF numbers THEN "number" ELSE "save"
             d == Validated(f, c)
  <2>1. ~(IsPublished(f) /\ c.state = "draft")
    BY <1>2 DEF Update
  <2>2. Reads(r, pc, f, d) /\ UNCHANGED <<rows, history>>
    BY <1>2 DEF Update
  <2>3. forms[f] \in Form /\ f \in ids /\ forms[f] # NoForm
    BY There DEF Update
  <2>4. /\ d \in Changes /\ d.slug = c.slug /\ d.state = c.state
        /\ IsPublished(f) => d.version = forms[f].version
        /\ ~IsPublished(f) => d.version = c.version
    BY <2>3 DEF Validated, Changes, Form
  <2> HIDE DEF d
  <2>5. PICK x \in Request : /\ request' = [request EXCEPT ![r] = x]
                            /\ x.pc = pc /\ x.form = f /\ x.seen = forms[f].state /\ x.changes = d
    BY <2>2, <2>3, <2>4, ReadsType
  <2>6. ReqOK(x)
    <3>1. IsPublished(f) => first[f] # 0 /\ (forms[f].version = first[f] \/ f \in overtaken)
      BY DEF IInv, FormOK
    <3>2. forms[f].state \in States /\ (IsPublished(f) <=> forms[f].state = "published")
      BY <2>3 DEF Form, IsPublished
    <3> QED
      BY <2>1, <2>3, <2>4, <2>5, <3>1, <3>2 DEF ReqOK, States
  <2> QED
    BY <2>2, <2>5, <2>6, MovesOK
<1> QED
  BY <1>1, <1>2

\* A removal of a form goes on with a draft only.
LEMMA RemoveKeeps ==
  ASSUME IInv, NEW r \in Requests, NEW f \in Forms, Remove(r, f)
  PROVE  IInv'
<1>1. CASE Answers(r)
  BY <1>1, AnswersOnlyOK DEF Remove
<1>2. CASE ~Answers(r)
  <2>1. /\ forms[f] # NoForm /\ ~IsPublished(f)
        /\ Reads(r, "delete", f, NoForm) /\ UNCHANGED <<rows, history>>
    BY <1>2 DEF Remove
  <2>2. PICK x \in Request : /\ request' = [request EXCEPT ![r] = x]
                            /\ x.pc = "delete" /\ x.form = f /\ x.seen = forms[f].state
    BY <2>1, ReadsType
  <2>3. ReqOK(x)
    BY <2>1, <2>2, There DEF ReqOK, Form, States, IsPublished
  <2> QED
    BY <2>1, <2>2, <2>3, MovesOK
<1> QED
  BY <1>1, <1>2

LEMMA UpdateFieldKeeps ==
  ASSUME IInv, NEW r \in Requests, NEW q \in Fields, NEW c \in Patches, UpdateField(r, q, c)
  PROVE  IInv'
<1>1. CASE Answers(r)
  BY <1>1, AnswersOnlyOK DEF UpdateField
<1>2. CASE ~Answers(r)
  <2>1. /\ Exists(q) /\ c \in FieldChanges
        /\ Fixed(q) => c.label \in {Keep, field[q].label} /\ c.none \in {Keep, field[q].none}
        /\ ReadsField(r, "saveField", q, c) /\ UNCHANGED <<rows, history>>
    BY <1>2, PatchAssumption DEF UpdateField
  <2>2. PICK x \in Request : /\ request' = [request EXCEPT ![r] = x]
                            /\ x.pc = "saveField" /\ x.form = Guard(q) /\ x.field = q
                            /\ x.seen = (IF Fixed(q) THEN "published" ELSE "draft")
                            /\ x.changes = c
    BY <2>1, ReadsFieldType
  <2>3. field[q] \in Field /\ field[q] # NoField
    BY <2>1 DEF Exists, IInv, TypeOK
  <2>4. ASSUME Fixed(q)
        PROVE  /\ Guard(q) \in Forms /\ c.none \in {Keep, FALSE}
               /\ Kept(q, Guard(q), field[q].label) /\ field[q].label \in Labels
    <3>1. Guard(q) \in Forms /\ IsPublished(Guard(q)) /\ ~field[q].none
      BY <2>4 DEF Fixed, IsPublished
    <3>2. first[Guard(q)] # 0
      BY <3>1 DEF IInv, FormOK
    <3>3. q \in FieldsOf(Guard(q))
      BY <2>1 DEF FieldsOf, Guard
    <3>4. field[q].none = FALSE /\ field[q].label \in Labels
      BY <2>3, <3>1 DEF Field
    <3> QED
      BY <2>1, <2>4, <3>1, <3>2, <3>3, <3>4 DEF Kept
  <2>5. ReqOK(x)
    <3>1. x.seen = "published" => Fixed(q)
      BY <2>2
    <3> QED
      BY <2>1, <2>2, <2>3, <2>4, <3>1 DEF ReqOK
  <2> QED
    BY <2>1, <2>2, <2>5, MovesOK
<1> QED
  BY <1>1, <1>2

LEMMA RemoveFieldKeeps ==
  ASSUME IInv, NEW r \in Requests, NEW q \in Fields, RemoveField(r, q)
  PROVE  IInv'
<1>1. CASE Answers(r)
  BY <1>1, AnswersOnlyOK DEF RemoveField
<1>2. CASE ~Answers(r)
  <2>1. Exists(q) /\ ReadsField(r, "deleteField", q, NoForm) /\ UNCHANGED <<rows, history>>
    BY <1>2 DEF RemoveField
  <2>2. PICK x \in Request : /\ request' = [request EXCEPT ![r] = x]
                            /\ x.pc = "deleteField" /\ x.field = q
    BY <2>1, ReadsFieldType
  <2>3. ReqOK(x)
    BY <2>1, <2>2 DEF ReqOK, Exists
  <2> QED
    BY <2>1, <2>2, <2>3, MovesOK
<1> QED
  BY <1>1, <1>2

LEMMA SubmitKeeps ==
  ASSUME IInv, NEW r \in Requests, NEW f \in Forms, NEW q \in Fields, Submit(r, f, q)
  PROVE  IInv'
<1>1. /\ forms[f] # NoForm /\ q \in FieldsOf(f) /\ Exists(q)
      /\ ReadsAll(r, "submit", f, NoForm, q) /\ UNCHANGED <<rows, history>>
  BY DEF Submit, FieldsOf
<1>2. PICK x \in Request : /\ request' = [request EXCEPT ![r] = x]
                          /\ x.pc = "submit" /\ x.form = f /\ x.seen = forms[f].state
                          /\ x.field = q /\ x.read[q] = field[q]
  BY <1>1, ReadsAllType
<1>3. field[q] \in Field /\ field[q] # NoField /\ f \in ids
  BY <1>1, There DEF Exists, IInv, TypeOK
<1>4. x.seen = "published" /\ ~field[q].none => Kept(q, f, field[q].label)
  <2> SUFFICES ASSUME forms[f].state = "published", ~field[q].none
               PROVE  Kept(q, f, field[q].label)
    BY <1>2
  <2>1. first[f] # 0
    BY <1>1 DEF IsPublished, IInv, FormOK
  <2> QED
    BY <1>1, <2>1 DEF Kept
<1>5. ReqOK(x)
  BY <1>2, <1>3, <1>4 DEF ReqOK
<1> QED
  BY <1>1, <1>2, <1>5, MovesOK

LEMMA NumberKeeps ==
  ASSUME IInv, NEW r \in Requests, Number(r)
  PROVE  IInv'
<1> DEFINE c == request[r].changes
           x == [request[r] EXCEPT !.pc = "save", !.changes = [c EXCEPT !.version = NextVersion(c)]]
<1>1. request[r] \in Request /\ ReqOK(request[r]) /\ request[r].pc = "number"
  BY DEF IInv, TypeOK, Number, At
<1>2. c \in Changes /\ NextVersion(c) \in 0 .. MaxVersion
  BY <1>1, BoundAssumption DEF ReqOK, Number
<1>3. request' = [request EXCEPT ![r] = x] /\ UNCHANGED <<rows, history>>
  BY <1>1 DEF Number, Request, IInv, TypeOK
<1>4. [c EXCEPT !.version = NextVersion(c)] \in Changes
  BY <1>2 DEF Changes
<1>5. x \in Request
  BY <1>1, <1>4 DEF Request
<1>6. ReqOK(x)
  BY <1>1, <1>2, <1>4 DEF ReqOK, Request, Changes, States
<1> HIDE DEF x
<1> QED
  BY <1>3, <1>5, <1>6, MovesOK

-----------------------------------------------------------------------------
(* Requests that write. *)

LEMMA FreeBothWays ==
  ASSUME NEW f, NEW g, NEW row, Free(f, row), f # g, g \in Forms, f \in Forms,
         Free(g, forms[g]), forms[g] # NoForm, forms' = [forms EXCEPT ![f] = row],
         forms \in [Forms -> Form \cup {NoForm}]
  PROVE  Free(g, forms[g])'
BY DEF Free

LEMMA WritesOK ==
  ASSUME IInv, NEW f \in Forms, NEW row \in Form, Writes(f, row)
  PROVE  /\ forms' \in [Forms -> Form \cup {NoForm}] /\ forms'[f] = row /\ row # NoForm
         /\ \A g \in Forms \ {f} : forms'[g] = forms[g]
         /\ UniqueVersions'
         /\ ids' = ids \cup {f} /\ ids' \subseteq Forms
         /\ first' \in [Forms -> 0 .. MaxVersion]
         /\ \A g \in Forms \ {f} : first'[g] = first[g]
         /\ first'[f] = IF row.state = "published" /\ first[f] = 0 THEN row.version ELSE first[f]
         /\ row.state = "published" => row.version # 0
<1>1. /\ forms \in [Forms -> Form \cup {NoForm}] /\ first \in [Forms -> 0 .. MaxVersion]
      /\ ids \subseteq Forms /\ row.version \in 0 .. MaxVersion /\ row # NoForm
  BY SentinelAssumption DEF IInv, TypeOK, Form
<1>2. UniqueVersions'
  <2>1. ASSUME NEW g \in Forms, forms'[g] # NoForm
        PROVE  Versioned(forms[g])' /\ Free(g, forms[g])'
    <3>1. CASE g = f
      BY <3>1, <1>1 DEF Writes, Versioned, Free
    <3>2. CASE g # f
      <4>1. forms'[g] = forms[g] /\ Versioned(forms[g]) /\ Free(g, forms[g])
        BY <2>1, <3>2, <1>1 DEF Writes, IInv, TypeOK, UniqueVersions
      <4> QED
        BY <2>1, <3>2, <4>1, <1>1, FreeBothWays DEF Writes, Versioned
    <3> QED
      BY <3>1, <3>2
  <2> QED
    BY <2>1 DEF UniqueVersions
<1> QED
  BY <1>1, <1>2 DEF Writes, Versioned

\* A write that answers its request and keeps types and forms keeps the rest.
LEMMA WrittenOK ==
  ASSUME IInv, Evolves, NEW r \in Requests, Answers(r),
         forms' \in [Forms -> Form \cup {NoForm}], UniqueVersions',
         field' \in [Fields -> Field \cup {NoField, Gone}],
         submitted \subseteq {f \in Forms : forms'[f] # NoForm},
         answered \subseteq {q \in Fields : Exists(q)'},
         ids' \subseteq Forms, first' \in [Forms -> 0 .. MaxVersion],
         overtaken' \subseteq Forms, exposed' \subseteq Fields,
         UNCHANGED <<submitted, answered, asked>>,
         \A f \in Forms : FormOK(f)'
  PROVE  IInv'
<1>1. request' \in [Requests -> Request] /\ \A p \in Requests : ReqOK(request[p])'
  BY AnswersOK
<1>2. \A q \in Fields : FieldOK(q)'
  BY FieldStays
<1>3. asked \in [Fields -> [form : Forms, label : Labels] \cup {NoField}]
  BY DEF IInv, TypeOK
<1>4. TypeOK'
  BY <1>1, <1>3 DEF TypeOK
<1> QED
  BY <1>1, <1>2, <1>4 DEF IInv

\* A form that was not handed out yet gets its row.
LEMMA NewFormKeeps ==
  ASSUME IInv, NEW r \in Requests, Answers(r), NEW f \in Forms \ ids, NEW row \in Form,
         Writes(f, row), row.state = "draft" => row.version \in Numbers \cup {0},
         field' \in [Fields -> Field \cup {NoField, Gone}],
         \A q \in Fields : field[q] = NoField \/ field'[q] = field[q],
         UNCHANGED <<submitted, answered, asked, overtaken, exposed>>
  PROVE  IInv'
<1>1. FormOK(f) /\ forms[f] = NoForm /\ first[f] = 0
  BY DEF IInv, FormOK
<1>2. /\ forms' \in [Forms -> Form \cup {NoForm}] /\ forms'[f] = row /\ row # NoForm
      /\ \A g \in Forms \ {f} : forms'[g] = forms[g] /\ first'[g] = first[g]
      /\ UniqueVersions' /\ ids' = ids \cup {f} /\ ids' \subseteq Forms
      /\ first' \in [Forms -> 0 .. MaxVersion]
      /\ first'[f] = IF row.state = "published" THEN row.version ELSE 0
      /\ row.state = "published" => row.version # 0
  BY <1>1, WritesOK
<1>3. Evolves
  <2>1. \A g \in Forms : first[g] # 0 => first'[g] = first[g]
    BY <1>1, <1>2
  <2> QED
    BY <1>2, <2>1 DEF Evolves, FieldStep
<1>4. submitted \subseteq {g \in Forms : forms'[g] # NoForm}
  BY <1>1, <1>2 DEF IInv, TypeOK
<1>5. answered \subseteq {q \in Fields : Exists(q)'}
  BY DEF IInv, TypeOK, Exists
<1>6. ASSUME NEW g \in Forms PROVE FormOK(g)'
  <2>1. CASE g = f
    BY <2>1, <1>2 DEF FormOK, IsPublished, Form, States
  <2>2. CASE g # f
    BY <2>2, <1>2 DEF IInv, FormOK, IsPublished
  <2> QED
    BY <2>1, <2>2
<1>7. overtaken' \subseteq Forms /\ exposed' \subseteq Fields
  BY DEF IInv, TypeOK
<1> QED
  BY <1>2, <1>3, <1>4, <1>5, <1>6, <1>7, WrittenOK

LEMMA CreateKeeps ==
  ASSUME IInv, NEW r \in Requests, NEW f \in Forms, NEW row \in Form, Create(r, f, row)
  PROVE  IInv'
<1>1. CASE UNCHANGED <<forms, ids, first>>
  BY <1>1, AnswersOnlyOK DEF Create, rows, history, answers
<1>2. CASE Writes(f, row)
  <2>1. /\ f \notin ids /\ row.version \in Numbers /\ Answers(r)
        /\ UNCHANGED <<field, submitted, answered, asked, overtaken, exposed>>
        /\ field' \in [Fields -> Field \cup {NoField, Gone}]
    BY DEF Create, answers, IInv, TypeOK
  <2> QED
    BY <1>2, <2>1, NewFormKeeps
<1> QED
  BY <1>1, <1>2 DEF Create

\* What a clone inserts are fields.
LEMMA CopiesOK ==
  ASSUME IInv, NEW r \in Requests, NEW g \in Forms, NEW c \in ToCopy(r)
  PROVE  Copy(request[r].read[c[1]], c[2], g) \in Field
<1>1. request[r] \in Request
  BY DEF IInv, TypeOK
<1>2. PICK q \in Fields, side \in {"form", "group"} :
          c = <<q, side>> /\ request[r].read[q] # NoField
  BY DEF ToCopy
<1>3. request[r].read[q] \in Field
  BY <1>1, <1>2 DEF Request
<1> QED
  BY <1>2, <1>3 DEF Copy, Field

LEMMA CloneKeeps ==
  ASSUME IInv, NEW r \in Requests, NEW g \in Forms, Clone(r, g)
  PROVE  IInv'
<1> DEFINE row == request[r].changes
           new == {q \in Fields : field[q] = NoField}
<1>1. CASE UNCHANGED <<forms, ids, first, field>>
  BY <1>1, AnswersOnlyOK DEF Clone, rows, history, answers
<1>2. CASE Writes(g, row) /\ ~UNCHANGED <<forms, ids, first, field>>
  <2>1. row \in Form /\ row.state = "draft" /\ row.version = 0
    BY DEF IInv, TypeOK, ReqOK, Clone, At
  <2>2. /\ g \notin ids /\ Answers(r)
        /\ UNCHANGED <<submitted, answered, asked, overtaken, exposed>>
    BY DEF Clone, answers
  <2>3. PICK origin \in [new -> ToCopy(r) \cup {NoField}] :
            field' = [q \in Fields |->
                        IF q \in new /\ origin[q] # NoField
                        THEN Copy(request[r].read[origin[q][1]], origin[q][2], g)
                        ELSE field[q]]
    BY <1>2 DEF Clone
  <2> HIDE DEF row
  <2>4. ASSUME NEW q \in Fields
        PROVE  field'[q] \in Field \cup {NoField, Gone} /\ (field[q] = NoField \/ field'[q] = field[q])
    <3>1. field[q] \in Field \cup {NoField, Gone}
      BY DEF IInv, TypeOK
    <3>2. CASE q \in new /\ origin[q] # NoField
      <4>1. origin[q] \in ToCopy(r)
        BY <3>2
      <4>2. Copy(request[r].read[origin[q][1]], origin[q][2], g) \in Field
        BY <4>1, CopiesOK
      <4> QED
        BY <3>2, <4>2, <2>3
    <3>3. CASE ~(q \in new /\ origin[q] # NoField)
      BY <3>1, <3>3, <2>3
    <3> QED
      BY <3>2, <3>3
  <2>5. field' \in [Fields -> Field \cup {NoField, Gone}]
    BY <2>3, <2>4
  <2> QED
    BY <1>2, <2>1, <2>2, <2>4, <2>5, NewFormKeeps
<1> QED
  BY <1>1, <1>2 DEF Clone

\* What save writes is a row.
LEMMA PatchedOK ==
  ASSUME NEW row \in Form \cup {NoForm}, NEW c \in Changes, row # NoForm \/ c.slug # Keep
  PROVE  /\ Patched(row, c) \in Form /\ Patched(row, c).version = c.version
         /\ c.state # Keep => Patched(row, c).state = c.state
         /\ c.state = Keep /\ row # NoForm => Patched(row, c).state = row.state
<1>1. Keep \notin Slugs \cup Languages \cup States
  BY SentinelAssumption
<1> QED
  BY <1>1 DEF Patched, Form, Changes, States

LEMMA SaveKeeps ==
  ASSUME IInv, NEW r \in Requests, Save(r), NEW f \in Forms, f = request[r].form
  PROVE  IInv'
<1> DEFINE c == request[r].changes
           row == Patched(forms[f], c)
<1>1. CASE UNCHANGED <<forms, ids, first, overtaken>>
  BY <1>1, AnswersOnlyOK DEF Save, rows, history, answers
<1>2. CASE (forms[f] # NoForm \/ c.slug # Keep) /\ Writes(f, row) /\ Overtakes(r)
  <2>1. /\ ReqOK(request[r]) /\ request[r].pc = "save" /\ f \in ids /\ f \in Forms /\ c \in Changes
        /\ request[r].seen \in States
    BY DEF IInv, TypeOK, ReqOK, Save, At
  <2>2. FormOK(f) /\ forms[f] \in Form \cup {NoForm}
    BY <2>1 DEF IInv, TypeOK
  <2>3. /\ row \in Form /\ row.version = c.version
        /\ c.state # Keep => row.state = c.state
        /\ c.state = Keep /\ forms[f] # NoForm => row.state = forms[f].state
    BY <1>2, <2>1, <2>2, PatchedOK
  <2> HIDE DEF row
  <2>4. /\ forms' \in [Forms -> Form \cup {NoForm}] /\ forms'[f] = row /\ row # NoForm
        /\ \A g \in Forms \ {f} : forms'[g] = forms[g] /\ first'[g] = first[g]
        /\ UniqueVersions' /\ ids' = ids
        /\ first' \in [Forms -> 0 .. MaxVersion]
        /\ first'[f] = IF row.state = "published" /\ first[f] = 0 THEN row.version ELSE first[f]
        /\ row.state = "published" => row.version # 0
    BY <1>2, <2>1, <2>3, WritesOK
  <2>5. /\ UNCHANGED <<field, submitted, answered, asked, exposed>> /\ Answers(r)
        /\ overtaken' = overtaken \cup {g \in {f} : IsPublished(f) /\ request[r].seen = "draft"}
    BY <1>2 DEF Save, Overtakes, answers
  <2>6. Evolves
    <3>1. \A g \in Forms : first[g] # 0 => first'[g] = first[g]
      BY <2>4
    <3> QED
      BY <2>4, <2>5, <3>1 DEF Evolves, FieldStep
  <2>7. /\ submitted \subseteq {g \in Forms : forms'[g] # NoForm}
        /\ answered \subseteq {q \in Fields : Exists(q)'}
        /\ overtaken' \subseteq Forms /\ exposed' \subseteq Fields
        /\ field' \in [Fields -> Field \cup {NoField, Gone}]
        /\ ids' \subseteq Forms
    BY <2>1, <2>4, <2>5 DEF IInv, TypeOK, Exists
  <2>8. ASSUME NEW g \in Forms PROVE FormOK(g)'
    <3>1. CASE g = f
      <4>1. row.state \in States /\ (IsPublished(f)' <=> row.state = "published")
        BY <2>3, <2>4 DEF IsPublished, Form
      <4>2. first'[f] # 0 => (IsPublished(f)' /\ row.version = first'[f]) \/ f \in overtaken'
        <5>1. CASE request[r].seen = "draft"
          BY <5>1, <4>1, <2>2, <2>4, <2>5 DEF FormOK
        <5>2. CASE request[r].seen = "published"
          <6>1. /\ c.state # "draft" /\ first[f] # 0
                /\ c.version = first[f] \/ f \in overtaken
            BY <5>2, <2>1 DEF ReqOK
          <6>2. CASE f \in overtaken
            BY <6>2, <2>5
          <6>3. CASE f \notin overtaken
            <7>1. forms[f] # NoForm /\ forms[f].state = "published"
              BY <6>1, <6>3, <2>2 DEF FormOK, IsPublished
            <7>2. row.state = "published"
              BY <7>1, <6>1, <2>3, <2>1 DEF Changes, States
            <7> QED
              BY <7>2, <6>1, <6>3, <4>1, <2>3, <2>4
          <6> QED
            BY <6>2, <6>3
        <5> QED
          BY <5>1, <5>2, <2>1 DEF States
      <4>3. IsPublished(f)' => first'[f] # 0
        BY <4>1, <2>4
      <4>4. ~IsPublished(f)' => row.version \in Numbers \cup {0} \/ f \in overtaken'
        <5>1. CASE request[r].seen = "draft"
          <6>1. c.version \in Numbers \/ c.state = "published"
            BY <5>1, <2>1 DEF ReqOK
          <6>2. c.state = "published" => row.state = "published"
            BY <2>3, SentinelAssumption DEF States
          <6> QED
            BY <6>1, <6>2, <4>1, <2>3
        <5>2. CASE request[r].seen = "published"
          <6>1. first[f] # 0
            BY <5>2, <2>1 DEF ReqOK
          <6> QED
            BY <6>1, <4>2, <2>4
        <5> QED
          BY <5>1, <5>2, <2>1 DEF States
      <4> QED
        BY <3>1, <4>2, <4>3, <4>4, <2>1, <2>4 DEF FormOK
    <3>2. CASE g # f
      BY <3>2, <2>4, <2>5 DEF IInv, FormOK, IsPublished
    <3> QED
      BY <3>1, <3>2
  <2> QED
    BY <2>4, <2>5, <2>6, <2>7, <2>8, WrittenOK
<1> QED
  BY <1>1, <1>2 DEF Save

\* A draft that goes was never published, unless it was overtaken.
LEMMA DeleteKeeps ==
  ASSUME IInv, NEW r \in Requests, Delete(r), NEW f \in Forms, f = request[r].form
  PROVE  IInv'
<1>1. CASE UNCHANGED <<forms, field, overtaken>>
  BY <1>1, AnswersOnlyOK DEF Delete, rows, history, answers
<1>2. CASE /\ f \notin submitted /\ FieldsOf(f) \cap answered = {}
           /\ forms' = [forms EXCEPT ![f] = NoForm]
           /\ field' = [q \in Fields |-> IF q \in FieldsOf(f) THEN Gone ELSE field[q]]
           /\ Overtakes(r)
  <2>1. FormOK(f) /\ f \in ids /\ request[r].seen = "draft"
    BY DEF IInv, ReqOK, Delete, At
  <2>2. /\ UNCHANGED <<submitted, answered, ids, first, asked, exposed>> /\ Answers(r)
        /\ overtaken' = overtaken \cup {g \in {f} : IsPublished(f)}
    BY <1>2, <2>1 DEF Delete, Overtakes, answers
  <2>3. /\ forms' \in [Forms -> Form \cup {NoForm}] /\ forms'[f] = NoForm
        /\ field' \in [Fields -> Field \cup {NoField, Gone}]
        /\ \A g \in Forms \ {f} : forms'[g] = forms[g]
        /\ overtaken' \subseteq Forms /\ exposed' \subseteq Fields
        /\ ids' \subseteq Forms /\ first' \in [Forms -> 0 .. MaxVersion]
    BY <1>2, <2>2 DEF IInv, TypeOK
  <2>4. Evolves
    <3>1. ASSUME NEW q \in Fields PROVE FieldStep(q)
      BY <1>2 DEF FieldStep
    <3> QED
      BY <2>2, <3>1 DEF Evolves
  <2>5. /\ UniqueVersions'
        /\ submitted \subseteq {g \in Forms : forms'[g] # NoForm}
    BY <1>2, <2>3 DEF IInv, TypeOK, UniqueVersions, Versioned, Free
  <2>6. answered \subseteq {q \in Fields : Exists(q)'}
    BY <1>2 DEF IInv, TypeOK, Exists
  <2>7. ASSUME NEW g \in Forms PROVE FormOK(g)'
    <3>1. CASE g = f
      BY <3>1, <2>1, <2>2, <2>3 DEF FormOK, IsPublished
    <3>2. CASE g # f
      BY <3>2, <2>2, <2>3 DEF IInv, FormOK, IsPublished
    <3> QED
      BY <3>1, <3>2
  <2> QED
    BY <2>2, <2>3, <2>4, <2>5, <2>6, <2>7, WrittenOK
<1> QED
  BY <1>1, <1>2 DEF Delete

\* A write to fields only.
LEMMA FieldsKeep ==
  ASSUME IInv, NEW r \in Requests, Answers(r),
         field' \in [Fields -> Field \cup {NoField, Gone}],
         \A q \in Fields : FieldStep(q),
         \A q \in answered : Exists(q)',
         UNCHANGED <<forms, submitted, answered, ids, first, asked, overtaken>>,
         exposed \subseteq exposed', exposed' \subseteq Fields
  PROVE  IInv'
<1>1. Evolves
  BY DEF Evolves
<1>2. \A f \in Forms : FormOK(f)'
  BY DEF IInv, FormOK, IsPublished
<1>3. /\ forms' \in [Forms -> Form \cup {NoForm}] /\ UniqueVersions'
      /\ submitted \subseteq {f \in Forms : forms'[f] # NoForm}
      /\ answered \subseteq {q \in Fields : Exists(q)'}
      /\ ids' \subseteq Forms /\ first' \in [Forms -> 0 .. MaxVersion]
      /\ overtaken' \subseteq Forms
  BY DEF IInv, TypeOK, UniqueVersions, Versioned, Free
<1> QED
  BY <1>1, <1>2, <1>3, WrittenOK

LEMMA AppliedType ==
  ASSUME NEW c \in FieldChanges
  PROVE  /\ \A row \in Field : Applied(row, c) \in Field
         /\ c.label # Keep => NewField(c) \in Field
<1>1. ASSUME NEW row \in Field PROVE Applied(row, c) \in Field
  BY DEF Applied, Either, Field, FieldChanges
<1>2. ASSUME c.label # Keep PROVE NewField(c) \in Field
  <2>1. [form |-> NoForm, group |-> NoForm, label |-> c.label, none |-> FALSE] \in Field
    BY <1>2 DEF Field, FieldChanges
  <2> QED
    BY <1>1, <2>1 DEF NewField
<1> QED
  BY <1>1, <1>2

LEMMA AddFieldKeeps ==
  ASSUME IInv, NEW r \in Requests, NEW q \in Fields, NEW c \in Patches, AddField(r, q, c)
  PROVE  IInv'
<1>1. CASE field' = field
  BY <1>1, AnswersOnlyOK DEF AddField, rows, history
<1>2. CASE field' = [field EXCEPT ![q] = NewField(c)]
  <2>1. /\ field[q] = NoField /\ NewField(c) \in Field /\ Answers(r)
        /\ UNCHANGED <<forms, submitted, answered, ids, first, asked, overtaken, exposed>>
    BY AppliedType, PatchAssumption DEF AddField, answers, history
  <2>2. field' \in [Fields -> Field \cup {NoField, Gone}]
    BY <1>2, <2>1 DEF IInv, TypeOK
  <2>3. \A p \in Fields : FieldStep(p) /\ (p \in answered => Exists(p)')
    BY <1>2, <2>1 DEF IInv, TypeOK, Exists, FieldStep
  <2>4. answered \subseteq Fields /\ exposed \subseteq Fields
    BY DEF IInv, TypeOK
  <2> QED
    BY <2>1, <2>2, <2>3, <2>4, FieldsKeep
<1> QED
  BY <1>1, <1>2 DEF AddField

LEMMA SaveFieldKeeps ==
  ASSUME IInv, NEW r \in Requests, SaveField(r), NEW q \in Fields, q = request[r].field
  PROVE  IInv'
<1> DEFINE c == request[r].changes
           row == IF field[q] = Gone THEN NewField(c) ELSE Applied(field[q], c)
<1>1. CASE UNCHANGED <<field, exposed>>
  BY <1>1, AnswersOnlyOK DEF SaveField, rows, history, answers
<1>2. CASE field' = [field EXCEPT ![q] = row] /\ Exposes(r, q, row)
           /\ (field[q] = Gone => c.label # Keep)
  <2>1. /\ ReqOK(request[r]) /\ request[r].pc = "saveField" /\ request[r] \in Request
        /\ c \in FieldChanges /\ field[q] # NoField
        /\ field[q] \in Field \cup {Gone} /\ field \in [Fields -> Field \cup {NoField, Gone}]
    BY DEF IInv, TypeOK, ReqOK, SaveField, At
  <2>2. row \in Field /\ {NoField, Gone} \cap Field = {}
    BY <1>2, <2>1, AppliedType, SentinelAssumption
  <2>3. field[q] # Gone =>
          /\ row.label = Either(field[q].label, c.label)
          /\ row.none = Either(field[q].none, c.none)
    BY DEF Applied
  <2> HIDE DEF row
  <2>4. /\ UNCHANGED <<forms, submitted, answered, ids, first, asked, overtaken>> /\ Answers(r)
        /\ exposed' = exposed \cup
             {p \in {q} : \/ field[q] = Gone
                          \/ Fixed(q) /\ (request[r].seen # "published" \/ request[r].form # Guard(q))
                          \/ Shown(q) /\ <<row.form, row.group>> # <<field[q].form, field[q].group>>}
    BY <1>2 DEF SaveField, Exposes, answers
  <2>5. field' \in [Fields -> Field \cup {NoField, Gone}] /\ field'[q] = row
        /\ \A p \in Fields \ {q} : field'[p] = field[p]
    BY <1>2, <2>1, <2>2
  <2>6. FieldStep(q)
    <3>1. CASE q \in exposed'
      BY <3>1, <2>2, <2>5 DEF FieldStep
    <3>2. CASE q \notin exposed'
      <4>1. /\ field[q] # Gone /\ Exists(q)
            /\ Fixed(q) => request[r].seen = "published" /\ request[r].form = Guard(q)
            /\ Shown(q) => row.form = field[q].form /\ row.group = field[q].group
            /\ q \notin exposed
        BY <3>2, <2>1, <2>4 DEF Exists
      <4>2. ASSUME Fixed(q), Guard(q) \notin overtaken
            PROVE  row.label = field[q].label /\ row.none = field[q].none
        <5>1. PICK l \in Labels : /\ Kept(q, Guard(q), l) /\ c.label \in {Keep, l}
                                  /\ c.none \in {Keep, FALSE}
          BY <2>1, <4>1, <4>2 DEF ReqOK
        <5>2. field[q].label = l /\ ~field[q].none
          BY <4>1, <4>2, <5>1 DEF Kept
        <5>3. field[q].none = FALSE
          BY <5>2, <4>1, <2>1 DEF Field
        <5> QED
          BY <2>3, <4>1, <5>1, <5>2, <5>3 DEF Either
      <4> QED
        BY <4>1, <4>2, <2>2, <2>5 DEF FieldStep
    <3> QED
      BY <3>1, <3>2
  <2>7. \A p \in Fields : FieldStep(p)
    BY <2>5, <2>6 DEF FieldStep
  <2>8. \A p \in answered : Exists(p)'
    BY <2>2, <2>5 DEF IInv, TypeOK, Exists
  <2>9. exposed \subseteq exposed' /\ exposed' \subseteq Fields
    BY <2>4 DEF IInv, TypeOK
  <2> QED
    BY <2>4, <2>5, <2>7, <2>8, <2>9, FieldsKeep
<1> QED
  BY <1>1, <1>2 DEF SaveField

LEMMA DeleteFieldKeeps ==
  ASSUME IInv, NEW r \in Requests, DeleteField(r), NEW q \in Fields, q = request[r].field
  PROVE  IInv'
<1>1. CASE field' = field
  BY <1>1, AnswersOnlyOK DEF DeleteField, rows, history
<1>2. CASE q \notin answered /\ field' = [field EXCEPT ![q] = Gone]
  <2>1. /\ UNCHANGED <<forms, submitted, answered, ids, first, asked, overtaken, exposed>>
        /\ Answers(r)
    BY DEF DeleteField, answers, history
  <2>2. field' \in [Fields -> Field \cup {NoField, Gone}]
    BY <1>2 DEF IInv, TypeOK
  <2>3. \A p \in Fields : FieldStep(p) /\ (p \in answered => Exists(p)')
    BY <1>2 DEF IInv, TypeOK, Exists, FieldStep
  <2>4. answered \subseteq Fields /\ exposed \subseteq Fields
    BY DEF IInv, TypeOK
  <2> QED
    BY <2>1, <2>2, <2>3, <2>4, FieldsKeep
<1> QED
  BY <1>1, <1>2 DEF DeleteField

LEMMA MoveGroupKeeps ==
  ASSUME IInv, NEW r \in Requests, NEW f \in Forms, NEW g \in Forms, MoveGroup(r, f, g)
  PROVE  IInv'
<1>1. PICK group \in SUBSET {q \in Fields : Exists(q) /\ field[q].group = f} :
        /\ field' = [q \in Fields |->
                IF q \in group THEN [field[q] EXCEPT !.group = g] ELSE field[q]]
        /\ exposed' = exposed \cup {q \in group : Shown(q)}
  BY DEF MoveGroup
<1>2. /\ UNCHANGED <<forms, submitted, answered, ids, first, asked, overtaken>> /\ Answers(r)
      /\ exposed \subseteq exposed' /\ exposed' \subseteq Fields
  BY <1>1 DEF MoveGroup, answers, IInv, TypeOK
<1>3. ASSUME NEW q \in Fields
      PROVE  /\ field'[q] \in Field \cup {NoField, Gone} /\ FieldStep(q)
             /\ q \in answered => Exists(q)'
  <2>1. CASE q \in group
    <3>1. field[q] \in Field /\ Exists(q) /\ {NoField, Gone} \cap Field = {}
      BY <2>1, SentinelAssumption DEF IInv, TypeOK, Exists
    <3>2. field'[q] = [field[q] EXCEPT !.group = g]
      BY <1>1, <2>1
    <3>3. /\ field'[q] \in Field
          /\ field'[q].label = field[q].label /\ field'[q].none = field[q].none
      BY <3>1, <3>2 DEF Field
    <3>4. q \in exposed' \/ ~Shown(q)
      BY <1>1, <2>1
    <3> QED
      BY <3>1, <3>3, <3>4 DEF FieldStep, Exists
  <2>2. CASE q \notin group
    <3>1. field'[q] = field[q]
      BY <1>1, <2>2
    <3> QED
      BY <3>1 DEF FieldStep, IInv, TypeOK, Exists
  <2> QED
    BY <2>1, <2>2
<1>4. field' \in [Fields -> Field \cup {NoField, Gone}]
  BY <1>1, <1>3
<1>5. answered \subseteq Fields
  BY DEF IInv, TypeOK
<1> QED
  BY <1>2, <1>3, <1>4, <1>5, FieldsKeep

LEMMA SaveSubmissionKeeps ==
  ASSUME IInv, NEW r \in Requests, SaveSubmission(r), NEW f \in Forms, f = request[r].form,
         NEW q \in Fields, q = request[r].field
  PROVE  IInv'
<1> DEFINE row == request[r].read[q]
           counts == asked[q] = NoField /\ request[r].seen = "published" /\ ~row.none
<1>1. UNCHANGED <<forms, field, ids, first, overtaken>> /\ Answers(r)
  BY DEF SaveSubmission
<1>2. CASE UNCHANGED <<submitted, answered, asked, exposed>>
  BY <1>1, <1>2, AnswersOnlyOK DEF rows, history, answers
<1>3. CASE /\ forms[f] # NoForm /\ Exists(q)
           /\ submitted' = submitted \cup {f}
           /\ answered' = answered \cup {q}
           /\ asked' = IF counts THEN [asked EXCEPT ![q] = [form |-> f, label |-> row.label]]
                       ELSE asked
           /\ exposed' = exposed \cup {p \in {q} : counts /\ Guard(q) # f}
  <2>1. ReqOK(request[r]) /\ request[r].pc = "submit" /\ row \in Field
    BY DEF IInv, ReqOK, SaveSubmission, At
  <2>2. PICK l \in Labels : l = row.label
    BY <2>1 DEF Field
  <2>3. counts => Kept(q, f, l)
    BY <2>1, <2>2 DEF ReqOK
  <2> HIDE DEF row, counts
  <2>4. exposed \subseteq exposed' /\ exposed' \subseteq Fields
        /\ (counts => Guard(q) = f \/ q \in exposed')
    BY <1>3 DEF IInv, TypeOK
  <2>5. Evolves
    BY <1>1, <2>4 DEF Evolves, FieldStep
  <2>6. /\ request' \in [Requests -> Request]
        /\ \A p \in Requests : ReqOK(request[p])'
    BY <1>1, <2>5, AnswersOK
  <2>7. /\ asked' \in [Fields -> [form : Forms, label : Labels] \cup {NoField}]
        /\ \A p \in Fields : asked'[p] = asked[p] \/ (p = q /\ counts)
        /\ counts => asked'[q] = [form |-> f, label |-> l]
    BY <1>3, <2>2 DEF IInv, TypeOK
  <2>8. TypeOK'
    <3>1. UniqueVersions'
      BY <1>1 DEF IInv, TypeOK, UniqueVersions, Versioned, Free
    <3>2. submitted' \subseteq {g \in Forms : forms'[g] # NoForm}
          /\ answered' \subseteq {p \in Fields : Exists(p)'}
      BY <1>1, <1>3 DEF IInv, TypeOK, Exists
    <3> QED
      BY <1>1, <2>4, <2>6, <2>7, <3>1, <3>2 DEF IInv, TypeOK
  <2>9. \A g \in Forms : FormOK(g)'
    BY <1>1 DEF IInv, FormOK, IsPublished
  <2>10. ASSUME NEW p \in Fields PROVE FieldOK(p)'
    <3>1. CASE asked'[p] = asked[p]
      BY <3>1, <1>3, <2>5, FieldStays
    <3>2. CASE p = q /\ counts
      <4>1. Kept(q, f, l)'
        BY <2>3, <2>5, <3>2, KeptStays
      <4>2. asked'[q].form = f /\ asked'[q].label = l
        BY <2>7, <3>2
      <4>3. Guard(q)' = f \/ q \in exposed'
        BY <1>1, <2>4, <3>2 DEF Guard
      <4>4. Kept(q, asked[q].form, asked[q].label)'
        BY <4>1, <4>2, <1>1 DEF Kept, Guard, FieldsOf, Exists
      <4> QED
        BY <1>3, <3>2, <4>2, <4>3, <4>4 DEF FieldOK
    <3> QED
      BY <2>7, <3>1, <3>2
  <2> QED
    BY <2>6, <2>8, <2>9, <2>10 DEF IInv
<1> QED
  BY <1>2, <1>3 DEF SaveSubmission, answers

-----------------------------------------------------------------------------
LEMMA Initially == Init => IInv
<1> SUFFICES ASSUME Init PROVE IInv
  OBVIOUS
<1>1. /\ forms \in [Forms -> [slug : Slugs, language : Languages, version : {0}, state : {"draft"}]
                            \cup [slug : Slugs, language : Languages, version : {1},
                                  state : {"published"}]
                            \cup {NoForm}]
      /\ UniqueVersions
      /\ ids = {f \in Forms : forms[f] # NoForm}
      /\ field \in [Fields -> [form : ids, group : {NoForm}, label : Labels, none : BOOLEAN]
                               \cup {NoField}]
      /\ submitted = {} /\ answered = {} /\ overtaken = {} /\ exposed = {}
      /\ request = [r \in Requests |-> Resting("idle")]
      /\ first = [f \in Forms |-> IF f \in ids THEN forms[f].version ELSE 0]
      /\ asked = [q \in Fields |-> NoField]
  BY DEF Init
<1>2. ASSUME NEW f \in Forms
      PROVE  /\ forms[f] \in Form \cup {NoForm}
             /\ first[f] \in 0 .. MaxVersion
             /\ FormOK(f)
  <2>1. CASE forms[f] = NoForm
    BY <2>1, <1>1, BoundAssumption DEF FormOK, IsPublished
  <2>2. CASE forms[f] # NoForm
    <3>1. /\ forms[f] \in Form /\ first[f] = forms[f].version
          /\ \/ forms[f].version = 0 /\ forms[f].state = "draft"
             \/ forms[f].version = 1 /\ forms[f].state = "published"
      BY <2>2, <1>1, BoundAssumption DEF Form, States
    <3> QED
      BY <2>2, <3>1, <1>1, BoundAssumption DEF FormOK, IsPublished, Form
  <2> QED
    BY <2>1, <2>2
<1>3. /\ request \in [Requests -> Request]
      /\ \A r \in Requests : ReqOK(request[r])
  BY <1>1, RestingOK
<1>4. field \in [Fields -> Field \cup {NoField, Gone}]
  <2>1. [form : ids, group : {NoForm}, label : Labels, none : BOOLEAN] \subseteq Field
    BY <1>1 DEF Field
  <2> QED
    BY <1>1, <2>1
<1>5. TypeOK
  <2>1. forms \in [Forms -> Form \cup {NoForm}] /\ first \in [Forms -> 0 .. MaxVersion]
    BY <1>1, <1>2
  <2> QED
    BY <2>1, <1>1, <1>3, <1>4 DEF TypeOK
<1>6. \A q \in Fields : FieldOK(q)
  BY <1>1 DEF FieldOK
<1> QED
  BY <1>2, <1>3, <1>5, <1>6 DEF IInv

LEMMA ProceedsKeeps ==
  ASSUME IInv, NEW r \in Requests, Proceeds(r)
  PROVE  IInv'
<1>1. CASE Number(r)
  BY <1>1, NumberKeeps
<1>2. CASE Save(r) \/ Delete(r)
  <2>1. request[r].form \in Forms
    BY <1>2 DEF Save, Delete, At, IInv, TypeOK, ReqOK
  <2> QED
    BY <1>2, <2>1, SaveKeeps, DeleteKeeps
<1>3. CASE SaveField(r) \/ DeleteField(r)
  <2>1. request[r].field \in Fields
    BY <1>3 DEF SaveField, DeleteField, At, IInv, ReqOK
  <2> QED
    BY <1>3, <2>1, SaveFieldKeeps, DeleteFieldKeeps
<1>4. CASE SaveSubmission(r)
  <2>1. request[r].form \in Forms /\ request[r].field \in Fields
    BY <1>4 DEF SaveSubmission, At, IInv, TypeOK, ReqOK
  <2> QED
    BY <1>4, <2>1, SaveSubmissionKeeps
<1>5. CASE Fail(r)
  BY <1>5, AnswersOnlyOK DEF Fail
<1> QED
  BY <1>1, <1>2, <1>3, <1>4, <1>5 DEF Proceeds

LEMMA Inductive == IInv /\ [Next]_vars => IInv'
<1> SUFFICES ASSUME IInv, [Next]_vars PROVE IInv'
  OBVIOUS
<1>1. ASSUME NEW r \in Requests, Proceeds(r) PROVE IInv'
  BY <1>1, ProceedsKeeps
<1>2. ASSUME NEW r \in Requests, NEW f \in Forms, ServesForm(r, f) PROVE IInv'
  <2>1. ASSUME NEW row \in Form, Create(r, f, row) PROVE IInv'
    BY <2>1, CreateKeeps
  <2>2. ASSUME NEW language \in Languages, NewDraft(r, f, language) PROVE IInv'
    BY <2>2, NewDraftKeeps
  <2>3. CASE Clone(r, f)
    BY <2>3, CloneKeeps
  <2>4. ASSUME NEW c \in Changes, c.version \in Numbers, Update(r, f, c) PROVE IInv'
    BY <2>4, UpdateKeeps
  <2>5. CASE Remove(r, f)
    BY <2>5, RemoveKeeps
  <2> QED
    BY <1>2, <2>1, <2>2, <2>3, <2>4, <2>5 DEF ServesForm
<1>3. ASSUME NEW r \in Requests, NEW q \in Fields, ServesField(r, q) PROVE IInv'
  <2>1. ASSUME NEW c \in Patches, AddField(r, q, c) PROVE IInv'
    BY <2>1, AddFieldKeeps
  <2>2. ASSUME NEW c \in Patches, UpdateField(r, q, c) PROVE IInv'
    BY <2>2, UpdateFieldKeeps
  <2>3. CASE RemoveField(r, q)
    BY <2>3, RemoveFieldKeeps
  <2>4. ASSUME NEW f \in Forms, Submit(r, f, q) PROVE IInv'
    BY <2>4, SubmitKeeps
  <2> QED
    BY <1>3, <2>1, <2>2, <2>3, <2>4 DEF ServesField
<1>4. ASSUME NEW r \in Requests, NEW f \in Forms, NEW g \in Forms, MoveGroup(r, f, g)
      PROVE  IInv'
  BY <1>4, MoveGroupKeeps
<1>5. CASE UNCHANGED vars
  <2>1. UNCHANGED <<forms, field, submitted, answered, ids, first, asked, overtaken, exposed, request>>
    BY <1>5 DEF vars, rows, history, answers
  <2>2. TypeOK'
    BY <2>1 DEF IInv, TypeOK, UniqueVersions, Versioned, Free, Exists
  <2>3. \A f \in Forms : FormOK(f)'
    BY <2>1 DEF IInv, FormOK, IsPublished
  <2>4. Evolves
    BY <2>1, StandsStill
  <2>5. \A q \in Fields : FieldOK(q)'
    BY <2>1, <2>4, FieldStays
  <2>6. \A r \in Requests : ReqOK(request[r])'
    <3> SUFFICES ASSUME NEW r \in Requests PROVE ReqOK(request[r])'
      OBVIOUS
    <3>1. PICK x \in Request : x = request[r]
      BY DEF IInv, TypeOK
    <3>2. ReqOK(x)' /\ request'[r] = x
      BY <2>1, <2>4, <3>1, ReqStays DEF IInv
    <3> QED
      BY <3>2 DEF ReqOK
  <2> QED
    BY <2>2, <2>3, <2>5, <2>6 DEF IInv
<1> QED
  BY <1>1, <1>2, <1>3, <1>4, <1>5 DEF Next

LEMMA Invariance == Spec => []IInv
BY Initially, Inductive, PTL DEF Spec

-----------------------------------------------------------------------------
(* Every variable keeps its type: no two forms share slug, version and      *)
(* language, and what was answered is not deleted (the constraints of the   *)
(* tables).                                                                 *)
THEOREM TypeCorrect == Spec => []TypeOK
<1>1. IInv => TypeOK
  BY DEF IInv
<1> QED
  BY <1>1, Invariance, PTL

(* A published form stays, with its version, unless a request that had read *)
(* the draft overtook the publication (Form.validateChanges,                *)
(* FormsService.update, beforeRemove).                                      *)
THEOREM PublicationLasts == Spec => []PublishedForGood
<1>1. IInv => PublishedForGood
  <2> SUFFICES ASSUME IInv, NEW f \in Forms, first[f] > 0
               PROVE  (IsPublished(f) /\ forms[f].version = first[f]) \/ f \in overtaken
    BY DEF PublishedForGood
  <2>1. first[f] # 0
    BY DEF IInv, TypeOK
  <2> QED
    BY <2>1 DEF IInv, FormOK
<1> QED
  BY <1>1, Invariance, PTL

(* A question that was answered in a published form is still among its      *)
(* fields and keeps its label, unless a request that had read the draft     *)
(* overtook the publication, or the field is one that the checks did not    *)
(* cover: their reasons are those of Exposes, MoveGroup and SaveSubmission  *)
(* (FieldsService.update, validateChanges, beforeRemove).                   *)
THEOREM AnswersKeepQuestions == Spec => []QuestionsKept
<1>1. IInv => QuestionsKept
  <2> SUFFICES ASSUME IInv, NEW q \in Fields, asked[q] # NoField,
                      asked[q].form \notin overtaken, q \notin exposed
               PROVE  q \in FieldsOf(asked[q].form) /\ field[q].label = asked[q].label
    BY DEF QuestionsKept
  <2>1. q \in answered /\ Kept(q, asked[q].form, asked[q].label) /\ Guard(q) = asked[q].form
    BY DEF IInv, FieldOK
  <2>2. field[q] # Gone
    BY <2>1 DEF IInv, TypeOK, Exists
  <2> QED
    BY <2>1, <2>2 DEF Kept
<1> QED
  BY <1>1, Invariance, PTL

(* Where a form is published the latest version is a published one, unless  *)
(* a client numbered a draft or a form was overtaken                        *)
(* (FormsService.findAllLatestByLanguage).                                  *)
THEOREM LatestVersionPublished == Spec => []LatestIsPublished
<1>1. IInv => LatestIsPublished
  <2> SUFFICES ASSUME IInv, NEW slug \in Slugs, NEW language \in Languages,
                      NEW f \in Forms, IsPublished(f), forms[f].slug = slug,
                      forms[f].language = language, NEW g \in Latest(slug, language)
               PROVE  IsPublished(g) \/ forms[g].version \in Numbers \ {0} \/ g \in overtaken
    BY DEF LatestIsPublished
  <2>1. /\ g \in Forms /\ forms[g] # NoForm /\ forms[f].version <= forms[g].version
    BY DEF Latest, IsPublished
  <2>2. forms[f].version > 0 /\ forms[f] \in Form /\ forms[g] \in Form
    BY <2>1 DEF IInv, TypeOK, UniqueVersions, Versioned, IsPublished
  <2>3. forms[g].version # 0
    BY <2>1, <2>2, BoundAssumption DEF Form
  <2> QED
    BY <2>1, <2>3 DEF IInv, FormOK
<1> QED
  BY <1>1, Invariance, PTL
=============================================================================
