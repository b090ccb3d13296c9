--------------------------- MODULE MCFormVersions ---------------------------
(* FormVersions for TLC: requests, forms and labels are interchangeable.  A *)
(* dto of a field names a label, or the type, or where the field belongs,   *)
(* or all of it.  The second field is only there for the copies of drafts.  *)
EXTENDS FormVersions, TLC

CONSTANT copy

Same == [form |-> Keep, group |-> Keep, label |-> Keep, none |-> Keep]

MCPatches ==
    {[Same EXCEPT !.label = l] : l \in Labels}
    \cup {[Same EXCEPT !.none = b] : b \in BOOLEAN}
    \cup {[Same EXCEPT !.form = f] : f \in Forms}
    \cup {[Same EXCEPT !.group = f] : f \in Forms}
    \cup {[form |-> f, group |-> g, label |-> l, none |-> FALSE] :
            f \in Forms, g \in Forms \cup {NoForm}, l \in Labels}

Symmetry == Permutations(Requests) \cup Permutations(Forms) \cup Permutations(Labels)

\* Bounds: at first there is one field at most, and nobody adds another.
MCInit == Init /\ field[copy] = NoField

MCSpec == MCInit /\ [][Next]_vars

OnlyCopied ==
    field[copy] = field'[copy] \/ \A r \in Requests : At(r, "idle") => request'[r] = request[r]
=============================================================================
