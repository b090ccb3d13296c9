------------------------ MODULE MCOrganizationUsers ------------------------
(* One organization with units x, y and xx, where y lies in x or in xx; the *)
(* staff of unit x sees the paths that start with "/a/x", those of "xx"     *)
(* among them.  Three requests.           *)
EXTENDS OrganizationUsers, TLC

CONSTANTS r1, r2, r3

Symmetry == Permutations(Requests)

Unit(slug, parent) == [org |-> Org, slug |-> slug, parent |-> parent]

MCLayouts == {{Unit("x", None), Unit("xx", None), Unit("y", p)} : p \in {"x", "xx"}}

MCBeginnings == {<<"x", "xx">>} \cup {<<s, s>> : s \in Slugs \cup {Org}}

Caller(level, unit, path) ==
    [permissions |-> {level}, organization |-> Org, unit |-> unit, path |-> path]

Admin == Caller("level:admin", None, <<>>)
Staff == Caller("level:organization", None, <<>>)
UnitStaff == Caller("level:unit", "x", <<Org, "x">>)

AskFor(op, u, caller, unit, training, group) ==
    [op |-> op, user |-> u, caller |-> caller, unit |-> unit, training |-> training, group |-> group]

MCAsks ==
    UNION {{AskFor("create", u, Admin, "y", "yes", Training),
            AskFor("create", u, UnitStaff, "xx", "yes", Training),
            AskFor("create", u, UnitStaff, "z", "absent", Training),
            AskFor("update", u, Admin, "y", "absent", Training),
            AskFor("update", u, Admin, None, "no", Training),
            AskFor("update", u, UnitStaff, "xx", "yes", Training),
            AskFor("delete", u, Staff, None, "absent", Training),
            AskFor("activate", u, UnitStaff, None, "absent", Training),
            AskFor("deactivate", u, UnitStaff, None, "absent", Training),
            AskFor("assign", u, Admin, None, "absent", Training),
            AskFor("assign", u, Staff, None, "absent", "other"),
            AskFor("revoke", u, Staff, None, "absent", Training)} : u \in Users}
=============================================================================
