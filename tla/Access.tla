------------------------------- MODULE Access -------------------------------
(***************************************************************************)
(* Who may do what with an asset: the Cedar policies of rbac.cedar over    *)
(* the entities that the enforcement layer builds, and its filters.        *)
(*                                                                         *)
(* A principal p has a sub, an spn and a role; its groups G are those of   *)
(* the token and of the instance together.  A row x is an asset as read:   *)
(* its creator (by), its visibility (vis, "open" without an authorization  *)
(* context), its owner_groups (groups) and whether it is tagged as an      *)
(* instance type (instance).  Confidentiality and status reach Cedar too,  *)
(* but no policy looks at them.                                            *)
(***************************************************************************)
EXTENDS Paging

Enforced(x) == x.vis # "open"              \* should_enforce_cedar

Administers(p) == p.role = "admin"
Created(p, x) == x.by = p.sub

\* owner_groups names a group, the sub or the spn.
InTeam(p, G, x) == x.vis = "team" /\ x.groups \cap (G \cup {p.sub, p.spn}) # {}

Barred(p, action, x) == x.instance /\ action \in {"Edit", "Delete", "Tag"} /\ ~Administers(p)

Permitted(p, G, action, x) ==
    \/ Administers(p)
    \/ action = "View" /\ (x.vis \in {"public", "org"} \/ Created(p, x) \/ InTeam(p, G, x))
    \/ action = "Edit" /\ (Created(p, x) \/ InTeam(p, G, x))
    \/ action = "Delete" /\ Created(p, x)
    \/ action \in {"Tag", "Relate"}

\* A forbid wins over every permit.
Evaluate(p, G, action, x) == Permitted(p, G, action, x) /\ ~Barred(p, action, x)

CheckPermission(p, G, action, x) == Enforced(x) => Evaluate(p, G, action, x)

\* The list filter judges row by row.
FilterByPermission(p, G, action, rows) == {x \in rows : CheckPermission(p, G, action, x)}

\* Mutant of Band: the groups are left out.
BandWithoutGroups(x) == <<x.by, x.vis, x.instance>>

\* What a verdict depends on.  (Joined with commas, the sorted groups stand for
\* their set as long as no name holds a comma.)
Band(x) == <<x.by, x.vis, x.groups, x.instance>>

\* The search filter judges the first row of each band for all of it.
Represents(x, rows) == CHOOSE y \in rows :
    /\ Enforced(y) /\ Band(y) = Band(x)
    /\ \A z \in rows : Enforced(z) /\ Band(z) = Band(x) => ~Newer(z, y)

FilterBatched(p, G, action, rows) ==
    {x \in rows : Enforced(x) => Evaluate(p, G, action, Represents(x, rows))}
=============================================================================
