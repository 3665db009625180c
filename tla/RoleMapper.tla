----------------------------- MODULE RoleMapper -----------------------------
(***************************************************************************)
(* The RBAC audit (rbac-mapper.ts): a policy of roles that inherit from    *)
(* each other, possibly in a circle, is searched for users that reach      *)
(* administrative power.                                                   *)
(*                                                                         *)
(* Roles are numbered in the order the policy lists them.  A role's kind   *)
(* is what the scan can tell about it: "flagged" has isAdmin, "named" and  *)
(* "by id" match the pattern for administrators in the name or only in the *)
(* id, "dangerous", "wildcard" and "scoped" own manage:users, * and        *)
(* reports:*, a "plain" role owns nothing of note.                         *)
(*                                                                         *)
(* The two recursive searches are depth first; a step is one call, one     *)
(* parent looked at or one return, and a frame of the stack is a call that *)
(* has not returned.  Each call copies the set of visited roles for its    *)
(* parents: visited are the roles on the stack.                            *)
(***************************************************************************)
EXTENDS Integers, Sequences, Functions

CONSTANTS
    Policies,           \* the policies to scan: [inherits, kind, holds]
    NumRoles,
    MaxDepth            \* maxInheritanceDepth

Roles == 1 .. NumRoles
Kinds == {"flagged", "named", "by id", "dangerous", "wildcard", "scoped", "plain"}
Dangerous == {"*", "manage:users"}

\* A name that is not of the policy is a number that is not of a role.
ASSUME RoleAssumption ==
    /\ NumRoles \in Nat /\ MaxDepth \in Nat \ {0}
    /\ \A p \in Policies : /\ p.inherits \in [Roles -> Seq(Nat)]
                           /\ p.kind \in [Roles -> Kinds]
                           /\ p.holds \in Seq(Nat)

VARIABLES
    rbac,               \* the policy
    stage,              \* "idle", "read", "resolving", "judging", "done"
    resolving,          \* the role whose permissions are resolved next
    cache,              \* the permissions resolved: role to set
    judging,            \* the place in the user's roles of the one judged next
    findings,           \* the escalations found: [role, severity]
    status,             \* the status that scan() returned, or the error
    stack               \* the calls underway: [role, at, perms]

roleVars == <<rbac, stage, resolving, cache, judging, findings, status, stack>>

RoleInit ==
    /\ rbac = [inherits |-> <<>>, kind |-> <<>>, holds |-> <<>>]
    /\ stage = "idle" /\ resolving = 1 /\ cache = <<>> /\ judging = 1
    /\ findings = {} /\ status = "none" /\ stack = <<>>

(* rbacCheck(): the policy is read from its file. *)
ReadPolicy ==
    /\ stage = "idle"
    /\ stage' = "read"
    /\ rbac' \in Policies
    /\ UNCHANGED <<resolving, cache, judging, findings, status, stack>>

OwnPermissions(r) ==
    CASE rbac.kind[r] = "dangerous" -> {"manage:users"}
      [] rbac.kind[r] = "wildcard" -> {"*"}
      [] rbac.kind[r] = "scoped" -> {"reports:*"}
      [] OTHER -> {}

(* validatePolicy(): inherits and roles name roles of the policy. *)
ValidPolicy ==
    /\ \A r \in Roles : Range(rbac.inherits[r]) \subseteq Roles
    /\ Range(rbac.holds) \subseteq Roles

BeginScan ==
    /\ stage = "read"
    /\ IF ValidPolicy THEN stage' = "resolving" /\ UNCHANGED status
       ELSE stage' = "done" /\ status' = "UNKNOWN_ROLE"
    /\ UNCHANGED <<rbac, resolving, cache, judging, findings, stack>>

-----------------------------------------------------------------------------
Frame(r, at, perms) == [role |-> r, at |-> at, perms |-> perms]
Call(r, perms) == Frame(r, 1, perms)
Top == stack[Len(stack)]
Visited == {stack[k].role : k \in DOMAIN stack}
AtParent == stack # <<>> /\ Top.at \in DOMAIN rbac.inherits[Top.role]
AtReturn == stack # <<>> /\ Top.at \notin DOMAIN rbac.inherits[Top.role]
Parent == rbac.inherits[Top.role][Top.at]

(* The last call of s goes on with its next parent, with perms added. *)
GoOn(s, perms) ==
    [s EXCEPT ![Len(s)] = Frame(@.role, @.at + 1, @.perms \union perms)]

(* The last call returns perms to the one that made it. *)
Return(perms) ==
    stack' = IF Len(stack) = 1 THEN <<>> ELSE GoOn(SubSeq(stack, 1, Len(stack) - 1), perms)

(* resolveAllPermissions(): the roles in their order, with a cache of what *)
(* was found for a role, also when the search was cut short by a circle or *)
(* the depth.                                                              *)
ResolveRole ==
    /\ stage = "resolving" /\ stack = <<>> /\ resolving \in Roles
    /\ IF resolving \in DOMAIN cache THEN resolving' = resolving + 1 /\ UNCHANGED stack
       ELSE stack' = <<Call(resolving, OwnPermissions(resolving))>> /\ UNCHANGED resolving
    /\ UNCHANGED <<rbac, stage, cache, judging, findings, status>>

CutShort == Parent \in Visited \/ Len(stack) > MaxDepth

ResolveParent ==
    /\ stage = "resolving" /\ AtParent
    /\ \/ Parent \in DOMAIN cache /\ stack' = GoOn(stack, cache[Parent])
       \/ Parent \notin DOMAIN cache /\ CutShort /\ stack' = GoOn(stack, OwnPermissions(Parent))
       \/ /\ Parent \notin DOMAIN cache /\ ~CutShort
          /\ stack' = Append(stack, Call(Parent, OwnPermissions(Parent)))
    /\ UNCHANGED <<rbac, stage, resolving, cache, judging, findings, status>>

ReturnPermissions ==
    /\ stage = "resolving" /\ AtReturn
    /\ cache' = [q \in DOMAIN cache \union {Top.role} |->
                    IF q = Top.role THEN Top.perms ELSE cache[q]]
    /\ Return(Top.perms)
    /\ UNCHANGED <<rbac, stage, resolving, judging, findings, status>>

AllResolved ==
    /\ stage = "resolving" /\ stack = <<>> /\ resolving \notin Roles
    /\ stage' = "judging"
    /\ UNCHANGED <<rbac, resolving, cache, judging, findings, status, stack>>

-----------------------------------------------------------------------------
LooksAdmin(r) == rbac.kind[r] \in {"flagged", "named", "by id"}

\* Slip: only flags and names make a role an administrator's.
AdminRoleIdsByName == {r \in Roles : LooksAdmin(r)}

(* resolveAdminRoleIds() *)
AdminRoleIds == {r \in Roles : LooksAdmin(r) \/ cache[r] \intersect Dangerous # {}}

(* detectPrivilegeEscalation(): the severity of what a role is by itself,  *)
(* the vectors in the order they are tried.                                *)
DirectSeverity(r) ==
    CASE rbac.kind[r] = "flagged" -> "CRITICAL"
      [] rbac.kind[r] # "flagged" /\ "*" \in cache[r] -> "CRITICAL"
      [] rbac.kind[r] # "flagged" /\ "*" \notin cache[r] ->
            IF "manage:users" \in cache[r] \/ rbac.kind[r] = "named" THEN "HIGH" ELSE "none"

Judged == rbac.holds[judging]

Finds(severity) ==
    /\ findings' = findings \union {[role |-> Judged, severity |-> severity]}
    /\ judging' = judging + 1

JudgeRole ==
    /\ stage = "judging" /\ stack = <<>> /\ judging \in DOMAIN rbac.holds
    /\ IF DirectSeverity(Judged) # "none" THEN Finds(DirectSeverity(Judged)) /\ UNCHANGED stack
       ELSE stack' = <<Call(Judged, {})>> /\ UNCHANGED <<findings, judging>>
    /\ UNCHANGED <<rbac, stage, resolving, cache, status>>

(* findAdminInheritanceChain(): the first chain that ends in an            *)
(* administrator's role is returned through all the calls.                 *)
FindChain ==
    /\ stage = "judging" /\ AtParent /\ Parent \in AdminRoleIds
    /\ Finds("HIGH") /\ stack' = <<>>
    /\ UNCHANGED <<rbac, stage, resolving, cache, status>>

SearchParent ==
    /\ stage = "judging" /\ AtParent /\ Parent \notin AdminRoleIds
    /\ stack' = IF Parent \in Visited THEN GoOn(stack, {}) ELSE Append(stack, Call(Parent, {}))
    /\ UNCHANGED <<rbac, stage, resolving, cache, judging, findings, status>>

ReturnNoChain ==
    /\ stage = "judging" /\ AtReturn
    /\ Return({})
    /\ judging' = IF Len(stack) = 1 THEN judging + 1 ELSE judging
    /\ UNCHANGED <<rbac, stage, resolving, cache, findings, status>>

(* detectLeastPrivilegeViolations() flags wildcards of any scope. *)
Excessive == UNION {cache[r] : r \in Range(rbac.holds)}

EndScan ==
    /\ stage = "judging" /\ stack = <<>> /\ judging \notin DOMAIN rbac.holds
    /\ stage' = "done"
    /\ status' = IF findings = {} /\ Excessive = {} THEN "SAFE" ELSE "VIOLATIONS_FOUND"
    /\ UNCHANGED <<rbac, resolving, cache, judging, findings, stack>>

RoleNext ==
    \/ ReadPolicy \/ BeginScan
    \/ ResolveRole \/ ResolveParent \/ ReturnPermissions \/ AllResolved
    \/ JudgeRole \/ FindChain \/ SearchParent \/ ReturnNoChain \/ EndScan

RoleSpec == RoleInit /\ [][RoleNext]_roleVars

-----------------------------------------------------------------------------
Parents(r) == Range(rbac.inherits[r])

(* The role r and those it inherits from, whichever way: what every set    *)
(* that r is in and that has the parents of its roles has.                 *)
Ancestors(r) ==
    {q \in Roles : \A S \in SUBSET Roles :
        r \in S /\ (\A s \in S : Parents(s) \subseteq S) => q \in S}

OwnsPower(r) == rbac.kind[r] \in {"flagged", "named", "dangerous", "wildcard"}

(* A finding is told for a role of the user exactly if the role has power  *)
(* of its own or inherits, through any chain or circle, from one that has  *)
(* or that passes for an administrator's by its id.  The cache may hold    *)
(* too little for roles in a circle and beyond the depth; the search for   *)
(* chains has to make up for it.                                           *)
FindingsAreExact ==
    stage = "done" /\ status # "UNKNOWN_ROLE" =>
        \A r \in Range(rbac.holds) :
            (\E f \in findings : f.role = r) <=>
                \/ OwnsPower(r)
                \/ \E p \in Parents(r) : \E q \in Ancestors(p) : OwnsPower(q) \/ LooksAdmin(q)

(* A scan that says SAFE has overlooked nobody: no role that a user holds, *)
(* and none it inherits from through any chain or circle, is flagged or    *)
(* named as an administrator's or owns a dangerous permission.             *)
SafeMeansNoAdmin ==
    status = "SAFE" =>
        \A r \in Range(rbac.holds) : \A q \in Ancestors(r) : ~OwnsPower(q)

(* "Resolve the full effective permission set for every role, following    *)
(* `inherits` edges with DFS and cycle detection" (rbac-mapper.ts:448).    *)
EffectiveIsFull ==
    stage = "done" /\ status # "UNKNOWN_ROLE" =>
        \A r \in Roles : cache[r] = UNION {OwnPermissions(q) : q \in Ancestors(r)}
=============================================================================
