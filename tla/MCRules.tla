------------------------------ MODULE MCRules -------------------------------
(* The rules that judge: roles, log spikes, severity tiers, the signature  *)
(* of the policy bundle.  They share no state: a behaviour is about one of *)
(* them.                                                                   *)
EXTENDS RoleMapper, LogSpikes, SeverityTiering, PolicyBundle

VARIABLE rule

ruleVars == <<rule, roleVars, spikeVars, tieringVars, bundleVars>>

(* Roles with at most two parents each and four inheritances in all,       *)
(* circles included, one of them special, and a user with the first role,  *)
(* with two roles or with an unknown one.                                  *)
MCInherits ==
    LET Few == {s \in UNION {[1 .. n -> 1 .. NumRoles] : n \in 0 .. 2} : Len(s) < 2 \/ s[1] < s[2]}
    IN  {g \in [1 .. NumRoles -> Few] :
            Cardinality({e \in (1 .. NumRoles) \X {1, 2} : e[2] <= Len(g[e[1]])}) <= 4}

MCPolicies ==
    LET OneOf(r, k) == [q \in 1 .. NumRoles |-> IF q = r THEN k ELSE "plain"]
    IN  [inherits : MCInherits,
         kind : {OneOf(r, k) : r \in 1 .. NumRoles, k \in {"named", "by id", "dangerous"}},
         holds : {<<1>>, <<2, 1>>, <<0>>}]

(* Up to five entries at five moments. *)
MCBatches == UNION {[1 .. n -> [time : 0 .. 4, level : {"info", "error"}]] : n \in 0 .. 5}

(* As signed, in another order, with a path twice, without one, changed. *)
MCManifests ==
    LET a(p) == Entry(p, "a")
        b(p) == Entry(p, "b")
    IN  { <<a(1), a(2)>>, <<a(2), a(1)>>, <<b(1), a(1), a(2)>>, <<a(1), b(1), a(2)>>,
          <<a(1)>>, <<b(1), a(2)>> }

NoBundle ==
    /\ policies = [p \in Paths |-> "absent"]
    /\ manifestFile = [at |-> "missing", files |-> <<>>]
    /\ signature = [at |-> "missing", key |-> "none", payload |-> <<>>]
    /\ trustedSigners = {} /\ writes = 0 /\ reading = "idle" /\ listed = {} /\ live = <<>>
    /\ bundle = NotVerified

MCInit ==
    /\ rule \in {"roles", "logs", "tiers", "bundle"}
    /\ RoleInit /\ SpikeInit /\ TieringInit
    /\ IF rule = "bundle" THEN BundleInit ELSE NoBundle

MCNext ==
    \/ rule = "roles" /\ RoleNext /\ UNCHANGED <<rule, spikeVars, tieringVars, bundleVars>>
    \/ rule = "logs" /\ SpikeNext /\ UNCHANGED <<rule, roleVars, tieringVars, bundleVars>>
    \/ rule = "tiers" /\ TieringNext /\ UNCHANGED <<rule, roleVars, spikeVars, bundleVars>>
    \/ rule = "bundle" /\ BundleNext /\ UNCHANGED <<rule, roleVars, spikeVars, tieringVars>>

MCSpec == MCInit /\ [][MCNext]_ruleVars
=============================================================================
