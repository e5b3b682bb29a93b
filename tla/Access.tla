------------------------------- MODULE Access -------------------------------
(***************************************************************************)
(* Who may do what: the role table, the check every handler makes, and the *)
(* tenant a handler goes on with.  Pure operators.                         *)
(*                                                                         *)
(* A principal is [roles, tenant]; roles is a sequence, as a token lists   *)
(* them, and may hold names the table does not know.                       *)
(***************************************************************************)
EXTENDS Sequences, SequencesExt

CONSTANTS Tenants,
          NotAnId      \* a tenant that is no uuid

Actions == {"manage_tenants", "manage_users", "edit_tunables", "submit_exam",
            "view_results", "review_fix_approve"}

rolePermissions ==
  [operator     |-> Actions,
   group_admin  |-> Actions \ {"manage_tenants"},
   school_admin |-> Actions \ {"manage_tenants"},
   teacher      |-> {"submit_exam", "view_results", "review_fix_approve"},
   reviewer     |-> {"view_results", "review_fix_approve"},
   scanner      |-> {"submit_exam"}]

Allows(role, action) == role \in DOMAIN rolePermissions /\ action \in rolePermissions[role]

\* Mutant: an operator crosses tenants in every deployment.
OperatorEverywhere(roles, action, principalTenants, resourceTenant, mode) ==
  /\ \E r \in Range(roles) : Allows(r, action)
  /\ \/ "operator" \in Range(roles)
     \/ resourceTenant \in principalTenants

Can(roles, action, principalTenants, resourceTenant, mode) ==
  /\ \E r \in Range(roles) : Allows(r, action)
  /\ \/ "operator" \in Range(roles) /\ mode = "saas"
     \/ resourceTenant \in principalTenants

---------------------------------------------------------------------------
(***************************************************************************)
(* The answer to a request: a status, and the tenant the handler goes on   *)
(* with if it is 200.                                                      *)
(***************************************************************************)
Denied(status) == [status |-> status, tenant |-> {}]
GoOn(tenant)   == IF tenant = NotAnId THEN Denied(400) ELSE [status |-> 200, tenant |-> {tenant}]

\* Handlers of one submission, which is the tenant that owns it, or none.  The
\* tenant that goes on is the principal's.
fetchAndAuthorize(p, owner, action, mode) ==
  IF owner = {} \/ ~Can(p.roles, action, {p.tenant}, CHOOSE t \in owner : TRUE, mode)
  THEN Denied(404) ELSE GoOn(p.tenant)

\* Handlers of a tenant's own guides, sessions, webhooks and providers.
authzOwn(p, action, mode) ==
  IF ~Can(p.roles, action, {p.tenant}, p.tenant, mode) THEN Denied(404) ELSE GoOn(p.tenant)

guideAuthz(p, mode)          == authzOwn(p, "edit_tunables", mode)
webhookAuthz(p, mode)        == authzOwn(p, "edit_tunables", mode)
aiProviderAuthz(p, mode)     == authzOwn(p, "edit_tunables", mode)
resolveModPrincipal(p, mode) == authzOwn(p, "review_fix_approve", mode)

\* Handlers of an assessment version, which list the tenant's own submissions: if
\* there are none, one that another tenant is seen to own is not found.  With a
\* lookup that fails, for whatever reason, they go on as with a version that
\* nobody owns.
resolveAVID(p, owner, listing, lookupFails, mode) ==
  LET own     == authzOwn(p, "view_results", mode)
      foreign == ~lookupFails /\ owner # {} /\ owner # {p.tenant}
  IN  CASE own.status # 200             -> own
        [] listing = "failed"           -> Denied(500)
        [] listing = "none" /\ foreign  -> Denied(404)
        [] OTHER                        -> own
=============================================================================
