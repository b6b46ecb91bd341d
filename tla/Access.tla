------------------------------- MODULE Access -------------------------------
(***************************************************************************)
(* Accounts, organisations, admin teams and credentials                    *)
(* (api/routes/auth-routes.py, user-routes.py, team-routes.py,             *)
(* org-routes.py, api/middleware/auth-middleware.py, core/auth-service.py).*)
(*                                                                         *)
(* The only teams are the Admins that come with an organisation, and the   *)
(* only accounts those that registered: create_team and create_user read a *)
(* relationship of the row they have just inserted, which an async session *)
(* cannot load, and always roll back (team-routes.py:55, user-routes.py:92)*)
(* Reading needs no action.  A check of the caller and the change that     *)
(* follows it are one action: no property here depends on what happens in  *)
(* between.                                                                *)
(***************************************************************************)
EXTENDS FiniteSets

CONSTANTS
  Emails, OrgNames, Keys,
  Secured, Levels, \* workspaces that a team may have permissions on, and the levels
  Registrations   \* requests to register at a time

\* What stands for a missing row is no address and no name.
ASSUME NoneAssumption == "none" \notin Emails /\ "none" \notin OrgNames

VARIABLES
  accounts,     \* table users, by their unique address
  orgs,         \* table organizations, by their unique name
  admins,       \* table team_memberships: who is in the Admins of which organisation
  permissions,  \* table workspace_permissions: the level the Admins have, if any
  keys,         \* table api_tokens
  access,       \* who holds an access token that has not expired
  refresh,      \* who holds a refresh cookie that has not expired
  registering,  \* registrations between what they have read and what they write
  overlapped    \* history: two registrations have both found no account

accessVars == <<accounts, orgs, admins, permissions, keys, access, refresh, registering, overlapped>>

Account == [org : OrgNames, active : BOOLEAN]
NoAccount == [org |-> "none", active |-> FALSE]
Key == [owner : Emails, revoked : BOOLEAN]
NoKey == [owner |-> "none", revoked |-> TRUE]
Registration == [email : Emails, org : OrgNames, first : BOOLEAN]
NoRegistration == [email |-> "none", org |-> "none", first |-> FALSE]

NoLevel == "none"

Registered == {e \in Emails : accounts[e] # NoAccount}

AccessTypeOK ==
  /\ accounts \in [Emails -> Account \cup {NoAccount}]
  /\ orgs \subseteq OrgNames
  /\ admins \subseteq orgs \X Registered
  /\ permissions \in [OrgNames \X Secured -> Levels \cup {NoLevel}]
  /\ \A o \in OrgNames \ orgs, w \in Secured : permissions[<<o, w>>] = NoLevel
  /\ keys \in [Keys -> Key \cup {NoKey}]
  /\ access \subseteq Registered /\ refresh \subseteq Registered
  /\ registering \in [Registrations -> Registration \cup {NoRegistration}]
  /\ overlapped \in BOOLEAN

AccessInit ==
  /\ accounts = [e \in Emails |-> NoAccount]
  /\ orgs = {} /\ admins = {}
  /\ permissions = [x \in OrgNames \X Secured |-> NoLevel]
  /\ keys = [k \in Keys |-> NoKey]
  /\ access = {} /\ refresh = {}
  /\ registering = [r \in Registrations |-> NoRegistration]
  /\ overlapped = FALSE

-----------------------------------------------------------------------------
\* AuthMiddleware: an access token is believed without a look at the account,
\* and an API key until it is revoked, whether its owner is active or not.
Caller(e) == e \in access \/ \E k \in Keys : keys[k] = [owner |-> e, revoked |-> FALSE]
\* _require_admin.
IsAdmin(e) == \E o \in orgs : <<o, e>> \in admins

\* Mutant: only the active accounts are counted.
IsFirstActive == \A e \in Emails : ~accounts[e].active
\* is_first: there is no account.
IsFirst == Registered = {}

\* POST /auth/register reads: the address is new, whether there is an account
\* at all and, if there is, the organisation, which must be the only one.
RegisterReads(r, email, org) ==
  /\ registering[r] = NoRegistration
  /\ email \notin Registered
  /\ IsFirst \/ orgs = {org}
  /\ registering' = [registering EXCEPT
                       ![r] = [email |-> email, org |-> org, first |-> IsFirst]]
  /\ overlapped' = (overlapped \/ (Registered = {} /\ \E q \in Registrations : registering[q].first))
  /\ UNCHANGED <<accounts, orgs, admins, keys, access, refresh, permissions>>

\* What a registration commits: the first one's organisation and its Admins
\* with it.  Both the address and the organisation's name are unique.
Enrol(reg) ==
  /\ reg.email \notin Registered
  /\ reg.first => reg.org \notin orgs
  /\ orgs' = orgs \cup {reg.org}
  /\ accounts' = [accounts EXCEPT ![reg.email] = [org |-> reg.org, active |-> TRUE]]
  /\ admins' = IF reg.first THEN admins \cup {<<reg.org, reg.email>>} ELSE admins

RegisterCommits(r) ==
  LET reg == registering[r] IN
  /\ reg # NoRegistration
  /\ Enrol(reg)
  /\ access' = access \cup {reg.email} /\ refresh' = refresh \cup {reg.email}
  /\ registering' = [registering EXCEPT ![r] = NoRegistration]
  /\ UNCHANGED <<keys, overlapped, permissions>>

\* A conflict, or a database that fails.
RegisterFails(r) ==
  /\ registering[r] # NoRegistration
  /\ registering' = [registering EXCEPT ![r] = NoRegistration]
  /\ UNCHANGED <<accounts, orgs, admins, keys, access, refresh, overlapped, permissions>>

\* POST /auth/login with the right password.
Login(e) ==
  /\ accounts[e].active
  /\ access' = access \cup {e} /\ refresh' = refresh \cup {e}
  /\ UNCHANGED <<accounts, orgs, admins, keys, registering, overlapped, permissions>>

\* POST /auth/refresh.
Refresh(e) ==
  /\ e \in refresh /\ accounts[e].active
  /\ access' = access \cup {e}
  /\ UNCHANGED <<accounts, orgs, admins, keys, refresh, registering, overlapped, permissions>>

\* POST /auth/logout clears the cookie; an access token lives on until it expires.
Logout(e) ==
  /\ refresh' = refresh \ {e}
  /\ UNCHANGED <<accounts, orgs, admins, keys, access, registering, overlapped, permissions>>
Expire(e) ==
  /\ access' = access \ {e}
  /\ UNCHANGED <<accounts, orgs, admins, keys, refresh, registering, overlapped, permissions>>

\* PATCH and DELETE /users/{id}.
SetActive(caller, e, active) ==
  /\ Caller(caller) /\ IsAdmin(caller) /\ e \in Registered
  /\ accounts' = [accounts EXCEPT ![e].active = active]
  /\ UNCHANGED <<orgs, admins, keys, access, refresh, registering, overlapped, permissions>>

\* POST and DELETE /teams/{id}/members: any caller, any team.
AddMember(caller, o, e) ==
  /\ Caller(caller) /\ o \in orgs /\ e \in Registered /\ <<o, e>> \notin admins
  /\ admins' = admins \cup {<<o, e>>}
  /\ UNCHANGED <<accounts, orgs, keys, access, refresh, registering, overlapped, permissions>>
RemoveMember(caller, o, e) ==
  /\ Caller(caller) /\ <<o, e>> \in admins
  /\ admins' = admins \ {<<o, e>>}
  /\ UNCHANGED <<accounts, orgs, keys, access, refresh, registering, overlapped, permissions>>

\* PUT and DELETE /teams/{id}/permissions/{workspace_id}: any caller, any team,
\* and nobody reads them.  A workspace that is deleted takes them along.
SetPermission(caller, o, w, level) ==
  /\ Caller(caller) /\ o \in orgs
  /\ permissions' = [permissions EXCEPT ![<<o, w>>] = level]
  /\ UNCHANGED <<accounts, orgs, admins, keys, access, refresh, registering, overlapped>>
RemovePermission(caller, o, w) ==
  /\ Caller(caller) /\ permissions[<<o, w>>] # NoLevel
  /\ permissions' = [permissions EXCEPT ![<<o, w>>] = NoLevel]
  /\ UNCHANGED <<accounts, orgs, admins, keys, access, refresh, registering, overlapped>>
WorkspaceGoes(w) ==
  /\ permissions' = [x \in OrgNames \X Secured |-> IF x[2] = w THEN NoLevel ELSE permissions[x]]
  /\ UNCHANGED <<accounts, orgs, admins, keys, access, refresh, registering, overlapped>>

\* POST /org/tokens, DELETE /org/tokens/{id}.
CreateKey(caller, k) ==
  /\ Caller(caller) /\ keys[k] = NoKey
  /\ keys' = [keys EXCEPT ![k] = [owner |-> caller, revoked |-> FALSE]]
  /\ UNCHANGED <<accounts, orgs, admins, access, refresh, registering, overlapped, permissions>>
RevokeKey(caller, k) ==
  /\ Caller(caller) /\ keys[k] = [owner |-> caller, revoked |-> FALSE]
  /\ keys' = [keys EXCEPT ![k].revoked = TRUE]
  /\ UNCHANGED <<accounts, orgs, admins, access, refresh, registering, overlapped, permissions>>

AccessNext ==
  \/ \E r \in Registrations :
       \/ \E email \in Emails, org \in OrgNames : RegisterReads(r, email, org)
       \/ RegisterCommits(r)
       \/ RegisterFails(r)
  \/ \E e \in Emails : Login(e) \/ Refresh(e) \/ Logout(e) \/ Expire(e)
  \/ \E caller, e \in Emails :
       \/ \E active \in BOOLEAN : SetActive(caller, e, active)
       \/ \E o \in OrgNames : AddMember(caller, o, e) \/ RemoveMember(caller, o, e)
  \/ \E caller \in Emails, o \in OrgNames, w \in Secured :
       (\E level \in Levels : SetPermission(caller, o, w, level)) \/ RemovePermission(caller, o, w)
  \/ \E w \in Secured : WorkspaceGoes(w)
  \/ \E caller \in Emails, k \in Keys : CreateKey(caller, k) \/ RevokeKey(caller, k)

AccessSpec == AccessInit /\ [][AccessNext]_accessVars

-----------------------------------------------------------------------------
\* There is one organisation and every account is in it, unless the first two
\* registrations overlapped: then there are two, every query for "the"
\* organisation raises, and nobody can register any more (register).
OneOrganisation ==
  overlapped \/ \A e, f \in Registered : accounts[e].org = accounts[f].org /\ orgs = {accounts[e].org}
=============================================================================
