------------------------------- MODULE Access -------------------------------
(***************************************************************************)
(* Who may do what in one customer workspace (a tenant): the lifecycle of  *)
(* the tenant and of its companies, the memberships of its users, and the  *)
(* calls that are authorized against them (auth/, routes/platform.js,      *)
(* routes/memberships.js, routes/companies.js, routes/auth.js), with       *)
(* PostgreSQL and strict membership.                                       *)
(*                                                                         *)
(* Every check is a query of its own: what it read may have changed when   *)
(* the next one runs.                                                      *)
(***************************************************************************)
EXTENDS Naturals, FiniteSets

CONSTANTS Users,
          Companies,
          MemberRows,       \* ids of membership rows: the user and the scope they were invited to
          Roles,            \* the roles that are given
          AccessCalls,      \* API calls, as many as may run at once
          CallKinds,        \* bound: what each of them may be
          MaxMemberVersion  \* bound: writes to one membership row

AllCompanies == "all companies"   \* company_id NULL: the tenant as a whole
NoRowFound == <<>>
NoMember == [version |-> 0]

ASSUME AccessAssumption ==
    /\ AllCompanies \notin Companies
    /\ MemberRows \subseteq Users \X (Companies \cup {AllCompanies})
    /\ Roles \subseteq {"tenant_admin", "company_admin", "analyst"}
    /\ CallKinds \in [AccessCalls -> SUBSET {"use", "edit", "switch", "login", "lifecycle"}]
    /\ MaxMemberVersion \in Nat \ {0}

VARIABLES tenantStatus,    \* ai.tenants.status
          companyStatus,   \* ai.companies.status
          members,         \* ai.memberships, by id
          access           \* where each call is

accessVars == <<tenantStatus, companyStatus, members, access>>

TenantStatus == {"pending", "active", "suspended", "archived"}
MemberStatus == {"active", "revoked"}
Scope == Companies \cup {AllCompanies}
Member == [company : Scope, role : Roles, status : MemberStatus, version : 1 .. MaxMemberVersion]

Permission == {"issue.read", "company.users.manage", "tenant.users.manage"}
RolePermissions ==
    [tenant_admin  |-> Permission,
     company_admin |-> Permission \ {"tenant.users.manage"},
     analyst       |-> {"issue.read"}]
TenantOperator(role) == role = "tenant_admin"

Free == [at |-> "free"]
Kind == {"use", "edit", "switch", "login", "lifecycle"}
AccessAt == {"list", "company", "tenant", "member", "operator", "row", "write", "allowed"}
\* "row" and "read": the membership an administrator edits, as it was shown to
\* them; "seen": the status of the tenant. The last three are history: while the
\* call ran, the tenant was active, the company was, the user held an active
\* membership with the permission.
Running == [kind : Kind, at : AccessAt, user : Users, scope : Scope, permission : Permission,
            row : MemberRows \cup {NoRowFound}, read : Member \cup {NoMember}, seen : TenantStatus,
            tenantOpen : BOOLEAN, companyOpen : BOOLEAN, held : BOOLEAN]

AccessTypeOK ==
    /\ tenantStatus \in TenantStatus
    /\ companyStatus \in [Companies -> TenantStatus]
    /\ members \in [MemberRows -> Member \cup {NoMember}]
    /\ access \in [AccessCalls -> Running \cup {Free}]

RowsOf(rows, u) == {id \in MemberRows : id[1] = u /\ rows[id] # NoMember /\ rows[id].status = "active"}
Grants(row, scope, permission) ==
    /\ row.company \in {scope, AllCompanies} \/ TenantOperator(row.role)
    /\ permission \in RolePermissions[row.role]
Holds(rows, u, scope, permission) == \E id \in RowsOf(rows, u) : Grants(rows[id], scope, permission)
CompanyOpen(status, scope) == scope = AllCompanies \/ status[scope] = "active"

AccessInit ==
    /\ tenantStatus = "pending"
    /\ companyStatus \in [Companies -> {"active", "pending"}]
    /\ members = [id \in MemberRows |-> NoMember]
    /\ access = [c \in AccessCalls |-> Free]

\* The history of the running calls, after a write to the tables.
Witness(calls, status, companies, rows) ==
    [c \in AccessCalls |->
        IF calls[c] = Free \/ calls[c].kind = "lifecycle" THEN calls[c]
        ELSE [calls[c] EXCEPT
                !.tenantOpen = @ \/ status = "active",
                !.companyOpen = @ \/ /\ calls[c].kind \in {"switch", "login"}
                                     /\ CompanyOpen(companies, calls[c].scope),
                !.held = @ \/ Holds(rows, calls[c].user, calls[c].scope, calls[c].permission)]]

\* A call moves, and the tables are as given.
Moves(c, to, status, companies, rows) ==
    /\ tenantStatus' = status /\ companyStatus' = companies /\ members' = rows
    /\ access' = Witness([access EXCEPT ![c] = to], status, companies, rows)
Reads(c, to) == Moves(c, to, tenantStatus, companyStatus, members)

GoesOn(c, kinds, at) == access[c] # Free /\ access[c].kind \in kinds /\ access[c].at = at
Went(c, at) == IF at = "refused" THEN Free ELSE [access[c] EXCEPT !.at = at]

First == [use |-> "tenant", edit |-> "tenant", switch |-> "company", login |-> "list", lifecycle |-> "tenant"]

\* A request with a token: the scope comes from its claims or the headers.
BeginCall(c) ==
    /\ access[c] = Free
    /\ \E kind \in CallKinds[c], u \in Users, scope \in Scope, p \in Permission,
          id \in MemberRows \cup {NoRowFound} :
          /\ kind = "edit" => p # "issue.read" /\ id # NoRowFound /\ members[id] # NoMember
          /\ kind # "edit" => id = NoRowFound
          /\ p = "company.users.manage" => scope # AllCompanies
          /\ kind \in {"switch", "login", "lifecycle"} => p = "issue.read"
          /\ kind \in {"switch"} => scope # AllCompanies
          /\ kind \in {"login", "lifecycle"} => scope = AllCompanies
          /\ Reads(c, [kind |-> kind, at |-> First[kind], user |-> u, scope |-> scope, permission |-> p,
                       row |-> id, read |-> IF id = NoRowFound THEN NoMember ELSE members[id],
                       seen |-> "pending",
                       tenantOpen |-> FALSE, companyOpen |-> FALSE, held |-> FALSE])

EndRequest(c) ==
    /\ access[c] # Free /\ access[c].at = "allowed"
    /\ access' = [access EXCEPT ![c] = Free]
    /\ UNCHANGED <<tenantStatus, companyStatus, members>>

-----------------------------------------------------------------------------
(* AuthorizationService.resolve and authorize.                             *)

\* The row that decides: the one of this company, else the tenant's ...
Resolved(u, scope) ==
    LET rows == RowsOf(members, u)
        own == {id \in rows : members[id].company = scope}
    IN  IF own # {} THEN own ELSE {id \in rows : members[id].company = AllCompanies}

\* ... else, in a query of its own, a tenant operator's of any company.
Operators(u) == {id \in RowsOf(members, u) : TenantOperator(members[id].role)}

\* Mutant: the status of the tenant is taken from the token.
SkipTenant(c) ==
    /\ GoesOn(c, {"use", "edit", "switch", "login"}, "tenant")
    /\ Reads(c, Went(c, IF access[c].kind = "login" THEN "allowed" ELSE "member"))
CheckTenant(c) ==
    /\ GoesOn(c, {"use", "edit", "switch", "login"}, "tenant")
    /\ Reads(c, Went(c, IF tenantStatus # "active" THEN "refused"
                        ELSE IF access[c].kind = "login" THEN "allowed" ELSE "member"))

\* A session of a company takes a membership of the company, or an operator's.
May(c, id) ==
    IF access[c].kind = "switch" THEN members[id].company # AllCompanies \/ TenantOperator(members[id].role)
    ELSE access[c].permission \in RolePermissions[members[id].role]
Passed(c) ==
    IF access[c].kind # "edit" THEN "allowed"
    ELSE IF access[c].permission = "company.users.manage" THEN "row" ELSE "write"

CheckMember(c) ==
    /\ GoesOn(c, {"use", "edit", "switch"}, "member")
    /\ LET found == Resolved(access[c].user, access[c].scope)
       IN  \/ /\ found = {}
              /\ Reads(c, Went(c, IF access[c].scope = AllCompanies THEN "refused" ELSE "operator"))
           \/ \E id \in found : Reads(c, Went(c, IF May(c, id) THEN Passed(c) ELSE "refused"))

\* The least of several operator rows by created_at: any of them.
CheckOperator(c) ==
    /\ GoesOn(c, {"use", "edit", "switch"}, "operator")
    /\ LET found == Operators(access[c].user)
       IN  \/ found = {} /\ Reads(c, Went(c, "refused"))
           \/ \E id \in found : Reads(c, Went(c, IF May(c, id) THEN Passed(c) ELSE "refused"))

-----------------------------------------------------------------------------
(* Sessions: a token for a company (switch-context) and the first one      *)
(* (login). Neither is more than a claim: each later call is authorized.   *)

CheckCompany(c) ==
    /\ GoesOn(c, {"switch"}, "company")
    /\ Reads(c, Went(c, IF companyStatus[access[c].scope] = "active" THEN "tenant" ELSE "refused"))

\* listForUser, and the first membership that has a company or manages them.
ListOwn(c) ==
    /\ GoesOn(c, {"login"}, "list")
    /\ \E id \in RowsOf(members, access[c].user) :
          /\ members[id].company # AllCompanies \/ TenantOperator(members[id].role)
          /\ Reads(c, [access[c] EXCEPT !.at = "company", !.scope = members[id].company,
                          !.companyOpen = CompanyOpen(companyStatus, members[id].company),
                          !.held = TRUE])

CheckOwnCompany(c) ==
    /\ GoesOn(c, {"login"}, "company")
    /\ Reads(c, Went(c, IF CompanyOpen(companyStatus, access[c].scope) THEN "tenant" ELSE "refused"))

LoginUnscoped(c) == GoesOn(c, {"login"}, "list") /\ Reads(c, Went(c, "refused"))

-----------------------------------------------------------------------------
(* Memberships: an administrator was shown a row, and changes or revokes   *)
(* it under If-Match with the version that was shown.                      *)

Inside(c) == access[c].permission = "company.users.manage"

\* requireCompanyMembership: the row is one of the company.
\* Mutant: the row is only looked for in the tenant.
FindRow(c) == GoesOn(c, {"edit"}, "row") /\ Reads(c, Went(c, "write"))
CheckRow(c) ==
    /\ GoesOn(c, {"edit"}, "row")
    /\ Reads(c, Went(c, IF members[access[c].row].company = access[c].scope THEN "write" ELSE "refused"))

\* UNIQUE (user_id, tenant_id, company_id), which NULL escapes.
Taken(id, company) ==
    \E other \in MemberRows \ {id} :
        /\ other[1] = id[1] /\ members[other] # NoMember
        /\ members[other].company = company /\ company # AllCompanies

\* UPDATE ... WHERE id AND version = expectedVersion. A company admin changes
\* the role, and with it sets the company of the call, or revokes.
\* Mutant: the version that is sent is a lower bound.
NotNewer(c) == members[access[c].row].version >= access[c].read.version
Matching(c) == members[access[c].row].version = access[c].read.version
Edited(c, row) ==
    [company : IF Inside(c) THEN {access[c].scope, row.company} ELSE Companies \cup {row.company},
     role : Roles,
     status : IF Inside(c) THEN {row.status, "revoked"} ELSE MemberStatus,
     version : {row.version + 1}]
UpdateMember(c) ==
    /\ GoesOn(c, {"edit"}, "write")
    /\ Matching(c)
    /\ LET id == access[c].row
       IN  /\ members[id].version < MaxMemberVersion
           /\ \E row \in Edited(c, members[id]) :
                 /\ ~Taken(id, row.company)
                 /\ Moves(c, Went(c, "allowed"), tenantStatus, companyStatus, [members EXCEPT ![id] = row])

UpdateConflict(c) ==
    /\ GoesOn(c, {"edit"}, "write")
    /\ ~Matching(c)
    /\ Reads(c, Went(c, "refused"))

\* provisionThenInvite: the row whose id says so is inserted, or the one that
\* has the company is changed. An id that is there for another company is a
\* primary key violation: the invitation fails.
Invite(id) ==
    \E role \in Roles :
        LET u == id[1]
            company == id[2]
            same == {other \in MemberRows : /\ other[1] = u /\ members[other] # NoMember
                                            /\ members[other].company = company /\ company # AllCompanies}
            row(version) == [company |-> company, role |-> role, status |-> "active", version |-> version]
            rows == IF same # {}
                    THEN [other \in MemberRows |->
                             IF other \in same THEN row(members[other].version + 1) ELSE members[other]]
                    ELSE [members EXCEPT ![id] = row(1)]
        IN  /\ \/ same # {} /\ \A other \in same : members[other].version < MaxMemberVersion
               \/ same = {} /\ members[id] = NoMember
            /\ members' = rows
            /\ access' = Witness(access, tenantStatus, companyStatus, rows)
            /\ UNCHANGED <<tenantStatus, companyStatus>>

-----------------------------------------------------------------------------
(* The lifecycle of the tenant and its companies.                          *)

Transition == [pending |-> {"active", "archived"}, active |-> {"suspended"},
               suspended |-> {"active", "archived"}, archived |-> {"active"}]
Legal(from, to) == to = from \/ to \in Transition[from]

\* PATCH reads the tenant, validates the transition, and updates it apart.
ReadTenant(c) ==
    /\ GoesOn(c, {"lifecycle"}, "tenant")
    /\ Reads(c, [access[c] EXCEPT !.at = "write", !.seen = tenantStatus])
PatchTenant(c) ==
    /\ GoesOn(c, {"lifecycle"}, "write")
    /\ \E to \in TenantStatus :
          /\ Legal(access[c].seen, to)
          /\ Moves(c, Went(c, "allowed"), to, companyStatus, members)

\* bulkUpdate of the store selects FOR UPDATE, validates and updates in one transaction.
BulkUpdate(to) == Legal(tenantStatus, to) /\ tenantStatus' = to

\* POST .../bulk-lifecycle names the tenant, or a filter that it matches.
BulkLifecycle ==
    \E to \in TenantStatus \ {tenantStatus} :
        /\ BulkUpdate(to)
        /\ access' = Witness(access, to, companyStatus, members)
        /\ UNCHANGED <<companyStatus, members>>

\* Mutant: the statuses of companies are those of members.
RevokeCompany(company) ==
    /\ companyStatus' = [companyStatus EXCEPT ![company] = "revoked"]
    /\ access' = Witness(access, tenantStatus, companyStatus', members)
    /\ UNCHANGED <<tenantStatus, members>>
\* PATCH of a company checks the status only, not where it comes from.
PatchCompany(company) ==
    \E to \in {"active", "archived"} \ {companyStatus[company]} :
        /\ companyStatus' = [companyStatus EXCEPT ![company] = to]
        /\ access' = Witness(access, tenantStatus, companyStatus', members)
        /\ UNCHANGED <<tenantStatus, members>>

AccessNext ==
    \/ BulkLifecycle
    \/ \E company \in Companies : PatchCompany(company)
    \/ \E id \in MemberRows : Invite(id)
    \/ \E c \in AccessCalls :
          \/ BeginCall(c) \/ EndRequest(c)
          \/ CheckTenant(c) \/ CheckMember(c) \/ CheckOperator(c) \/ CheckCompany(c)
          \/ ListOwn(c) \/ CheckOwnCompany(c) \/ LoginUnscoped(c) \/ CheckRow(c)
          \/ UpdateMember(c) \/ UpdateConflict(c) \/ ReadTenant(c) \/ PatchTenant(c)

AccessSpec == AccessInit /\ [][AccessNext]_accessVars

-----------------------------------------------------------------------------
(* Whoever is let in was entitled at some moment while the call ran: the   *)
(* tenant was active, and the user held an active membership with the      *)
(* permission; to get a session of a company, the company was active too.  *)
AllowedWasEntitled ==
    \A c \in AccessCalls :
        access[c] # Free /\ access[c].at = "allowed" /\ access[c].kind # "lifecycle" =>
            /\ access[c].tenantOpen /\ access[c].held
            /\ access[c].kind \in {"switch", "login"} => access[c].companyOpen

(* A change of a membership is made to the row its author was shown, not   *)
(* to one that was changed, moved or invited again in the meantime.        *)
EditsWhatWasShown ==
    [][\A c \in AccessCalls :
          UpdateMember(c) => members[access[c].row] = access[c].read]_accessVars

(* Whatever moves rows between companies at the same time, a company admin *)
(* changes rows of the company of the call only.                           *)
AdminsStayInside ==
    [][\A c \in AccessCalls :
          UpdateMember(c) /\ Inside(c) => members[access[c].row].company = access[c].scope]_accessVars

(* The safety of access: whatever the platform and the administrators      *)
(* change while a call is being authorized, nobody is let in who was not   *)
(* entitled at some moment of the call.                                    *)
AccessSafe == AccessTypeOK /\ AllowedWasEntitled
=============================================================================
