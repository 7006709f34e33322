--------------------------- MODULE TenantContext ---------------------------
(***************************************************************************)
(* Whose rows a process of the backend sees (core/middleware/              *)
(* tenant_middleware.py, core/db/rls.py, core/db/tenant.py): a worker of   *)
(* gunicorn that serves one request after another, or one of Celery that   *)
(* runs one task after another, each on a connection that may outlive what *)
(* it was opened for.  The ORM filters by a context variable, and a policy *)
(* of Postgres by a setting of the connection.  They are bound inside a    *)
(* request or a task, at more than one place, and unbound at another.      *)
(***************************************************************************)
CONSTANTS Orgs,      \* organizations
          None,      \* neither: unset, or the empty string
          Wildcard,  \* rls.WILDCARD
          Eager      \* CELERY_TASK_ALWAYS_EAGER: tasks run inside the request

ASSUME TenantAssumption ==
    /\ None \notin Orgs /\ Wildcard \notin Orgs /\ None # Wildcard /\ Eager \in BOOLEAN

VARIABLES org,       \* current_organization_id
          setting,   \* app.current_org_id of the connection
          doing      \* the process, where it stands, and for which organization

tenantVars == <<org, setting, doing>>

TenantInit ==
    /\ org = None /\ setting = None
    /\ doing \in [process : {"web", "celery"}, at : {"idle"}, who : {None}]

At(stage, o) == doing' = [process |-> doing.process, at |-> stage, who |-> o]

\* Mutations of Unset and of NoOrganization.
StillBound == setting
StillSet == org

Unset == None              \* reset
NoOrganization == None     \* current_organization_id.set(None)

\* bind_for_user: a super admin has no organization, and reads every one.
BindForUser ==
    \/ \E o \in Orgs : org' = o /\ setting' = o /\ At("user", o)
    \/ org' = None /\ setting' = Wildcard /\ At("super", None)

\* ResetTenantContextMiddleware, then AdminSessionRlsMiddleware for a session of staff.
BeginRequest ==
    /\ doing.process = "web" /\ doing.at = "idle"
    /\ org' = None
    /\ \/ setting' = Unset /\ At("anonymous", None)
       \/ setting' = Wildcard /\ At("admin", None)

\* A token that is not accepted leaves the request anonymous.
Authenticate == doing.at = "anonymous" /\ BindForUser

\* The credentials may be of another user than the token that came with them.
Login == doing.at \in {"anonymous", "user", "super"} /\ BindForUser

\* generate_report_export, in a worker of Celery or inside the request that asks.
StartExport ==
    /\ \/ doing.process = "celery" /\ doing.at = "idle" /\ At("find", None)
       \/ Eager /\ doing.at = "user" /\ At("find", doing.who)
    /\ setting' = Wildcard /\ UNCHANGED org

FindJob ==
    /\ doing.at = "find"
    /\ \E o \in Orgs :
           /\ doing.process = "web" => o = doing.who
           /\ org' = o /\ setting' = o /\ At("export", o)

\* The job was deleted with its organization; the exception is raised before the try.
JobGone ==
    /\ doing.process = "celery" /\ doing.at = "find"
    /\ At("idle", None) /\ UNCHANGED <<org, setting>>

EndExport ==
    /\ doing.at = "export"
    /\ org' = NoOrganization /\ setting' = Unset
    /\ At(IF doing.process = "web" THEN "exported" ELSE "idle", None)

\* check_subscription_expiries
StartSweep ==
    /\ doing.process = "celery" /\ doing.at = "idle"
    /\ setting' = Wildcard /\ At("sweep", None) /\ UNCHANGED org

EndSweep ==
    /\ doing.at = "sweep"
    /\ setting' = Unset /\ At("idle", None) /\ UNCHANGED org

\* The response is sent; nothing is unbound until the next request begins.
EndRequest ==
    /\ doing.at \in {"anonymous", "user", "super", "admin", "exported"}
    /\ At("idle", None) /\ UNCHANGED <<org, setting>>

\* CONN_MAX_AGE has passed.
CloseConnection ==
    /\ doing.at = "idle" /\ setting # None
    /\ setting' = None /\ UNCHANGED <<org, doing>>

Respawn ==
    /\ doing.at # "idle"
    /\ org' = None /\ setting' = None /\ At("idle", None)

TenantNext ==
    \/ BeginRequest \/ Authenticate \/ Login \/ EndRequest
    \/ StartExport \/ FindJob \/ JobGone \/ EndExport
    \/ StartSweep \/ EndSweep \/ CloseConnection \/ Respawn

TenantSpec == TenantInit /\ [][TenantNext]_tenantVars

\* The SELECT policy of a tenant's table, and the TenantManager above it.
Readable == {o \in Orgs : setting = Wildcard \/ setting = o}
Scoped == Readable \cap {org}

\* tenant_middleware.py:12, tenant.py:7: whatever a process did before, and on
\* whichever connection, a request that nobody signed in to reads no tenant, a user
\* reads their own and no other, an export those of its job and no other, and the
\* jobs and users of the whole platform read every tenant, which the manager hides.
TenantIsolation ==
    /\ doing.at \in {"anonymous", "exported"} => Readable = {}
    /\ doing.at \in {"user", "export"} => Readable = {doing.who} /\ Scoped = {doing.who}
    /\ doing.at \in {"super", "admin", "sweep"} => Readable = Orgs /\ Scoped = {}
    /\ doing.at = "find" => Readable = Orgs /\ Scoped \subseteq {doing.who}
=============================================================================
