------------------------------- MODULE Tenancy -------------------------------
(***************************************************************************)
(* Users, tenants, roles and invitations (AuthService, PlatformAdminService,*)
(* TenantInviteService, TenantAdminService).  A first login or an          *)
(* onboarding creates a tenant, a user and a role in three commands;       *)
(* accepting an invitation moves the user, grants the role and marks the   *)
(* invitation in three; removing a user reads the role, counts the         *)
(* administrators and deletes.  Any request can stop after any command.    *)
(* Requests are slots that serve one request after another.                *)
(***************************************************************************)
EXTENDS Naturals, FiniteSets

CONSTANTS
  User,      \* persons; their e-mail address and subject are unique indexes
  Tenant,    \* identities of tenant documents: bounds how many are created
  Invite,    \* identities of invitation documents
  Login,     \* slots of logins and onboardings
  Accept,    \* slots of requests that accept an invitation
  Removal,   \* slots of requests that remove a user
  MaxBusy,   \* bound: requests in progress at a time
  None       \* no tenant, no user, no invitation

ASSUME MaxBusyAssumption == MaxBusy \in Nat
ASSUME NoneAssumption == None \notin Tenant \cup User \cup Invite

VARIABLES
  tenants,   \* tenants that exist
  home,      \* User.tenantId, None while there is no user document
  role,      \* TenantUserRole, and why there is none
  session,   \* the token in the user's browser: tenant and role at the login
  invite,    \* invitations, and who accepted them
  login, accept, removal

rowVars == <<tenants, home, role, session, invite>>
vars == <<rowVars, login, accept, removal>>

Role   == {"TENANT_ADMIN", "MEMBER"}

(* Three values for no document: nobody was to create one, an              *)
(* administrator removed it, the request that was to create it stopped.    *)
NoRole == {"none", "removed", "cut"}

Home   == Tenant \cup {None}
NoSession == <<None, "none">>
Admins(t)   == {u \in User : role[t][u] = "TENANT_ADMIN"}
HasAdmin(t) == Admins(t) # {}

LoginRecord   == [pc : {"idle", "absent", "tenant", "user", "present"},
                  user : User \cup {None}, tenant : Home]
AcceptRecord  == [pc : {"idle", "found", "moved", "granted"},
                  user : User \cup {None}, invite : Invite \cup {None},
                  loaded : Home]
RemovalRecord == [pc : {"idle", "count", "delete"},
                  user : User \cup {None}, tenant : Home, seen : SUBSET User]
InviteRecord  == [state : {"none", "pending", "accepted", "deleted"},
                  tenant : Home, by : SUBSET User]

TypeOK ==
  /\ tenants \subseteq Tenant
  /\ home \in [User -> Home]
  /\ role \in [Tenant -> [User -> Role \cup NoRole]]
  /\ session \in [User -> Home \X (Role \cup {"none"})]
  /\ invite \in [Invite -> InviteRecord]
  /\ login \in [Login -> LoginRecord]
  /\ accept \in [Accept -> AcceptRecord]
  /\ removal \in [Removal -> RemovalRecord]

NoLogin   == [pc |-> "idle", user |-> None, tenant |-> None]
NoAccept  == [pc |-> "idle", user |-> None, invite |-> None, loaded |-> None]
NoRemoval == [pc |-> "idle", user |-> None, tenant |-> None, seen |-> {}]

Init ==
  /\ tenants = {}
  /\ home = [u \in User |-> None]
  /\ role = [t \in Tenant |-> [u \in User |-> "none"]]
  /\ session = [u \in User |-> NoSession]
  /\ invite = [i \in Invite |-> [state |-> "none", tenant |-> None, by |-> {}]]
  /\ login = [l \in Login |-> NoLogin]
  /\ accept = [a \in Accept |-> NoAccept]
  /\ removal = [m \in Removal |-> NoRemoval]

Busy ==
  {l \in Login : login[l].pc # "idle"} \cup {a \in Accept : accept[a].pc # "idle"}
    \cup {m \in Removal : removal[m].pc # "idle"}

MayBegin == Cardinality(Busy) < MaxBusy

(* A token counts while its tenant is the user's; its role is not read     *)
(* again from the database.                                                *)
LoggedIn(u)   == session[u] # NoSession /\ session[u][1] = home[u]
IsAdmin(u, t) == session[u] = <<t, "TENANT_ADMIN">> /\ home[u] = t

-------------------------------------------------------------------------------
(* Login and onboarding of a tenant administrator                            *)

(* upsertPrincipal, loginWithPassword, and onboardTenantAdmin, which       *)
(* refuses an address that has a user.                                     *)
FindUser(l, u) ==
  /\ login[l].pc = "idle" /\ MayBegin
  /\ login' = [login EXCEPT ![l] =
       [pc |-> IF home[u] = None THEN "absent" ELSE "present",
        user |-> u, tenant |-> home[u]]]
  /\ UNCHANGED <<rowVars, accept, removal>>

CreateTenant(l, t) ==
  /\ login[l].pc = "absent"
  /\ t \notin tenants
  /\ tenants' = tenants \cup {t}
  /\ login' = [login EXCEPT ![l].pc = "tenant", ![l].tenant = t]
  /\ UNCHANGED <<home, role, session, invite, accept, removal>>

(* The unique index on the address refuses the user of a second request,   *)
(* whose tenant stays behind.                                              *)
CreateUser(l) ==
  LET u == login[l].user IN
  /\ login[l].pc = "tenant"
  /\ IF home[u] = None
     THEN /\ home' = [home EXCEPT ![u] = login[l].tenant]
          /\ login' = [login EXCEPT ![l].pc = "user"]
     ELSE /\ login' = [login EXCEPT ![l] = NoLogin]
          /\ UNCHANGED home
  /\ UNCHANGED <<tenants, role, session, invite, accept, removal>>

OpenSession(u, t, ro) == session' = [session EXCEPT ![u] = <<t, ro>>]

(* A login returns a token, an onboarding does not. *)
CreateRole(l) ==
  LET u == login[l].user
      t == login[l].tenant IN
  /\ login[l].pc = "user"
  /\ role' = [role EXCEPT ![t][u] = "TENANT_ADMIN"]
  /\ UNCHANGED session \/ OpenSession(u, t, "TENANT_ADMIN")
  /\ login' = [login EXCEPT ![l] = NoLogin]
  /\ UNCHANGED <<tenants, home, invite, accept, removal>>

ReadRoleUnchecked(l) ==   \* mutant of ReadRole: a missing role is no error
  LET u == login[l].user
      t == login[l].tenant IN
  /\ login[l].pc = "present"
  /\ OpenSession(u, t, role[t][u])
  /\ login' = [login EXCEPT ![l] = NoLogin]
  /\ UNCHANGED <<tenants, home, role, invite, accept, removal>>

(* The role in the tenant of the user as loaded, or an error. *)
ReadRole(l) ==
  LET u == login[l].user
      t == login[l].tenant IN
  /\ login[l].pc = "present"
  /\ IF role[t][u] \in NoRole THEN UNCHANGED session
                            ELSE OpenSession(u, t, role[t][u])
  /\ login' = [login EXCEPT ![l] = NoLogin]
  /\ UNCHANGED <<tenants, home, role, invite, accept, removal>>

-------------------------------------------------------------------------------
(* Invitations                                                               *)

(* A new invitation; inviting an address again while one is pending only   *)
(* sends a new link to the same document.                                  *)
CreateInvite(u, t, i) ==
  /\ IsAdmin(u, t)
  /\ invite[i].state = "none"
  /\ invite' = [invite EXCEPT ![i].state = "pending", ![i].tenant = t]
  /\ UNCHANGED <<tenants, home, role, session, login, accept, removal>>

(* MongoDB's TTL index, or the check of expiresAt before it; that an       *)
(* accepted invitation is deleted too makes no difference to anybody.      *)
Expire(i) ==
  /\ invite[i].state = "pending"
  /\ invite' = [invite EXCEPT ![i].state = "deleted"]
  /\ UNCHANGED <<tenants, home, role, session, login, accept, removal>>

(* The invitation is looked up and checked, the user is loaded. *)
FindInvite(a, u, i) ==
  /\ accept[a].pc = "idle" /\ MayBegin
  /\ LoggedIn(u)
  /\ invite[i].state = "pending"
  /\ accept' = [accept EXCEPT ![a] =
       [pc |-> "found", user |-> u, invite |-> i, loaded |-> home[u]]]
  /\ UNCHANGED <<rowVars, login, removal>>

(* user.save() writes the tenant if it is another than the loaded one. *)
MoveUser(a) ==
  LET t == invite[accept[a].invite].tenant IN
  /\ accept[a].pc = "found"
  /\ home' = IF accept[a].loaded = t THEN home
             ELSE [home EXCEPT ![accept[a].user] = t]
  /\ accept' = [accept EXCEPT ![a].pc = "moved"]
  /\ UNCHANGED <<tenants, role, session, invite, login, removal>>

GrantExisting(a) ==   \* mutant of GrantMember: an update without upsert
  LET u == accept[a].user
      t == invite[accept[a].invite].tenant IN
  /\ accept[a].pc = "moved"
  /\ role' = IF role[t][u] \in NoRole THEN role
             ELSE [role EXCEPT ![t][u] = "MEMBER"]
  /\ accept' = [accept EXCEPT ![a].pc = "granted"]
  /\ UNCHANGED <<tenants, home, session, invite, login, removal>>

(* An upsert: an administrator of the tenant becomes a member. *)
GrantMember(a) ==
  LET u == accept[a].user
      t == invite[accept[a].invite].tenant IN
  /\ accept[a].pc = "moved"
  /\ role' = [role EXCEPT ![t][u] = "MEMBER"]
  /\ accept' = [accept EXCEPT ![a].pc = "granted"]
  /\ UNCHANGED <<tenants, home, session, invite, login, removal>>

MarkEarly(a) ==   \* mutant of MarkAccepted: before the role is granted
  LET i == accept[a].invite IN
  /\ accept[a].pc \in {"moved", "granted"}
  /\ invite[i].state = "pending"
  /\ invite' = [invite EXCEPT ![i].state = "accepted", ![i].by = {accept[a].user}]
  /\ accept' = [accept EXCEPT ![a] = IF accept[a].pc = "granted" THEN NoAccept ELSE @]
  /\ UNCHANGED <<tenants, home, role, session, login, removal>>

(* invite.save(), which fails if the document expired meanwhile. *)
MarkAccepted(a) ==
  LET i == accept[a].invite IN
  /\ accept[a].pc = "granted"
  /\ invite' = IF invite[i].state = "deleted" THEN invite
               ELSE [invite EXCEPT ![i].state = "accepted",
                                   ![i].by = @ \cup {accept[a].user}]
  /\ accept' = [accept EXCEPT ![a] = NoAccept]
  /\ UNCHANGED <<tenants, home, role, session, login, removal>>

-------------------------------------------------------------------------------
(* Roles                                                                     *)

(* POST /admin/users/:userId/role, for any user, whatever role is left. *)
AssignRole(by, t, u, ro) ==
  /\ IsAdmin(by, t)
  /\ home[u] # None
  /\ role' = [role EXCEPT ![t][u] = ro]
  /\ UNCHANGED <<tenants, home, session, invite, login, accept, removal>>

FindRole(m, by, t, u) ==
  /\ removal[m].pc = "idle" /\ MayBegin
  /\ IsAdmin(by, t)
  /\ role[t][u] \in Role
  /\ removal' = [removal EXCEPT ![m] =
       [pc |-> IF role[t][u] = "TENANT_ADMIN" THEN "count" ELSE "delete",
        user |-> u, tenant |-> t, seen |-> {}]]
  /\ UNCHANGED <<rowVars, login, accept>>

EnoughIfAny(n) == n > 0   \* mutant of Enough

Enough(n) == n > 1

(* "Tenant must keep at least one TENANT_ADMIN." *)
CountAdmins(m) ==
  LET t == removal[m].tenant IN
  /\ removal[m].pc = "count"
  /\ removal' = IF Enough(Cardinality(Admins(t)))
                THEN [removal EXCEPT ![m].pc = "delete", ![m].seen = Admins(t)]
                ELSE [removal EXCEPT ![m] = NoRemoval]
  /\ UNCHANGED <<rowVars, login, accept>>

(* By _id: another removal of the same document then finds nothing, even   *)
(* if the user is given a role again.                                      *)
DeleteRole(m) ==
  LET u == removal[m].user
      t == removal[m].tenant IN
  /\ removal[m].pc = "delete"
  /\ role' = [role EXCEPT ![t][u] = "removed"]
  /\ removal' = [n \in Removal |->
                   IF removal[n].user = u /\ removal[n].tenant = t THEN NoRemoval
                   ELSE removal[n]]
  /\ UNCHANGED <<tenants, home, session, invite, login, accept>>

-------------------------------------------------------------------------------
(* A command fails or the process stops: the request ends where it is. *)
CutOff(t, u) ==
  IF role[t][u] = "none" THEN [role EXCEPT ![t][u] = "cut"] ELSE role

AbortLogin(l) ==
  /\ login[l].pc # "idle"
  /\ role' = IF login[l].pc = "user" THEN CutOff(login[l].tenant, login[l].user)
             ELSE role
  /\ login' = [login EXCEPT ![l] = NoLogin]
  /\ UNCHANGED <<tenants, home, session, invite, accept, removal>>

AbortAccept(a) ==
  /\ accept[a].pc # "idle"
  /\ role' = IF accept[a].pc = "moved"
             THEN CutOff(invite[accept[a].invite].tenant, accept[a].user)
             ELSE role
  /\ accept' = [accept EXCEPT ![a] = NoAccept]
  /\ UNCHANGED <<tenants, home, session, invite, login, removal>>

AbortRemoval(m) ==
  /\ removal[m].pc # "idle"
  /\ removal' = [removal EXCEPT ![m] = NoRemoval]
  /\ UNCHANGED <<rowVars, login, accept>>

LoginNext == \E l \in Login :
  \/ \E u \in User : FindUser(l, u)
  \/ \E t \in Tenant : CreateTenant(l, t)
  \/ CreateUser(l) \/ CreateRole(l) \/ ReadRole(l) \/ AbortLogin(l)

InviteNext ==
  \/ \E i \in Invite : Expire(i) \/ \E u \in User, t \in Tenant : CreateInvite(u, t, i)
  \/ \E a \in Accept :
       \/ \E u \in User, i \in Invite : FindInvite(a, u, i)
       \/ MoveUser(a) \/ GrantMember(a) \/ MarkAccepted(a) \/ AbortAccept(a)

RoleNext ==
  \/ \E by, u \in User, t \in Tenant :
       \/ \E ro \in Role : AssignRole(by, t, u, ro)
       \/ \E m \in Removal : FindRole(m, by, t, u)
  \/ \E m \in Removal : CountAdmins(m) \/ DeleteRole(m) \/ AbortRemoval(m)

Next == LoginNext \/ InviteNext \/ RoleNext

Spec == Init /\ [][Next]_vars

-------------------------------------------------------------------------------
(***************************************************************************)
(* A user has a role in the tenant the user document names, without which  *)
(* no login succeeds: unless a request stopped between the two, is still   *)
(* between them, or an administrator removed the user.                     *)
(***************************************************************************)
HomeHasRole ==
  \A u \in User : home[u] # None /\ role[home[u]][u] = "none" =>
    \/ \E l \in Login : login[l].pc = "user" /\ login[l].user = u
    \/ \E a \in Accept : accept[a].pc = "moved" /\ accept[a].user = u

(***************************************************************************)
(* An invitation is marked last: one that counts as used made its user a   *)
(* member.  A request that stopped before may not be repeated with it all  *)
(* the same: if it stopped behind user.save(), the user's token names      *)
(* another tenant than the user, a login finds no role and accepting needs *)
(* a login, so the user is out until an administrator assigns a role.      *)
(***************************************************************************)
AcceptedIsMember ==
  /\ \A i \in Invite : invite[i].state = "accepted" =>
       \A u \in invite[i].by :
         role[invite[i].tenant][u] \in Role \cup {"removed"}
  /\ \A u \in User : home[u] # None /\ role[home[u]][u] = "cut" => ~LoggedIn(u)

(***************************************************************************)
(* Removals leave an administrator: a tenant loses its last one only to a  *)
(* change of role or an accepted invitation, or to a removal during which  *)
(* the user was made administrator or another administrator it counted     *)
(* ceased to be one.                                                       *)
(***************************************************************************)
RemovalLeavesAnAdmin ==
  [][\A t \in Tenant : HasAdmin(t) /\ ~HasAdmin(t)' =>
       \/ \E u \in Admins(t) : role'[t][u] = "MEMBER"
       \/ \E m \in Removal :
            /\ removal[m].pc = "delete" /\ removal[m].tenant = t
            /\ removal[m].user \in Admins(t)
            /\ \/ removal[m].seen = {}
               \/ removal[m].seen # Admins(t)]_vars

==============================================================================
