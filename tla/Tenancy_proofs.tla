---------------------------- MODULE Tenancy_proofs ----------------------------
(***************************************************************************)
(* The safety of Tenancy for any users, tenants, invitations and requests. *)
(***************************************************************************)
EXTENDS Tenancy, TLAPS, FiniteSetTheorems

(* Requests name existing things: what the type alone leaves open. *)
LoginNames ==
  \A l \in Login : login[l].pc # "idle" =>
    /\ login[l].user \in User
    /\ login[l].pc # "absent" => login[l].tenant \in Tenant

AcceptNames ==
  \A a \in Accept : accept[a].pc # "idle" =>
    /\ accept[a].user \in User /\ accept[a].invite \in Invite
    /\ invite[accept[a].invite].state # "none"

InviteNames ==
  \A i \in Invite : invite[i].state # "none" => invite[i].tenant \in Tenant

NamesInv == LoginNames /\ AcceptNames /\ InviteNames

LEMMA IdleTypes ==
  /\ NoLogin \in LoginRecord /\ NoAccept \in AcceptRecord
  /\ NoRemoval \in RemovalRecord /\ NoSession \in Home \X (Role \cup {"none"})
BY DEF NoLogin, NoAccept, NoRemoval, NoSession, LoginRecord, AcceptRecord,
       RemovalRecord, Home

LEMMA TypeInit == Init => TypeOK /\ NamesInv
<1> SUFFICES ASSUME Init PROVE TypeOK /\ NamesInv
  OBVIOUS
<1>1. invite \in [Invite -> InviteRecord]
  BY DEF Init, InviteRecord, Home
<1>2. TypeOK
  BY <1>1, IdleTypes DEF Init, TypeOK, Home, NoRole
<1>3. NamesInv
  BY DEF Init, NamesInv, LoginNames, AcceptNames, InviteNames, NoLogin, NoAccept
<1> QED
  BY <1>2, <1>3

LEMMA LoginType ==
  TypeOK /\ NamesInv /\ (\E l \in Login :
      \/ \E u \in User : FindUser(l, u)
      \/ \E t \in Tenant : CreateTenant(l, t)
      \/ CreateUser(l) \/ CreateRole(l) \/ ReadRole(l) \/ AbortLogin(l))
    => TypeOK' /\ NamesInv'
<1> SUFFICES ASSUME TypeOK, NamesInv, NEW l \in Login
             PROVE  (\/ \E u \in User : FindUser(l, u)
                     \/ \E t \in Tenant : CreateTenant(l, t)
                     \/ CreateUser(l) \/ CreateRole(l) \/ ReadRole(l)
                     \/ AbortLogin(l)) => TypeOK' /\ NamesInv'
  OBVIOUS
<1> USE DEF TypeOK
<1>0. login[l] \in LoginRecord
  OBVIOUS
<1>1. ASSUME NEW u \in User, FindUser(l, u) PROVE TypeOK' /\ NamesInv'
  <2> DEFINE rec == [pc |-> IF home[u] = None THEN "absent" ELSE "present",
                     user |-> u, tenant |-> home[u]]
  <2>1. rec \in LoginRecord
    BY DEF LoginRecord
  <2>2. rec.user \in User /\ (rec.pc # "absent" => rec.tenant \in Tenant)
    BY DEF Home
  <2>3. login' = [login EXCEPT ![l] = rec] /\ UNCHANGED <<rowVars, accept, removal>>
    BY <1>1 DEF FindUser
  <2> HIDE DEF rec
  <2> QED
    BY <2>1, <2>2, <2>3 DEF rowVars, NamesInv, LoginNames, AcceptNames, InviteNames
<1>2. ASSUME NEW t \in Tenant, CreateTenant(l, t) PROVE TypeOK' /\ NamesInv'
  <2> DEFINE rec == [login[l] EXCEPT !.pc = "tenant", !.tenant = t]
  <2>1. /\ rec \in LoginRecord
        /\ rec.user = login[l].user /\ rec.tenant = t /\ login[l].pc # "idle"
    BY <1>0, <1>2 DEF LoginRecord, CreateTenant, Home
  <2>2. login' = [login EXCEPT ![l] = rec]
    BY <1>2 DEF CreateTenant
  <2> HIDE DEF rec
  <2> QED
    BY <1>2, <2>1, <2>2
       DEF CreateTenant, NamesInv, LoginNames, AcceptNames, InviteNames
<1>3. ASSUME CreateUser(l) PROVE TypeOK' /\ NamesInv'
  <2> DEFINE rec == [login[l] EXCEPT !.pc = "user"]
  <2>1. /\ rec \in LoginRecord
        /\ rec.user = login[l].user /\ rec.tenant = login[l].tenant
        /\ login[l].pc \notin {"idle", "absent"}
    BY <1>0, <1>3 DEF LoginRecord, CreateUser
  <2>2. \/ login' = [login EXCEPT ![l] = rec]
        \/ login' = [login EXCEPT ![l] = NoLogin]
    BY <1>3 DEF CreateUser
  <2>3. login' \in [Login -> LoginRecord] /\ LoginNames'
    <3> HIDE DEF rec
    <3>1. rec.user \in User /\ rec.tenant \in Tenant
      BY <2>1 DEF NamesInv, LoginNames
    <3>2. CASE login' = [login EXCEPT ![l] = rec]
      BY <2>1, <3>1, <3>2 DEF NamesInv, LoginNames
    <3>3. CASE login' = [login EXCEPT ![l] = NoLogin]
      <4>1. NoLogin.pc = "idle"
        BY DEF NoLogin
      <4> QED
        BY <3>3, <4>1, IdleTypes DEF NamesInv, LoginNames
    <3> QED
      BY <2>2, <3>2, <3>3
  <2>4. home' \in [User -> Home]
    BY <1>0, <1>3 DEF CreateUser, LoginRecord
  <2> QED
    BY <1>3, <2>3, <2>4 DEF CreateUser, NamesInv, AcceptNames, InviteNames
<1>4. ASSUME login' = [login EXCEPT ![l] = NoLogin],
             UNCHANGED <<tenants, home, invite, accept, removal>>,
             role' \in [Tenant -> [User -> Role \cup NoRole]],
             session' \in [User -> Home \X (Role \cup {"none"})]
      PROVE  TypeOK' /\ NamesInv'
  BY <1>4, IdleTypes DEF NamesInv, LoginNames, AcceptNames, InviteNames, NoLogin
<1>5. ASSUME CreateRole(l) PROVE TypeOK' /\ NamesInv'
  <2>1. login[l].tenant \in Tenant
    BY <1>5 DEF CreateRole, NamesInv, LoginNames
  <2>2. <<login[l].tenant, "TENANT_ADMIN">> \in Home \X (Role \cup {"none"})
    BY <2>1 DEF Home, Role
  <2>3. session' \in [User -> Home \X (Role \cup {"none"})]
    BY <1>5, <2>2 DEF CreateRole, OpenSession
  <2>4. role' \in [Tenant -> [User -> Role \cup NoRole]]
    BY <1>5 DEF CreateRole, Role
  <2> QED
    BY <1>4, <1>5, <2>3, <2>4 DEF CreateRole
<1>6. ASSUME ReadRole(l) PROVE TypeOK' /\ NamesInv'
  <2> DEFINE t == login[l].tenant
             u == login[l].user
  <2>1. t \in Tenant /\ u \in User
    BY <1>6 DEF ReadRole, NamesInv, LoginNames
  <2>2. role[t][u] \notin NoRole => <<t, role[t][u]>> \in Home \X (Role \cup {"none"})
    BY <2>1 DEF Home
  <2>3. session' \in [User -> Home \X (Role \cup {"none"})]
    BY <1>6, <2>2 DEF ReadRole, OpenSession
  <2> QED
    BY <1>4, <1>6, <2>3 DEF ReadRole
<1>7. ASSUME AbortLogin(l) PROVE TypeOK' /\ NamesInv'
  <2>1. role' \in [Tenant -> [User -> Role \cup NoRole]]
    BY <1>7 DEF AbortLogin, CutOff, NoRole
  <2> QED
    BY <1>4, <1>7, <2>1 DEF AbortLogin
<1> QED
  BY <1>1, <1>2, <1>3, <1>5, <1>6, <1>7

LEMMA InviteType == TypeOK /\ NamesInv /\ InviteNext => TypeOK' /\ NamesInv'
<1> SUFFICES ASSUME TypeOK, NamesInv, InviteNext PROVE TypeOK' /\ NamesInv'
  OBVIOUS
<1> USE DEF TypeOK, NamesInv, LoginNames, AcceptNames, InviteNames
<1>1. ASSUME NEW i \in Invite, Expire(i) PROVE TypeOK' /\ NamesInv'
  <2> DEFINE rec == [invite[i] EXCEPT !.state = "deleted"]
  <2>1. /\ rec \in InviteRecord /\ rec.tenant = invite[i].tenant
        /\ rec.state # "none" /\ invite[i].state # "none"
    BY <1>1 DEF Expire, InviteRecord
  <2>2. invite' = [invite EXCEPT ![i] = rec]
    BY <1>1 DEF Expire
  <2> HIDE DEF rec
  <2> QED
    BY <1>1, <2>1, <2>2 DEF Expire
<1>2. ASSUME NEW u \in User, NEW t \in Tenant, NEW i \in Invite,
             CreateInvite(u, t, i)
      PROVE  TypeOK' /\ NamesInv'
  <2> DEFINE rec == [invite[i] EXCEPT !.state = "pending", !.tenant = t]
  <2>1. /\ rec \in InviteRecord /\ rec.tenant = t /\ rec.state # "none"
    BY <1>2 DEF InviteRecord, Home
  <2>2. invite' = [invite EXCEPT ![i] = rec]
    BY <1>2 DEF CreateInvite
  <2> HIDE DEF rec
  <2>3. /\ invite' \in [Invite -> InviteRecord]
        /\ \A j \in Invite : invite'[j].state # "none" =>
             j = i \/ invite[j].state # "none"
        /\ \A j \in Invite : invite[j].state # "none" => invite'[j].state # "none"
        /\ \A j \in Invite \ {i} : invite'[j] = invite[j]
        /\ invite'[i].tenant \in Tenant
    BY <2>1, <2>2
  <2> QED
    BY <1>2, <2>3 DEF CreateInvite
<1>3. ASSUME NEW a \in Accept, NEW u \in User, NEW i \in Invite, FindInvite(a, u, i)
      PROVE  TypeOK' /\ NamesInv'
  <2> DEFINE rec == [pc |-> "found", user |-> u, invite |-> i, loaded |-> home[u]]
  <2>1. rec \in AcceptRecord /\ rec.user = u /\ rec.invite = i
    BY DEF AcceptRecord
  <2>2. accept' = [accept EXCEPT ![a] = rec] /\ invite[i].state # "none"
    BY <1>3 DEF FindInvite
  <2> HIDE DEF rec
  <2> QED
    BY <1>3, <2>1, <2>2 DEF FindInvite, rowVars
<1>4. ASSUME NEW a \in Accept, NEW pc \in {"moved", "granted"},
             accept[a].pc # "idle", accept' = [accept EXCEPT ![a].pc = pc],
             UNCHANGED <<tenants, session, invite, login, removal>>,
             home' \in [User -> Home],
             role' \in [Tenant -> [User -> Role \cup NoRole]]
      PROVE  TypeOK' /\ NamesInv'
  <2> DEFINE rec == [accept[a] EXCEPT !.pc = pc]
  <2>1. /\ rec \in AcceptRecord
        /\ rec.user = accept[a].user /\ rec.invite = accept[a].invite
    BY <1>4 DEF AcceptRecord
  <2>2. accept' = [accept EXCEPT ![a] = rec]
    BY <1>4
  <2> HIDE DEF rec
  <2> QED
    BY <1>4, <2>1, <2>2
<1>5. ASSUME NEW a \in Accept, MoveUser(a) PROVE TypeOK' /\ NamesInv'
  <2>1. invite[accept[a].invite].tenant \in Tenant
    BY <1>5 DEF MoveUser
  <2>2. home' \in [User -> Home]
    BY <1>5, <2>1 DEF MoveUser, Home
  <2> QED
    BY <1>4, <1>5, <2>2 DEF MoveUser
<1>6. ASSUME NEW a \in Accept, GrantMember(a) PROVE TypeOK' /\ NamesInv'
  <2>1. role' \in [Tenant -> [User -> Role \cup NoRole]]
    BY <1>6 DEF GrantMember, Role
  <2> QED
    BY <1>4, <1>6, <2>1 DEF GrantMember
<1>7. ASSUME NEW a \in Accept, accept' = [accept EXCEPT ![a] = NoAccept],
             UNCHANGED <<tenants, home, session, login, removal>>,
             role' \in [Tenant -> [User -> Role \cup NoRole]],
             invite' \in [Invite -> InviteRecord],
             \A i \in Invite :
               /\ invite'[i].tenant = invite[i].tenant
               /\ invite'[i].state # "none" <=> invite[i].state # "none"
      PROVE  TypeOK' /\ NamesInv'
  BY <1>7, IdleTypes DEF NoAccept
<1>8. ASSUME NEW a \in Accept, MarkAccepted(a) PROVE TypeOK' /\ NamesInv'
  <2> DEFINE i == accept[a].invite
             rec == [invite[i] EXCEPT !.state = "accepted",
                                      !.by = @ \cup {accept[a].user}]
  <2>1. i \in Invite /\ accept[a].user \in User /\ invite[i].state # "none"
    BY <1>8 DEF MarkAccepted
  <2>2. /\ rec \in InviteRecord /\ rec.tenant = invite[i].tenant
        /\ rec.state # "none"
    BY <2>1 DEF InviteRecord
  <2>3. invite' = invite \/ invite' = [invite EXCEPT ![i] = rec]
    BY <1>8 DEF MarkAccepted
  <2>4. /\ invite' \in [Invite -> InviteRecord]
        /\ \A j \in Invite :
             /\ invite'[j].tenant = invite[j].tenant
             /\ invite'[j].state # "none" <=> invite[j].state # "none"
    <3> HIDE DEF rec
    <3> QED
      BY <2>1, <2>2, <2>3
  <2> QED
    BY <1>7, <1>8, <2>4 DEF MarkAccepted
<1>9. ASSUME NEW a \in Accept, AbortAccept(a) PROVE TypeOK' /\ NamesInv'
  <2>1. role' \in [Tenant -> [User -> Role \cup NoRole]]
    BY <1>9 DEF AbortAccept, CutOff, NoRole
  <2> QED
    BY <1>7, <1>9, <2>1 DEF AbortAccept
<1> QED
  BY <1>1, <1>2, <1>3, <1>5, <1>6, <1>8, <1>9 DEF InviteNext

LEMMA RoleType == TypeOK /\ NamesInv /\ RoleNext => TypeOK' /\ NamesInv'
<1> SUFFICES ASSUME TypeOK, NamesInv, RoleNext PROVE TypeOK' /\ NamesInv'
  OBVIOUS
<1>1. ASSUME UNCHANGED <<tenants, home, session, invite, login, accept>>,
             role' \in [Tenant -> [User -> Role \cup NoRole]],
             removal' \in [Removal -> RemovalRecord]
      PROVE  TypeOK' /\ NamesInv'
  BY <1>1 DEF TypeOK, NamesInv, LoginNames, AcceptNames, InviteNames
<1> USE DEF TypeOK
<1>2. ASSUME NEW by, NEW u \in User, NEW t \in Tenant, NEW ro \in Role,
             AssignRole(by, t, u, ro)
      PROVE  TypeOK' /\ NamesInv'
  BY <1>1, <1>2 DEF AssignRole
<1>3. ASSUME NEW by, NEW u \in User, NEW t \in Tenant, NEW m \in Removal,
             FindRole(m, by, t, u)
      PROVE  TypeOK' /\ NamesInv'
  <2> DEFINE rec == [pc |-> IF role[t][u] = "TENANT_ADMIN" THEN "count" ELSE "delete",
                     user |-> u, tenant |-> t, seen |-> {}]
  <2>1. rec \in RemovalRecord
    BY DEF RemovalRecord, Home
  <2>2. removal' = [removal EXCEPT ![m] = rec]
    BY <1>3 DEF FindRole
  <2> HIDE DEF rec
  <2> QED
    BY <1>1, <1>3, <2>1, <2>2 DEF FindRole, rowVars
<1>4. ASSUME NEW m \in Removal, CountAdmins(m) PROVE TypeOK' /\ NamesInv'
  <2> DEFINE seen == Admins(removal[m].tenant)
             rec == [removal[m] EXCEPT !.pc = "delete", !.seen = seen]
  <2>1. seen \in SUBSET User
    BY DEF Admins
  <2>2. rec \in RemovalRecord
    BY <2>1 DEF RemovalRecord
  <2>3. \/ removal' = [removal EXCEPT ![m] = rec]
        \/ removal' = [removal EXCEPT ![m] = NoRemoval]
    BY <1>4 DEF CountAdmins
  <2> HIDE DEF rec
  <2> QED
    BY <1>1, <1>4, <2>2, <2>3, IdleTypes DEF CountAdmins, rowVars
<1>5. ASSUME NEW m \in Removal, DeleteRole(m) PROVE TypeOK' /\ NamesInv'
  <2>1. role' \in [Tenant -> [User -> Role \cup NoRole]]
    BY <1>5 DEF DeleteRole, NoRole
  <2>2. removal' \in [Removal -> RemovalRecord]
    BY <1>5, IdleTypes DEF DeleteRole
  <2> QED
    BY <1>1, <1>5, <2>1, <2>2 DEF DeleteRole
<1>6. ASSUME NEW m \in Removal, AbortRemoval(m) PROVE TypeOK' /\ NamesInv'
  BY <1>1, <1>6, IdleTypes DEF AbortRemoval, rowVars
<1> QED
  BY <1>2, <1>3, <1>4, <1>5, <1>6 DEF RoleNext

LEMMA TypeNext == TypeOK /\ NamesInv /\ [Next]_vars => TypeOK' /\ NamesInv'
<1>1. TypeOK /\ NamesInv /\ UNCHANGED vars => TypeOK' /\ NamesInv'
  BY DEF vars, rowVars, TypeOK, NamesInv, LoginNames, AcceptNames, InviteNames
<1> QED
  BY <1>1, LoginType, InviteType, RoleType DEF Next, LoginNext

LEMMA TypesHold == Spec => [](TypeOK /\ NamesInv)
BY TypeInit, TypeNext, PTL DEF Spec

(* Every variable of the tenancy keeps its type. *)
THEOREM TypeCorrect == Spec => []TypeOK
BY TypesHold, PTL

-------------------------------------------------------------------------------
(* A role for the home.  HomeHasRole made inductive: the request that is   *)
(* still to create the role is at work on this very tenant.                *)
RoleComing(u) ==
  \/ \E l \in Login :
       login[l].pc = "user" /\ login[l].user = u /\ login[l].tenant = home[u]
  \/ \E a \in Accept :
       /\ accept[a].pc = "moved" /\ accept[a].user = u
       /\ invite[accept[a].invite].tenant = home[u]

HomeInv ==
  \A u \in User : home[u] # None /\ role[home[u]][u] = "none" => RoleComing(u)

LEMMA HomeLogin ==
  ASSUME TypeOK, NamesInv, HomeInv, NEW l \in Login,
         \/ \E u \in User : FindUser(l, u)
         \/ \E t \in Tenant : CreateTenant(l, t)
         \/ CreateUser(l) \/ CreateRole(l) \/ ReadRole(l) \/ AbortLogin(l)
  PROVE  HomeInv'
<1> DEFINE who == login[l].user
           where == login[l].tenant
<1>l. login[l] \in LoginRecord
  BY DEF TypeOK
<1>1. ASSUME \A k \in Login \ {l} : login'[k] = login[k],
             login[l].pc # "user", UNCHANGED <<home, role, accept, invite>>
      PROVE  HomeInv'
  BY <1>1 DEF HomeInv, RoleComing
<1>2. ASSUME NEW u \in User, FindUser(l, u) PROVE HomeInv'
  BY <1>1, <1>2 DEF FindUser, rowVars, TypeOK
<1>3. ASSUME NEW t \in Tenant, CreateTenant(l, t) PROVE HomeInv'
  BY <1>1, <1>3 DEF CreateTenant, TypeOK
<1>4. ASSUME ReadRole(l) PROVE HomeInv'
  BY <1>1, <1>4 DEF ReadRole, TypeOK
<1>5. ASSUME CreateUser(l) PROVE HomeInv'
  <2>1. who \in User /\ where \in Tenant
    BY <1>5 DEF CreateUser, NamesInv, LoginNames
  <2>2. CASE home[who] # None
    BY <1>1, <1>5, <2>2 DEF CreateUser, TypeOK
  <2>3. CASE home[who] = None
    <3>1. /\ home' = [home EXCEPT ![who] = where]
          /\ login' = [login EXCEPT ![l].pc = "user"]
          /\ UNCHANGED <<role, accept, invite>>
      BY <1>5, <2>3 DEF CreateUser
    <3>2. /\ login'[l].pc = "user" /\ login'[l].user = who /\ login'[l].tenant = where
          /\ \A k \in Login \ {l} : login'[k] = login[k]
          /\ home'[who] = where /\ \A u \in User \ {who} : home'[u] = home[u]
      BY <1>l, <2>1, <3>1 DEF TypeOK, LoginRecord
    <3>3. ASSUME NEW u \in User, u = who PROVE RoleComing(u)'
      BY <3>2, <3>3 DEF RoleComing
    <3>4. login[l].pc # "user"
      BY <1>5 DEF CreateUser
    <3>5. ASSUME NEW u \in User \ {who},
                 home'[u] # None /\ role'[home'[u]][u] = "none"
          PROVE  RoleComing(u)'
      <4>1. home'[u] = home[u]
        BY <3>2
      <4>2. RoleComing(u)
        BY <3>1, <3>5, <4>1 DEF HomeInv
      <4> QED
        BY <3>1, <3>2, <3>4, <4>1, <4>2 DEF RoleComing
    <3> QED
      BY <3>3, <3>5 DEF HomeInv
  <2> QED
    BY <2>2, <2>3
<1>6. ASSUME login' = [login EXCEPT ![l] = NoLogin],
             UNCHANGED <<home, accept, invite>>,
             \A u \in User, t \in Tenant : role'[t][u] = "none" =>
               /\ role[t][u] = "none"
               /\ ~(login[l].pc = "user" /\ who = u /\ where = t)
      PROVE  HomeInv'
  <2>1. \A k \in Login \ {l} : login'[k] = login[k]
    BY <1>6 DEF TypeOK
  <2>2. ASSUME NEW u \in User, home'[u] # None /\ role'[home'[u]][u] = "none"
        PROVE  RoleComing(u)'
    <3>1. home[u] \in Tenant
      BY <1>6, <2>2 DEF TypeOK, Home
    <3>2. /\ RoleComing(u)
          /\ ~(login[l].pc = "user" /\ who = u /\ where = home[u])
      BY <1>6, <2>2, <3>1 DEF HomeInv
    <3> QED
      BY <1>6, <2>1, <3>2 DEF RoleComing
  <2> QED
    BY <2>2 DEF HomeInv
<1>7. ASSUME CreateRole(l) PROVE HomeInv'
  <2>1. \A u \in User, t \in Tenant :
          role'[t][u] = IF u = who /\ t = where THEN "TENANT_ADMIN" ELSE role[t][u]
    BY <1>7 DEF CreateRole, TypeOK
  <2> QED
    BY <1>6, <1>7, <2>1 DEF CreateRole
<1>8. ASSUME AbortLogin(l) PROVE HomeInv'
  <2>1. CASE login[l].pc # "user"
    BY <1>6, <1>8, <2>1 DEF AbortLogin
  <2>2. CASE login[l].pc = "user"
    <3>1. \A u \in User, t \in Tenant :
            role'[t][u] = IF u = who /\ t = where /\ role[t][u] = "none"
                          THEN "cut" ELSE role[t][u]
      BY <1>8, <2>2 DEF AbortLogin, CutOff, TypeOK
    <3> QED
      BY <1>6, <1>8, <3>1 DEF AbortLogin
  <2> QED
    BY <2>1, <2>2
<1> QED
  BY <1>2, <1>3, <1>4, <1>5, <1>7, <1>8

LEMMA HomeInvite == TypeOK /\ NamesInv /\ HomeInv /\ InviteNext => HomeInv'
<1> SUFFICES ASSUME TypeOK, NamesInv, HomeInv, InviteNext PROVE HomeInv'
  OBVIOUS
<1>1. ASSUME UNCHANGED <<home, role, login, accept>>,
             \A i \in Invite : invite[i].state # "none" =>
               invite'[i].tenant = invite[i].tenant
      PROVE  HomeInv'
  BY <1>1 DEF HomeInv, RoleComing, NamesInv, AcceptNames
<1>2. ASSUME NEW i \in Invite, Expire(i) PROVE HomeInv'
  <2>1. \A j \in Invite : invite'[j].tenant = invite[j].tenant
    BY <1>2 DEF Expire, TypeOK, InviteRecord
  <2> QED
    BY <1>1, <1>2, <2>1 DEF Expire
<1>3. ASSUME NEW u \in User, NEW t \in Tenant, NEW i \in Invite,
             CreateInvite(u, t, i)
      PROVE  HomeInv'
  <2>1. \A j \in Invite \ {i} : invite'[j] = invite[j]
    BY <1>3 DEF CreateInvite, TypeOK
  <2> QED
    BY <1>1, <1>3, <2>1 DEF CreateInvite
<1>4. ASSUME NEW a \in Accept, NEW u \in User, NEW i \in Invite, FindInvite(a, u, i)
      PROVE  HomeInv'
  <2>1. \A b \in Accept \ {a} : accept'[b] = accept[b]
    BY <1>4 DEF FindInvite, TypeOK
  <2> QED
    BY <1>4, <2>1 DEF FindInvite, rowVars, HomeInv, RoleComing
<1>5. ASSUME NEW a \in Accept, MoveUser(a) PROVE HomeInv'
  <2> DEFINE who == accept[a].user
             t == invite[accept[a].invite].tenant
  <2>1. who \in User /\ accept[a] \in AcceptRecord
    BY <1>5 DEF MoveUser, NamesInv, AcceptNames, TypeOK
  <2>2. /\ accept'[a].pc = "moved" /\ accept'[a].user = who
        /\ accept'[a].invite = accept[a].invite
        /\ \A b \in Accept \ {a} : accept'[b] = accept[b]
    BY <1>5, <2>1 DEF MoveUser, TypeOK, AcceptRecord
  <2>3. /\ \A u \in User \ {who} : home'[u] = home[u]
        /\ home'[who] = home[who] \/ home'[who] = t
    BY <1>5, <2>1 DEF MoveUser, TypeOK
  <2>4. accept[a].pc # "moved" /\ UNCHANGED <<role, invite, login>>
    BY <1>5 DEF MoveUser
  <2>5. ASSUME NEW u \in User, home'[u] = home[u],
               home'[u] # None /\ role'[home'[u]][u] = "none"
        PROVE  RoleComing(u)'
    <3>1. RoleComing(u)
      BY <2>4, <2>5 DEF HomeInv
    <3> QED
      BY <2>2, <2>4, <2>5, <3>1 DEF RoleComing
  <2>6. ASSUME NEW u \in User, u = who, home'[u] = t PROVE RoleComing(u)'
    BY <2>2, <2>4, <2>6 DEF RoleComing
  <2>7. ASSUME NEW u \in User, home'[u] # None /\ role'[home'[u]][u] = "none"
        PROVE  RoleComing(u)'
    <3>1. CASE u = who /\ home'[u] = t
      BY <2>6, <3>1
    <3>2. CASE home'[u] = home[u]
      BY <2>5, <2>7, <3>2
    <3> QED
      BY <2>3, <3>1, <3>2
  <2> QED
    BY <2>7 DEF HomeInv
<1>6. ASSUME NEW a \in Accept, \A b \in Accept \ {a} : accept'[b] = accept[b],
             UNCHANGED <<home, login>>,
             \A i \in Invite : invite'[i].tenant = invite[i].tenant,
             \A u \in User, t \in Tenant : role'[t][u] = "none" =>
               /\ role[t][u] = "none"
               /\ ~(/\ accept[a].pc = "moved" /\ accept[a].user = u
                    /\ invite[accept[a].invite].tenant = t)
      PROVE  HomeInv'
  <2>1. ASSUME NEW u \in User, home'[u] # None /\ role'[home'[u]][u] = "none"
        PROVE  RoleComing(u)'
    <3>1. home[u] \in Tenant
      BY <1>6, <2>1 DEF TypeOK, Home
    <3>2. /\ RoleComing(u)
          /\ ~(/\ accept[a].pc = "moved" /\ accept[a].user = u
               /\ invite[accept[a].invite].tenant = home[u])
      BY <1>6, <2>1, <3>1 DEF HomeInv
    <3> QED
      BY <1>6, <3>2 DEF RoleComing, NamesInv, AcceptNames
  <2> QED
    BY <2>1 DEF HomeInv
<1>7. ASSUME NEW a \in Accept, GrantMember(a) PROVE HomeInv'
  <2>1. \A u \in User, t \in Tenant :
          role'[t][u] = IF u = accept[a].user /\ t = invite[accept[a].invite].tenant
                        THEN "MEMBER" ELSE role[t][u]
    BY <1>7 DEF GrantMember, TypeOK
  <2>2. \A b \in Accept \ {a} : accept'[b] = accept[b]
    BY <1>7 DEF GrantMember, TypeOK
  <2> QED
    BY <1>6, <1>7, <2>1, <2>2 DEF GrantMember
<1>8. ASSUME NEW a \in Accept, MarkAccepted(a) PROVE HomeInv'
  <2>1. \A i \in Invite : invite'[i].tenant = invite[i].tenant
    BY <1>8 DEF MarkAccepted, TypeOK, InviteRecord
  <2>2. \A b \in Accept \ {a} : accept'[b] = accept[b]
    BY <1>8 DEF MarkAccepted, TypeOK
  <2> QED
    BY <1>6, <1>8, <2>1, <2>2 DEF MarkAccepted
<1>9. ASSUME NEW a \in Accept, AbortAccept(a) PROVE HomeInv'
  <2>1. \A b \in Accept \ {a} : accept'[b] = accept[b]
    BY <1>9 DEF AbortAccept, TypeOK
  <2>2. CASE accept[a].pc # "moved"
    BY <1>6, <1>9, <2>1, <2>2 DEF AbortAccept
  <2>3. CASE accept[a].pc = "moved"
    <3>1. \A u \in User, t \in Tenant :
            role'[t][u] = IF /\ u = accept[a].user /\ role[t][u] = "none"
                             /\ t = invite[accept[a].invite].tenant
                          THEN "cut" ELSE role[t][u]
      BY <1>9, <2>3 DEF AbortAccept, CutOff, TypeOK
    <3> QED
      BY <1>6, <1>9, <2>1, <3>1 DEF AbortAccept
  <2> QED
    BY <2>2, <2>3
<1> QED
  BY <1>2, <1>3, <1>4, <1>5, <1>7, <1>8, <1>9 DEF InviteNext

LEMMA HomeRole == TypeOK /\ HomeInv /\ RoleNext => HomeInv'
<1> SUFFICES ASSUME TypeOK, HomeInv, RoleNext PROVE HomeInv'
  OBVIOUS
<1>1. ASSUME UNCHANGED <<home, invite, login, accept>>,
             \A u \in User, t \in Tenant : role'[t][u] = "none" => role[t][u] = "none"
      PROVE  HomeInv'
  BY <1>1 DEF HomeInv, RoleComing, TypeOK, Home
<1>2. ASSUME NEW by, NEW u \in User, NEW t \in Tenant, NEW ro \in Role,
             AssignRole(by, t, u, ro)
      PROVE  HomeInv'
  BY <1>1, <1>2 DEF AssignRole, Role, TypeOK
<1>3. ASSUME NEW m \in Removal, DeleteRole(m) PROVE HomeInv'
  BY <1>1, <1>3 DEF DeleteRole, TypeOK
<1> QED
  BY <1>1, <1>2, <1>3 DEF RoleNext, FindRole, CountAdmins, AbortRemoval, rowVars

(* A user has a role at home, but for a request on the way to create it,   *)
(* one that was cut off, or a removal.                                     *)
THEOREM HomesHaveRoles == Spec => []HomeHasRole
<1>1. Init => HomeInv
  BY DEF Init, HomeInv
<1>2. TypeOK /\ NamesInv /\ HomeInv /\ [Next]_vars => HomeInv'
  <2>1. HomeInv /\ UNCHANGED vars => HomeInv'
    BY DEF vars, rowVars, HomeInv, RoleComing
  <2> QED
    BY <2>1, HomeLogin, HomeInvite, HomeRole DEF Next, LoginNext
<1>3. HomeInv => HomeHasRole
  BY DEF HomeInv, RoleComing, HomeHasRole
<1> QED
  BY <1>1, <1>2, <1>3, TypesHold, PTL DEF Spec

-------------------------------------------------------------------------------
(* Used invitations.  AcceptedIsMember made inductive: it holds of whoever *)
(* was recorded whatever became of the invitation, and already of a        *)
(* request that has granted the role.                                      *)
Given == Role \cup {"removed"}

MemberInv ==
  /\ \A i \in Invite :
       /\ invite[i].state = "none" => invite[i].by = {}
       /\ \A u \in invite[i].by : role[invite[i].tenant][u] \in Given
  /\ \A a \in Accept : accept[a].pc = "granted" =>
       role[invite[accept[a].invite].tenant][accept[a].user] \in Given

(* No step takes a role back to the state before anybody was to have one.  *)
LEMMA RolesStay ==
  ASSUME TypeOK, [Next]_vars
  PROVE  \A t \in Tenant, u \in User : role[t][u] \in Given => role'[t][u] \in Given
<1> SUFFICES ASSUME NEW t \in Tenant, NEW u \in User, role[t][u] \in Given
             PROVE  role'[t][u] \in Given
  OBVIOUS
<1>1. ASSUME NEW s, NEW v, NEW ro \in Given, role' = [role EXCEPT ![s][v] = ro]
      PROVE  role'[t][u] \in Given
  BY <1>1 DEF TypeOK
<1>2. ASSUME NEW s, NEW v, role' = CutOff(s, v) PROVE role'[t][u] \in Given
  <2>1. CASE role[s][v] = "none"
    <3>1. role' = [role EXCEPT ![s][v] = "cut"]
      BY <1>2, <2>1 DEF CutOff
    <3>2. ~(s = t /\ v = u)
      BY <2>1 DEF Given, Role
    <3> QED
      BY <3>1, <3>2 DEF TypeOK
  <2>2. CASE role[s][v] # "none"
    BY <1>2, <2>2 DEF CutOff
  <2> QED
    BY <2>1, <2>2
<1>3. {"TENANT_ADMIN", "MEMBER", "removed"} \subseteq Given
  BY DEF Given, Role
<1>4. ASSUME NEW l \in Login, CreateRole(l) \/ AbortLogin(l)
      PROVE  role'[t][u] \in Given
  <2>1. CASE CreateRole(l)
    BY <1>1, <1>3, <2>1 DEF CreateRole
  <2>2. CASE AbortLogin(l)
    BY <1>2, <2>2 DEF AbortLogin
  <2> QED
    BY <1>4, <2>1, <2>2
<1>5. ASSUME NEW a \in Accept, GrantMember(a) \/ AbortAccept(a)
      PROVE  role'[t][u] \in Given
  <2>1. CASE GrantMember(a)
    BY <1>1, <1>3, <2>1 DEF GrantMember
  <2>2. CASE AbortAccept(a)
    BY <1>2, <2>2 DEF AbortAccept
  <2> QED
    BY <1>5, <2>1, <2>2
<1>6. ASSUME NEW by, NEW v, NEW s, NEW ro \in Role, AssignRole(by, s, v, ro)
      PROVE  role'[t][u] \in Given
  BY <1>1, <1>6 DEF AssignRole, Given
<1>7. ASSUME NEW m \in Removal, DeleteRole(m) PROVE role'[t][u] \in Given
  BY <1>1, <1>3, <1>7 DEF DeleteRole
<1>8. CASE UNCHANGED role
  BY <1>8
<1> QED
  BY <1>4, <1>5, <1>6, <1>7, <1>8
     DEF Next, LoginNext, InviteNext, RoleNext, FindUser, CreateTenant, CreateUser,
         ReadRole, CreateInvite, Expire, FindInvite, MoveUser, MarkAccepted, FindRole,
         CountAdmins, AbortRemoval, vars, rowVars

(* The steps that touch an invitation or a request that uses one.          *)
LEMMA InviteSteps ==
  ASSUME [Next]_vars
  PROVE  UNCHANGED <<invite, accept>> \/ InviteNext
BY DEF Next, LoginNext, RoleNext, FindUser, CreateTenant, CreateUser,
       CreateRole, ReadRole, AbortLogin, AssignRole, FindRole, CountAdmins, DeleteRole,
       AbortRemoval, vars, rowVars

LEMMA MemberNext == TypeOK /\ NamesInv /\ MemberInv /\ [Next]_vars => MemberInv'
<1> SUFFICES ASSUME TypeOK, NamesInv, MemberInv, [Next]_vars PROVE MemberInv'
  OBVIOUS
<1> DEFINE Recorded(i) ==
      \A u \in invite[i].by : role'[invite[i].tenant][u] \in Given
           Granted(a) ==
      role'[invite[accept[a].invite].tenant][accept[a].user] \in Given
<1>1. \A i \in Invite : Recorded(i)
  <2> SUFFICES ASSUME NEW i \in Invite, NEW u \in invite[i].by
               PROVE  role'[invite[i].tenant][u] \in Given
    OBVIOUS
  <2>1. u \in User
    BY DEF TypeOK, InviteRecord
  <2>2. invite[i].tenant \in Tenant /\ role[invite[i].tenant][u] \in Given
    BY DEF MemberInv, NamesInv, InviteNames
  <2> QED
    BY <2>1, <2>2, RolesStay
<1>2. \A a \in Accept : accept[a].pc = "granted" => Granted(a)
  <2> SUFFICES ASSUME NEW a \in Accept, accept[a].pc = "granted" PROVE Granted(a)
    OBVIOUS
  <2>1. /\ accept[a].user \in User
        /\ invite[accept[a].invite].tenant \in Tenant
    BY DEF NamesInv, AcceptNames, InviteNames
  <2>2. role[invite[accept[a].invite].tenant][accept[a].user] \in Given
    BY DEF MemberInv
  <2> QED
    BY <2>1, <2>2, RolesStay
<1>3. CASE UNCHANGED <<invite, accept>>
  BY <1>1, <1>2, <1>3 DEF MemberInv
<1>4. ASSUME NEW i \in Invite, UNCHANGED accept,
             \A j \in Invite \ {i} : invite'[j] = invite[j],
             invite'[i].by = invite[i].by, invite'[i].state # "none",
             invite[i].state # "none" => invite'[i].tenant = invite[i].tenant
      PROVE  MemberInv'
  BY <1>1, <1>2, <1>4 DEF MemberInv, NamesInv, AcceptNames
<1>5. ASSUME NEW i \in Invite, Expire(i) PROVE MemberInv'
  <2>1. /\ invite'[i].by = invite[i].by /\ invite'[i].state # "none"
        /\ invite'[i].tenant = invite[i].tenant
        /\ \A j \in Invite \ {i} : invite'[j] = invite[j]
    BY <1>5 DEF Expire, TypeOK, InviteRecord
  <2> QED
    BY <1>4, <1>5, <2>1 DEF Expire
<1>6. ASSUME NEW u \in User, NEW t \in Tenant, NEW i \in Invite,
             CreateInvite(u, t, i)
      PROVE  MemberInv'
  <2>1. /\ invite'[i].by = invite[i].by /\ invite'[i].state # "none"
        /\ \A j \in Invite \ {i} : invite'[j] = invite[j]
        /\ invite[i].state = "none"
    BY <1>6 DEF CreateInvite, TypeOK, InviteRecord
  <2> QED
    BY <1>4, <1>6, <2>1 DEF CreateInvite
<1>7. ASSUME NEW a \in Accept, UNCHANGED invite,
             \A b \in Accept \ {a} : accept'[b] = accept[b],
             accept'[a].pc # "granted"
      PROVE  MemberInv'
  BY <1>1, <1>2, <1>7 DEF MemberInv
<1>8. ASSUME NEW a \in Accept,
             MoveUser(a) \/ AbortAccept(a) \/ \E u \in User, i \in Invite : FindInvite(a, u, i)
      PROVE  MemberInv'
  <2>1. /\ accept'[a].pc # "granted" /\ UNCHANGED invite
        /\ \A b \in Accept \ {a} : accept'[b] = accept[b]
    BY <1>8 DEF MoveUser, AbortAccept, FindInvite, TypeOK, AcceptRecord, NoAccept,
                rowVars
  <2> QED
    BY <1>7, <2>1
<1>9. ASSUME NEW a \in Accept, GrantMember(a) PROVE MemberInv'
  <2>1. /\ accept'[a].user = accept[a].user /\ accept'[a].invite = accept[a].invite
        /\ \A b \in Accept \ {a} : accept'[b] = accept[b]
        /\ UNCHANGED invite
    BY <1>9 DEF GrantMember, TypeOK, AcceptRecord
  <2>2. /\ accept[a].user \in User
        /\ invite[accept[a].invite].tenant \in Tenant
    BY <1>9 DEF GrantMember, NamesInv, AcceptNames, InviteNames
  <2>3. role'[invite[accept[a].invite].tenant][accept[a].user] = "MEMBER"
    BY <1>9, <2>2 DEF GrantMember, TypeOK
  <2>4. "MEMBER" \in Given
    BY DEF Given, Role
  <2> QED
    BY <1>1, <1>2, <2>1, <2>3, <2>4 DEF MemberInv
<1>10. ASSUME NEW a \in Accept, MarkAccepted(a) PROVE MemberInv'
  <2> DEFINE i == accept[a].invite
  <2>1. /\ i \in Invite /\ invite[i].state # "none" /\ accept[a].pc = "granted"
    BY <1>10 DEF MarkAccepted, NamesInv, AcceptNames
  <2>2. /\ accept'[a].pc # "granted"
        /\ \A b \in Accept \ {a} : accept'[b] = accept[b]
    BY <1>10 DEF MarkAccepted, TypeOK, NoAccept
  <2>3. /\ invite'[i].tenant = invite[i].tenant /\ invite'[i].state # "none"
        /\ invite'[i].by \subseteq invite[i].by \cup {accept[a].user}
        /\ \A j \in Invite \ {i} : invite'[j] = invite[j]
    BY <1>10, <2>1 DEF MarkAccepted, TypeOK, InviteRecord
  <2>4. \A u \in invite'[i].by : role'[invite'[i].tenant][u] \in Given
    BY <1>1, <1>2, <2>1, <2>3
  <2>5. \A j \in Invite : invite'[j].tenant = invite[j].tenant
    BY <2>3
  <2>6. ASSUME NEW j \in Invite
        PROVE  /\ invite'[j].state = "none" => invite'[j].by = {}
               /\ \A u \in invite'[j].by : role'[invite'[j].tenant][u] \in Given
    BY <1>1, <2>3, <2>4, <2>6 DEF MemberInv
  <2>7. ASSUME NEW b \in Accept, accept'[b].pc = "granted"
        PROVE  role'[invite'[accept'[b].invite].tenant][accept'[b].user] \in Given
    <3>1. accept'[b] = accept[b] /\ accept[b].invite \in Invite
      BY <2>2, <2>7 DEF NamesInv, AcceptNames
    <3> QED
      BY <1>2, <2>5, <2>7, <3>1
  <2> QED
    BY <2>6, <2>7 DEF MemberInv
<1> QED
  BY <1>3, <1>5, <1>6, <1>8, <1>9, <1>10, InviteSteps DEF InviteNext

(* A token names a tenant in which its user had a role, and a role that    *)
(* was once given or taken is never again one that was cut off.            *)
SessionInv ==
  \A u \in User : session[u] # NoSession =>
    session[u][1] \in Tenant /\ role[session[u][1]][u] \in Given

LEMMA SessionNext == TypeOK /\ NamesInv /\ SessionInv /\ [Next]_vars => SessionInv'
<1> SUFFICES ASSUME TypeOK, NamesInv, SessionInv, [Next]_vars PROVE SessionInv'
  OBVIOUS
<1>1. ASSUME NEW u \in User, session'[u] # NoSession, session'[u] = session[u]
      PROVE  session'[u][1] \in Tenant /\ role'[session'[u][1]][u] \in Given
  <2>1. session[u][1] \in Tenant /\ role[session[u][1]][u] \in Given
    BY <1>1 DEF SessionInv
  <2> QED
    BY <1>1, <2>1, RolesStay
<1>2. ASSUME NEW v \in User, NEW t \in Tenant, NEW ro, OpenSession(v, t, ro),
             role'[t][v] \in Given
      PROVE  SessionInv'
  <2>1. \A u \in User : session'[u] = IF u = v THEN <<t, ro>> ELSE session[u]
    BY <1>2 DEF OpenSession, TypeOK
  <2> QED
    BY <1>1, <1>2, <2>1 DEF SessionInv
<1>3. ASSUME NEW l \in Login, CreateRole(l) PROVE SessionInv'
  <2>1. login[l].user \in User /\ login[l].tenant \in Tenant
    BY <1>3 DEF CreateRole, NamesInv, LoginNames
  <2>2. CASE UNCHANGED session
    BY <1>1, <2>2 DEF SessionInv
  <2>3. CASE OpenSession(login[l].user, login[l].tenant, "TENANT_ADMIN")
    <3>1. role'[login[l].tenant][login[l].user] = "TENANT_ADMIN"
      BY <1>3, <2>1 DEF CreateRole, TypeOK
    <3> QED
      BY <1>2, <2>1, <2>3, <3>1 DEF Given, Role
  <2> QED
    BY <1>3, <2>2, <2>3 DEF CreateRole
<1>4. ASSUME NEW l \in Login, ReadRole(l) PROVE SessionInv'
  <2>1. login[l].user \in User /\ login[l].tenant \in Tenant
    BY <1>4 DEF ReadRole, NamesInv, LoginNames
  <2>2. CASE role[login[l].tenant][login[l].user] \in NoRole
    BY <1>1, <1>4, <2>2 DEF ReadRole, SessionInv
  <2>3. CASE role[login[l].tenant][login[l].user] \notin NoRole
    <3>1. role'[login[l].tenant][login[l].user] \in Given
      BY <1>4, <2>1, <2>3 DEF ReadRole, TypeOK, Given
    <3> QED
      BY <1>2, <1>4, <2>1, <2>3, <3>1 DEF ReadRole
  <2> QED
    BY <2>2, <2>3
<1>5. CASE UNCHANGED session
  BY <1>1, <1>5 DEF SessionInv
<1> QED
  BY <1>3, <1>4, <1>5
     DEF Next, LoginNext, InviteNext, RoleNext, FindUser, CreateTenant, CreateUser,
         AbortLogin, CreateInvite, Expire, FindInvite, MoveUser, GrantMember, MarkAccepted,
         AbortAccept, AssignRole, FindRole, CountAdmins, DeleteRole, AbortRemoval, vars,
         rowVars

(* Whoever used an invitation has been a member since, or was removed; and *)
(* a user whom a stop left without a role at home is not logged in.        *)
THEOREM AcceptedMembers == Spec => []AcceptedIsMember
<1>1. Init => MemberInv /\ SessionInv
  BY DEF Init, MemberInv, NoAccept, SessionInv
<1>2. MemberInv /\ SessionInv => AcceptedIsMember
  BY DEF MemberInv, SessionInv, Given, Role, AcceptedIsMember, LoggedIn
<1> QED
  BY <1>1, <1>2, MemberNext, SessionNext, TypesHold, PTL DEF Spec

-------------------------------------------------------------------------------
(* Removals.  A removal that is about to delete an administrator has       *)
(* counted another one, or saw that its user was none.                     *)
CountedInv ==
  \A m \in Removal : removal[m].pc = "delete" =>
    removal[m].seen = {} \/ \A u : removal[m].seen # {u}

LEMMA CountedNext == TypeOK /\ CountedInv /\ [Next]_vars => CountedInv'
<1> SUFFICES ASSUME TypeOK, CountedInv, [Next]_vars PROVE CountedInv'
  OBVIOUS
<1>1. ASSUME NEW m \in Removal, \A n \in Removal \ {m} : removal'[n] = removal[n],
             removal'[m].pc = "delete" =>
               removal'[m].seen = {} \/ \A u : removal'[m].seen # {u}
      PROVE  CountedInv'
  BY <1>1 DEF CountedInv
<1>2. ASSUME NEW m \in Removal, NEW by, NEW t, NEW u, FindRole(m, by, t, u)
      PROVE  CountedInv'
  <2>1. /\ \A n \in Removal \ {m} : removal'[n] = removal[n]
        /\ removal'[m].seen = {}
    BY <1>2 DEF FindRole, TypeOK
  <2> QED
    BY <1>1, <2>1
<1>3. ASSUME NEW m \in Removal, CountAdmins(m) PROVE CountedInv'
  <2> DEFINE seen == Admins(removal[m].tenant)
  <2>1. \A n \in Removal \ {m} : removal'[n] = removal[n]
    BY <1>3 DEF CountAdmins, TypeOK
  <2>2. CASE ~Enough(Cardinality(seen))
    <3>1. removal'[m].pc # "delete"
      BY <1>3, <2>2 DEF CountAdmins, TypeOK, NoRemoval
    <3> QED
      BY <1>1, <2>1, <3>1
  <2>3. CASE Enough(Cardinality(seen))
    <3>1. removal'[m].seen = seen
      BY <1>3, <2>3 DEF CountAdmins, TypeOK, RemovalRecord
    <3>2. ASSUME NEW u, seen = {u} PROVE FALSE
      <4>1. Cardinality(seen) = 1
        BY <3>2, FS_Singleton
      <4> QED
        BY <2>3, <4>1 DEF Enough
    <3> QED
      BY <1>1, <2>1, <3>1, <3>2
  <2> QED
    BY <2>2, <2>3
<1>4. ASSUME NEW m \in Removal, DeleteRole(m) PROVE CountedInv'
  <2>1. \A n \in Removal : removal'[n] = removal[n] \/ removal'[n] = NoRemoval
    BY <1>4 DEF DeleteRole
  <2>2. NoRemoval.pc # "delete"
    BY DEF NoRemoval
  <2>3. ASSUME NEW n \in Removal, removal'[n].pc = "delete"
        PROVE  removal'[n].seen = {} \/ \A u : removal'[n].seen # {u}
    <3>1. removal'[n] = removal[n]
      BY <2>1, <2>2, <2>3
    <3> QED
      BY <2>3, <3>1 DEF CountedInv
  <2> QED
    BY <2>3 DEF CountedInv
<1>5. ASSUME NEW m \in Removal, AbortRemoval(m) PROVE CountedInv'
  BY <1>5 DEF AbortRemoval, TypeOK, CountedInv, NoRemoval
<1>6. CASE UNCHANGED removal
  BY <1>6 DEF CountedInv
<1> QED
  BY <1>2, <1>3, <1>4, <1>5, <1>6
     DEF Next, LoginNext, InviteNext, RoleNext, FindUser, CreateTenant, CreateUser,
         CreateRole, ReadRole, AbortLogin, CreateInvite, Expire, FindInvite, MoveUser,
         GrantMember, MarkAccepted, AbortAccept, AssignRole, vars, rowVars

(* One removal alone never takes the last administrator of a tenant.       *)
THEOREM RemovalsLeaveAnAdmin == Spec => RemovalLeavesAnAdmin
<1> DEFINE Loss(t) == HasAdmin(t) /\ ~HasAdmin(t)'
           Excused(t) ==
             \/ \E u \in Admins(t) : role'[t][u] = "MEMBER"
             \/ \E m \in Removal :
                  /\ removal[m].pc = "delete" /\ removal[m].tenant = t
                  /\ removal[m].user \in Admins(t)
                  /\ \/ removal[m].seen = {}
                     \/ removal[m].seen # Admins(t)
<1>1. ASSUME TypeOK, NamesInv, CountedInv, [Next]_vars, NEW t \in Tenant, Loss(t)
      PROVE  Excused(t)
  <2>1. PICK u \in User : role[t][u] = "TENANT_ADMIN"
    BY <1>1 DEF HasAdmin, Admins
  <2>2. \A v \in User : role'[t][v] # "TENANT_ADMIN"
    BY <1>1 DEF HasAdmin, Admins
  <2>3. ASSUME NEW s, NEW v, NEW ro, role' = [role EXCEPT ![s][v] = ro]
        PROVE  /\ s = t /\ v = u /\ role'[t][u] = ro /\ ro # "TENANT_ADMIN"
               /\ Admins(t) = {u}
    <3>1. s = t
      BY <1>1, <2>1, <2>2, <2>3 DEF TypeOK
    <3>2. \A w \in User \ {v} : role[t][w] # "TENANT_ADMIN"
      BY <1>1, <2>2, <2>3 DEF TypeOK
    <3>3. v = u
      BY <2>1, <3>2
    <3>4. role'[t][u] = ro
      BY <1>1, <2>3, <3>1, <3>3 DEF TypeOK
    <3> QED
      BY <2>1, <2>2, <3>1, <3>2, <3>3, <3>4 DEF Admins
  <2>4. ASSUME NEW s, NEW v, role' = CutOff(s, v) PROVE FALSE
    <3>1. CASE role[s][v] = "none"
      <4>1. role' = [role EXCEPT ![s][v] = "cut"]
        BY <2>4, <3>1 DEF CutOff
      <4> QED
        BY <2>1, <2>3, <3>1, <4>1
    <3>2. CASE role[s][v] # "none"
      BY <2>1, <2>2, <2>4, <3>2 DEF CutOff
    <3> QED
      BY <3>1, <3>2
  <2>5. ASSUME UNCHANGED role PROVE FALSE
    BY <2>1, <2>2, <2>5
  <2>6. ASSUME NEW s, NEW v, NEW ro \in Role, role' = [role EXCEPT ![s][v] = ro]
        PROVE  Excused(t)
    BY <2>1, <2>3, <2>6 DEF Admins, Role
  <2>7. ASSUME NEW l \in Login, CreateRole(l) \/ AbortLogin(l) PROVE FALSE
    <3>1. CASE CreateRole(l)
      BY <2>3, <3>1 DEF CreateRole
    <3>2. CASE AbortLogin(l)
      BY <2>4, <2>5, <3>2 DEF AbortLogin
    <3> QED
      BY <2>7, <3>1, <3>2
  <2>8. ASSUME NEW a \in Accept, GrantMember(a) \/ AbortAccept(a) PROVE Excused(t)
    <3>1. CASE GrantMember(a)
      BY <2>6, <3>1 DEF GrantMember, Role
    <3>2. CASE AbortAccept(a)
      BY <2>4, <2>5, <3>2 DEF AbortAccept
    <3> QED
      BY <2>8, <3>1, <3>2
  <2>9. ASSUME NEW by, NEW v, NEW s, NEW ro \in Role, AssignRole(by, s, v, ro)
        PROVE  Excused(t)
    BY <2>6, <2>9 DEF AssignRole
  <2>10. ASSUME NEW m \in Removal, DeleteRole(m) PROVE Excused(t)
    <3>1. /\ removal[m].tenant = t /\ removal[m].user = u /\ Admins(t) = {u}
          /\ removal[m].pc = "delete"
      BY <2>3, <2>10 DEF DeleteRole
    <3>2. removal[m].seen = {} \/ removal[m].seen # Admins(t)
      BY <1>1, <3>1 DEF CountedInv
    <3> QED
      BY <3>1, <3>2
  <2> QED
    BY <1>1, <2>5, <2>7, <2>8, <2>9, <2>10
       DEF Next, LoginNext, InviteNext, RoleNext, FindUser, CreateTenant, CreateUser,
           ReadRole, CreateInvite, Expire, FindInvite, MoveUser, MarkAccepted,
           FindRole, CountAdmins, AbortRemoval, vars, rowVars
<1>2. Init => CountedInv
  BY DEF Init, CountedInv, NoRemoval
<1>3. TypeOK /\ NamesInv /\ CountedInv /\ [Next]_vars
        => [\A t \in Tenant : Loss(t) => Excused(t)]_vars
  BY <1>1
<1> QED
  BY <1>2, <1>3, CountedNext, TypesHold, PTL DEF Spec, RemovalLeavesAnAdmin

==============================================================================
