------------------------------ MODULE Accounts ------------------------------
(***************************************************************************)
(* Users, roles and invite codes of the dashboard: the tables of           *)
(* src/src/db/users.rs and src/src/db/rbac.rs, the user administration     *)
(* (src/src/web/handlers/admin.rs) and the join form                       *)
(* (src/src/web/handlers/join.rs).  A handler looks something up, releases *)
(* the database, and writes in a second critical section: between the two  *)
(* other handlers run.  So a handler is two actions, AskX for its          *)
(* admission and its checks and DoX for its write, and `pending` holds the *)
(* handlers that are between them.  Of a role's permissions the model      *)
(* keeps whether users.manage is one of them.                              *)
(***************************************************************************)
EXTENDS Naturals, FiniteSets

CONSTANTS
  Names,        \* user names
  Codes,        \* invite codes ever generated
  CustomRoles,  \* names for roles that administrators create
  BuiltIn,      \* the built-in roles
  MaxUsers,     \* bound on the user ids ever given out
  MaxPending,   \* bound on the handlers under way
  FirstAdmin,   \* the name the set-up gives its administrator
  None          \* no code, no user, no row

Roles == BuiltIn \cup CustomRoles
UserIds == 1..MaxUsers

\* `code` is the invite the user joined with: it is not in the users table, it
\* says whom the invite's used_by should name.
User == [name : Names, role : Roles, disabled : BOOLEAN,
         code : Codes \cup {None}]

\* An invite is good, past (its time is over, but on the day it ends the text
\* comparison of use_invite still takes it: 'T' sorts after ' '), or over.
Invite == [life : {"good", "past", "over"}, usedBy : UserIds \cup {None}]

ASSUME AccountsAssumption ==
  /\ MaxUsers \in Nat \ {0} /\ MaxPending \in Nat
  /\ FirstAdmin \in Names
  /\ {"admin", "player"} \subseteq BuiltIn /\ CustomRoles \cap BuiltIn = {}
  /\ None \notin Codes \cup UserIds \cup User \cup Invite

VARIABLES
  users,     \* user id -> row, or None
  nextUser,  \* AUTOINCREMENT: an id is never given out again
  roles,     \* the names in the roles table
  managing,  \* the roles with users.manage
  invites,   \* code -> row, or None
  pending    \* handlers between their check and their write

accountVars == <<users, nextUser, roles, managing, invites, pending>>

Task ==
       [act : {"role"}, on : UserIds, role : Roles]
  \cup [act : {"disable", "enable", "delete"}, on : UserIds]
  \cup [act : {"invite"}, by : UserIds, code : Codes]
  \cup [act : {"revoke"}, code : Codes]
  \cup [act : {"grant", "ungrant", "dropRole", "addRole", "addManagers"}, role : Roles]
  \cup [act : {"join"}, code : Codes, name : Names]

Existing == {u \in UserIds : users[u] # None}
EnabledOn(rs) == {u \in Existing : ~users[u].disabled /\ users[u].role \in rs}
Managers == EnabledOn(managing)

\* count_users_with_permission('users.manage', exclude): who else can manage.
OtherManagers(u) == Managers \ {u}

\* The migrations make the roles, the set-up the first administrator.
AccountsInit ==
  /\ users = [u \in UserIds |-> IF u = 1
       THEN [name |-> FirstAdmin, role |-> "admin", disabled |-> FALSE,
             code |-> None]
       ELSE None]
  /\ nextUser = 2
  /\ roles = BuiltIn
  /\ managing = {"admin"}
  /\ invites = [c \in Codes |-> None]
  /\ pending = {}

------------------------------------------------------------------------------
(* The checks of the handlers                                              *)

Start(t) ==
  /\ Cardinality(pending) < MaxPending
  /\ pending' = pending \cup {t}
  /\ UNCHANGED <<users, nextUser, roles, managing, invites>>

\* auth_middleware and admin_middleware: an enabled user who manages users.
Admitted == Managers

AskRole(a, u, r) ==
  /\ u # a /\ r \in roles
  /\ Start([act |-> "role", on |-> u, role |-> r])

\* toggle_disable reads the flag and will write its negation.
AskToggle(a, u) ==
  /\ u # a /\ u \in Existing
  /\ Start([act |-> IF users[u].disabled THEN "enable" ELSE "disable", on |-> u])

AskDelete(a, u) ==
  u # a /\ u \in Existing /\ Start([act |-> "delete", on |-> u])

\* A new code is a random one; what is revoked or deleted was on the page.
AskInvite(a, c) ==
  invites[c] = None /\ Start([act |-> "invite", by |-> a, code |-> c])
AskRevoke(c) ==
  invites[c] # None /\ Start([act |-> "revoke", code |-> c])

\* The role forms: new permissions with users.manage or without, a new role
\* with it or without, and the removal of a role; those that are always refused
\* (the administrator role keeps its permissions, a built-in one stays) left out.
AskRoleForm(form, r) ==
  /\ r # "admin" /\ (form = "dropRole" => r \notin BuiltIn)
  /\ Start([act |-> form, role |-> r])

\* validate_invite_code and the free name; then the game server registers a
\* profile, which may fail and end the handler.
AskJoin(c, n) ==
  /\ invites[c] # None /\ invites[c].usedBy = None /\ invites[c].life = "good"
  /\ \A u \in Existing : users[u].name # n
  /\ Start([act |-> "join", code |-> c, name |-> n])

------------------------------------------------------------------------------
(* Their writes, each in one critical section of the database              *)

UpdateRole(t) ==
  /\ t.act = "role"
  /\ users' = IF t.on \in Existing /\ t.role \in roles  \* else no row, or the trigger
                /\ (t.on \in Managers /\ t.role \notin managing => OtherManagers(t.on) # {})
              THEN [users EXCEPT ![t.on].role = t.role] ELSE users
  /\ UNCHANGED <<nextUser, roles, managing, invites>>

SetDisabled(t) ==
  /\ t.act \in {"disable", "enable"}
  /\ users' = IF t.on \in Existing
                /\ (t.act = "disable" /\ t.on \in Managers => OtherManagers(t.on) # {})
              THEN [users EXCEPT ![t.on].disabled = (t.act = "disable")] ELSE users
  /\ UNCHANGED <<nextUser, roles, managing, invites>>

\* The row goes; invite codes it used or created forget it (ON DELETE SET NULL).
ForgetUser(u) ==
  [c \in Codes |-> IF invites[c] # None /\ invites[c].usedBy = u
                   THEN [invites[c] EXCEPT !.usedBy = None] ELSE invites[c]]

\* Refused to the last one who manages, and by a note that names the user (its foreign
\* key has no ON DELETE; notes are not modelled, so any deletion may be refused).
DeleteUser(t) ==
  /\ t.act = "delete"
  /\ \/ /\ t.on \in Existing /\ (t.on \in Managers => OtherManagers(t.on) # {})
        /\ users' = [users EXCEPT ![t.on] = None] /\ invites' = ForgetUser(t.on)
     \/ UNCHANGED <<users, invites>>
  /\ UNCHANGED <<nextUser, roles, managing>>

\* Codes are random, so a code is inserted once; created_by must still exist.
CreateInvite(c) == invites' = [invites EXCEPT ![c] = [life |-> "good", usedBy |-> None]]
InsertInvite(t) ==
  /\ t.act = "invite"
  /\ IF invites[t.code] = None /\ t.by \in Existing
     THEN CreateInvite(t.code) ELSE UNCHANGED invites
  /\ UNCHANGED <<users, nextUser, roles, managing>>

DeleteInvite(t) ==
  /\ t.act = "revoke"
  /\ invites' = IF invites[t.code] # None /\ invites[t.code].usedBy = None
                THEN [invites EXCEPT ![t.code] = None] ELSE invites
  /\ UNCHANGED <<users, nextUser, roles, managing>>

CreateRole(t) ==
  /\ t.act \in {"addRole", "addManagers"}
  /\ t.role \in CustomRoles
  /\ IF t.role \in roles THEN UNCHANGED <<roles, managing>>
     ELSE /\ roles' = roles \cup {t.role}
          /\ managing' = IF t.act = "addManagers" THEN managing \cup {t.role} ELSE managing
  /\ UNCHANGED <<users, nextUser, invites>>

\* update_role_permissions: the administrator role stays as it is, and users.manage
\* is not taken from the role of the only enabled users that have it.
LastWith(r) == r \in managing /\ EnabledOn({r}) # {} /\ EnabledOn(managing \ {r}) = {}
UpdatePermissions(t) ==
  /\ t.act \in {"grant", "ungrant"}
  /\ managing' =
       IF t.role \notin roles \ {"admin"} THEN managing
       ELSE IF t.act = "grant" THEN managing \cup {t.role}
       ELSE IF LastWith(t.role) THEN managing ELSE managing \ {t.role}
  /\ UNCHANGED <<users, nextUser, roles, invites>>

\* delete_role: not a built-in one and not one that a user has, enabled or not.
Unassigned(r) == \A u \in Existing : users[u].role # r
KeptPermissions(r) == managing  \* mutant: role_permissions without the cascade
Ungranted(r) == managing \ {r}
DeleteRole(t) ==
  /\ t.act = "dropRole"
  /\ IF t.role \in roles \ BuiltIn /\ Unassigned(t.role)
     THEN roles' = roles \ {t.role} /\ managing' = Ungranted(t.role)
     ELSE UNCHANGED <<roles, managing>>
  /\ UNCHANGED <<users, nextUser, invites>>

\* use_invite takes a code that no one used and whose end, as text, is to come.
UsableUnlessOver(c) == invites[c] # None /\ invites[c].life # "over"  \* mutant
Usable(c) == invites[c] # None /\ invites[c].usedBy = None /\ invites[c].life # "over"

\* The transaction of join_submit: the name once more, the user, the code; when
\* the code is gone the user is rolled back with it.
CreateUser(t) ==
  /\ t.act = "join"
  /\ IF Usable(t.code) /\ \A u \in Existing : users[u].name # t.name
     THEN /\ nextUser \in UserIds
          /\ users' = [users EXCEPT ![nextUser] =
               [name |-> t.name, role |-> "player", disabled |-> FALSE,
                code |-> t.code]]
          /\ invites' = [invites EXCEPT ![t.code].usedBy = nextUser]
          /\ nextUser' = nextUser + 1
     ELSE UNCHANGED <<users, invites, nextUser>>
  /\ UNCHANGED <<roles, managing>>

Finish(t) ==
  /\ pending' = pending \ {t}
  /\ \/ UpdateRole(t)
     \/ SetDisabled(t)
     \/ DeleteUser(t)
     \/ InsertInvite(t)
     \/ DeleteInvite(t)
     \/ CreateRole(t)
     \/ UpdatePermissions(t)
     \/ DeleteRole(t)
     \/ CreateUser(t)

------------------------------------------------------------------------------
\* `quma invite` makes a code without an account.
CliInvite(c) ==
  /\ invites[c] = None
  /\ CreateInvite(c)
  /\ UNCHANGED <<users, nextUser, roles, managing, pending>>

\* The time of a code runs out: first its instant, then its day.
Expire(c) ==
  /\ invites[c] # None /\ invites[c].life # "over"
  /\ invites' = [invites EXCEPT ![c].life = IF @ = "good" THEN "past" ELSE "over"]
  /\ UNCHANGED <<users, nextUser, roles, managing, pending>>

\* The dashboard is stopped or killed: handlers under way are gone.
StopHandlers ==
  /\ pending # {}
  /\ pending' = {}
  /\ UNCHANGED <<users, nextUser, roles, managing, invites>>

AccountsNext ==
  \/ \E a \in Admitted :
       \/ \E u \in UserIds :
            \/ \E r \in Roles : AskRole(a, u, r)
            \/ AskToggle(a, u)
            \/ AskDelete(a, u)
       \/ \E c \in Codes : AskInvite(a, c) \/ AskRevoke(c)
       \/ \E r \in Roles, form \in {"grant", "ungrant", "dropRole"} : AskRoleForm(form, r)
       \/ \E r \in CustomRoles, form \in {"addRole", "addManagers"} : AskRoleForm(form, r)
  \/ \E c \in Codes, n \in Names : AskJoin(c, n)
  \/ \E t \in pending : Finish(t)
  \/ \E c \in Codes : CliInvite(c) \/ Expire(c)
  \/ StopHandlers

AccountsSpec == AccountsInit /\ [][AccountsNext]_accountVars

------------------------------------------------------------------------------
AccountsTypeOK ==
  /\ users \in [UserIds -> User \cup {None}]
  /\ nextUser \in 1..(MaxUsers + 1)
  /\ roles \subseteq Roles /\ managing \subseteq roles
  /\ invites \in [Codes -> Invite \cup {None}]
  /\ pending \subseteq Task

\* The guards against the last administrator ("Cannot demote", "disable", "delete
\* the last admin", "would leave no admin-capable users") hold whatever handlers
\* run side by side: an enabled user can always manage the others.
ManagerRemains == Managers # {}

\* An account made with an invite holds that code for as long as it exists: no
\* other join consumes the code, nobody revokes it, and the code does not come
\* free again before the account is deleted.
CodeIsHeld ==
  \A u \in Existing : users[u].code # None =>
    /\ invites[users[u].code] # None
    /\ invites[users[u].code].usedBy = u

\* Both, of the checks that handlers make before they write.
ChecksHoldAtWrite == ManagerRemains /\ CodeIsHeld
=============================================================================
