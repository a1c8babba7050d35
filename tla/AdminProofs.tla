---------------------------- MODULE AdminProofs ----------------------------
(* Theorems about what administrators keep: accounts, notes and the pages   *)
(* about players (Accounts, Notes, PlayerPages); the configuration file,    *)
(* the files of mods and the groups of clients (ConfigStore, ModConfigs,    *)
(* SyncGroups); and the forms of a preset (SvmForms).  For any names,       *)
(* codes, roles, threads, items, sections, values and bounds.               *)
EXTENDS Accounts, Notes, PlayerPages, ConfigStore, ModConfigs, SyncGroups, SvmForms,
        Numbers, FiniteSetTheorems, SequenceTheorems, TLAPS

\* An id that was not given out yet has no row: a join never overwrites one.
FreshIds == \A u \in UserIds : u >= nextUser => users[u] = None

AccountsInv == AccountsTypeOK /\ FreshIds /\ ManagerRemains /\ CodeIsHeld

------------------------------------------------------------------------------
(* Rows, invites and tasks                                                 *)

\* What a handler under way carries, by its kind.
LEMMA TaskFields ==
  ASSUME NEW t \in Task
  PROVE  /\ t.act = "role" => t.on \in UserIds /\ t.role \in Roles
         /\ t.act \in {"disable", "enable", "delete"} => t.on \in UserIds
         /\ t.act = "invite" => t.by \in UserIds /\ t.code \in Codes
         /\ t.act = "revoke" => t.code \in Codes
         /\ t.act \in {"grant", "ungrant", "dropRole", "addRole", "addManagers"} => t.role \in Roles
         /\ t.act = "join" => t.code \in Codes /\ t.name \in Names
  BY DEF Task

\* A user and an invite are never the mark for no row, and every row of a table
\* that is well typed is a user, or an invite.
LEMMA RowsAreTyped ==
  ASSUME AccountsTypeOK
  PROVE  /\ None \notin User /\ None \notin Invite /\ None \notin UserIds /\ None \notin Codes
         /\ \A u \in Existing : u \in UserIds /\ users[u] \in User /\ users[u] # None
         /\ \A c \in Codes : invites[c] # None => invites[c] \in Invite
  BY AccountsAssumption DEF AccountsTypeOK, Existing

\* Who manages: a user that exists, is enabled and has a role with users.manage.
LEMMA ManagerFields ==
  \A u : u \in Managers <=> /\ u \in UserIds /\ users[u] # None
                            /\ ~users[u].disabled /\ users[u].role \in managing
  BY DEF Managers, EnabledOn, Existing

\* The set-up: one administrator, and no code.
LEMMA AccountsInitInv == AccountsInit => AccountsInv
  <1>. SUFFICES ASSUME AccountsInit PROVE AccountsInv
    OBVIOUS
  <1>. DEFINE first == [name |-> FirstAdmin, role |-> "admin", disabled |-> FALSE, code |-> None]
  <1>0. first \in User
    <2>1. FirstAdmin \in Names /\ "admin" \in Roles
      BY AccountsAssumption DEF Roles
    <2>. QED BY <2>1 DEF User
  <1>1. /\ 1 \in UserIds /\ nextUser = 2 /\ first \in User
        /\ users = [u \in UserIds |-> IF u = 1 THEN first ELSE None]
        /\ first # None
    <2>. HIDE DEF first
    <2>1. first # None
      BY <1>0, AccountsAssumption
    <2>2. 1 \in UserIds
      BY AccountsAssumption DEF UserIds
    <2>3. /\ nextUser = 2
          /\ users = [u \in UserIds |-> IF u = 1 THEN first ELSE None]
      BY DEF AccountsInit, first
    <2>. QED BY <1>0, <2>1, <2>2, <2>3
  <1>2. AccountsTypeOK
    BY <1>1, AccountsAssumption DEF AccountsInit, AccountsTypeOK, Roles, UserIds
  <1>3. FreshIds
    BY <1>1 DEF FreshIds, UserIds
  <1>4. users[1] = first
    BY <1>1
  <1>5. first.role = "admin" /\ first.disabled = FALSE /\ first.code = None
    OBVIOUS
  <1>6. 1 \in Managers
    BY <1>1, <1>4, <1>5, ManagerFields DEF AccountsInit
  <1>7. CodeIsHeld
    BY <1>1, <1>4, <1>5 DEF CodeIsHeld, Existing
  <1>. QED BY <1>2, <1>3, <1>6, <1>7 DEF AccountsInv, ManagerRemains

------------------------------------------------------------------------------
(* The checks of the handlers leave the tables alone                       *)

\* A handler that starts changes `pending` alone.
LEMMA StartKeeps ==
  ASSUME AccountsInv, NEW t \in Task, Start(t)
  PROVE  AccountsInv'
  <1>1. users' = users /\ nextUser' = nextUser /\ roles' = roles
        /\ managing' = managing /\ invites' = invites /\ pending' = pending \cup {t}
    BY DEF Start
  <1>. QED
    BY <1>1 DEF AccountsInv, AccountsTypeOK, FreshIds, ManagerRemains, CodeIsHeld,
                Managers, EnabledOn, Existing

\* What a handler that starts carries is a task.
LEMMA AsksAreTasks ==
  ASSUME AccountsInv, NEW a \in Admitted
  PROVE  /\ \A u \in UserIds, r \in Roles : AskRole(a, u, r) => AccountsInv'
         /\ \A u \in UserIds : AskToggle(a, u) \/ AskDelete(a, u) => AccountsInv'
         /\ \A c \in Codes : AskInvite(a, c) => AccountsInv'
  <1>1. ASSUME NEW u \in UserIds, NEW r \in Roles, AskRole(a, u, r)
        PROVE  AccountsInv'
    BY <1>1, StartKeeps DEF AskRole, Task
  <1>2. ASSUME NEW u \in UserIds, AskToggle(a, u)
        PROVE  AccountsInv'
    <2>. DEFINE t == [act |-> IF users[u].disabled THEN "enable" ELSE "disable", on |-> u]
    <2>1. t \in Task /\ Start(t)
      BY <1>2 DEF AskToggle, Task
    <2>. QED BY <2>1, StartKeeps
  <1>3. ASSUME NEW u \in UserIds, AskDelete(a, u)
        PROVE  AccountsInv'
    BY <1>3, StartKeeps DEF AskDelete, Task
  <1>4. ASSUME NEW c \in Codes, AskInvite(a, c)
        PROVE  AccountsInv'
    <2>1. a \in UserIds
      BY ManagerFields DEF Admitted
    <2>. QED BY <1>4, <2>1, StartKeeps DEF AskInvite, Task
  <1>. QED BY <1>1, <1>2, <1>3, <1>4

LEMMA FormsAreTasks ==
  ASSUME AccountsInv
  PROVE  /\ \A c \in Codes : AskRevoke(c) => AccountsInv'
         /\ \A r \in Roles, sent \in {"grant", "ungrant", "dropRole", "addRole", "addManagers"} :
              AskRoleForm(sent, r) => AccountsInv'
         /\ \A c \in Codes, n \in Names : AskJoin(c, n) => AccountsInv'
  <1>1. ASSUME NEW c \in Codes, AskRevoke(c) PROVE AccountsInv'
    BY <1>1, StartKeeps DEF AskRevoke, Task
  <1>2. ASSUME NEW r \in Roles, NEW sent \in {"grant", "ungrant", "dropRole", "addRole", "addManagers"},
               AskRoleForm(sent, r)
        PROVE  AccountsInv'
    BY <1>2, StartKeeps DEF AskRoleForm, Task
  <1>3. ASSUME NEW c \in Codes, NEW n \in Names, AskJoin(c, n) PROVE AccountsInv'
    BY <1>3, StartKeeps DEF AskJoin, Task
  <1>. QED BY <1>1, <1>2, <1>3

------------------------------------------------------------------------------
(* The writes                                                              *)

\* What ManagerRemains and CodeIsHeld are about does not change with `pending`.
LEMMA TypedParts ==
  ASSUME AccountsInv, NEW t \in pending
  PROVE  t \in Task /\ pending \ {t} \subseteq Task
  BY DEF AccountsInv, AccountsTypeOK

\* A role given to a user: the last one who manages keeps a role that can.
LEMMA UpdateRoleKeeps ==
  ASSUME AccountsInv, NEW t \in pending, pending' = pending \ {t}, UpdateRole(t)
  PROVE  AccountsInv'
  <1>1. t.on \in UserIds /\ t.role \in Roles
    BY TypedParts, TaskFields DEF UpdateRole
  <1>2. nextUser' = nextUser /\ roles' = roles /\ managing' = managing /\ invites' = invites
    BY DEF UpdateRole
  <1>3. CASE users' = users
    BY <1>2, <1>3, TypedParts DEF AccountsInv, AccountsTypeOK, FreshIds, ManagerRemains,
                CodeIsHeld, Managers, EnabledOn, Existing
  <1>4. CASE users' # users
    <2>1. /\ t.on \in Existing /\ t.role \in roles
          /\ t.on \in Managers /\ t.role \notin managing => OtherManagers(t.on) # {}
          /\ users' = [users EXCEPT ![t.on].role = t.role]
      BY <1>4 DEF UpdateRole
    <2>2. users[t.on] \in User /\ None \notin User
      BY <2>1, RowsAreTyped DEF AccountsInv
    <2>3. /\ users'[t.on] \in User /\ users'[t.on] # None
          /\ users'[t.on].role = t.role
          /\ users'[t.on].disabled = users[t.on].disabled
          /\ users'[t.on].code = users[t.on].code
          /\ \A u \in UserIds \ {t.on} : users'[u] = users[u]
      BY <1>1, <2>1, <2>2 DEF User, AccountsInv, AccountsTypeOK
    <2>4. AccountsTypeOK'
      BY <1>1, <1>2, <2>1, <2>3, TypedParts DEF AccountsInv, AccountsTypeOK
    <2>5. FreshIds'
      BY <1>2, <2>1, <2>3 DEF AccountsInv, FreshIds, Existing
    <2>6. ManagerRemains'
      <3>1. CASE t.on \in Managers /\ t.role \notin managing
        <4>1. PICK v \in OtherManagers(t.on) : TRUE
          BY <3>1, <2>1
        <4>2. v \in Managers /\ v # t.on
          BY <4>1 DEF OtherManagers
        <4>. QED BY <4>2, <1>2, <2>3 DEF ManagerRemains, Managers, EnabledOn, Existing
      <3>2. CASE ~(t.on \in Managers /\ t.role \notin managing)
        <4>1. PICK v \in Managers : TRUE
          BY DEF AccountsInv, ManagerRemains
        <4>. QED BY <3>2, <4>1, <1>2, <2>3 DEF ManagerRemains, Managers, EnabledOn, Existing
      <3>. QED BY <3>1, <3>2
    <2>7. CodeIsHeld'
      BY <1>2, <2>1, <2>3 DEF AccountsInv, CodeIsHeld, Existing
    <2>. QED BY <2>4, <2>5, <2>6, <2>7 DEF AccountsInv
  <1>. QED BY <1>3, <1>4

\* A user disabled or enabled: the last one who manages stays enabled.
LEMMA SetDisabledKeeps ==
  ASSUME AccountsInv, NEW t \in pending, pending' = pending \ {t}, SetDisabled(t)
  PROVE  AccountsInv'
  <1>1. t.on \in UserIds
    BY TypedParts, TaskFields DEF SetDisabled
  <1>2. nextUser' = nextUser /\ roles' = roles /\ managing' = managing /\ invites' = invites
    BY DEF SetDisabled
  <1>3. CASE users' = users
    BY <1>2, <1>3, TypedParts DEF AccountsInv, AccountsTypeOK, FreshIds, ManagerRemains,
                CodeIsHeld, Managers, EnabledOn, Existing
  <1>4. CASE users' # users
    <2>. DEFINE off == (t.act = "disable")
    <2>1. /\ t.on \in Existing
          /\ off /\ t.on \in Managers => OtherManagers(t.on) # {}
          /\ users' = [users EXCEPT ![t.on].disabled = off]
      BY <1>4 DEF SetDisabled
    <2>. HIDE DEF off
    <2>0. off \in BOOLEAN
      BY DEF off
    <2>2. users[t.on] \in User /\ None \notin User
      BY <2>1, RowsAreTyped DEF AccountsInv
    <2>3. /\ users'[t.on] \in User /\ users'[t.on] # None
          /\ users'[t.on].role = users[t.on].role
          /\ users'[t.on].disabled = off
          /\ users'[t.on].code = users[t.on].code
          /\ \A u \in UserIds \ {t.on} : users'[u] = users[u]
      BY <1>1, <2>0, <2>1, <2>2 DEF User, AccountsInv, AccountsTypeOK
    <2>4. AccountsTypeOK'
      BY <1>1, <1>2, <2>1, <2>3, TypedParts DEF AccountsInv, AccountsTypeOK
    <2>5. FreshIds'
      BY <1>2, <2>1, <2>3 DEF AccountsInv, FreshIds, Existing
    <2>6. ManagerRemains'
      <3>1. CASE off /\ t.on \in Managers
        <4>1. PICK v \in OtherManagers(t.on) : TRUE
          BY <3>1, <2>1
        <4>2. v \in Managers /\ v # t.on
          BY <4>1 DEF OtherManagers
        <4>. QED BY <4>2, <1>2, <2>3 DEF ManagerRemains, Managers, EnabledOn, Existing
      <3>2. CASE ~(off /\ t.on \in Managers)
        <4>1. PICK v \in Managers : TRUE
          BY DEF AccountsInv, ManagerRemains
        <4>. QED BY <3>2, <4>1, <1>2, <2>3 DEF ManagerRemains, Managers, EnabledOn, Existing
      <3>. QED BY <3>1, <3>2
    <2>7. CodeIsHeld'
      BY <1>2, <2>1, <2>3 DEF AccountsInv, CodeIsHeld, Existing
    <2>. QED BY <2>4, <2>5, <2>6, <2>7 DEF AccountsInv
  <1>. QED BY <1>3, <1>4

\* An account deleted: its codes come free, and no one else's do.
LEMMA DeleteUserKeeps ==
  ASSUME AccountsInv, NEW t \in pending, pending' = pending \ {t}, DeleteUser(t)
  PROVE  AccountsInv'
  <1>1. t.on \in UserIds
    BY TypedParts, TaskFields DEF DeleteUser
  <1>2. nextUser' = nextUser /\ roles' = roles /\ managing' = managing
    BY DEF DeleteUser
  <1>3. CASE users' = users /\ invites' = invites
    BY <1>2, <1>3, TypedParts DEF AccountsInv, AccountsTypeOK, FreshIds, ManagerRemains,
                CodeIsHeld, Managers, EnabledOn, Existing
  <1>4. CASE /\ t.on \in Existing /\ (t.on \in Managers => OtherManagers(t.on) # {})
             /\ users' = [users EXCEPT ![t.on] = None] /\ invites' = ForgetUser(t.on)
    <2>1. /\ users'[t.on] = None
          /\ \A u \in UserIds \ {t.on} : users'[u] = users[u]
          /\ users' \in [UserIds -> User \cup {None}]
      BY <1>1, <1>4 DEF AccountsInv, AccountsTypeOK
    <2>2. \A c \in Codes : /\ invites'[c] \in Invite \cup {None}
                           /\ invites[c] # None => invites'[c] # None
                           /\ invites[c] # None /\ invites[c].usedBy # t.on => invites'[c] = invites[c]
      <3>. SUFFICES ASSUME NEW c \in Codes
                    PROVE  /\ invites'[c] \in Invite \cup {None}
                           /\ invites[c] # None => invites'[c] # None
                           /\ invites[c] # None /\ invites[c].usedBy # t.on => invites'[c] = invites[c]
        OBVIOUS
      <3>1. invites'[c] = IF invites[c] # None /\ invites[c].usedBy = t.on
                          THEN [invites[c] EXCEPT !.usedBy = None] ELSE invites[c]
        BY <1>4 DEF ForgetUser
      <3>2. invites[c] # None => invites[c] \in Invite
        BY RowsAreTyped DEF AccountsInv
      <3>3. invites[c] # None => [invites[c] EXCEPT !.usedBy = None] \in Invite
        BY <3>2 DEF Invite
      <3>4. None \notin Invite
        BY RowsAreTyped DEF AccountsInv
      <3>. QED BY <3>1, <3>2, <3>3, <3>4
    <2>3. invites' = [c \in Codes |-> invites'[c]]
      BY <1>4 DEF ForgetUser
    <2>4. AccountsTypeOK'
      BY <1>2, <2>1, <2>2, <2>3, TypedParts DEF AccountsInv, AccountsTypeOK
    <2>5. FreshIds'
      BY <1>2, <2>1 DEF AccountsInv, FreshIds
    <2>6. ManagerRemains'
      <3>1. PICK v \in Managers : v # t.on
        BY <1>4 DEF AccountsInv, ManagerRemains, OtherManagers
      <3>. QED BY <3>1, <1>2, <2>1 DEF ManagerRemains, Managers, EnabledOn, Existing
    <2>7. CodeIsHeld'
      <3>. SUFFICES ASSUME NEW u \in UserIds, users'[u] # None, users'[u].code # None
                    PROVE  invites'[users'[u].code] # None /\ invites'[users'[u].code].usedBy = u
        BY DEF CodeIsHeld, Existing
      <3>1. u # t.on /\ users'[u] = users[u]
        BY <2>1
      <3>2. users[u].code \in Codes /\ invites[users[u].code] # None /\ invites[users[u].code].usedBy = u
        BY <3>1, RowsAreTyped DEF AccountsInv, CodeIsHeld, Existing, User
      <3>. QED BY <3>1, <3>2, <2>2
    <2>. QED BY <2>4, <2>5, <2>6, <2>7 DEF AccountsInv
  <1>. QED BY <1>3, <1>4 DEF DeleteUser

\* A step that changes one invite that nobody's account holds keeps the accounts'
\* codes: InsertInvite, DeleteInvite and `quma invite` do just that.
LEMMA FreeInviteKeeps ==
  ASSUME AccountsInv, NEW c \in Codes, NEW row \in Invite \cup {None},
         invites[c] # None => invites[c].usedBy = None,
         invites' = [invites EXCEPT ![c] = row],
         users' = users, nextUser' = nextUser, roles' = roles, managing' = managing,
         pending' \subseteq Task
  PROVE  AccountsInv'
  <1>1. \A u \in Existing : users[u].code # c
    <2>1. SUFFICES ASSUME NEW u \in Existing, users[u].code = c PROVE FALSE
      OBVIOUS
    <2>2. c # None /\ u # None
      BY <2>1, RowsAreTyped DEF AccountsInv
    <2>. QED BY <2>1, <2>2 DEF AccountsInv, CodeIsHeld
  <1>2. /\ invites' \in [Codes -> Invite \cup {None}]
        /\ \A d \in Codes : d # c => invites'[d] = invites[d]
    BY DEF AccountsInv, AccountsTypeOK
  <1>3. AccountsTypeOK' /\ FreshIds' /\ ManagerRemains'
    BY <1>2 DEF AccountsInv, AccountsTypeOK, FreshIds, ManagerRemains, Managers, EnabledOn, Existing
  <1>4. CodeIsHeld'
    <2>1. SUFFICES ASSUME NEW u \in Existing, users[u].code # None
                   PROVE  invites'[users[u].code] # None /\ invites'[users[u].code].usedBy = u
      BY DEF CodeIsHeld, Existing
    <2>2. users[u].code \in Codes
      BY <2>1, RowsAreTyped DEF AccountsInv, User
    <2>. QED BY <1>1, <1>2, <2>1, <2>2 DEF AccountsInv, CodeIsHeld
  <1>. QED BY <1>3, <1>4 DEF AccountsInv

\* A step that changes nothing but `pending`.
LEMMA RefusedKeeps ==
  ASSUME AccountsInv, UNCHANGED <<users, nextUser, roles, managing, invites>>, pending' \subseteq Task
  PROVE  AccountsInv'
  BY DEF AccountsInv, AccountsTypeOK, FreshIds, ManagerRemains, CodeIsHeld, Managers, EnabledOn,
         Existing

\* A new code, from the page or from the command line.
LEMMA CreateInviteKeeps ==
  ASSUME AccountsInv, NEW c \in Codes, invites[c] = None, CreateInvite(c), pending' \subseteq Task,
         users' = users, nextUser' = nextUser, roles' = roles, managing' = managing
  PROVE  AccountsInv'
  <1>. DEFINE row == [life |-> "good", usedBy |-> None]
  <1>1. row \in Invite \cup {None} /\ invites' = [invites EXCEPT ![c] = row]
    BY DEF Invite, CreateInvite
  <1>. HIDE DEF row
  <1>. QED BY <1>1, FreeInviteKeeps

LEMMA InsertInviteKeeps ==
  ASSUME AccountsInv, NEW t \in pending, pending' = pending \ {t}, InsertInvite(t)
  PROVE  AccountsInv'
  <1>1. t.code \in Codes /\ pending' \subseteq Task
    BY TypedParts, TaskFields DEF InsertInvite
  <1>. QED BY <1>1, CreateInviteKeeps, RefusedKeeps DEF InsertInvite

LEMMA DeleteInviteKeeps ==
  ASSUME AccountsInv, NEW t \in pending, pending' = pending \ {t}, DeleteInvite(t)
  PROVE  AccountsInv'
  <1>1. t.code \in Codes /\ pending' \subseteq Task
    BY TypedParts, TaskFields DEF DeleteInvite
  <1>. QED BY <1>1, FreeInviteKeeps, RefusedKeeps DEF DeleteInvite

\* The end of a code's life leaves who used it.
LEMMA ExpireKeeps ==
  ASSUME AccountsInv, NEW c \in Codes, Expire(c)
  PROVE  AccountsInv'
  <1>. DEFINE life == IF invites[c].life = "good" THEN "past" ELSE "over"
  <1>1. /\ invites[c] # None /\ invites[c] \in Invite
        /\ invites' = [invites EXCEPT ![c].life = life]
        /\ users' = users /\ nextUser' = nextUser /\ roles' = roles
        /\ managing' = managing /\ pending' = pending
    BY RowsAreTyped DEF AccountsInv, Expire
  <1>2. life \in {"past", "over"}
    OBVIOUS
  <1>. HIDE DEF life
  <1>3. /\ invites'[c] \in Invite /\ invites'[c].usedBy = invites[c].usedBy
        /\ invites'[c] # None
        /\ invites' \in [Codes -> Invite \cup {None}]
        /\ \A d \in Codes : d # c => invites'[d] = invites[d]
    <2>1. [invites[c] EXCEPT !.life = life] \in Invite
          /\ [invites[c] EXCEPT !.life = life].usedBy = invites[c].usedBy
      BY <1>1, <1>2 DEF Invite
    <2>2. None \notin Invite
      BY RowsAreTyped DEF AccountsInv
    <2>3. invites \in [Codes -> Invite \cup {None}]
      BY DEF AccountsInv, AccountsTypeOK
    <2>. QED BY <1>1, <2>1, <2>2, <2>3
  <1>4. AccountsTypeOK' /\ FreshIds' /\ ManagerRemains'
    BY <1>1, <1>3 DEF AccountsInv, AccountsTypeOK, FreshIds, ManagerRemains, Managers, EnabledOn, Existing
  <1>5. CodeIsHeld'
    <2>1. SUFFICES ASSUME NEW u \in Existing, users[u].code # None
                   PROVE  invites'[users[u].code] # None /\ invites'[users[u].code].usedBy = u
      BY <1>1 DEF CodeIsHeld, Existing
    <2>2. users[u].code \in Codes
      BY <2>1, RowsAreTyped DEF AccountsInv, User
    <2>. QED BY <1>3, <2>1, <2>2 DEF AccountsInv, CodeIsHeld
  <1>. QED BY <1>4, <1>5 DEF AccountsInv

\* A join takes a code that nobody used and an id that nobody had.
LEMMA CreateUserKeeps ==
  ASSUME AccountsInv, NEW t \in pending, pending' = pending \ {t}, CreateUser(t)
  PROVE  AccountsInv'
  <1>1. t.code \in Codes /\ t.name \in Names /\ pending' \subseteq Task
    BY TypedParts, TaskFields DEF CreateUser
  <1>2. CASE UNCHANGED <<users, invites, nextUser>>
    BY <1>1, <1>2, RefusedKeeps DEF CreateUser
  <1>3. CASE ~UNCHANGED <<users, invites, nextUser>>
    <2>. DEFINE row == [name |-> t.name, role |-> "player", disabled |-> FALSE, code |-> t.code]
    <2>1. /\ Usable(t.code) /\ nextUser \in UserIds
          /\ users' = [users EXCEPT ![nextUser] = row]
          /\ invites' = [invites EXCEPT ![t.code].usedBy = nextUser]
          /\ nextUser' = nextUser + 1
          /\ roles' = roles /\ managing' = managing
      BY <1>3 DEF CreateUser
    <2>2. row \in User /\ row.code = t.code
      <3>1. "player" \in Roles
        BY AccountsAssumption DEF Roles
      <3>. QED BY <1>1, <3>1 DEF User
    <2>. HIDE DEF row
    <2>3. /\ users[nextUser] = None
          /\ users'[nextUser] = row /\ row # None
          /\ users' \in [UserIds -> User \cup {None}]
          /\ \A u \in UserIds : u # nextUser => users'[u] = users[u]
      <3>1. nextUser \in Nat
        BY AccountsAssumption DEF AccountsInv, AccountsTypeOK
      <3>2. users[nextUser] = None
        BY <2>1, <3>1 DEF AccountsInv, FreshIds
      <3>3. None \notin User
        BY RowsAreTyped DEF AccountsInv
      <3>. QED BY <2>1, <2>2, <3>2, <3>3 DEF AccountsInv, AccountsTypeOK
    <2>4. invites[t.code] # None /\ invites[t.code].usedBy = None /\ invites[t.code] \in Invite
      BY <1>1, <2>1, RowsAreTyped DEF Usable, AccountsInv
    <2>5. /\ invites'[t.code] # None /\ invites'[t.code].usedBy = nextUser
          /\ invites' \in [Codes -> Invite \cup {None}]
          /\ \A d \in Codes : d # t.code => invites'[d] = invites[d]
      <3>1. /\ [invites[t.code] EXCEPT !.usedBy = nextUser] \in Invite
            /\ [invites[t.code] EXCEPT !.usedBy = nextUser].usedBy = nextUser
        BY <2>1, <2>4 DEF Invite
      <3>2. None \notin Invite
        BY RowsAreTyped DEF AccountsInv
      <3>3. invites \in [Codes -> Invite \cup {None}]
        BY DEF AccountsInv, AccountsTypeOK
      <3>. QED BY <1>1, <2>1, <3>1, <3>2, <3>3
    <2>6. AccountsTypeOK'
      <3>1. nextUser' \in 1..(MaxUsers + 1)
        BY <2>1, AccountsAssumption DEF UserIds
      <3>. QED BY <1>1, <2>1, <2>3, <2>5, <3>1 DEF AccountsInv, AccountsTypeOK
    <2>7. FreshIds'
      <3>1. \A u \in UserIds : u >= nextUser + 1 => u # nextUser /\ u >= nextUser
        BY <2>1, AccountsAssumption DEF UserIds
      <3>. QED BY <2>1, <2>3, <3>1 DEF AccountsInv, FreshIds
    <2>8. ManagerRemains'
      <3>1. PICK v \in Managers : TRUE
        BY DEF AccountsInv, ManagerRemains
      <3>. QED BY <3>1, <2>1, <2>3 DEF ManagerRemains, Managers, EnabledOn, Existing
    <2>9. CodeIsHeld'
      <3>1. SUFFICES ASSUME NEW u \in UserIds, users'[u] # None, users'[u].code # None
                     PROVE  invites'[users'[u].code] # None /\ invites'[users'[u].code].usedBy = u
        BY DEF CodeIsHeld, Existing
      <3>2. CASE u = nextUser
        BY <3>2, <2>2, <2>3, <2>5
      <3>3. CASE u # nextUser
        <4>1. users'[u] = users[u] /\ u \in Existing
          BY <3>1, <3>3, <2>3 DEF Existing
        <4>2. /\ invites[users[u].code] # None /\ invites[users[u].code].usedBy = u
              /\ users[u].code \in Codes /\ u # None
          BY <3>1, <4>1, RowsAreTyped DEF AccountsInv, CodeIsHeld, User
        <4>3. users[u].code # t.code
          BY <2>4, <4>2
        <4>. QED BY <4>1, <4>2, <4>3, <2>5
      <3>. QED BY <3>2, <3>3
    <2>. QED BY <2>6, <2>7, <2>8, <2>9 DEF AccountsInv
  <1>. QED BY <1>2, <1>3

------------------------------------------------------------------------------
(* The writes on roles                                                     *)

LEMMA CreateRoleKeeps ==
  ASSUME AccountsInv, NEW t \in pending, pending' = pending \ {t}, CreateRole(t)
  PROVE  AccountsInv'
  <1>1. pending' \subseteq Task
    BY TypedParts
  <1>2. /\ users' = users /\ nextUser' = nextUser /\ invites' = invites
        /\ roles \subseteq roles' /\ roles' \subseteq roles \cup {t.role} /\ t.role \in Roles
        /\ managing \subseteq managing' /\ managing' \subseteq roles'
    BY DEF CreateRole, Roles, AccountsInv, AccountsTypeOK
  <1>. QED
    BY <1>1, <1>2 DEF AccountsInv, AccountsTypeOK, FreshIds, ManagerRemains, CodeIsHeld, Managers,
                      EnabledOn, Existing

\* Permissions written: users.manage stays with a role that an enabled user has.
LEMMA UpdatePermissionsKeeps ==
  ASSUME AccountsInv, NEW t \in pending, pending' = pending \ {t}, UpdatePermissions(t)
  PROVE  AccountsInv'
  <1>1. pending' \subseteq Task
    BY TypedParts
  <1>2. users' = users /\ nextUser' = nextUser /\ invites' = invites /\ roles' = roles
    BY DEF UpdatePermissions
  <1>3. CASE managing \subseteq managing' /\ managing' \subseteq roles
    BY <1>1, <1>2, <1>3 DEF AccountsInv, AccountsTypeOK, FreshIds, ManagerRemains, CodeIsHeld,
                            Managers, EnabledOn, Existing
  <1>4. CASE /\ managing' = managing \ {t.role}
             /\ ~(t.role \in managing /\ EnabledOn({t.role}) # {} /\ EnabledOn(managing \ {t.role}) = {})
    <2>1. EnabledOn(managing \ {t.role}) # {}
      <3>1. PICK v : v \in Managers
        BY DEF AccountsInv, ManagerRemains
      <3>2. CASE users[v].role = t.role
        <4>1. v \in EnabledOn({t.role}) /\ t.role \in managing
          BY <3>1, <3>2 DEF Managers, EnabledOn
        <4>. QED BY <4>1, <1>4
      <3>3. CASE users[v].role # t.role
        BY <3>1, <3>3 DEF Managers, EnabledOn
      <3>. QED BY <3>2, <3>3
    <2>. QED
      BY <1>1, <1>2, <1>4, <2>1 DEF AccountsInv, AccountsTypeOK, FreshIds, ManagerRemains, CodeIsHeld,
                                    Managers, EnabledOn, Existing
  <1>5. \/ managing' = managing
        \/ t.role \in roles /\ managing' = managing \cup {t.role}
        \/ /\ managing' = managing \ {t.role}
           /\ ~(t.role \in managing /\ EnabledOn({t.role}) # {} /\ EnabledOn(managing \ {t.role}) = {})
    BY DEF UpdatePermissions, LastWith
  <1>6. managing \subseteq roles
    BY DEF AccountsInv, AccountsTypeOK
  <1>. QED BY <1>3, <1>4, <1>5, <1>6

\* A role that goes is nobody's role.
LEMMA DeleteRoleKeeps ==
  ASSUME AccountsInv, NEW t \in pending, pending' = pending \ {t}, DeleteRole(t)
  PROVE  AccountsInv'
  <1>1. pending' \subseteq Task
    BY TypedParts
  <1>2. users' = users /\ nextUser' = nextUser /\ invites' = invites
    BY DEF DeleteRole
  <1>3. CASE UNCHANGED <<roles, managing>>
    BY <1>1, <1>2, <1>3, RefusedKeeps
  <1>4. CASE ~UNCHANGED <<roles, managing>>
    <2>1. /\ Unassigned(t.role) /\ roles' = roles \ {t.role} /\ managing' = managing \ {t.role}
      BY <1>4 DEF DeleteRole, Ungranted
    <2>2. ManagerRemains'
      <3>1. PICK v : v \in Managers
        BY DEF AccountsInv, ManagerRemains
      <3>2. users[v].role # t.role
        BY <2>1, <3>1 DEF Unassigned, Managers, EnabledOn
      <3>. QED BY <1>2, <2>1, <3>1, <3>2 DEF ManagerRemains, Managers, EnabledOn, Existing
    <2>. QED
      BY <1>1, <1>2, <2>1, <2>2 DEF AccountsInv, AccountsTypeOK, FreshIds, CodeIsHeld, Existing
  <1>. QED BY <1>3, <1>4

------------------------------------------------------------------------------
(* The step, and the theorems                                              *)

LEMMA AccountsNextInv == AccountsInv /\ [AccountsNext]_accountVars => AccountsInv'
  <1>. SUFFICES ASSUME AccountsInv, [AccountsNext]_accountVars PROVE AccountsInv'
    OBVIOUS
  <1>1. ASSUME NEW a \in Admitted,
               \/ \E u \in UserIds : (\E r \in Roles : AskRole(a, u, r)) \/ AskToggle(a, u) \/ AskDelete(a, u)
               \/ \E c \in Codes : AskInvite(a, c) \/ AskRevoke(c)
               \/ \E r \in Roles, sent \in {"grant", "ungrant", "dropRole"} : AskRoleForm(sent, r)
               \/ \E r \in CustomRoles, sent \in {"addRole", "addManagers"} : AskRoleForm(sent, r)
        PROVE  AccountsInv'
    BY <1>1, AsksAreTasks, FormsAreTasks DEF Roles
  <1>2. ASSUME NEW c \in Codes, NEW n \in Names, AskJoin(c, n)
        PROVE  AccountsInv'
    BY <1>2, FormsAreTasks
  <1>3. ASSUME NEW t \in pending, Finish(t)
        PROVE  AccountsInv'
    <2>1. pending' = pending \ {t}
      BY <1>3 DEF Finish
    <2>. QED
      BY <1>3, <2>1, UpdateRoleKeeps, SetDisabledKeeps, DeleteUserKeeps, InsertInviteKeeps,
         DeleteInviteKeeps, CreateRoleKeeps, UpdatePermissionsKeeps, DeleteRoleKeeps, CreateUserKeeps
         DEF Finish
  <1>4. ASSUME NEW c \in Codes, CliInvite(c)
        PROVE  AccountsInv'
    <2>1. pending' \subseteq Task
      BY <1>4 DEF CliInvite, AccountsInv, AccountsTypeOK
    <2>. QED BY <1>4, <2>1, CreateInviteKeeps DEF CliInvite
  <1>5. ASSUME NEW c \in Codes, Expire(c)
        PROVE  AccountsInv'
    BY <1>5, ExpireKeeps
  <1>6. ASSUME StopHandlers
        PROVE  AccountsInv'
    BY <1>6, RefusedKeeps DEF StopHandlers
  <1>7. ASSUME UNCHANGED accountVars
        PROVE  AccountsInv'
    BY <1>7, RefusedKeeps DEF accountVars, AccountsInv, AccountsTypeOK
  <1>. QED BY <1>1, <1>2, <1>3, <1>4, <1>5, <1>6, <1>7 DEF AccountsNext

\* The tables of users, roles and invites stay well formed, and only tasks the
\* handlers can have are pending.
THEOREM AccountsTyped == AccountsSpec => []AccountsTypeOK
  <1>1. AccountsInv => AccountsTypeOK
    BY DEF AccountsInv
  <1>. QED BY <1>1, AccountsInitInv, AccountsNextInv, PTL DEF AccountsSpec

\* However many handlers run side by side, an enabled user can always manage the
\* others, and an account holds the invite code it was made with.
THEOREM ChecksHold == AccountsSpec => []ChecksHoldAtWrite
  <1>1. AccountsInv => ChecksHoldAtWrite
    BY DEF AccountsInv, ChecksHoldAtWrite
  <1>. QED BY <1>1, AccountsInitInv, AccountsNextInv, PTL DEF AccountsSpec

------------------------------------------------------------------------------
(* Notes                                                                   *)

\* An id is given out once, and a form is somebody's.
NotesInv ==
  /\ NotesTypeOK
  /\ \A n \in Rows : n < nextNote

LEMMA NotesIntervals ==
  /\ NoteIds = 1..Cardinality(NoteIds) /\ Cardinality(NoteIds) \in Nat
  /\ NoNote \notin Writers /\ NoNote \notin Note
  BY NotesAssumption, FS_CardinalityType

\* Every row is a note, and its people are users.
LEMMA NoteRows ==
  ASSUME NotesTypeOK, NEW n \in Rows
  PROVE  n \in NoteIds /\ notes[n] \in Note /\ notes[n] # NoNote
  BY DEF NotesTypeOK, Rows

LEMMA NotesInitInv == NotesInit => NotesInv
  <1>. SUFFICES ASSUME NotesInit PROVE NotesInv
    OBVIOUS
  <1>1. Rows = {}
    BY DEF NotesInit, Rows
  <1>2. nextNote \in 1..(Cardinality(NoteIds) + 1)
    BY NotesIntervals DEF NotesInit
  <1>. QED BY <1>1, <1>2 DEF NotesInit, NotesInv, NotesTypeOK

\* Forms and accounts come and go, and the notes stay.
LEMMA NotesSteady ==
  ASSUME NotesInv, notes' = notes, nextNote' = nextNote,
         \A n \in Rows : {notes[n].author, notes[n].updatedBy} \subseteq accounts' \cup {NoNote},
         accounts' \subseteq accounts, \A f \in forms' : f.by \in Writers /\ f.visibility \in Visibilities
  PROVE  NotesInv'
  BY DEF NotesInv, NotesTypeOK, Rows

LEMMA SendNoteKeeps ==
  ASSUME NotesInv, NEW u \in Writers, NEW n \in NoteIds, NEW kind, SendNote(u, n, kind)
  PROVE  NotesInv'
  <1>1. \A f \in forms' : f.by \in Writers /\ f.visibility \in Visibilities
    BY DEF SendNote, NotesInv, NotesTypeOK
  <1>. QED BY <1>1, NotesSteady DEF SendNote, NotesInv, NotesTypeOK

LEMMA RemoveWriterKeeps ==
  ASSUME NotesInv, NEW u \in Writers, RemoveWriter(u)
  PROVE  NotesInv'
  <1>1. \A n \in Rows : {notes[n].author, notes[n].updatedBy} \subseteq accounts' \cup {NoNote}
    BY DEF RemoveWriter, NotesInv, NotesTypeOK
  <1>. QED BY <1>1, NotesSteady DEF RemoveWriter, NotesInv, NotesTypeOK

\* What a form does to the table: nothing, or one row, of a note that was there or
\* of the next one.
LEMMA OneNoteKeeps ==
  ASSUME NotesInv, NEW n \in NoteIds, NEW row \in Note \cup {NoNote},
         notes' = [notes EXCEPT ![n] = row], accounts' = accounts,
         row # NoNote => {row.author, row.updatedBy} \subseteq accounts \cup {NoNote},
         \/ nextNote' = nextNote /\ n \in Rows
         \/ nextNote' = nextNote + 1 /\ n = nextNote,
         \A f \in forms' : f.by \in Writers /\ f.visibility \in Visibilities
  PROVE  NotesInv'
  <1>1. /\ nextNote \in Nat /\ nextNote' \in 1..(Cardinality(NoteIds) + 1)
        /\ \A i \in NoteIds : i \in Nat
    BY NotesIntervals DEF NotesInv, NotesTypeOK
  <1>2. /\ notes' \in [NoteIds -> Note \cup {NoNote}] /\ notes'[n] = row
        /\ \A i \in NoteIds : i # n => notes'[i] = notes[i]
    BY DEF NotesInv, NotesTypeOK
  <1>3. Rows' \subseteq Rows \cup {n}
    BY <1>2 DEF Rows
  <1>4. \A i \in Rows' : i < nextNote'
    BY <1>1, <1>2, <1>3 DEF NotesInv, Rows
  <1>5. \A i \in Rows' : {notes'[i].author, notes'[i].updatedBy} \subseteq accounts' \cup {NoNote}
    BY <1>2 DEF Rows, NotesInv, NotesTypeOK
  <1>. QED BY <1>1, <1>2, <1>4, <1>5 DEF NotesInv, NotesTypeOK

LEMMA ApplyFormKeeps ==
  ASSUME NotesInv, NEW f \in forms, ApplyForm(f)
  PROVE  NotesInv'
  <1>1. \A g \in forms' : g.by \in Writers /\ g.visibility \in Visibilities
    BY DEF ApplyForm, NotesInv, NotesTypeOK
  <1>2. accounts' = accounts /\ f.by \in Writers
    BY DEF ApplyForm, NotesInv, NotesTypeOK
  <1>3. ASSUME UNCHANGED <<notes, nextNote>>
        PROVE  NotesInv'
    BY <1>1, <1>2, <1>3, NotesSteady DEF NotesInv, NotesTypeOK
  <1>4. ASSUME CreateNote(f), ~UNCHANGED <<notes, nextNote>>
        PROVE  NotesInv'
    BY <1>1, <1>2, <1>4, OneNoteKeeps DEF CreateNote, Note, NotesInv, NotesTypeOK
  <1>5. ASSUME UpdateNote(f), ~UNCHANGED <<notes, nextNote>>
        PROVE  NotesInv'
    <2>1. /\ f.note \in Rows /\ f.by \in accounts /\ nextNote' = nextNote
          /\ notes' = [notes EXCEPT ![f.note] =
               [@ EXCEPT !.visibility = FormSettings(f), !.updatedBy = f.by]]
      BY <1>5 DEF UpdateNote
    <2>. DEFINE row == [notes[f.note] EXCEPT !.visibility = FormSettings(f), !.updatedBy = f.by]
    <2>2. notes[f.note] \in Note /\ f.note \in NoteIds
      BY <2>1, NoteRows DEF NotesInv
    <2>3. FormSettings(f) \in Visibilities
      BY <2>2 DEF FormSettings, Note, NotesInv, NotesTypeOK
    <2>4. row \in Note /\ row.author = notes[f.note].author /\ row.updatedBy = f.by
      BY <1>2, <2>2, <2>3 DEF Note
    <2>5. notes' = [notes EXCEPT ![f.note] = row]
      BY <2>1
    <2>6. {row.author, row.updatedBy} \subseteq accounts \cup {NoNote}
      BY <2>1, <2>4 DEF NotesInv, NotesTypeOK
    <2>. HIDE DEF row
    <2>. QED BY <1>1, <1>2, <2>1, <2>2, <2>4, <2>5, <2>6, OneNoteKeeps
  <1>6. ASSUME DeleteNote(f), ~UNCHANGED <<notes, nextNote>>
        PROVE  NotesInv'
    BY <1>1, <1>2, <1>6, NoteRows, OneNoteKeeps DEF DeleteNote, NotesInv
  <1>. QED BY <1>3, <1>4, <1>5, <1>6 DEF ApplyForm

LEMMA NotesNextInv == NotesInv /\ [NotesNext]_noteVars => NotesInv'
  <1>. SUFFICES ASSUME NotesInv, [NotesNext]_noteVars PROVE NotesInv'
    OBVIOUS
  <1>1. ASSUME UNCHANGED noteVars PROVE NotesInv'
    BY <1>1, NotesSteady DEF noteVars, NotesInv, NotesTypeOK
  <1>. QED BY <1>1, SendNoteKeeps, ApplyFormKeeps, RemoveWriterKeeps DEF NotesNext

\* A form changes no note but its own, and that one by the rules.
LEMMA FormsObey ==
  ASSUME NotesInv, NEW f \in forms, ApplyForm(f), NEW n \in Rows
  PROVE  NoteObeys(n)
  <1>1. n \in NoteIds /\ notes[n] \in Note /\ notes[n] # NoNote
    BY NoteRows DEF NotesInv
  <1>2. f \in forms \ forms'
    BY DEF ApplyForm
  <1>3. CASE notes'[n] = notes[n]
    BY <1>1, <1>3 DEF NoteObeys
  <1>4. CASE CreateNote(f) /\ notes'[n] # notes[n]
    <2>1. n = nextNote /\ n < nextNote
      BY <1>1, <1>4 DEF CreateNote, NotesInv, NotesTypeOK
    <2>. QED BY <2>1, NotesIntervals DEF NotesInv, NotesTypeOK
  <1>5. CASE UpdateNote(f) /\ notes'[n] # notes[n]
    <2>. DEFINE row == [notes[n] EXCEPT !.visibility = FormSettings(f), !.updatedBy = f.by]
    <2>1. n = f.note /\ CanEdit(f) /\ notes'[n] = row
      BY <1>1, <1>5 DEF UpdateNote, NotesInv, NotesTypeOK
    <2>2. /\ row.updatedBy = f.by /\ row # NoNote
          /\ row = [notes[n] EXCEPT !.visibility = FormSettings(f), !.updatedBy = row.updatedBy]
      <3>1. FormSettings(f) \in Visibilities /\ f.by \in Writers
        BY <1>1, <2>1 DEF FormSettings, Note, NotesInv, NotesTypeOK
      <3>2. row \in Note /\ row.updatedBy = f.by
        BY <1>1, <3>1 DEF Note
      <3>. QED BY <3>2, NotesIntervals
    <2>3. CASE notes[n].author = f.by
      BY <2>1, <2>2, <2>3 DEF NoteObeys
    <2>4. CASE notes[n].author # f.by
      <3>1. notes[n].visibility = "public_editable" /\ f.edit
        BY <2>1, <2>4 DEF CanEdit
      <3>2. row = [notes[n] EXCEPT !.updatedBy = row.updatedBy]
        BY <1>1, <2>1, <2>2, <2>4 DEF FormSettings, Note
      <3>. QED BY <1>2, <2>1, <2>2, <3>1, <3>2 DEF NoteObeys
    <2>. QED BY <2>3, <2>4
  <1>6. CASE DeleteNote(f) /\ notes'[n] # notes[n]
    <2>1. n = f.note /\ notes'[n] = NoNote /\ (notes[n].author = f.by \/ f.manage)
      BY <1>1, <1>6 DEF DeleteNote, NotesInv, NotesTypeOK
    <2>. QED BY <1>2, <2>1 DEF NoteObeys
  <1>. QED BY <1>3, <1>4, <1>5, <1>6 DEF ApplyForm

\* The notes stay well formed, and the users they name cannot be deleted.
THEOREM NotesTyped == NotesSpec => []NotesTypeOK
  <1>1. NotesInv => NotesTypeOK
    BY DEF NotesInv
  <1>. QED BY <1>1, NotesInitInv, NotesNextInv, PTL DEF NotesSpec

\* Who sees a note, and whether it is still there, is for its author to say, or
\* for someone who could manage notes when the form came in.
THEOREM AuthorsDecide == NotesSpec => NotesAreTheirAuthors
  <1>1. ASSUME NotesInv, NotesNext, NEW n \in Rows PROVE NoteObeys(n)
    <2>1. ASSUME NEW f \in forms, ApplyForm(f) PROVE NoteObeys(n)
      BY <1>1, <2>1, FormsObey
    <2>2. CASE notes' = notes
      BY <1>1, <2>2, NoteRows DEF NoteObeys, NotesInv
    <2>. QED BY <1>1, <2>1, <2>2 DEF NotesNext, SendNote, RemoveWriter
  <1>2. NotesInv /\ [NotesNext]_noteVars => [\A n \in Rows : NoteObeys(n)]_noteVars
    BY <1>1
  <1>. QED BY <1>2, NotesInitInv, NotesNextInv, PTL DEF NotesSpec, NotesAreTheirAuthors

------------------------------------------------------------------------------
\* Profiles, items and who is linked to which profile.

\* What an item may lie in, at any depth.
Spots == {NoOne} \cup Roots \cup StashItems
Depth == Cardinality(StashItems)

LEMMA DepthIsNat == Depth \in Nat
  BY PlayersAssumption, FS_CardinalityType DEF Depth

LEMMA SpotsApart == \A r \in Roots : r \notin StashItems /\ r # NoOne
  BY PlayersAssumption

GoesUp(i, n, W) == W = [k \in 0..n |-> IF k = 0 THEN i ELSE HolderOf(W[k - 1])]
GoesDown(p, n, W) == W = [k \in 0..n |-> IF k = 0 THEN {p} ELSE UNION {Kids(q) : q \in W[k - 1]}]

LEMMA WayUpIs ==
  ASSUME parent \in [StashItems -> Spots], NEW i \in Spots
  PROVE  /\ WayUp(i) \in [0..Depth -> Spots] /\ WayUp(i)[0] = i
         /\ \A k \in 1..Depth : WayUp(i)[k] = HolderOf(WayUp(i)[k - 1])
  <1>. DEFINE F == [s \in Spots |-> HolderOf(s)]
              n == Depth
  <1>1. \A s \in Spots : HolderOf(s) \in Spots
    BY DEF HolderOf
  <1>2. DOMAIN F = Spots /\ (\A s \in DOMAIN F : F[s] \in DOMAIN F) /\ n \in Nat
    BY <1>1, DepthIsNat
  <1>. HIDE DEF F, n
  <1>3. PICK V : Repeated(F, i, n, V)
    BY <1>2, Repeats
  <1>4. \A k \in 0..n : V[k] = IF k = 0 THEN i ELSE HolderOf(V[k - 1])
    <2>1. ASSUME NEW k \in 0..n, k # 0 PROVE V[k] = HolderOf(V[k - 1])
      <3>1. k \in 1..n /\ k - 1 \in 0..n
        BY <1>2, <2>1
      <3>2. V[k - 1] \in Spots /\ V[k] = F[V[k - 1]]
        BY <1>2, <1>3, <3>1 DEF Repeated
      <3>. QED BY <3>2 DEF F
    <2>. QED BY <1>3, <2>1 DEF Repeated
  <1>5. V = [k \in 0..n |-> IF k = 0 THEN i ELSE HolderOf(V[k - 1])]
    BY <1>3, <1>4 DEF Repeated
  <1>6. GoesUp(i, n, V)
    BY <1>5 DEF GoesUp
  <1>. DEFINE W == CHOOSE f : GoesUp(i, n, f)
  <1>7. WayUp(i) = W
    BY DEF WayUp, GoesUp, n, Depth
  <1>8. GoesUp(i, n, W)
    BY <1>6
  <1>. HIDE DEF W
  <1>9. \A k \in 0..n : W[k] = IF k = 0 THEN i ELSE HolderOf(W[k - 1])
    BY <1>8, Zenon DEF GoesUp
  <1>10. DOMAIN W = 0..n
    BY <1>8 DEF GoesUp
  <1>. DEFINE G == {k \in 0..n : W[k] \in Spots}
  <1>11. ASSUME NEW m \in 0..n PROVE W[m] \in Spots
    <2>1. 0 \in G
      BY <1>2, <1>9
    <2>2. ASSUME NEW k \in 1..m, k - 1 \in G PROVE k \in G
      <3>1. k \in 0..n /\ k # 0 /\ W[k - 1] \in Spots
        BY <1>2, <2>2
      <3>. QED BY <1>1, <1>9, <3>1
    <2>3. m \in Nat
      BY <1>2
    <2>4. m \in G
      <3>. HIDE DEF G
      <3>. QED BY <2>1, <2>2, <2>3, CarriesOn
    <2>. QED BY <2>4
  <1>12. W \in [0..n -> Spots]
    <2>1. W = [k \in 0..n |-> W[k]]
      BY <1>8, <1>10 DEF GoesUp
    <2>. QED BY <1>11, <2>1
  <1>13. W[0] = i /\ \A k \in 1..n : W[k] = HolderOf(W[k - 1])
    BY <1>2, <1>9
  <1>. QED BY <1>7, <1>12, <1>13 DEF n

LEMMA LevelsAre ==
  ASSUME NEW p
  PROVE  /\ Levels(p)[0] = {p}
         /\ \A k \in 1..Depth : Levels(p)[k] = UNION {Kids(q) : q \in Levels(p)[k - 1]}
  <1>. DEFINE S == SUBSET (StashItems \cup {p})
              F == [s \in S |-> UNION {Kids(q) : q \in s}]
              n == Depth
  <1>1. \A s \in S : F[s] \in S
    BY DEF Kids
  <1>2. DOMAIN F = S /\ (\A s \in DOMAIN F : F[s] \in DOMAIN F) /\ n \in Nat /\ {p} \in DOMAIN F
    BY <1>1, DepthIsNat
  <1>. HIDE DEF F, n, S
  <1>3. PICK V : Repeated(F, {p}, n, V)
    BY <1>2, Repeats
  <1>4. \A k \in 0..n : V[k] = IF k = 0 THEN {p} ELSE UNION {Kids(q) : q \in V[k - 1]}
    <2>1. ASSUME NEW k \in 0..n, k # 0 PROVE V[k] = UNION {Kids(q) : q \in V[k - 1]}
      <3>1. k \in 1..n /\ k - 1 \in 0..n
        BY <1>2, <2>1
      <3>2. V[k - 1] \in S /\ V[k] = F[V[k - 1]]
        BY <1>2, <1>3, <3>1 DEF Repeated
      <3>. QED BY <3>2 DEF F
    <2>. QED BY <1>3, <2>1 DEF Repeated
  <1>5. V = [k \in 0..n |-> IF k = 0 THEN {p} ELSE UNION {Kids(q) : q \in V[k - 1]}]
    BY <1>3, <1>4 DEF Repeated
  <1>6. GoesDown(p, n, V)
    BY <1>5 DEF GoesDown
  <1>. DEFINE W == CHOOSE f : GoesDown(p, n, f)
  <1>7. Levels(p) = W
    BY DEF Levels, GoesDown, n, Depth
  <1>8. GoesDown(p, n, W)
    BY <1>6
  <1>. HIDE DEF W
  <1>9. \A k \in 0..n : W[k] = IF k = 0 THEN {p} ELSE UNION {Kids(q) : q \in W[k - 1]}
    BY <1>8, Zenon DEF GoesDown
  <1>10. W[0] = {p} /\ \A k \in 1..n : W[k] = UNION {Kids(q) : q \in W[k - 1]}
    <2>1. 0 \in 0..n /\ \A k \in 1..n : k \in 0..n /\ k # 0
      BY <1>2
    <2>2. \A k \in 1..n : W[k] = UNION {Kids(q) : q \in W[k - 1]}
      BY <1>9, <2>1
    <2>. QED BY <1>9, <2>1, <2>2
  <1>. QED BY <1>7, <1>10 DEF n

\* The way up from x goes by what x lies in.
LEMMA WayShifts ==
  ASSUME parent \in [StashItems -> Spots], NEW x \in Spots, NEW k \in 1..Depth
  PROVE  WayUp(x)[k] = WayUp(HolderOf(x))[k - 1]
  <1>. DEFINE y == HolderOf(x)
              G == {i \in Nat : i + 1 \in 1..Depth => WayUp(x)[i + 1] = WayUp(y)[i]}
  <1>0. y \in Spots /\ Depth \in Nat
    BY DepthIsNat DEF HolderOf
  <1>1. /\ WayUp(x)[0] = x /\ \A i \in 1..Depth : WayUp(x)[i] = HolderOf(WayUp(x)[i - 1])
        /\ WayUp(y)[0] = y /\ \A i \in 1..Depth : WayUp(y)[i] = HolderOf(WayUp(y)[i - 1])
    <2>. HIDE DEF y
    <2>. QED BY <1>0, WayUpIs
  <1>. DEFINE z == y
  <1>. HIDE DEF y
  <1>2. 0 \in G
    <2>1. 1 \in 1..Depth => WayUp(x)[1] = HolderOf(WayUp(x)[1 - 1])
      BY <1>1
    <2>2. 1 - 1 = 0 /\ 0 + 1 = 1
      OBVIOUS
    <2>. QED BY <1>1, <2>1, <2>2 DEF y
  <1>3. ASSUME NEW i \in Nat, i \in G PROVE i + 1 \in G
    <2>1. ASSUME (i + 1) + 1 \in 1..Depth PROVE WayUp(x)[(i + 1) + 1] = WayUp(y)[i + 1]
      <3>1. i + 1 \in 1..Depth /\ ((i + 1) + 1) - 1 = i + 1 /\ (i + 1) - 1 = i
        BY <1>0, <2>1
      <3>2. WayUp(x)[(i + 1) + 1] = HolderOf(WayUp(x)[i + 1]) /\ WayUp(y)[i + 1] = HolderOf(WayUp(y)[i])
        BY <1>1, <2>1, <3>1
      <3>. QED BY <1>3, <3>1, <3>2
    <2>. QED BY <2>1
  <1>4. Nat \subseteq G
    <2>. HIDE DEF G
    <2>. QED BY <1>2, <1>3, AllNumbers
  <1>5. k - 1 \in Nat /\ (k - 1) + 1 = k
    BY <1>0
  <1>. QED BY <1>4, <1>5 DEF y

\* Once there is nothing more to lie in, the way up ends.
LEMMA WayStays ==
  ASSUME parent \in [StashItems -> Spots], NEW x \in Spots, NEW k \in 0..Depth, WayUp(x)[k] \notin StashItems
  PROVE  RootOf(x) = WayUp(x)[k]
  <1>. DEFINE G == {i \in Nat : k + i \in 0..Depth => WayUp(x)[k + i] = WayUp(x)[k]}
  <1>0. Depth \in Nat /\ k \in Nat
    BY DepthIsNat
  <1>1. \A i \in 1..Depth : WayUp(x)[i] = HolderOf(WayUp(x)[i - 1])
    BY WayUpIs
  <1>2. 0 \in G
    BY <1>0
  <1>3. ASSUME NEW i \in Nat, i \in G PROVE i + 1 \in G
    <2>1. ASSUME k + (i + 1) \in 0..Depth PROVE WayUp(x)[k + (i + 1)] = WayUp(x)[k]
      <3>1. k + (i + 1) \in 1..Depth /\ (k + (i + 1)) - 1 = k + i /\ k + i \in 0..Depth
        BY <1>0, <2>1
      <3>2. WayUp(x)[k + (i + 1)] = HolderOf(WayUp(x)[k + i])
        BY <1>1, <3>1
      <3>. QED BY <1>3, <3>1, <3>2 DEF HolderOf
    <2>. QED BY <2>1
  <1>4. Nat \subseteq G
    <2>. HIDE DEF G
    <2>. QED BY <1>2, <1>3, AllNumbers
  <1>5. Depth - k \in Nat /\ k + (Depth - k) = Depth /\ Depth \in 0..Depth
    BY <1>0
  <1>6. WayUp(x)[Depth] = WayUp(x)[k]
    BY <1>4, <1>5
  <1>. QED BY <1>6 DEF RootOf, Depth

\* The walk down finds what has its root there, and only that.
LEMMA WalkIsBelow ==
  ASSUME parent \in [StashItems -> Spots], NEW p \in Roots
  PROVE  WalkStashItems(p) = {i \in StashItems : RootOf(i) = p}
  <1>0. Depth \in Nat /\ p \notin StashItems /\ p \in Spots
    BY DepthIsNat, SpotsApart DEF Spots
  <1>1. /\ Levels(p)[0] = {p}
        /\ \A k \in 1..Depth : Levels(p)[k] = UNION {Kids(q) : q \in Levels(p)[k - 1]}
    BY LevelsAre
  <1>. DEFINE Down(k) == \A x \in Levels(p)[k] : x \in Spots /\ (k # 0 => x \in StashItems) /\ WayUp(x)[k] = p
              G == {k \in Nat : k \in 0..Depth => Down(k)}
              Up(k) == \A x \in Spots : WayUp(x)[k] = p => \E m \in 0..k : x \in Levels(p)[m]
              H == {k \in Nat : k \in 0..Depth => Up(k)}
  <1>2. 0 \in G
    BY <1>0, <1>1, WayUpIs
  <1>3. ASSUME NEW k \in Nat, k \in G PROVE k + 1 \in G
    <2>1. ASSUME k + 1 \in 0..Depth, NEW x \in Levels(p)[k + 1]
          PROVE  x \in Spots /\ x \in StashItems /\ WayUp(x)[k + 1] = p
      <3>1. k \in 0..Depth /\ k + 1 \in 1..Depth /\ (k + 1) - 1 = k
        BY <1>0, <2>1
      <3>2. PICK q \in Levels(p)[k] : x \in Kids(q)
        BY <1>1, <2>1, <3>1
      <3>3. x \in StashItems /\ x \in Spots /\ HolderOf(x) = q
        BY <3>2 DEF Kids, HolderOf, Spots
      <3>4. WayUp(q)[k] = p
        BY <1>3, <3>1, <3>2
      <3>5. WayUp(x)[k + 1] = WayUp(HolderOf(x))[k]
        BY <3>1, <3>3, WayShifts
      <3>. QED BY <3>3, <3>4, <3>5
    <2>. QED BY <2>1
  <1>4. 0 \in H
    <2>1. ASSUME NEW x \in Spots, WayUp(x)[0] = p PROVE x \in Levels(p)[0]
      BY <1>1, <2>1, WayUpIs
    <2>. QED BY <2>1
  <1>5. ASSUME NEW k \in Nat, k \in H PROVE k + 1 \in H
    <2>1. ASSUME k + 1 \in 0..Depth, NEW x \in Spots, WayUp(x)[k + 1] = p
          PROVE  \E m \in 0..(k + 1) : x \in Levels(p)[m]
      <3>1. k \in 0..Depth /\ k + 1 \in 1..Depth /\ (k + 1) - 1 = k
        BY <1>0, <2>1
      <3>2. WayUp(x)[k + 1] = WayUp(HolderOf(x))[k] /\ HolderOf(x) \in Spots
        BY <3>1, WayShifts DEF HolderOf
      <3>3. PICK m \in 0..k : HolderOf(x) \in Levels(p)[m]
        BY <1>5, <2>1, <3>1, <3>2
      <3>4. CASE x \in StashItems
        <4>1. x \in Kids(HolderOf(x))
          BY <3>4 DEF Kids, HolderOf
        <4>2. m + 1 \in 1..Depth /\ (m + 1) - 1 = m /\ m + 1 \in 0..(k + 1)
          BY <1>0, <3>1
        <4>3. Levels(p)[m + 1] = UNION {Kids(q) : q \in Levels(p)[m]}
          BY <1>1, <4>2
        <4>4. x \in Levels(p)[m + 1]
          BY <3>3, <4>1, <4>3
        <4>. QED BY <4>2, <4>4
      <3>5. CASE x \notin StashItems
        <4>1. HolderOf(x) = x /\ m \in 0..(k + 1)
          BY <3>5 DEF HolderOf
        <4>. QED BY <3>3, <4>1
      <3>. QED BY <3>4, <3>5
    <2>. QED BY <2>1
  <1>6. Nat \subseteq G /\ Nat \subseteq H
    <2>. HIDE DEF G, H
    <2>1. Nat \subseteq G
      BY <1>2, <1>3, AllNumbers
    <2>2. Nat \subseteq H
      BY <1>4, <1>5, AllNumbers
    <2>. QED BY <2>1, <2>2
  <1>7. ASSUME NEW x \in WalkStashItems(p) PROVE x \in StashItems /\ RootOf(x) = p
    <2>1. PICK k \in 1..Depth : x \in Levels(p)[k]
      BY DEF WalkStashItems, Depth
    <2>2. k \in Nat /\ k \in 0..Depth /\ k # 0
      BY <1>0
    <2>3. x \in StashItems /\ x \in Spots /\ WayUp(x)[k] = p
      BY <1>6, <2>1, <2>2
    <2>. QED BY <1>0, <2>2, <2>3, WayStays
  <1>8. ASSUME NEW x \in StashItems, RootOf(x) = p PROVE x \in WalkStashItems(p)
    <2>1. WayUp(x)[Depth] = p /\ x \in Spots /\ Depth \in 0..Depth
      BY <1>0, <1>8 DEF RootOf, Depth, Spots
    <2>2. PICK m \in 0..Depth : x \in Levels(p)[m]
      BY <1>0, <1>6, <2>1
    <2>3. m # 0
      BY <1>0, <1>1, <2>2
    <2>4. m \in 1..Depth
      BY <1>0, <2>3
    <2>. QED BY <2>2, <2>4 DEF WalkStashItems, Depth
  <1>. QED BY <1>7, <1>8

------------------------------------------------------------------------------
(* The forest of the items                                                 *)

\* However the items lie in each other, some of any of them lies outside of these.
Rooted(up) == \A C \in SUBSET StashItems : C # {} => \E i \in C : up[i] \notin C

\* So nothing lies in itself, and the way up has an end.
LEMMA WayEnds ==
  ASSUME parent \in [StashItems -> Spots], Rooted(parent), NEW x \in Spots
  PROVE  RootOf(x) \notin StashItems
  <1>. DEFINE W == WayUp(x)
              N == 0..Depth
  <1>0. Depth \in Nat /\ IsFiniteSet(StashItems) /\ Depth = Cardinality(StashItems)
    BY DepthIsNat, PlayersAssumption DEF Depth
  <1>1. W \in [N -> Spots] /\ \A k \in 1..Depth : W[k] = HolderOf(W[k - 1])
    BY WayUpIs
  <1>2. SUFFICES ASSUME RootOf(x) \in StashItems PROVE FALSE
    OBVIOUS
  <1>3. \A k \in N : W[k] \in StashItems
    BY <1>2, WayStays DEF RootOf
  <1>. HIDE DEF W
  <1>4. W \in [N -> StashItems]
    <2>1. DOMAIN W = N /\ W = [k \in DOMAIN W |-> W[k]]
      BY <1>1
    <2>. QED BY <1>3, <2>1
  <1>5. IsFiniteSet(N) /\ Cardinality(N) = Depth + 1
    <2>1. 0 \in Int /\ Depth \in Int
      BY <1>0
    <2>2. IsFiniteSet(0..Depth) /\ Cardinality(0..Depth) = IF 0 > Depth THEN 0 ELSE Depth - 0 + 1
      BY <2>1, FS_Interval
    <2>. QED BY <1>0, <2>2
  <1>6. Cardinality(StashItems) < Cardinality(N)
    BY <1>0, <1>5
  <1>7. \E i, j \in N : i # j /\ W[i] = W[j]
    <2>. HIDE DEF N
    <2>. QED BY <1>0, <1>4, <1>5, <1>6, FS_PigeonHole
  <1>8. \E i, j \in N : i < j /\ W[i] = W[j]
    <2>1. PICK i \in N, j \in N : i # j /\ W[i] = W[j]
      BY <1>7
    <2>2. i < j \/ j < i
      BY <1>0, <2>1
    <2>. QED BY <2>1, <2>2
  <1>9. PICK i \in N, j \in N : i < j /\ W[i] = W[j]
    BY <1>8
  <1>. DEFINE C == {W[k] : k \in i..(j - 1)}
  <1>10. C \in SUBSET StashItems /\ W[i] \in C
    <2>1. i \in i..(j - 1) /\ \A k \in i..(j - 1) : k \in N
      BY <1>0, <1>9
    <2>. QED BY <1>3, <2>1
  <1>11. ASSUME NEW k \in i..(j - 1) PROVE parent[W[k]] \in C
    <2>1. k \in N /\ k + 1 \in 1..Depth /\ (k + 1) - 1 = k
      BY <1>0, <1>9
    <2>2. W[k + 1] = parent[W[k]]
      BY <1>1, <1>3, <2>1 DEF HolderOf
    <2>3. CASE k = j - 1
      <3>1. k + 1 = j
        BY <1>0, <2>1, <2>3
      <3>. QED BY <1>9, <1>10, <2>2, <3>1
    <2>4. CASE k # j - 1
      <3>1. k + 1 \in i..(j - 1)
        BY <1>0, <1>9, <2>1, <2>4
      <3>. QED BY <2>2, <3>1
    <2>. QED BY <2>3, <2>4
  <1>12. \A y \in C : parent[y] \in C
    BY <1>11
  <1>. HIDE DEF C
  <1>. QED BY <1>10, <1>12 DEF Rooted

LEMMA NotInItself ==
  ASSUME parent \in [StashItems -> Spots], Rooted(parent), NEW i \in StashItems, NEW j \in StashItems, parent[i] = j
  PROVE  ~LiesIn(j, i)
  <1>. DEFINE W == WayUp(j)
  <1>0. Depth \in Nat /\ j \in Spots /\ Depth = Cardinality(StashItems)
    BY DepthIsNat DEF Depth, Spots
  <1>1. W \in [0..Depth -> Spots] /\ W[0] = j /\ \A k \in 1..Depth : W[k] = HolderOf(W[k - 1])
    BY <1>0, WayUpIs
  <1>. HIDE DEF W
  <1>2. SUFFICES ASSUME LiesIn(j, i) PROVE FALSE
    OBVIOUS
  <1>3. PICK n \in 0..Depth : W[n] = i
    BY <1>0, <1>2 DEF LiesIn, W
  <1>4. ASSUME NEW k \in 0..n PROVE W[k] \in StashItems
    <2>1. SUFFICES ASSUME W[k] \notin StashItems PROVE FALSE
      OBVIOUS
    <2>. DEFINE G == {m \in Nat : k + m \in 0..Depth => W[k + m] = W[k]}
    <2>2. 0 \in G
      BY <1>0
    <2>3. ASSUME NEW m \in Nat, m \in G PROVE m + 1 \in G
      <3>1. ASSUME k + (m + 1) \in 0..Depth PROVE W[k + (m + 1)] = W[k]
        <4>1. k + (m + 1) \in 1..Depth /\ (k + (m + 1)) - 1 = k + m /\ k + m \in 0..Depth
          BY <1>0, <3>1
        <4>2. W[k + (m + 1)] = HolderOf(W[k + m])
          BY <1>1, <4>1
        <4>. QED BY <2>1, <2>3, <4>1, <4>2 DEF HolderOf
      <3>. QED BY <3>1
    <2>4. Nat \subseteq G
      <3>. HIDE DEF G
      <3>. QED BY <2>2, <2>3, AllNumbers
    <2>5. n - k \in Nat /\ k + (n - k) = n
      BY <1>0
    <2>6. W[n] = W[k]
      BY <1>0, <2>4, <2>5
    <2>. QED BY <1>3, <2>1, <2>6
  <1>. DEFINE C == {W[k] : k \in 0..n}
  <1>5. C \in SUBSET StashItems /\ j \in C
    <2>1. 0 \in 0..n
      BY <1>0
    <2>. QED BY <1>1, <1>4, <2>1
  <1>6. ASSUME NEW k \in 0..n PROVE parent[W[k]] \in C
    <2>1. CASE k = n
      BY <1>3, <1>5, <2>1
    <2>2. CASE k # n
      <3>1. k + 1 \in 0..n /\ k + 1 \in 1..Depth /\ (k + 1) - 1 = k
        BY <1>0, <2>2
      <3>2. W[k + 1] = parent[W[k]]
        BY <1>1, <1>4, <3>1 DEF HolderOf
      <3>. QED BY <3>1, <3>2
    <2>. QED BY <2>1, <2>2
  <1>7. \A y \in C : parent[y] \in C
    BY <1>6
  <1>. HIDE DEF C
  <1>. QED BY <1>5, <1>7 DEF Rooted

\* An item may be put where it does not hold the place.
LEMMA PlaceRooted ==
  ASSUME parent \in [StashItems -> Spots], Rooted(parent), NEW i \in StashItems, NEW p \in Spots,
         p \in StashItems => ~LiesIn(p, i)
  PROVE  Rooted([parent EXCEPT ![i] = p])
  <1>. DEFINE up == [parent EXCEPT ![i] = p]
              W == WayUp(p)
  <1>0. Depth \in Nat /\ Depth = Cardinality(StashItems)
    BY DepthIsNat DEF Depth
  <1>1. W \in [0..Depth -> Spots] /\ W[0] = p /\ \A k \in 1..Depth : W[k] = HolderOf(W[k - 1])
    BY WayUpIs
  <1>2. W[Depth] \notin StashItems
    BY WayEnds DEF RootOf, Depth
  <1>3. up[i] = p /\ \A j \in StashItems : j # i => up[j] = parent[j]
    OBVIOUS
  <1>4. p \in StashItems => \A k \in 0..Depth : W[k] # i
    BY <1>0 DEF LiesIn
  <1>. HIDE DEF W, up
  <1>5. ASSUME NEW C \in SUBSET StashItems, C # {}, \A j \in C : up[j] \in C PROVE FALSE
    <2>1. CASE i \notin C
      <3>1. \A j \in C : parent[j] \in C
        BY <1>3, <1>5, <2>1
      <3>. QED BY <1>5, <3>1 DEF Rooted
    <2>2. CASE i \in C
      <3>1. p \in C /\ p \in StashItems
        BY <1>3, <1>5, <2>2
      <3>. DEFINE G == {k \in Nat : k \in 0..Depth => W[k] \in C}
      <3>2. 0 \in G
        BY <1>1, <3>1
      <3>3. ASSUME NEW k \in Nat, k \in G PROVE k + 1 \in G
        <4>1. ASSUME k + 1 \in 0..Depth PROVE W[k + 1] \in C
          <5>1. k + 1 \in 1..Depth /\ (k + 1) - 1 = k /\ k \in 0..Depth
            BY <1>0, <4>1
          <5>2. W[k] \in C /\ W[k] # i /\ W[k] \in StashItems
            BY <1>4, <3>1, <3>3, <5>1
          <5>3. W[k + 1] = parent[W[k]]
            BY <1>1, <5>1, <5>2 DEF HolderOf
          <5>. QED BY <1>3, <1>5, <5>2, <5>3
        <4>. QED BY <4>1
      <3>4. Nat \subseteq G
        <4>. HIDE DEF G
        <4>. QED BY <3>2, <3>3, AllNumbers
      <3>5. W[Depth] \in C
        BY <1>0, <3>4
      <3>. QED BY <1>2, <3>5
    <2>. QED BY <2>1, <2>2
  <1>. QED BY <1>5 DEF Rooted, up

\* Items may be taken away.
LEMMA TakenRooted ==
  ASSUME Rooted(parent), NEW up, \A i \in StashItems : up[i] \in {NoOne, parent[i]}
  PROVE  Rooted(up)
  <1>1. NoOne \notin StashItems
    BY PlayersAssumption
  <1>2. ASSUME NEW C \in SUBSET StashItems, C # {}, \A j \in C : up[j] \in C PROVE FALSE
    <2>1. \A j \in C : parent[j] \in C
      BY <1>1, <1>2
    <2>. QED BY <1>2, <2>1 DEF Rooted
  <1>. QED BY <1>2 DEF Rooted

------------------------------------------------------------------------------
(* Profiles and accounts                                                   *)

\* Whoever is linked, or is to be, to a profile: its file is there.  And a handler that
\* links has seen that all the others have another one.
FilesAreThere ==
  /\ \A u \in Players : linkOf[u] \in Aids => profile[linkOf[u]] # NoOne
  /\ \A t \in clerks : t.aid \in Aids => profile[t.aid] # NoOne
OthersWereFree == \A t \in clerks : t.act = "link" => t.free = Players \ {t.user}

PlayersTyped ==
  /\ profile \in [Aids -> {NoOne} \cup Profile] /\ parent \in [StashItems -> Spots]
  /\ linkOf \in [Players -> {"none", NoOne} \cup Aids]
  /\ \A t \in clerks : /\ t.act \in {"join", "link"} /\ t.user \in Players
                       /\ t.aid \in Aids \cup {"none"} /\ t.free \subseteq Players
  /\ IsFiniteSet(clerks) /\ Cardinality(clerks) <= MaxClerks
  /\ tables \in BOOLEAN /\ template \in Kinds

PlayersInv == PlayersTyped /\ Rooted(parent) /\ FilesAreThere /\ OthersWereFree

LEMMA PlayersInitInv == PlayersInit => PlayersInv
  <1>. SUFFICES ASSUME PlayersInit PROVE PlayersInv
    OBVIOUS
  <1>1. IsFiniteSet(clerks) /\ Cardinality(clerks) <= MaxClerks
    <2>1. clerks = {}
      BY DEF PlayersInit
    <2>2. MaxClerks \in Nat
      BY PlayersAssumption
    <2>. QED BY <2>1, <2>2, FS_EmptySet
  <1>2. \A u \in Players : linkOf[u] \notin Aids
    BY PlayersAssumption DEF PlayersInit
  <1>3. linkOf \in [Players -> {"none", NoOne} \cup Aids]
    BY DEF PlayersInit
  <1>4. PlayersTyped
    BY <1>1, <1>3 DEF PlayersInit, PlayersTyped, Spots
  <1>5. Rooted(parent)
    BY PlayersAssumption DEF PlayersInit, Rooted
  <1>. QED BY <1>2, <1>4, <1>5 DEF PlayersInit, PlayersInv, FilesAreThere, OthersWereFree

\* A handler more, or one less.
LEMMA ClerkComes ==
  ASSUME PlayersTyped, NEW t, Clerk(t)
  PROVE  IsFiniteSet(clerks') /\ Cardinality(clerks') <= MaxClerks /\ clerks' = clerks \cup {t}
  <1>1. /\ IsFiniteSet(clerks) /\ Cardinality(clerks) \in Nat /\ Cardinality(clerks) < MaxClerks
        /\ MaxClerks \in Nat /\ clerks' = clerks \cup {t}
    BY PlayersAssumption, FS_CardinalityType DEF PlayersTyped, Clerk
  <1>2. IsFiniteSet(clerks \cup {t}) /\
        Cardinality(clerks \cup {t}) = IF t \in clerks THEN Cardinality(clerks) ELSE Cardinality(clerks) + 1
    BY <1>1, FS_AddElement
  <1>. QED BY <1>1, <1>2

LEMMA ClerkGoes ==
  ASSUME PlayersTyped, NEW S, S \subseteq clerks
  PROVE  IsFiniteSet(S) /\ Cardinality(S) <= MaxClerks
  <1>1. /\ IsFiniteSet(clerks) /\ Cardinality(clerks) \in Nat /\ Cardinality(clerks) <= MaxClerks
        /\ MaxClerks \in Nat
    BY PlayersAssumption, FS_CardinalityType DEF PlayersTyped
  <1>2. IsFiniteSet(S) /\ Cardinality(S) <= Cardinality(clerks) /\ Cardinality(S) \in Nat
    BY <1>1, FS_Subset, FS_CardinalityType
  <1>. QED BY <1>1, <1>2

LEMMA RegisterKeeps ==
  ASSUME PlayersInv, NEW u \in Players, NEW a \in Aids, RegisterProfile(u, a)
  PROVE  PlayersInv'
  <1>1. PICK found \in {a, "none"} : Clerk([act |-> "join", user |-> u, aid |-> found, free |-> {}])
    BY DEF RegisterProfile
  <1>. DEFINE t == [act |-> "join", user |-> u, aid |-> found, free |-> {}]
  <1>2. t.act = "join" /\ t.user = u /\ t.aid = found /\ t.free = {}
    OBVIOUS
  <1>. HIDE DEF t
  <1>3. IsFiniteSet(clerks') /\ Cardinality(clerks') <= MaxClerks /\ clerks' = clerks \cup {t}
    BY <1>1, ClerkComes DEF PlayersInv, t
  <1>. DEFINE p == [name |-> u, begun |-> FALSE]
  <1>4. p \in Profile /\ p # NoOne
    <2>1. p \in Profile
      BY DEF Profile
    <2>. HIDE DEF p
    <2>. QED BY <2>1, PlayersAssumption
  <1>5. /\ profile' = [profile EXCEPT ![a] = p]
        /\ UNCHANGED <<parent, linkOf, tables, template>>
    BY DEF RegisterProfile
  <1>. HIDE DEF p
  <1>6. profile' \in [Aids -> {NoOne} \cup Profile] /\ \A b \in Aids : profile[b] # NoOne \/ b = a => profile'[b] # NoOne
    BY <1>4, <1>5 DEF PlayersInv, PlayersTyped
  <1>7. PlayersTyped'
    BY <1>2, <1>3, <1>5, <1>6 DEF PlayersInv, PlayersTyped, Spots, Roots, Stash, Equipment
  <1>8. FilesAreThere'
    <2>1. \A v \in Players : linkOf'[v] \in Aids => profile'[linkOf'[v]] # NoOne
      BY <1>5, <1>6 DEF PlayersInv, FilesAreThere
    <2>2. \A s \in clerks' : s.aid \in Aids => profile'[s.aid] # NoOne
      BY <1>2, <1>3, <1>6, PlayersAssumption DEF PlayersInv, FilesAreThere
    <2>. QED BY <2>1, <2>2 DEF FilesAreThere
  <1>9. OthersWereFree'
    BY <1>2, <1>3 DEF PlayersInv, OthersWereFree
  <1>10. Rooted(parent)'
    BY <1>5 DEF PlayersInv, Rooted
  <1>. QED BY <1>7, <1>8, <1>9, <1>10 DEF PlayersInv

LEMMA LinkKeeps ==
  ASSUME PlayersInv, NEW u \in Players, NEW a \in Aids, LinkProfile(u, a)
  PROVE  PlayersInv'
  <1>. DEFINE free == {v \in Players \ {u} : linkOf[v] # a}
              t == [act |-> "link", user |-> u, aid |-> a, free |-> free]
  <1>1. free = Players \ {u} /\ profile[a] # NoOne
    BY DEF LinkProfile, AlreadyLinked, LinkedTo
  <1>2. t.act = "link" /\ t.user = u /\ t.aid = a /\ t.free = free
    OBVIOUS
  <1>3. Clerk(t) /\ UNCHANGED <<profile, parent, linkOf, tables, template>>
    BY DEF LinkProfile
  <1>. HIDE DEF t, free
  <1>4. IsFiniteSet(clerks') /\ Cardinality(clerks') <= MaxClerks /\ clerks' = clerks \cup {t}
    BY <1>3, ClerkComes DEF PlayersInv
  <1>5. PlayersTyped'
    BY <1>1, <1>2, <1>3, <1>4 DEF PlayersInv, PlayersTyped, Spots, Roots, Stash, Equipment
  <1>6. FilesAreThere'
    BY <1>1, <1>2, <1>3, <1>4 DEF PlayersInv, FilesAreThere
  <1>7. OthersWereFree'
    BY <1>1, <1>2, <1>4 DEF PlayersInv, OthersWereFree
  <1>8. Rooted(parent)'
    BY <1>3 DEF PlayersInv, Rooted
  <1>. QED BY <1>5, <1>6, <1>7, <1>8 DEF PlayersInv

\* Handlers end, accounts are linked, unlinked and deleted.
LEMMA AccountKeeps ==
  ASSUME PlayersInv, UNCHANGED <<profile, parent, template>>, tables' \in BOOLEAN, clerks' \subseteq clerks,
         \/ UNCHANGED linkOf
         \/ \E u \in Players, x \in {"none", NoOne} \cup Aids :
              linkOf' = [linkOf EXCEPT ![u] = x] /\ (x \in Aids => profile[x] # NoOne)
  PROVE  PlayersInv'
  <1>1. IsFiniteSet(clerks') /\ Cardinality(clerks') <= MaxClerks
    BY ClerkGoes DEF PlayersInv
  <1>2. /\ linkOf' \in [Players -> {"none", NoOne} \cup Aids]
        /\ \A u \in Players : linkOf'[u] \in Aids => profile[linkOf'[u]] # NoOne
    BY DEF PlayersInv, PlayersTyped, FilesAreThere
  <1>3. PlayersTyped'
    BY <1>1, <1>2 DEF PlayersInv, PlayersTyped, Spots, Roots, Stash, Equipment
  <1>4. FilesAreThere'
    BY <1>2 DEF PlayersInv, FilesAreThere
  <1>5. OthersWereFree'
    BY DEF PlayersInv, OthersWereFree
  <1>6. Rooted(parent)'
    BY DEF PlayersInv, Rooted
  <1>. QED BY <1>3, <1>4, <1>5, <1>6 DEF PlayersInv

LEMMA ClerksKeep ==
  ASSUME PlayersInv, NEW t \in clerks, InsertUser(t) \/ UpdateUserSptProfileId(t)
  PROVE  PlayersInv'
  <1>1. t.user \in Players /\ t.aid \in {"none", NoOne} \cup Aids /\ (t.aid \in Aids => profile[t.aid] # NoOne)
    BY DEF PlayersInv, PlayersTyped, FilesAreThere
  <1>2. UNCHANGED <<profile, parent, template, tables>> /\ clerks' \subseteq clerks /\ tables \in BOOLEAN
    BY DEF InsertUser, UpdateUserSptProfileId, PlayersInv, PlayersTyped
  <1>3. UNCHANGED linkOf \/ linkOf' = [linkOf EXCEPT ![t.user] = t.aid]
    BY DEF InsertUser, UpdateUserSptProfileId
  <1>. QED BY <1>1, <1>2, <1>3, AccountKeeps

LEMMA AccountsComeAndGo ==
  ASSUME PlayersInv, (\E u \in Players : Unlink(u) \/ AccountGoes(u)) \/ TablesLoad
  PROVE  PlayersInv'
  <1>0. tables \in BOOLEAN
    BY DEF PlayersInv, PlayersTyped
  <1>1. ASSUME NEW u \in Players, Unlink(u) PROVE PlayersInv'
    <2>1. /\ UNCHANGED <<profile, parent, template>> /\ tables' \in BOOLEAN /\ clerks' \subseteq clerks
          /\ linkOf' = [linkOf EXCEPT ![u] = "none"] /\ "none" \notin Aids
      BY <1>0, <1>1, PlayersAssumption DEF Unlink
    <2>. QED BY <2>1, AccountKeeps
  <1>2. ASSUME NEW u \in Players, AccountGoes(u) PROVE PlayersInv'
    <2>1. /\ UNCHANGED <<profile, parent, template>> /\ tables' \in BOOLEAN /\ clerks' \subseteq clerks
          /\ linkOf' = [linkOf EXCEPT ![u] = NoOne] /\ NoOne \notin Aids
      BY <1>0, <1>2, PlayersAssumption DEF AccountGoes
    <2>. QED BY <2>1, AccountKeeps
  <1>3. ASSUME TablesLoad PROVE PlayersInv'
    <2>1. UNCHANGED <<profile, parent, template, linkOf>> /\ tables' \in BOOLEAN /\ clerks' \subseteq clerks
      BY <1>3 DEF TablesLoad
    <2>. QED BY <2>1, AccountKeeps
  <1>. QED BY <1>1, <1>2, <1>3

\* The game moves items, and begins or wipes characters; no file goes.
LEMMA GameKeepsForest ==
  ASSUME PlayersInv, UNCHANGED <<linkOf, clerks, tables, template>>,
         profile' \in [Aids -> {NoOne} \cup Profile], \A a \in Aids : profile[a] # NoOne => profile'[a] # NoOne,
         parent' \in [StashItems -> Spots], Rooted(parent')
  PROVE  PlayersInv'
  <1>1. PlayersTyped'
    BY DEF PlayersInv, PlayersTyped, Spots, Roots, Stash, Equipment
  <1>2. FilesAreThere'
    BY DEF PlayersInv, FilesAreThere, PlayersTyped
  <1>. QED BY <1>1, <1>2 DEF PlayersInv, OthersWereFree, Rooted

LEMMA BegunKeeps ==
  ASSUME PlayersInv, NEW a \in Aids, profile[a] # NoOne, NEW b \in BOOLEAN,
         profile' = [profile EXCEPT ![a].begun = b]
  PROVE  profile' \in [Aids -> {NoOne} \cup Profile] /\ \A c \in Aids : profile[c] # NoOne => profile'[c] # NoOne
  <1>1. profile \in [Aids -> {NoOne} \cup Profile] /\ profile[a] \in Profile
    BY DEF PlayersInv, PlayersTyped
  <1>. DEFINE p == [profile[a] EXCEPT !.begun = b]
  <1>2. p \in Profile
    BY <1>1 DEF Profile
  <1>3. profile' = [profile EXCEPT ![a] = p]
    BY <1>1
  <1>. HIDE DEF p
  <1>4. p # NoOne
    BY <1>2, PlayersAssumption
  <1>. QED BY <1>1, <1>2, <1>3, <1>4

LEMMA PlaceKeeps ==
  ASSUME PlayersInv, NEW i \in StashItems, NEW p \in Roots \cup StashItems, Place(i, p)
  PROVE  PlayersInv'
  <1>1. /\ parent' = [parent EXCEPT ![i] = p] /\ UNCHANGED <<profile, linkOf, clerks, tables, template>>
        /\ p \in StashItems => ~LiesIn(p, i)
    BY DEF Place
  <1>2. parent \in [StashItems -> Spots] /\ p \in Spots /\ profile \in [Aids -> {NoOne} \cup Profile] /\ Rooted(parent)
    BY DEF PlayersInv, PlayersTyped, Spots
  <1>3. parent' \in [StashItems -> Spots]
    BY <1>1, <1>2
  <1>4. Rooted(parent')
    BY <1>1, <1>2, PlaceRooted
  <1>. QED BY <1>1, <1>2, <1>3, <1>4, GameKeepsForest

LEMMA TakingKeeps ==
  ASSUME PlayersInv, (\E i \in StashItems : Leaves(i)) \/ (\E a \in Aids : Wipe(a))
  PROVE  PlayersInv'
  <1>1. parent \in [StashItems -> Spots] /\ profile \in [Aids -> {NoOne} \cup Profile] /\ Rooted(parent)
    BY DEF PlayersInv, PlayersTyped
  <1>2. ASSUME NEW P, P \subseteq StashItems, parent' = [j \in StashItems |-> IF j \in P THEN NoOne ELSE parent[j]]
        PROVE  parent' \in [StashItems -> Spots] /\ Rooted(parent')
    <2>1. parent' \in [StashItems -> Spots] /\ \A j \in StashItems : parent'[j] \in {NoOne, parent[j]}
      BY <1>1, <1>2 DEF Spots
    <2>. QED BY <1>1, <2>1, TakenRooted
  <1>3. ASSUME NEW i \in StashItems, Leaves(i) PROVE PlayersInv'
    <2>. DEFINE P == {j \in StashItems : LiesIn(j, i)}
    <2>1. parent' = [j \in StashItems |-> IF j \in P THEN NoOne ELSE parent[j]]
          /\ UNCHANGED <<profile, linkOf, clerks, tables, template>>
      BY <1>3 DEF Leaves
    <2>. HIDE DEF P
    <2>2. P \subseteq StashItems
      BY DEF P
    <2>. QED BY <1>1, <1>2, <2>1, <2>2, GameKeepsForest
  <1>4. ASSUME NEW a \in Aids, Wipe(a) PROVE PlayersInv'
    <2>. DEFINE P == {j \in StashItems : RootOf(j) \in {Stash(a), Equipment(a)}}
    <2>1. parent' = [j \in StashItems |-> IF j \in P THEN NoOne ELSE parent[j]]
          /\ UNCHANGED <<linkOf, clerks, tables, template>>
          /\ profile[a] # NoOne /\ profile' = [profile EXCEPT ![a].begun = FALSE]
      BY <1>4 DEF Wipe
    <2>2. P \subseteq StashItems
      OBVIOUS
    <2>. HIDE DEF P
    <2>3. profile' \in [Aids -> {NoOne} \cup Profile] /\ \A c \in Aids : profile[c] # NoOne => profile'[c] # NoOne
      BY <2>1, BegunKeeps
    <2>. QED BY <1>2, <2>1, <2>2, <2>3, GameKeepsForest
  <1>. QED BY <1>3, <1>4

LEMMA FirstRaidKeeps ==
  ASSUME PlayersInv, NEW a \in Aids, FirstRaid(a)
  PROVE  PlayersInv'
  <1>1. /\ UNCHANGED <<parent, linkOf, clerks, tables, template>> /\ profile[a] # NoOne
        /\ profile' = [profile EXCEPT ![a].begun = TRUE]
    BY DEF FirstRaid
  <1>2. profile' \in [Aids -> {NoOne} \cup Profile] /\ \A c \in Aids : profile[c] # NoOne => profile'[c] # NoOne
    BY <1>1, BegunKeeps
  <1>3. parent \in [StashItems -> Spots] /\ Rooted(parent)
    BY DEF PlayersInv, PlayersTyped
  <1>4. parent' \in [StashItems -> Spots] /\ Rooted(parent')
    BY <1>1, <1>3
  <1>. QED BY <1>1, <1>2, <1>4, GameKeepsForest

LEMMA PlayersNextInv == PlayersInv /\ [PlayersNext]_playerVars => PlayersInv'
  <1>. SUFFICES ASSUME PlayersInv, [PlayersNext]_playerVars PROVE PlayersInv'
    OBVIOUS
  <1>1. CASE UNCHANGED playerVars
    <2>1. UNCHANGED <<profile, parent, template, linkOf, clerks>> /\ tables' \in BOOLEAN
      BY <1>1 DEF playerVars, PlayersInv, PlayersTyped
    <2>. QED BY <2>1, AccountKeeps
  <1>2. CASE PlayersNext
    BY <1>2, RegisterKeeps, LinkKeeps, ClerksKeep, AccountsComeAndGo, PlaceKeeps, TakingKeeps, FirstRaidKeeps
       DEF PlayersNext
  <1>. QED BY <1>1, <1>2

\* The items form a forest, and everything is of its type.
LEMMA PlayersInvTypes == PlayersInv => PlayersTypeOK
  <1>1. PlayersInv => \A i \in StashItems : ~(\E j \in StashItems : parent[i] = j /\ LiesIn(j, i))
    BY NotInItself DEF PlayersInv, PlayersTyped
  <1>. QED BY <1>1 DEF PlayersInv, PlayersTyped, PlayersTypeOK, Spots

------------------------------------------------------------------------------
(* The totals                                                              *)

\* What a piece of a template is worth.
Price(t) == IF ItemPrice(t) = NoOne THEN 0 ELSE ItemPrice(t)

LEMMA ValueIs == \A t : Price(t) \in Nat /\ \A n \in Nat : Value(t, n) = Price(t) * n /\ Value(t, n) \in Nat
  <1>. SUFFICES ASSUME NEW t PROVE Price(t) \in Nat /\ \A n \in Nat : Value(t, n) = Price(t) * n /\ Value(t, n) \in Nat
    OBVIOUS
  <1>1. ItemPrice(t) \in Nat \cup {NoOne}
    BY PlayersAssumption DEF ItemPrice
  <1>2. Price(t) \in Nat
    BY <1>1 DEF Price
  <1>3. \A n \in Nat : Value(t, n) = Price(t) * n
    <2>1. \A n \in Nat : 0 * n = 0
      OBVIOUS
    <2>. QED BY <1>1, <2>1 DEF Value, Price
  <1>4. \A n \in Nat : Price(t) * n \in Nat
    BY <1>2
  <1>. QED BY <1>2, <1>3, <1>4

LEMMA CategoryHasName == \A t : ItemCategory(t) # ""
  BY PlayersAssumption DEF ItemCategory

\* Counted by template, the stash is worth what it is item by item.
ValuesOf(a) == [i \in LoadStashItems(a) |-> Value(template[i], CountOf[i])]
TotalsOf(a) == [t \in DOMAIN Aggregated(a) |-> Value(t, Aggregated(a)[t])]

LEMMA StashIsFinite ==
  ASSUME parent \in [StashItems -> Spots], NEW a \in Aids
  PROVE  /\ LoadStashItems(a) = {i \in StashItems : RootOf(i) = Stash(a)}
         /\ IsFiniteSet(LoadStashItems(a)) /\ IsFiniteSet(DOMAIN Aggregated(a))
         /\ \A i \in LoadStashItems(a) : CountOf[i] \in Nat /\ template[i] \in DOMAIN Aggregated(a)
         /\ \A t \in DOMAIN Aggregated(a) :
              /\ Aggregated(a)[t] = SumFunctionOnSet(CountOf, ClassOf(LoadStashItems(a), template, t))
              /\ Aggregated(a)[t] \in Nat
  <1>. DEFINE L == LoadStashItems(a)
              T == {template[i] : i \in L}
  <1>1. L = {i \in StashItems : RootOf(i) = Stash(a)}
    <2>1. Stash(a) \in Roots
      BY DEF Roots
    <2>. QED BY <2>1, WalkIsBelow DEF LoadStashItems
  <1>2. IsFiniteSet(L) /\ \A i \in L : CountOf[i] \in Nat
    <2>1. IsFiniteSet(StashItems) /\ L \in SUBSET StashItems /\ \A i \in StashItems : CountOf[i] \in Nat
      BY <1>1, PlayersAssumption
    <2>. QED BY <2>1, FS_Subset
  <1>3. DOMAIN Aggregated(a) = T
    BY DEF Aggregated
  <1>4. IsFiniteSet(T)
    <2>. DEFINE f == [i \in L |-> template[i]]
    <2>1. f \in [L -> T] /\ \A t \in T : \E i \in L : f[i] = t
      OBVIOUS
    <2>. HIDE DEF f, L, T
    <2>2. f \in Surjection(L, T)
      BY <2>1 DEF Surjection
    <2>. QED BY <1>2, <2>2, FS_Surjection
  <1>5. ASSUME NEW t \in T
        PROVE  /\ Aggregated(a)[t] = SumFunctionOnSet(CountOf, ClassOf(L, template, t))
               /\ Aggregated(a)[t] \in Nat
    <2>1. Aggregated(a)[t] = SumFunctionOnSet(CountOf, ClassOf(L, template, t))
      BY DEF Aggregated, ClassOf
    <2>2. ClassOf(L, template, t) \in SUBSET L
      BY DEF ClassOf
    <2>3. IsFiniteSet(ClassOf(L, template, t)) /\ \A i \in ClassOf(L, template, t) : CountOf[i] \in Nat
      BY <1>2, <2>2, FS_Subset
    <2>. QED BY <2>1, <2>3, SumNat
  <1>6. \A i \in L : template[i] \in T
    OBVIOUS
  <1>. HIDE DEF L, T
  <1>. QED BY <1>1, <1>2, <1>3, <1>4, <1>5, <1>6 DEF L

LEMMA TotalsAddUp ==
  ASSUME parent \in [StashItems -> Spots], NEW a \in Aids
  PROVE  /\ SumFunctionOnSet(TotalsOf(a), DOMAIN Aggregated(a)) = SumFunctionOnSet(ValuesOf(a), LoadStashItems(a))
         /\ \A t \in DOMAIN Aggregated(a) : TotalsOf(a)[t] \in Nat
  <1>. DEFINE L == LoadStashItems(a)
              T == DOMAIN Aggregated(a)
              F == ValuesOf(a)
              H == TotalsOf(a)
  <1>1. /\ IsFiniteSet(L) /\ IsFiniteSet(T)
        /\ \A i \in L : CountOf[i] \in Nat /\ template[i] \in T
        /\ \A t \in T : Aggregated(a)[t] = SumFunctionOnSet(CountOf, ClassOf(L, template, t)) /\ Aggregated(a)[t] \in Nat
    BY StashIsFinite
  <1>2. \A i \in L : F[i] = Value(template[i], CountOf[i])
    BY DEF ValuesOf
  <1>3. \A t \in T : H[t] = Value(t, Aggregated(a)[t])
    BY DEF TotalsOf
  <1>. HIDE DEF L, T, F, H
  <1>4. \A i \in L : F[i] \in Nat
    BY <1>1, <1>2, ValueIs
  <1>5. ASSUME NEW t \in T PROVE H[t] = SumFunctionOnSet(F, ClassOf(L, template, t)) /\ H[t] \in Nat
    <2>. DEFINE C == ClassOf(L, template, t)
    <2>1. C \in SUBSET L /\ \A i \in C : template[i] = t
      BY DEF ClassOf
    <2>2. IsFiniteSet(C)
      BY <1>1, <2>1, FS_Subset
    <2>3. \A i \in C : CountOf[i] \in Nat /\ F[i] = Price(t) * CountOf[i]
      BY <1>1, <1>2, <2>1, ValueIs
    <2>4. Price(t) \in Nat
      BY ValueIs
    <2>5. Aggregated(a)[t] = SumFunctionOnSet(CountOf, C) /\ Aggregated(a)[t] \in Nat
      BY <1>1
    <2>. HIDE DEF C
    <2>6. SumFunctionOnSet(F, C) = Price(t) * SumFunctionOnSet(CountOf, C)
      BY <2>2, <2>3, <2>4, SumTimes
    <2>7. H[t] = Price(t) * Aggregated(a)[t] /\ H[t] \in Nat
      BY <1>3, <2>5, ValueIs
    <2>. QED BY <2>5, <2>6, <2>7 DEF C
  <1>6. SumFunctionOnSet(H, T) = SumFunctionOnSet(F, L)
    BY <1>1, <1>4, <1>5, SumByClass
  <1>. QED BY <1>5, <1>6 DEF H, T, F, L

\* What the stash tab shows of a category is the sum over its templates.
LEMMA StashOfIs ==
  ASSUME parent \in [StashItems -> Spots], NEW a \in Aids, NEW category
  PROVE  StashOf(a, category) =
           SumFunctionOnSet(TotalsOf(a), {t \in DOMAIN Aggregated(a) : category \in {"", ItemCategory(t)}})
  <1>. DEFINE T == {t \in DOMAIN Aggregated(a) : category \in {"", ItemCategory(t)}}
              F == [t \in T |-> Value(t, Aggregated(a)[t])]
  <1>1. T \in SUBSET DOMAIN Aggregated(a) /\ IsFiniteSet(DOMAIN Aggregated(a))
    BY StashIsFinite
  <1>2. IsFiniteSet(T)
    BY <1>1, FS_Subset
  <1>3. \A t \in T : F[t] = TotalsOf(a)[t] /\ TotalsOf(a)[t] \in Nat
    BY <1>1, TotalsAddUp DEF TotalsOf
  <1>4. StashOf(a, category) = SumFunctionOnSet(F, T)
    BY DEF StashOf, SumFunction
  <1>. HIDE DEF F, T
  <1>5. SumFunctionOnSet(F, T) = SumFunctionOnSet(TotalsOf(a), T)
    BY <1>2, <1>3, SumSame
  <1>. QED BY <1>4, <1>5 DEF T

LEMMA CategoriesAddUp ==
  ASSUME parent \in [StashItems -> Spots], NEW a \in Aids
  PROVE  /\ StashOf(a, "") = SumFunctionOnSet(TotalsOf(a), DOMAIN Aggregated(a))
         /\ SumFunction([c \in AllCategories(a) |-> StashOf(a, c)]) = StashOf(a, "")
  <1>. DEFINE T == DOMAIN Aggregated(a)
              F == TotalsOf(a)
              C == AllCategories(a)
              k == [t \in T |-> ItemCategory(t)]
              H == [c \in C |-> StashOf(a, c)]
  <1>1. IsFiniteSet(T) /\ \A t \in T : F[t] \in Nat
    BY StashIsFinite, TotalsAddUp
  <1>2. StashOf(a, "") = SumFunctionOnSet(F, T)
    <2>1. {t \in T : "" \in {"", ItemCategory(t)}} = T
      OBVIOUS
    <2>. QED BY <2>1, StashOfIs
  <1>3. C = {k[t] : t \in T} /\ \A t \in T : k[t] \in C
    BY DEF AllCategories
  <1>4. IsFiniteSet(C)
    <2>1. k \in [T -> C] /\ \A c \in C : \E t \in T : k[t] = c
      BY <1>3
    <2>. HIDE DEF k, T, C
    <2>2. k \in Surjection(T, C)
      BY <2>1 DEF Surjection
    <2>. QED BY <1>1, <2>2, FS_Surjection
  <1>5. ASSUME NEW c \in C PROVE H[c] = SumFunctionOnSet(F, ClassOf(T, k, c))
    <2>1. c # ""
      BY <1>3, CategoryHasName
    <2>2. {t \in T : c \in {"", ItemCategory(t)}} = ClassOf(T, k, c)
      BY <2>1 DEF ClassOf
    <2>3. StashOf(a, c) = SumFunctionOnSet(F, {t \in T : c \in {"", ItemCategory(t)}})
      BY StashOfIs
    <2>. QED BY <2>2, <2>3
  <1>6. SumFunction(H) = SumFunctionOnSet(H, C)
    BY DEF SumFunction
  <1>. HIDE DEF F, T, C, k, H
  <1>7. SumFunctionOnSet(H, C) = SumFunctionOnSet(F, T)
    BY <1>1, <1>3, <1>4, <1>5, SumByClass
  <1>. QED BY <1>2, <1>6, <1>7 DEF F, T, C, H

LEMMA PlayersInvAddsUp == PlayersInv => StashAddsUp
  <1>. SUFFICES ASSUME PlayersInv, NEW u \in Players, linkOf[u] \in Aids, profile[linkOf[u]].begun
       PROVE /\ ProfilePage(u) = LoadDetailForUser(u)
             /\ ProfilePage(u).stashValue =
                  SumFunction([i \in {i \in StashItems : RootOf(i) = Stash(linkOf[u])} |->
                                 Value(template[i], CountOf[i])])
             /\ StashPartial(u, "") = ProfilePage(u).stashValue
             /\ SumFunction([c \in AllCategories(linkOf[u]) |-> StashPartial(u, c)]) = StashPartial(u, "")
    BY DEF StashAddsUp
  <1>. DEFINE a == linkOf[u]
  <1>1. parent \in [StashItems -> Spots] /\ a \in Aids /\ profile[a] # NoOne /\ a # "none" /\ profile[a].begun
    BY PlayersAssumption DEF PlayersInv, PlayersTyped, FilesAreThere
  <1>2. ProfilePage(u) = [says |-> "detail", stashValue |-> CalculateStashValue(a)]
    BY <1>1 DEF ProfilePage, LoadProfileDetail
  <1>3. ProfilePage(u).says = "detail" /\ ProfilePage(u).stashValue = CalculateStashValue(a)
    BY <1>2
  <1>4. \A c : StashPartial(u, c) = StashOf(a, c)
    BY <1>1 DEF StashPartial
  <1>5. LoadStashItems(a) = WalkStashItems(Stash(a)) /\ LoadStashItems(a) = {i \in StashItems : RootOf(i) = Stash(a)}
    BY <1>1, StashIsFinite DEF LoadStashItems
  <1>6. CalculateStashValue(a) = SumFunction(ValuesOf(a))
    BY <1>5 DEF CalculateStashValue, ValuesOf
  <1>7. SumFunction(ValuesOf(a)) = SumFunctionOnSet(ValuesOf(a), LoadStashItems(a))
    BY DEF SumFunction, ValuesOf
  <1>8. ValuesOf(a) = [i \in {i \in StashItems : RootOf(i) = Stash(a)} |-> Value(template[i], CountOf[i])]
    BY <1>5 DEF ValuesOf
  <1>9. StashOf(a, "") = CalculateStashValue(a)
    BY <1>1, <1>6, <1>7, CategoriesAddUp, TotalsAddUp
  <1>10. SumFunction([c \in AllCategories(a) |-> StashPartial(u, c)]) = StashOf(a, "")
    <2>1. [c \in AllCategories(a) |-> StashPartial(u, c)] = [c \in AllCategories(a) |-> StashOf(a, c)]
      BY <1>4
    <2>. QED BY <1>1, <2>1, CategoriesAddUp
  <1>11. ProfilePage(u) = LoadDetailForUser(u)
    BY <1>3 DEF LoadDetailForUser
  <1>12. StashPartial(u, "") = StashOf(a, "")
    BY <1>4
  <1>. QED BY <1>3, <1>6, <1>8, <1>9, <1>10, <1>11, <1>12

LEMMA PlayersInvOffers == PlayersInv => OfferedOrShown
  <1>. SUFFICES ASSUME PlayersInv, NEW a \in ListProfiles, a \notin AvailableProfiles
       PROVE  \E u \in Players : linkOf[u] = a /\ ProfileStatus(u, {a}) = "Found"
    BY DEF OfferedOrShown
  <1>1. a \in Aids /\ profile[a] # NoOne
    BY DEF ListProfiles
  <1>2. PICK u \in Players : linkOf[u] = a
    BY DEF AvailableProfiles, LinkedTo
  <1>. QED BY <1>1, <1>2 DEF ProfileStatus

\* Who comes to share a profile.
Shares ==
  \A u, v \in Players :
    (u # v /\ linkOf'[u] \in Aids /\ linkOf'[u] = linkOf'[v] /\ linkOf[u] # linkOf'[u])
      => \E t \in clerks : t.user = u /\ (t.act = "join" \/ v \in t.free)

LEMMA SharedByClerks == PlayersInv /\ [PlayersNext]_playerVars => Shares
  <1>. SUFFICES ASSUME PlayersInv, [PlayersNext]_playerVars,
                       NEW u \in Players, NEW v \in Players,
                       u # v, linkOf'[u] \in Aids, linkOf[u] # linkOf'[u]
       PROVE  \E t \in clerks : t.user = u /\ (t.act = "join" \/ v \in t.free)
    BY DEF Shares
  <1>1. linkOf \in [Players -> {"none", NoOne} \cup Aids] /\ "none" \notin Aids /\ NoOne \notin Aids
    BY PlayersAssumption DEF PlayersInv, PlayersTyped
  <1>2. linkOf' # linkOf
    OBVIOUS
  <1>3. PlayersNext
    BY <1>2 DEF playerVars
  <1>4. CASE \E t \in clerks : InsertUser(t) \/ UpdateUserSptProfileId(t)
    <2>1. PICK t \in clerks : InsertUser(t) \/ UpdateUserSptProfileId(t)
      BY <1>4
    <2>2. linkOf' = [linkOf EXCEPT ![t.user] = t.aid] /\ t.user \in Players
      BY <1>2, <2>1 DEF InsertUser, UpdateUserSptProfileId, PlayersInv, PlayersTyped
    <2>3. t.user = u
      BY <1>1, <2>2
    <2>4. t.act = "join" \/ t.free = Players \ {u}
      BY <2>3 DEF PlayersInv, PlayersTyped, OthersWereFree
    <2>. QED BY <2>3, <2>4
  <1>5. CASE \E w \in Players : Unlink(w) \/ AccountGoes(w)
    BY <1>1, <1>5 DEF Unlink, AccountGoes
  <1>6. CASE UNCHANGED linkOf
    BY <1>2, <1>6
  <1>7. \/ \E t \in clerks : InsertUser(t) \/ UpdateUserSptProfileId(t)
        \/ \E w \in Players : Unlink(w) \/ AccountGoes(w)
        \/ UNCHANGED linkOf
    BY <1>3 DEF PlayersNext, RegisterProfile, LinkProfile, FirstRaid, Wipe, Leaves, Place, TablesLoad
  <1>. QED BY <1>4, <1>5, <1>6, <1>7

\* Whatever the game and the handlers do (src/src/spt/profiles.rs,
\* src/src/web/handlers/profiles.rs): no item comes to lie in itself, at any depth, so that
\* walk_stash_items ends, and links name profiles there may be.
THEOREM PlayersWellFormed == PlayersSpec => []PlayersTypeOK
  BY PlayersInitInv, PlayersNextInv, PlayersInvTypes, PTL DEF PlayersSpec

\* Nobody comes to share a profile but through a handler that found it free, or through a
\* registration; whatever the game does to the items, the totals on the pages of an
\* account agree, and no profile is lost from sight (src/src/web/handlers/admin.rs,
\* src/src/web/handlers/profiles.rs).
THEOREM ProfilesAre == PlayersSpec => ProfilesAgree
  <1>1. PlayersInit => PlayersInv
    BY PlayersInitInv
  <1>2. PlayersInv /\ [PlayersNext]_playerVars => PlayersInv'
    BY PlayersNextInv
  <1>3. PlayersInv /\ PlayersInv' /\ [PlayersNext]_playerVars
        => [/\ \A u, v \in Players :
                 (u # v /\ linkOf'[u] \in Aids /\ linkOf'[u] = linkOf'[v] /\ linkOf[u] # linkOf'[u])
                   => \E t \in clerks : t.user = u /\ (t.act = "join" \/ v \in t.free)
            /\ (clerks' = {} /\ linkOf' = linkOf => StashAddsUp')
            /\ OfferedOrShown']_playerVars
    <2>1. PlayersInv' => StashAddsUp' /\ OfferedOrShown'
      BY PlayersInvAddsUp, PlayersInvOffers, PTL
    <2>. QED BY <2>1, SharedByClerks DEF Shares
  <1>. QED BY <1>1, <1>2, <1>3, PTL DEF PlayersSpec, ProfilesAgree

------------------------------------------------------------------------------
(* quartermaster.toml                                                      *)


\* A thread that changes the file has loaded a copy of it, and a removal sets no
\* section.
CopiesAreThere ==
  \A t \in Threads : cfgAt[t] # "idle" =>
    cfgCopy[t] \in Copies /\ (t = Remover => cfgCopy[t].part = Unset)

\* One thread at a time changes the file, unless a removal met a save.
OneAtWork == \A t, u \in Threads : cfgAt[t] # "idle" /\ cfgAt[u] # "idle" => t = u

\* The file is empty while a thread writes it, and else it has what was saved last;
\* a copy has it too, but for the section that its thread edits.
BeingWritten == \E t \in Threads : cfgAt[t] = "writing"
FileIsSaved ==
  IF BeingWritten THEN cfgFile = Unset ELSE cfgFile \in Configs /\ cfgFile.sections = cfgSaved
CopiesAreSaved ==
  \A t \in Threads :
    /\ cfgAt[t] = "loaded" => cfgCopy[t].part = Unset
    /\ cfgAt[t] \in {"loaded", "edited", "writing"} =>
         \A s \in Sections : s # cfgCopy[t].part => cfgCopy[t].config.sections[s] = cfgSaved[s]

ConfigInv ==
  /\ ConfigTypeOK /\ CopiesAreThere
  /\ ~cfgBlemished => OneAtWork /\ FileIsSaved /\ CopiesAreSaved

\* The variables leave a configuration a configuration.
LEMMA EnvKeepsConfigs ==
  ASSUME NEW c \in Configs
  PROVE  /\ WithEnv(c) \in Configs
         /\ \A s \in Sections :
              WithEnv(c).sections[s] = IF EnvOf[s] = Unset THEN c.sections[s] ELSE EnvOf[s]
  <1>. DEFINE env == [s \in Sections |-> IF EnvOf[s] = Unset THEN c.sections[s] ELSE EnvOf[s]]
  <1>1. WithEnv(c) = [c EXCEPT !.sections = env]
    BY DEF WithEnv
  <1>2. env \in [Sections -> Values]
    BY ConfigAssumption DEF Configs
  <1>3. \A s \in Sections : env[s] = IF EnvOf[s] = Unset THEN c.sections[s] ELSE EnvOf[s]
    OBVIOUS
  <1>. HIDE DEF env
  <1>. QED BY <1>1, <1>2, <1>3 DEF Configs

LEMMA DefaultsAreConfigs == Defaults \in Configs
  BY ConfigAssumption DEF Defaults, Configs

LEMMA LoadsAreConfigs ==
  ASSUME ConfigTypeOK
  PROVE  Load \in Configs /\ (cfgFile \in Configs => Load = cfgFile)
  BY DefaultsAreConfigs, ConfigAssumption DEF Load, ConfigTypeOK

LEMMA ConfigInitInv == ConfigInit => ConfigInv
  <1>. SUFFICES ASSUME ConfigInit PROVE ConfigInv
    OBVIOUS
  <1>1. WithEnv(Defaults) \in Configs
    BY DefaultsAreConfigs, EnvKeepsConfigs
  <1>2. WithEnv(Defaults).sections \in [Sections -> Values]
    BY <1>1 DEF Configs
  <1>. QED
    BY <1>1, <1>2 DEF ConfigInit, ConfigInv, ConfigTypeOK, CopiesAreThere, OneAtWork, FileIsSaved,
                      BeingWritten, CopiesAreSaved

LEMMA SaverLoadsKeeps ==
  ASSUME ConfigInv, NEW h \in Savers, SaverLoads(h)
  PROVE  ConfigInv'
  <1>. DEFINE copy == [config |-> Load, part |-> Unset]
  <1>1. /\ Free /\ h \in Threads /\ h # Remover
        /\ cfgCopy' = [cfgCopy EXCEPT ![h] = copy]
        /\ cfgAt' = [cfgAt EXCEPT ![h] = "loaded"]
        /\ cfgBlemished' = (cfgBlemished \/ Meeting')
        /\ UNCHANGED <<cfgFile, cfgMemory, cfgSaved>>
    BY ConfigAssumption DEF SaverLoads, LockFree, Goes, Threads
  <1>2. copy \in Copies /\ copy.part = Unset /\ copy.config = Load
    BY LoadsAreConfigs DEF Copies, ConfigInv
  <1>. HIDE DEF copy
  <1>3. ConfigTypeOK' /\ CopiesAreThere'
    BY <1>1, <1>2 DEF ConfigInv, ConfigTypeOK, CopiesAreThere, Meeting
  <1>4. ASSUME ~cfgBlemished'
        PROVE  OneAtWork' /\ FileIsSaved' /\ CopiesAreSaved'
    <2>1. ~cfgBlemished /\ ~Meeting'
      BY <1>1, <1>4
    <2>2. \A t \in Threads : cfgAt[t] = "idle"
      <3>1. \A t \in Savers : cfgAt[t] = "idle"
        BY <1>1 DEF Free
      <3>2. ~Free'
        BY <1>1 DEF Free, ConfigInv, ConfigTypeOK
      <3>3. cfgAt'[Remover] = cfgAt[Remover]
        BY <1>1 DEF ConfigInv, ConfigTypeOK
      <3>. QED BY <2>1, <3>1, <3>2, <3>3 DEF Meeting, Threads
    <2>3. cfgFile \in Configs /\ cfgFile.sections = cfgSaved /\ Load = cfgFile
      BY <2>1, <2>2, LoadsAreConfigs DEF ConfigInv, FileIsSaved, BeingWritten
    <2>. QED
      BY <1>1, <1>2, <2>2, <2>3 DEF ConfigInv, ConfigTypeOK, OneAtWork, FileIsSaved, BeingWritten,
                                    CopiesAreSaved
  <1>. QED BY <1>3, <1>4 DEF ConfigInv

LEMMA SaverEditsKeeps ==
  ASSUME ConfigInv, NEW h \in Savers, SaverEdits(h)
  PROVE  ConfigInv'
  <1>1. /\ h \in Threads /\ h # Remover /\ cfgAt[h] = "loaded" /\ cfgCopy[h] \in Copies
        /\ cfgAt' = [cfgAt EXCEPT ![h] = "edited"]
        /\ cfgBlemished' = (cfgBlemished \/ Meeting')
        /\ UNCHANGED <<cfgFile, cfgMemory, cfgSaved>>
    BY ConfigAssumption DEF SaverEdits, Goes, Threads, ConfigInv, CopiesAreThere
  <1>2. PICK copy \in Copies :
          /\ cfgCopy' = [cfgCopy EXCEPT ![h] = copy]
          /\ \A s \in Sections : s # copy.part =>
               (s # cfgCopy[h].part => copy.config.sections[s] = cfgCopy[h].config.sections[s])
    <2>. DEFINE old == cfgCopy[h]
    <2>0. old \in Copies /\ old.config \in Configs
      BY <1>1 DEF Copies
    <2>1. ASSUME NEW s \in Sections, NEW v \in Values,
                 cfgCopy' = [cfgCopy EXCEPT ![h].config.sections[s] = v, ![h].part = s]
          PROVE  \E copy \in Copies :
                   /\ cfgCopy' = [cfgCopy EXCEPT ![h] = copy]
                   /\ \A z \in Sections : z # copy.part =>
                        (z # cfgCopy[h].part => copy.config.sections[z] = cfgCopy[h].config.sections[z])
      <3>. DEFINE secs == [old.config.sections EXCEPT ![s] = v]
                  config == [old.config EXCEPT !.sections = secs]
                  copy == [old EXCEPT !.config = config, !.part = s]
      <3>1. secs \in [Sections -> Values] /\ \A z \in Sections : z # s => secs[z] = old.config.sections[z]
        BY <2>0 DEF Configs
      <3>2. config \in Configs /\ config.sections = secs
        BY <2>0, <3>1 DEF Configs
      <3>3. copy \in Copies /\ copy.config = config /\ copy.part = s
        BY <2>0, <3>2 DEF Copies
      <3>4. cfgCopy' = [cfgCopy EXCEPT ![h] = copy]
        BY <2>1
      <3>. HIDE DEF secs, config, copy
      <3>5. \A z \in Sections : z # copy.part => copy.config.sections[z] = old.config.sections[z]
        BY <3>1, <3>2, <3>3
      <3>. QED BY <3>3, <3>4, <3>5
    <2>2. ASSUME NEW m \in GroupMods,
                 cfgCopy' = [cfgCopy EXCEPT ![h].config.members = @ \cup {m}]
          PROVE  \E copy \in Copies :
                   /\ cfgCopy' = [cfgCopy EXCEPT ![h] = copy]
                   /\ \A z \in Sections : z # copy.part =>
                        (z # cfgCopy[h].part => copy.config.sections[z] = cfgCopy[h].config.sections[z])
      <3>. DEFINE config == [old.config EXCEPT !.members = @ \cup {m}]
                  copy == [old EXCEPT !.config = config]
      <3>1. config \in Configs /\ config.sections = old.config.sections
        BY <2>0 DEF Configs
      <3>2. copy \in Copies /\ copy.config = config /\ copy.part = old.part
        BY <2>0, <3>1 DEF Copies
      <3>3. cfgCopy' = [cfgCopy EXCEPT ![h] = copy]
        BY <2>2
      <3>. HIDE DEF config, copy
      <3>. QED BY <3>1, <3>2, <3>3
    <2>. QED BY <2>1, <2>2 DEF SaverEdits
  <1>3. ConfigTypeOK' /\ CopiesAreThere'
    BY <1>1, <1>2 DEF ConfigInv, ConfigTypeOK, CopiesAreThere, Meeting
  <1>4. ASSUME ~cfgBlemished'
        PROVE  OneAtWork' /\ FileIsSaved' /\ CopiesAreSaved'
    <2>1. ~cfgBlemished
      BY <1>1, <1>4
    <2>2. BeingWritten' <=> BeingWritten
      BY <1>1 DEF BeingWritten, ConfigInv, ConfigTypeOK
    <2>3. CopiesAreSaved'
      <3>1. \A s \in Sections : s # cfgCopy[h].part => cfgCopy[h].config.sections[s] = cfgSaved[s]
        BY <1>1, <2>1 DEF ConfigInv, CopiesAreSaved
      <3>2. cfgCopy[h].part = Unset /\ Unset \notin Sections
        BY <1>1, <2>1, ConfigAssumption DEF ConfigInv, CopiesAreSaved
      <3>3. \A s \in Sections : s # copy.part => copy.config.sections[s] = cfgSaved[s]
        BY <1>2, <3>1, <3>2
      <3>4. cfgCopy'[h] = copy /\ cfgAt'[h] = "edited"
            /\ \A t \in Threads : t # h => cfgCopy'[t] = cfgCopy[t] /\ cfgAt'[t] = cfgAt[t]
        BY <1>1, <1>2 DEF ConfigInv, ConfigTypeOK
      <3>. QED BY <1>1, <2>1, <3>3, <3>4 DEF ConfigInv, CopiesAreSaved
    <2>. QED
      BY <1>1, <2>1, <2>2, <2>3 DEF ConfigInv, ConfigTypeOK, OneAtWork, FileIsSaved
  <1>. QED BY <1>3, <1>4 DEF ConfigInv

\* The file is emptied by the thread that has it open.
LEMMA TruncatesKeeps ==
  ASSUME ConfigInv, NEW t \in Threads, Truncates(t)
  PROVE  ConfigInv'
  <1>1. /\ cfgAt[t] = "edited"
        /\ cfgAt' = [cfgAt EXCEPT ![t] = "writing"]
        /\ cfgBlemished' = (cfgBlemished \/ Meeting')
        /\ cfgFile' = Unset
        /\ UNCHANGED <<cfgMemory, cfgCopy, cfgSaved>>
    BY DEF Truncates, Goes
  <1>2. ConfigTypeOK' /\ CopiesAreThere'
    BY <1>1 DEF ConfigInv, ConfigTypeOK, CopiesAreThere, Meeting
  <1>3. ASSUME ~cfgBlemished'
        PROVE  OneAtWork' /\ FileIsSaved' /\ CopiesAreSaved'
    BY <1>1, <1>3 DEF ConfigInv, ConfigTypeOK, OneAtWork, FileIsSaved, BeingWritten, CopiesAreSaved
  <1>. QED BY <1>2, <1>3 DEF ConfigInv

\* A write cut short: from here on the file promises nothing.
LEMMA WriteFailsKeeps ==
  ASSUME ConfigInv, NEW t \in Threads, WriteFails(t)
  PROVE  ConfigInv'
  <1>1. ConfigTypeOK' /\ CopiesAreThere'
    BY DEF WriteFails, ConfigInv, ConfigTypeOK, CopiesAreThere
  <1>. QED BY <1>1 DEF WriteFails, ConfigInv

LEMMA SaverWritesKeeps ==
  ASSUME ConfigInv, NEW h \in Savers, SaverWrites(h)
  PROVE  ConfigInv'
  <1>. DEFINE saved == [s \in Sections |->
                IF s = cfgCopy[h].part THEN cfgCopy[h].config.sections[s] ELSE cfgSaved[s]]
  <1>1. /\ h \in Threads /\ cfgAt[h] = "writing" /\ cfgCopy[h] \in Copies
        /\ cfgAt' = [cfgAt EXCEPT ![h] = "written"]
        /\ cfgBlemished' = (cfgBlemished \/ Meeting')
        /\ cfgFile' = cfgCopy[h].config /\ cfgSaved' = saved
        /\ UNCHANGED <<cfgMemory, cfgCopy>>
    BY DEF SaverWrites, Goes, Threads, ConfigInv, CopiesAreThere
  <1>2. cfgCopy[h].config \in Configs /\ cfgCopy[h].config.sections \in [Sections -> Values]
    BY <1>1 DEF Copies, Configs
  <1>3. saved \in [Sections -> Values]
    BY <1>2 DEF ConfigInv, ConfigTypeOK
  <1>4. ASSUME ~cfgBlemished, NEW s \in Sections
        PROVE  cfgCopy[h].config.sections[s] = saved[s]
    BY <1>1, <1>4 DEF ConfigInv, CopiesAreSaved
  <1>. HIDE DEF saved
  <1>5. ConfigTypeOK' /\ CopiesAreThere'
    BY <1>1, <1>2, <1>3 DEF ConfigInv, ConfigTypeOK, CopiesAreThere, Meeting
  <1>6. ASSUME ~cfgBlemished'
        PROVE  OneAtWork' /\ FileIsSaved' /\ CopiesAreSaved'
    <2>1. ~cfgBlemished
      BY <1>1, <1>6
    <2>2. OneAtWork' /\ \A t \in Threads : t # h => cfgAt'[t] = "idle"
      BY <1>1, <2>1 DEF ConfigInv, ConfigTypeOK, OneAtWork
    <2>3. ~BeingWritten' /\ CopiesAreSaved'
      BY <1>1, <2>2 DEF BeingWritten, CopiesAreSaved, ConfigInv, ConfigTypeOK
    <2>4. cfgFile'.sections = cfgSaved'
      BY <1>1, <1>2, <1>3, <1>4, <2>1
    <2>. QED BY <1>1, <1>2, <2>2, <2>3, <2>4 DEF FileIsSaved
  <1>. QED BY <1>5, <1>6 DEF ConfigInv

LEMMA SaverReloadsKeeps ==
  ASSUME ConfigInv, NEW h \in Savers, SaverReloads(h)
  PROVE  ConfigInv'
  <1>1. /\ h \in Threads /\ cfgAt[h] = "written"
        /\ cfgAt' = [cfgAt EXCEPT ![h] = "idle"]
        /\ cfgCopy' = [cfgCopy EXCEPT ![h] = Unset]
        /\ cfgBlemished' = (cfgBlemished \/ Meeting')
        /\ cfgMemory' = WithEnv(Load)
        /\ UNCHANGED <<cfgFile, cfgSaved>>
    BY DEF SaverReloads, Reload, Goes, Threads
  <1>2. WithEnv(Load) \in Configs
    BY LoadsAreConfigs, EnvKeepsConfigs DEF ConfigInv
  <1>3. ConfigTypeOK' /\ CopiesAreThere'
    BY <1>1, <1>2 DEF ConfigInv, ConfigTypeOK, CopiesAreThere, Meeting
  <1>4. ASSUME ~cfgBlemished'
        PROVE  OneAtWork' /\ FileIsSaved' /\ CopiesAreSaved'
    <2>1. BeingWritten' <=> BeingWritten
      BY <1>1 DEF BeingWritten, ConfigInv, ConfigTypeOK
    <2>. QED
      BY <1>1, <1>4, <2>1 DEF ConfigInv, ConfigTypeOK, OneAtWork, FileIsSaved, CopiesAreSaved
  <1>. QED BY <1>3, <1>4 DEF ConfigInv

LEMMA RemoverLoadsKeeps ==
  ASSUME ConfigInv, RemoverLoads
  PROVE  ConfigInv'
  <1>1. PICK m \in Load.members :
          cfgCopy' = [cfgCopy EXCEPT ![Remover] =
            [config |-> [Load EXCEPT !.members = @ \ {m}], part |-> Unset]]
    BY DEF RemoverLoads
  <1>. DEFINE config == [Load EXCEPT !.members = @ \ {m}]
              copy == [config |-> config, part |-> Unset]
  <1>2. config \in Configs /\ config.sections = Load.sections
    BY LoadsAreConfigs DEF Configs, ConfigInv
  <1>3. copy \in Copies /\ copy.part = Unset /\ copy.config = config
    BY <1>2 DEF Copies
  <1>4. cfgCopy' = [cfgCopy EXCEPT ![Remover] = copy]
    BY <1>1
  <1>. HIDE DEF config, copy
  <1>5. /\ Remover \in Threads /\ Remover \notin Savers /\ cfgAt[Remover] = "idle"
        /\ cfgAt' = [cfgAt EXCEPT ![Remover] = "edited"]
        /\ cfgBlemished' = (cfgBlemished \/ Meeting')
        /\ UNCHANGED <<cfgFile, cfgMemory, cfgSaved>>
    BY ConfigAssumption DEF RemoverLoads, Goes, Threads
  <1>6. ConfigTypeOK' /\ CopiesAreThere'
    BY <1>3, <1>4, <1>5 DEF ConfigInv, ConfigTypeOK, CopiesAreThere, Meeting
  <1>7. ASSUME ~cfgBlemished'
        PROVE  OneAtWork' /\ FileIsSaved' /\ CopiesAreSaved'
    <2>1. ~cfgBlemished /\ Free'
      BY <1>5, <1>7 DEF Meeting, ConfigInv, ConfigTypeOK
    <2>2. \A t \in Threads : cfgAt[t] = "idle"
      BY <1>5, <2>1 DEF Free, Threads, ConfigInv, ConfigTypeOK
    <2>3. cfgFile \in Configs /\ cfgFile.sections = cfgSaved /\ Load = cfgFile
      BY <2>1, <2>2, LoadsAreConfigs DEF ConfigInv, FileIsSaved, BeingWritten
    <2>. QED
      BY <1>2, <1>3, <1>4, <1>5, <2>2, <2>3
         DEF ConfigInv, ConfigTypeOK, OneAtWork, FileIsSaved, BeingWritten, CopiesAreSaved
  <1>. QED BY <1>6, <1>7 DEF ConfigInv

LEMMA RemoverWritesKeeps ==
  ASSUME ConfigInv, RemoverWrites
  PROVE  ConfigInv'
  <1>1. /\ Remover \in Threads /\ cfgAt[Remover] = "writing"
        /\ cfgCopy[Remover] \in Copies /\ cfgCopy[Remover].part = Unset
        /\ cfgAt' = [cfgAt EXCEPT ![Remover] = "idle"]
        /\ cfgCopy' = [cfgCopy EXCEPT ![Remover] = Unset]
        /\ cfgBlemished' = (cfgBlemished \/ Meeting')
        /\ cfgFile' = cfgCopy[Remover].config
        /\ UNCHANGED <<cfgMemory, cfgSaved>>
    BY DEF RemoverWrites, Goes, Threads, ConfigInv, CopiesAreThere
  <1>2. cfgCopy[Remover].config \in Configs
        /\ cfgCopy[Remover].config.sections \in [Sections -> Values]
    BY <1>1 DEF Copies, Configs
  <1>3. ConfigTypeOK' /\ CopiesAreThere'
    BY <1>1, <1>2 DEF ConfigInv, ConfigTypeOK, CopiesAreThere, Meeting
  <1>4. ASSUME ~cfgBlemished'
        PROVE  OneAtWork' /\ FileIsSaved' /\ CopiesAreSaved'
    <2>1. ~cfgBlemished
      BY <1>1, <1>4
    <2>2. OneAtWork' /\ \A t \in Threads : cfgAt'[t] = "idle"
      BY <1>1, <2>1 DEF ConfigInv, ConfigTypeOK, OneAtWork
    <2>3. ~BeingWritten' /\ CopiesAreSaved'
      BY <2>2 DEF BeingWritten, CopiesAreSaved
    <2>4. \A s \in Sections : cfgCopy[Remover].config.sections[s] = cfgSaved[s]
      BY <1>1, <2>1, ConfigAssumption DEF ConfigInv, CopiesAreSaved
    <2>5. cfgFile'.sections = cfgSaved'
      BY <1>1, <1>2, <2>4 DEF ConfigInv, ConfigTypeOK
    <2>. QED BY <1>1, <1>2, <2>2, <2>3, <2>5 DEF FileIsSaved
  <1>. QED BY <1>3, <1>4 DEF ConfigInv

LEMMA ConfigRestartKeeps ==
  ASSUME ConfigInv, ConfigRestart
  PROVE  ConfigInv'
  <1>1. /\ cfgFile' = WithEnv(Load) /\ cfgMemory' = WithEnv(Load)
        /\ WithEnv(Load) \in Configs /\ Load \in Configs
        /\ \A t \in Threads : cfgAt'[t] = "idle"
        /\ cfgBlemished' = (cfgBlemished \/ cfgFile = Unset)
    BY LoadsAreConfigs, EnvKeepsConfigs DEF ConfigRestart, ConfigInv
  <1>2. /\ cfgSaved' \in [Sections -> Values]
        /\ \A s \in Sections : cfgSaved'[s] = IF EnvOf[s] = Unset THEN cfgSaved[s] ELSE EnvOf[s]
    BY ConfigAssumption DEF ConfigRestart, ConfigInv, ConfigTypeOK
  <1>3. ConfigTypeOK' /\ CopiesAreThere'
    BY <1>1, <1>2 DEF ConfigRestart, ConfigInv, ConfigTypeOK, CopiesAreThere
  <1>4. ASSUME ~cfgBlemished'
        PROVE  OneAtWork' /\ FileIsSaved' /\ CopiesAreSaved'
    <2>1. cfgFile \in Configs /\ cfgFile.sections = cfgSaved /\ Load = cfgFile
      BY <1>1, <1>4, LoadsAreConfigs DEF ConfigInv, FileIsSaved
    <2>2. \A s \in Sections : cfgFile'.sections[s] = cfgSaved'[s]
      BY <1>1, <1>2, <2>1, EnvKeepsConfigs
    <2>3. cfgFile'.sections \in [Sections -> Values]
      BY <1>1 DEF Configs
    <2>4. cfgFile'.sections = cfgSaved'
      BY <1>2, <2>2, <2>3
    <2>. QED BY <1>1, <2>4 DEF OneAtWork, FileIsSaved, BeingWritten, CopiesAreSaved
  <1>. QED BY <1>3, <1>4 DEF ConfigInv

LEMMA ConfigNextInv == ConfigInv /\ [ConfigNext]_configVars => ConfigInv'
  <1>. SUFFICES ASSUME ConfigInv, [ConfigNext]_configVars PROVE ConfigInv'
    OBVIOUS
  <1>1. ASSUME UNCHANGED configVars PROVE ConfigInv'
    BY <1>1 DEF configVars, ConfigInv, ConfigTypeOK, CopiesAreThere, OneAtWork, FileIsSaved,
                BeingWritten, CopiesAreSaved
  <1>. QED
    BY <1>1, SaverLoadsKeeps, SaverEditsKeeps, SaverWritesKeeps, SaverReloadsKeeps, TruncatesKeeps,
       WriteFailsKeeps, RemoverLoadsKeeps, RemoverWritesKeeps, ConfigRestartKeeps DEF ConfigNext

\* The file, its copy in memory and the copies of the threads are configurations.
THEOREM ConfigTyped == ConfigSpec => []ConfigTypeOK
  <1>1. ConfigInv => ConfigTypeOK
    BY DEF ConfigInv
  <1>. QED BY <1>1, ConfigInitInv, ConfigNextInv, PTL DEF ConfigSpec

\* Unless a removal met a save or a write was cut short, the file has what every
\* form wrote last, for any number of forms, threads and restarts.
THEOREM SettingsStay == ConfigSpec => []SavedStays
  <1>1. ConfigInv => SavedStays
    BY DEF ConfigInv, SavedStays, FileIsSaved
  <1>. QED BY <1>1, ConfigInitInv, ConfigNextInv, PTL DEF ConfigSpec

------------------------------------------------------------------------------
(* The files of the mods                                                   *)


\* What an editor works with: the versions it read, and what the first steps of a
\* snapshot leave for the later ones.
Handed(e) ==
  /\ editAt[e] # "idle" => editJob[e] \in Jobs
  /\ editAt[e] \in {"addFirst", "add"} => editTree \in Contents
  /\ editAt[e] \in {"commitFirst", "commit"} => editStage \in Contents

\* As long as nothing is committed, only first snapshots are under way, and what they
\* carry is the original.
FirstIsOriginal(e) ==
  /\ editAt[e] = "treeFirst" => editJob[e].before = Original
  /\ editAt[e] \in {"persist", "tree", "add", "commit"} => Tracked
  /\ ~Tracked /\ editAt[e] = "addFirst" => editTree = Original
  /\ ~Tracked /\ editAt[e] = "commitFirst" => editStage = Original

EditInv ==
  /\ EditTypeOK /\ history \in Seq(Contents)
  /\ \A e \in Editors : Handed(e) /\ FirstIsOriginal(e)
  /\ ~editTouched => editDisk = Original
  /\ editTouched => Tracked
  /\ Tracked => Original \in Range(history)

\* A version more: the history keeps what it has, and gets what is committed.
LEMMA AppendKeeps ==
  ASSUME NEW h \in Seq(Contents), NEW c \in Contents
  PROVE  /\ Append(h, c) \in Seq(Contents) /\ Append(h, c) # <<>>
         /\ Range(h) \subseteq Range(Append(h, c)) /\ c \in Range(Append(h, c))
         /\ Range(Append(h, c)) \subseteq Contents
         /\ Len(Append(h, c)) = Len(h) + 1
  <1>1. /\ Append(h, c) \in Seq(Contents) /\ Len(Append(h, c)) = Len(h) + 1
        /\ Len(h) \in Nat /\ DOMAIN h = 1..Len(h)
        /\ DOMAIN Append(h, c) = 1..(Len(h) + 1)
        /\ Append(h, c)[Len(h) + 1] = c
        /\ \A i \in 1..Len(h) : Append(h, c)[i] = h[i]
    OBVIOUS
  <1>2. Append(h, c) # <<>>
    BY <1>1
  <1>3. Len(h) + 1 \in DOMAIN Append(h, c)
    BY <1>1
  <1>4. \A i \in DOMAIN Append(h, c) : Append(h, c)[i] \in Contents
    BY <1>1
  <1>. HIDE <1>4
  <1>5. Range(h) \subseteq Range(Append(h, c)) /\ c \in Range(Append(h, c))
    BY <1>1, <1>3 DEF Range
  <1>6. Range(Append(h, c)) \subseteq Contents
    BY <1>4 DEF Range
  <1>. QED BY <1>1, <1>2, <1>5, <1>6

LEMMA EditInitInv == EditInit => EditInv
  <1>. SUFFICES ASSUME EditInit PROVE EditInv
    OBVIOUS
  <1>1. history = <<>> /\ ~Tracked /\ history \in Seq(Contents) /\ Len(history) = 0
    BY DEF EditInit, Tracked
  <1>2. Range(history) = {}
    BY <1>1 DEF Range
  <1>3. EditTypeOK
    <2>1. editAt \in [Editors -> EditSteps] /\ editJob \in [Editors -> Jobs \cup {Blank}]
      BY DEF EditInit, EditSteps
    <2>2. Range(history) \subseteq Contents /\ Len(history) <= MaxRevs
      BY <1>1, <1>2, ModConfigsAssumption
    <2>3. editDisk \in Contents /\ {editTree, editStage} \subseteq Contents \cup {Blank}
          /\ editTouched \in BOOLEAN
      BY ModConfigsAssumption DEF EditInit
    <2>. QED BY <2>1, <2>2, <2>3 DEF EditTypeOK
  <1>4. \A e \in Editors : editAt[e] = "idle"
    BY DEF EditInit
  <1>5. \A e \in Editors : Handed(e) /\ FirstIsOriginal(e)
    BY <1>4 DEF Handed, FirstIsOriginal
  <1>6. editDisk = Original /\ editTouched = FALSE
    BY DEF EditInit
  <1>. QED BY <1>1, <1>3, <1>5, <1>6 DEF EditInv

\* One editor goes to its next step.
LEMMA OneMoves ==
  ASSUME EditInv, NEW e \in Editors, NEW from, NEW to \in EditSteps, At(e, from, to)
  PROVE  /\ editAt[e] = from
         /\ editAt' \in [Editors -> EditSteps] /\ editAt'[e] = to
         /\ \A d \in Editors : d # e => editAt'[d] = editAt[d]
  BY DEF At, EditInv, EditTypeOK

LEMMA SaveReadsKeeps ==
  ASSUME EditInv, NEW e \in Editors, NEW c \in Contents, SaveReads(e, c)
  PROVE  EditInv'
  <1>. DEFINE job == [content |-> c, before |-> editDisk]
              to == IF Tracked THEN "persist" ELSE "treeFirst"
  <1>1. to \in EditSteps /\ At(e, "idle", to)
    BY DEF SaveReads, EditSteps
  <1>2. /\ editAt' \in [Editors -> EditSteps] /\ editAt'[e] = to
        /\ \A d \in Editors : d # e => editAt'[d] = editAt[d]
    BY <1>1, OneMoves
  <1>3. job \in Jobs /\ job.before = editDisk
    BY DEF EditInv, EditTypeOK, Jobs
  <1>4. /\ editJob' = [editJob EXCEPT ![e] = job]
        /\ UNCHANGED <<editDisk, editTree, editStage, history, editTouched>>
    BY DEF SaveReads
  <1>5. ~Tracked => editDisk = Original
    BY DEF EditInv
  <1>6. (Tracked => to = "persist") /\ (~Tracked => to = "treeFirst")
    OBVIOUS
  <1>. HIDE DEF job, to
  <1>7. EditTypeOK'
    BY <1>2, <1>3, <1>4 DEF EditInv, EditTypeOK
  <1>8. ASSUME NEW d \in Editors PROVE Handed(d)' /\ FirstIsOriginal(d)'
    <2>1. CASE d = e
      BY <1>2, <1>3, <1>4, <1>5, <1>6, <2>1
         DEF EditInv, EditTypeOK, Handed, FirstIsOriginal, Tracked
    <2>2. CASE d # e
      BY <1>2, <1>4, <2>2 DEF EditInv, EditTypeOK, Handed, FirstIsOriginal, Tracked
    <2>. QED BY <2>1, <2>2
  <1>. QED BY <1>4, <1>7, <1>8 DEF EditInv, Tracked

LEMMA RestoreReadsKeeps ==
  ASSUME EditInv, NEW e \in Editors, RestoreReads(e)
  PROVE  EditInv'
  <1>1. PICK i \in DOMAIN history :
          editJob' = [editJob EXCEPT ![e] = [content |-> history[i], before |-> history[i]]]
    BY DEF RestoreReads
  <1>. DEFINE job == [content |-> history[i], before |-> history[i]]
  <1>2. job \in Jobs
    BY DEF EditInv, Jobs
  <1>3. Tracked
    BY DEF Tracked
  <1>4. editJob' = [editJob EXCEPT ![e] = job]
        /\ UNCHANGED <<editDisk, editTree, editStage, history, editTouched>>
    BY <1>1 DEF RestoreReads
  <1>. HIDE DEF job
  <1>5. /\ editAt' \in [Editors -> EditSteps] /\ editAt'[e] = "persist"
        /\ \A d \in Editors : d # e => editAt'[d] = editAt[d]
    BY OneMoves DEF RestoreReads, EditSteps
  <1>6. EditTypeOK'
    BY <1>2, <1>4, <1>5 DEF EditInv, EditTypeOK
  <1>7. ASSUME NEW d \in Editors PROVE Handed(d)' /\ FirstIsOriginal(d)'
    <2>1. CASE d = e
      BY <1>2, <1>3, <1>4, <1>5, <2>1 DEF EditInv, EditTypeOK, Handed, FirstIsOriginal, Tracked
    <2>2. CASE d # e
      BY <1>4, <1>5, <2>2 DEF EditInv, EditTypeOK, Handed, FirstIsOriginal, Tracked
    <2>. QED BY <2>1, <2>2
  <1>. QED BY <1>4, <1>6, <1>7 DEF EditInv, Tracked

\* A move from one step to another, with what the editor's next steps rely on.
LEMMA MoveKeeps ==
  ASSUME EditInv, NEW e \in Editors, NEW from \in EditSteps, NEW to \in EditSteps, At(e, from, to),
         editJob' = editJob, from # "idle" \/ to = "idle", to # "treeFirst",
         \A d \in Editors : d # e /\ editAt[d] \in {"addFirst", "add"} =>
             editTree' \in Contents /\ (~Tracked' /\ editAt[d] = "addFirst" => editTree' = Original),
         \A d \in Editors : d # e /\ editAt[d] \in {"commitFirst", "commit"} =>
             editStage' \in Contents /\ (~Tracked' /\ editAt[d] = "commitFirst" => editStage' = Original),
         Tracked => Tracked',
         to \in {"addFirst", "add"} =>
             editTree' \in Contents /\ (~Tracked' /\ to = "addFirst" => editTree' = Original),
         to \in {"commitFirst", "commit"} =>
             editStage' \in Contents /\ (~Tracked' /\ to = "commitFirst" => editStage' = Original),
         to \in {"persist", "tree", "add", "commit"} => Tracked'
  PROVE  /\ editAt' \in [Editors -> EditSteps]
         /\ \A d \in Editors : Handed(d)' /\ FirstIsOriginal(d)'
  <1>1. /\ editAt' \in [Editors -> EditSteps] /\ editAt'[e] = to /\ editAt[e] = from
        /\ \A d \in Editors : d # e => editAt'[d] = editAt[d]
    BY OneMoves
  <1>2. ASSUME NEW d \in Editors PROVE Handed(d)' /\ FirstIsOriginal(d)'
    <2>1. CASE d = e
      BY <1>1, <2>1 DEF EditInv, Handed, FirstIsOriginal
    <2>2. CASE d # e
      BY <1>1, <2>2 DEF EditInv, Handed, FirstIsOriginal
    <2>. QED BY <2>1, <2>2
  <1>. QED BY <1>1, <1>2

LEMMA PersistKeeps ==
  ASSUME EditInv, NEW e \in Editors, Persist(e)
  PROVE  EditInv'
  <1>1. /\ At(e, "persist", "tree") /\ editDisk' = editJob[e].content /\ editTouched' = TRUE
        /\ UNCHANGED <<editTree, editStage, history, editJob>>
        /\ editAt[e] = "persist"
    BY DEF Persist, At
  <1>2. Tracked /\ editJob[e] \in Jobs /\ (Tracked' <=> Tracked)
    BY <1>1 DEF EditInv, Handed, FirstIsOriginal, Tracked
  <1>3. editDisk' \in Contents
    BY <1>1, <1>2 DEF Jobs
  <1>4. /\ editAt' \in [Editors -> EditSteps]
        /\ \A d \in Editors : Handed(d)' /\ FirstIsOriginal(d)'
    <2>. "persist" \in EditSteps /\ "tree" \in EditSteps
      BY DEF EditSteps
    <2>. QED BY <1>1, <1>2, MoveKeeps DEF EditInv, Handed, FirstIsOriginal
  <1>. QED BY <1>1, <1>2, <1>3, <1>4 DEF EditInv, EditTypeOK, Tracked

LEMMA WriteTreeKeeps ==
  ASSUME EditInv, NEW e \in Editors, WriteTree(e)
  PROVE  EditInv'
  <1>. DEFINE from == editAt[e]
              to == editAt'[e]
  <1>1. /\ \/ from = "treeFirst" /\ to = "addFirst" /\ editTree' = editJob[e].before
           \/ from = "tree" /\ to = "add" /\ editTree' = editJob[e].content
        /\ At(e, from, to)
        /\ UNCHANGED <<editDisk, editStage, history, editJob, editTouched>>
    BY DEF WriteTree, At, EditInv, EditTypeOK
  <1>2. editJob[e] \in Jobs
    BY <1>1 DEF EditInv, Handed
  <1>3. editTree' \in Contents /\ (~Tracked => from = "treeFirst" /\ editTree' = Original)
    BY <1>1, <1>2 DEF Jobs, EditInv, FirstIsOriginal
  <1>4. Tracked' <=> Tracked
    BY <1>1 DEF Tracked
  <1>5. from \in EditSteps /\ to \in EditSteps
    BY <1>1 DEF EditSteps
  <1>6. from = "tree" => Tracked
    BY DEF EditInv, FirstIsOriginal
  <1>7. \A d \in Editors : editAt[d] \in {"commitFirst", "commit"} =>
          editStage' \in Contents /\ (~Tracked' /\ editAt[d] = "commitFirst" => editStage' = Original)
    BY <1>1, <1>4 DEF EditInv, Handed, FirstIsOriginal
  <1>. HIDE DEF from, to
  <1>8. /\ editAt' \in [Editors -> EditSteps]
        /\ \A d \in Editors : Handed(d)' /\ FirstIsOriginal(d)'
    BY <1>1, <1>3, <1>4, <1>5, <1>6, <1>7, MoveKeeps
  <1>. QED BY <1>1, <1>3, <1>4, <1>8 DEF EditInv, EditTypeOK, Tracked

LEMMA AddKeeps ==
  ASSUME EditInv, NEW e \in Editors, Add(e)
  PROVE  EditInv'
  <1>. DEFINE from == editAt[e]
              to == editAt'[e]
  <1>1. /\ \/ from = "addFirst" /\ to = "commitFirst"
           \/ from = "add" /\ to = "commit"
        /\ At(e, from, to) /\ editStage' = editTree
        /\ UNCHANGED <<editDisk, editTree, history, editJob, editTouched>>
    BY DEF Add, At, EditInv, EditTypeOK
  <1>2. Tracked' <=> Tracked
    BY <1>1 DEF Tracked
  <1>3. editStage' \in Contents /\ (~Tracked => from = "addFirst" /\ editStage' = Original)
        /\ (from = "add" => Tracked)
    BY <1>1 DEF EditInv, Handed, FirstIsOriginal
  <1>4. from \in EditSteps /\ to \in EditSteps
    BY <1>1 DEF EditSteps
  <1>5. \A d \in Editors : editAt[d] \in {"addFirst", "add"} =>
          editTree' \in Contents /\ (~Tracked' /\ editAt[d] = "addFirst" => editTree' = Original)
    BY <1>1, <1>2 DEF EditInv, Handed, FirstIsOriginal
  <1>. HIDE DEF from, to
  <1>6. /\ editAt' \in [Editors -> EditSteps]
        /\ \A d \in Editors : Handed(d)' /\ FirstIsOriginal(d)'
    BY <1>1, <1>2, <1>3, <1>4, <1>5, MoveKeeps
  <1>. QED BY <1>1, <1>2, <1>3, <1>6 DEF EditInv, EditTypeOK, Tracked

\* The first commit has the original, every later one keeps it.
LEMMA CommitKeeps ==
  ASSUME EditInv, NEW e \in Editors, Commit(e)
  PROVE  EditInv'
  <1>. DEFINE from == editAt[e]
              to == editAt'[e]
  <1>1. /\ \/ from = "commitFirst" /\ to = "persist"
           \/ from = "commit" /\ to = "idle"
        /\ At(e, from, to) /\ Committed
        /\ UNCHANGED <<editDisk, editTree, editStage, editJob, editTouched>>
    BY DEF Commit, At, EditInv, EditTypeOK
  <1>2. editStage \in Contents /\ (~Tracked => editStage = Original)
    BY <1>1 DEF EditInv, Handed, FirstIsOriginal
  <1>3. /\ history' \in Seq(Contents) /\ history' # <<>>
        /\ Range(history') \subseteq Contents /\ Len(history') <= MaxRevs
        /\ Original \in Range(history')
    <2>1. CASE Tracked /\ history' = history
      BY <2>1 DEF EditInv, EditTypeOK, Tracked
    <2>2. CASE history' = Append(history, editStage)
      <3>1. /\ history' \in Seq(Contents) /\ history' # <<>>
            /\ Range(history) \subseteq Range(history') /\ editStage \in Range(history')
            /\ Range(history') \subseteq Contents /\ Len(history') = Len(history) + 1
        BY <1>2, <2>2, AppendKeeps DEF EditInv
      <3>2. Len(history) < MaxRevs /\ Len(history) \in Nat
        BY <1>1 DEF Committed, EditInv
      <3>3. Original \in Range(history')
        BY <1>2, <3>1 DEF EditInv
      <3>4. Len(history') <= MaxRevs
        BY <3>1, <3>2, ModConfigsAssumption
      <3>. QED BY <3>1, <3>3, <3>4
    <2>. QED BY <1>1, <2>1, <2>2 DEF Committed
  <1>4. Tracked'
    BY <1>3 DEF Tracked
  <1>5. from \in EditSteps /\ to \in EditSteps
    BY <1>1 DEF EditSteps
  <1>6. /\ \A d \in Editors : editAt[d] \in {"addFirst", "add"} => editTree' \in Contents
        /\ \A d \in Editors : editAt[d] \in {"commitFirst", "commit"} => editStage' \in Contents
    BY <1>1 DEF EditInv, Handed
  <1>. HIDE DEF from, to
  <1>7. /\ editAt' \in [Editors -> EditSteps]
        /\ \A d \in Editors : Handed(d)' /\ FirstIsOriginal(d)'
    BY <1>1, <1>4, <1>5, <1>6, MoveKeeps
  <1>8. Range(history)' = Range(history')
    BY DEF Range
  <1>. QED BY <1>1, <1>2, <1>3, <1>4, <1>7, <1>8 DEF EditInv, EditTypeOK

LEMMA SnapshotFailsKeeps ==
  ASSUME EditInv, NEW e \in Editors, SnapshotFails(e)
  PROVE  EditInv'
  <1>1. /\ At(e, editAt[e], "idle") /\ editAt[e] # "idle"
        /\ editAt[e] \in EditSteps /\ "idle" \in EditSteps
        /\ UNCHANGED <<editDisk, editTree, editStage, history, editJob, editTouched>>
    BY DEF SnapshotFails, At, EditSteps
  <1>2. Tracked' <=> Tracked
    BY <1>1 DEF Tracked
  <1>3. /\ editAt' \in [Editors -> EditSteps]
        /\ \A d \in Editors : Handed(d)' /\ FirstIsOriginal(d)'
    BY <1>1, <1>2, MoveKeeps DEF EditInv, Handed, FirstIsOriginal
  <1>. QED BY <1>1, <1>2, <1>3 DEF EditInv, EditTypeOK, Tracked

LEMMA WriteOutsideKeeps ==
  ASSUME EditInv, NEW c \in Contents, WriteOutside(c)
  PROVE  EditInv'
  BY DEF WriteOutside, EditInv, EditTypeOK, Handed, FirstIsOriginal, Tracked

LEMMA EditCrashKeeps ==
  ASSUME EditInv, EditCrash
  PROVE  EditInv'
  <1>1. /\ \A d \in Editors : editAt'[d] = "idle"
        /\ editAt' \in [Editors -> EditSteps]
        /\ UNCHANGED <<editDisk, editTree, editStage, history, editJob, editTouched>>
    BY DEF EditCrash, EditSteps
  <1>. QED BY <1>1 DEF EditInv, EditTypeOK, Handed, FirstIsOriginal, Tracked

LEMMA EditNextInv == EditInv /\ [EditNext]_editVars => EditInv'
  <1>. SUFFICES ASSUME EditInv, [EditNext]_editVars PROVE EditInv'
    OBVIOUS
  <1>1. ASSUME UNCHANGED editVars PROVE EditInv'
    BY <1>1 DEF editVars, EditInv, EditTypeOK, Handed, FirstIsOriginal, Tracked
  <1>. QED
    BY <1>1, SaveReadsKeeps, RestoreReadsKeeps, PersistKeeps, WriteTreeKeeps, AddKeeps, CommitKeeps,
       SnapshotFailsKeeps, WriteOutsideKeeps, EditCrashKeeps DEF EditNext

\* The file, its two copies and the history hold contents, and the steps are steps.
THEOREM EditTyped == EditSpec => []EditTypeOK
  <1>1. EditInv => EditTypeOK
    BY DEF EditInv
  <1>. QED BY <1>1, EditInitInv, EditNextInv, PTL DEF EditSpec

\* Once a file was replaced its history has what the mod came with, for any number of
\* editors and however their steps mix, fail or are cut short.
THEOREM OriginalStays == EditSpec => []OriginalIsKept
  <1>1. EditInv => OriginalIsKept
    BY DEF EditInv, OriginalIsKept
  <1>. QED BY <1>1, EditInitInv, EditNextInv, PTL DEF EditSpec

------------------------------------------------------------------------------
(* The sync groups                                                         *)

\* Groups as every file has them: a mod is in one at most.
GroupMap(g) == DOMAIN g \subseteq Slugs /\ \A s \in DOMAIN g : g[s] \in SyncGroup
In(g, m) == {s \in DOMAIN g : m \in g[s].members}
Apart(g) == \A m \in SyncMods : \A s, t \in In(g, m) : s = t
Plain(g) == NoHeadless \in DOMAIN g => g[NoHeadless].headless = FALSE
FileOK(c) ==
  /\ c = [flag |-> c.flag, overrides |-> c.overrides, groups |-> c.groups]
  /\ c.flag \in Settings /\ c.overrides \in [SyncMods -> Flags \cup {"none"}]
  /\ GroupMap(c.groups) /\ Apart(c.groups) /\ Plain(c.groups)
GroupsInv == FileOK(syncFile) /\ clientMods \subseteq SyncMods

LEMMA GroupsFields ==
  /\ \A g \in SyncGroup : g.members \subseteq SyncMods /\ g.flag \in Flags /\ g.headless \in BOOLEAN
  /\ \A S \in SUBSET SyncMods, f \in Flags, h \in BOOLEAN :
       LET g == [members |-> S, flag |-> f, headless |-> h] IN
       g \in SyncGroup /\ g.members = S /\ g.flag = f /\ g.headless = h
  /\ \A g \in SyncGroup, f \in Flags : LET h == [g EXCEPT !.flag = f] IN
       h \in SyncGroup /\ h.members = g.members /\ h.flag = f /\ h.headless = g.headless
  /\ \A g \in SyncGroup : \A m : LET h == [g EXCEPT !.members = @ \ {m}] IN
       h \in SyncGroup /\ h.members = g.members \ {m} /\ h.flag = g.flag /\ h.headless = g.headless
  /\ \A g \in SyncGroup : LET h == [g EXCEPT !.headless = FALSE] IN
       h \in SyncGroup /\ h.members = g.members /\ h.flag = g.flag /\ h.headless = FALSE
  /\ Inherit \in Flags /\ \A f, o \in Flags : Overlaid(f, o) \in Flags
  /\ \A m \in SyncMods : SplitSlug[m] \in Slugs /\ SplitSlug[m] # NoHeadless /\ SplitSlug[m] # Catchall
  <1>1. \A m \in SyncMods : SplitSlug[m] \in Slugs /\ SplitSlug[m] # NoHeadless /\ SplitSlug[m] # Catchall
    BY GroupsAssumption DEF SplitSlugs
  <1>. QED BY <1>1 DEF SyncGroup, Flags, Overlaid

(* One mod of the migration. *)

\* What a mod finds: its group of before, which is still there, in `was`.
Finds(g, was, m) ==
  GroupMap(g) /\ Apart(g) /\ In(g, m) \subseteq was /\ was \subseteq DOMAIN g /\ \A s, t \in was : s = t

\* Created, merged, or split out.
Created(g, m, o, N) ==
  /\ DOMAIN N = DOMAIN g \cup {SplitSlug[m]}
  /\ \A t \in DOMAIN N : N[t] = IF t = SplitSlug[m] THEN Fresh(m, o, TRUE) ELSE g[t]
IsMerged(g, s, o, N) ==
  /\ DOMAIN N = DOMAIN g
  /\ \A t \in DOMAIN N : N[t] = IF t = s THEN [g[s] EXCEPT !.flag = Overlaid(@, o)] ELSE g[t]
IsSplit(g, s, m, o, N) ==
  /\ DOMAIN N = DOMAIN g \cup {SplitSlug[m]}
  /\ \A t \in DOMAIN N :
       N[t] = IF t = SplitSlug[m] THEN Fresh(m, Overlaid(g[s].flag, o), g[s].headless)
              ELSE IF t = s THEN [g[s] EXCEPT !.members = @ \ {m}] ELSE g[t]

LEMMA MigrateIs ==
  ASSUME NEW g, NEW was, NEW m \in SyncMods, NEW o \in Flags, Finds(g, was, m)
  PROVE  LET N == Migrate(g, was, m, o) IN
         \/ was = {} /\ Created(g, m, o, N)
         \/ \E s \in was : \/ Cardinality(g[s].members) = 1 /\ IsMerged(g, s, o, N)
                           \/ Cardinality(g[s].members) # 1 /\ IsSplit(g, s, m, o, N)
  <1>. DEFINE N == Migrate(g, was, m, o)
              s == CHOOSE t \in was : TRUE
  <1>1. CASE was = {}
    BY <1>1 DEF Migrate, Created, SetGroup
  <1>2. CASE was # {}
    <2>1. s \in was /\ s \in DOMAIN g
      BY <1>2 DEF Finds
    <2>. HIDE DEF s
    <2>2. CASE Cardinality(g[s].members) = 1
      <3>1. N = [g EXCEPT ![s].flag = Overlaid(@, o)]
        BY <1>2, <2>2 DEF Migrate, Merged, s
      <3>2. IsMerged(g, s, o, N)
        BY <2>1, <3>1 DEF IsMerged
      <3>. QED BY <2>1, <2>2, <3>2
    <2>3. CASE Cardinality(g[s].members) # 1
      <3>. DEFINE h == [g EXCEPT ![s].members = @ \ {m}]
                  f == Fresh(m, Overlaid(g[s].flag, o), g[s].headless)
      <3>1. N = SetGroup(h, SplitSlug[m], f)
        BY <1>2, <2>3 DEF Migrate, SplitOut, s
      <3>2. DOMAIN h = DOMAIN g /\ \A t \in DOMAIN g : h[t] = IF t = s THEN [g[s] EXCEPT !.members = @ \ {m}] ELSE g[t]
        BY <2>1
      <3>. HIDE DEF h, f, N
      <3>3. /\ DOMAIN N = DOMAIN g \cup {SplitSlug[m]}
            /\ \A t \in DOMAIN N : N[t] = IF t = SplitSlug[m] THEN f
                                          ELSE IF t = s THEN [g[s] EXCEPT !.members = @ \ {m}] ELSE g[t]
        BY <3>1, <3>2 DEF SetGroup
      <3>4. IsSplit(g, s, m, o, N)
        BY <3>3 DEF IsSplit, f
      <3>. QED BY <2>1, <2>3, <3>4 DEF N
    <2>. QED BY <2>2, <2>3
  <1>. QED BY <1>1, <1>2

\* What may happen to the groups when a mod is migrated, whoever is in them.
Shrinks(g, m, N) ==
  /\ GroupMap(N) /\ Apart(N) /\ (Plain(g) => Plain(N)) /\ DOMAIN g \subseteq DOMAIN N
  /\ \A k \in SyncMods : k # m => In(N, k) \subseteq In(g, k)

LEMMA CreatedShrinks ==
  ASSUME NEW g, NEW m \in SyncMods, NEW o \in Flags, NEW N, Finds(g, {}, m), Created(g, m, o, N)
  PROVE  Shrinks(g, m, N) /\ In(N, m) = {SplitSlug[m]}
  <1>. DEFINE x == SplitSlug[m]
  <1>1. x \in Slugs /\ x # NoHeadless /\ GroupMap(g) /\ In(g, m) = {} /\ Apart(g)
    BY GroupsFields DEF Finds
  <1>2. /\ Fresh(m, o, TRUE) \in SyncGroup
        /\ Fresh(m, o, TRUE).members = {m} /\ Fresh(m, o, TRUE).flag = o /\ Fresh(m, o, TRUE).headless = TRUE
    BY DEF Fresh, SyncGroup
  <1>3. /\ DOMAIN N = DOMAIN g \cup {x} /\ N[x] = Fresh(m, o, TRUE)
        /\ \A t \in DOMAIN g : t # x => N[t] = g[t]
    BY DEF Created
  <1>. HIDE DEF x
  <1>4. GroupMap(N)
    BY <1>1, <1>2, <1>3 DEF GroupMap
  <1>5. \A k \in SyncMods : k # m => In(N, k) = In(g, k) \ {x}
    BY <1>2, <1>3 DEF In
  <1>6. In(N, m) = {x}
    BY <1>1, <1>2, <1>3 DEF In
  <1>7. Apart(N)
    BY <1>1, <1>5, <1>6 DEF Apart
  <1>8. Plain(g) => Plain(N)
    BY <1>1, <1>3 DEF Plain
  <1>. QED BY <1>3, <1>4, <1>5, <1>6, <1>7, <1>8 DEF Shrinks, x

LEMMA MergedShrinks ==
  ASSUME NEW g, NEW m \in SyncMods, NEW o \in Flags, NEW N, NEW s \in DOMAIN g, GroupMap(g), Apart(g),
         IsMerged(g, s, o, N)
  PROVE  Shrinks(g, m, N) /\ \A k \in SyncMods : In(N, k) = In(g, k)
  <1>1. g[s] \in SyncGroup /\ Overlaid(g[s].flag, o) \in Flags
    BY GroupsFields DEF GroupMap
  <1>. DEFINE h == [g[s] EXCEPT !.flag = Overlaid(@, o)]
  <1>2. h \in SyncGroup /\ h.members = g[s].members /\ h.headless = g[s].headless
    BY <1>1 DEF SyncGroup
  <1>3. DOMAIN N = DOMAIN g /\ N[s] = h /\ \A t \in DOMAIN g : t # s => N[t] = g[t]
    BY DEF IsMerged
  <1>. HIDE DEF h
  <1>4. GroupMap(N)
    BY <1>2, <1>3 DEF GroupMap
  <1>5. \A k \in SyncMods : In(N, k) = In(g, k)
    BY <1>2, <1>3 DEF In
  <1>6. Apart(N) /\ (Plain(g) => Plain(N))
    BY <1>2, <1>3, <1>5 DEF Apart, Plain
  <1>. QED BY <1>3, <1>4, <1>5, <1>6 DEF Shrinks

LEMMA SplitShrinks ==
  ASSUME NEW g, NEW was, NEW m \in SyncMods, NEW o \in Flags, NEW N, Finds(g, was, m),
         NEW s \in was, IsSplit(g, s, m, o, N)
  PROVE  Shrinks(g, m, N) /\ In(N, m) = {SplitSlug[m]}
  <1>. DEFINE x == SplitSlug[m]
              f == Fresh(m, Overlaid(g[s].flag, o), g[s].headless)
              h == [g[s] EXCEPT !.members = @ \ {m}]
  <1>1. x \in Slugs /\ x # NoHeadless /\ GroupMap(g) /\ In(g, m) \subseteq {s} /\ Apart(g) /\ s \in DOMAIN g
    BY GroupsFields DEF Finds
  <1>2. g[s] \in SyncGroup /\ Overlaid(g[s].flag, o) \in Flags
    BY <1>1, GroupsFields DEF GroupMap
  <1>3. f \in SyncGroup /\ f.members = {m}
    BY <1>2 DEF Fresh, SyncGroup
  <1>4. h \in SyncGroup /\ h.members = g[s].members \ {m} /\ h.headless = g[s].headless
    BY <1>2 DEF SyncGroup
  <1>5. /\ DOMAIN N = DOMAIN g \cup {x} /\ N[x] = f /\ (s # x => N[s] = h)
        /\ \A t \in DOMAIN g : t # x /\ t # s => N[t] = g[t]
    BY <1>1 DEF IsSplit
  <1>. HIDE DEF x, f, h
  <1>6. GroupMap(N)
    BY <1>1, <1>3, <1>4, <1>5 DEF GroupMap
  <1>7. \A k \in SyncMods : k # m => In(N, k) = In(g, k) \ {x}
    BY <1>1, <1>3, <1>4, <1>5 DEF In
  <1>8. In(N, m) = {x}
    BY <1>1, <1>3, <1>4, <1>5 DEF In
  <1>9. Apart(N)
    BY <1>1, <1>7, <1>8 DEF Apart
  <1>10. Plain(g) => Plain(N)
    BY <1>1, <1>4, <1>5 DEF Plain
  <1>. QED BY <1>5, <1>6, <1>7, <1>8, <1>9, <1>10 DEF Shrinks, x

LEMMA MigrateShrinks ==
  ASSUME NEW g, NEW was, NEW m \in SyncMods, NEW o \in Flags, Finds(g, was, m)
  PROVE  Shrinks(g, m, Migrate(g, was, m, o))
  <1>. DEFINE N == Migrate(g, was, m, o)
  <1>1. \/ was = {} /\ Created(g, m, o, N)
        \/ \E s \in was : IsMerged(g, s, o, N) \/ IsSplit(g, s, m, o, N)
    BY MigrateIs
  <1>. HIDE DEF N
  <1>2. CASE was = {} /\ Created(g, m, o, N)
    BY <1>2, CreatedShrinks DEF N
  <1>3. ASSUME NEW s \in was, IsMerged(g, s, o, N) PROVE Shrinks(g, m, N)
    <2>1. s \in DOMAIN g /\ GroupMap(g) /\ Apart(g)
      BY DEF Finds
    <2>. QED BY <1>3, <2>1, MergedShrinks
  <1>4. ASSUME NEW s \in was, IsSplit(g, s, m, o, N) PROVE Shrinks(g, m, N)
    BY <1>4, SplitShrinks
  <1>. QED BY <1>1, <1>2, <1>3, <1>4 DEF N

(* One mod of the migration when nobody else is in the group under its name. *)

OwnName(g, k) == SplitSlug[k] \in DOMAIN g => g[SplitSlug[k]].members \subseteq {k}

\* The other mods are in the groups they were in, and these as they were.
OthersStay(g, m, N) == \A k \in SyncMods : k # m =>
  /\ In(N, k) = In(g, k)
  /\ \A t \in In(g, k) : N[t].flag = g[t].flag /\ N[t].headless = g[t].headless

\* A mod's group has these settings.
Told(g, m, f, h) ==
  \/ In(g, m) = {} /\ f = Inherit /\ h = TRUE
  \/ \E s : In(g, m) = {s} /\ s # Catchall /\ g[s].flag = f /\ g[s].headless = h

LEMMA CreatedTells ==
  ASSUME NEW g, NEW m \in SyncMods, NEW o \in Flags, NEW N, Finds(g, {}, m), Created(g, m, o, N),
         OwnName(g, m)
  PROVE  /\ OthersStay(g, m, N)
         /\ \A f, h : Told(g, m, f, h) => Told(N, m, Overlaid(f, o), h)
  <1>. DEFINE x == SplitSlug[m]
              n == Fresh(m, o, TRUE)
  <1>1. x # Catchall /\ In(g, m) = {} /\ In(N, m) = {x} /\ GroupMap(g)
    BY GroupsFields, CreatedShrinks DEF Finds
  <1>2. /\ DOMAIN N = DOMAIN g \cup {x} /\ N[x] = n
        /\ \A t \in DOMAIN g : t # x => N[t] = g[t]
    BY DEF Created
  <1>3. n.members = {m} /\ n.flag = o /\ n.headless = TRUE
    BY DEF Fresh
  <1>4. x \in DOMAIN g => g[x].members \subseteq {m}
    BY DEF OwnName
  <1>. HIDE DEF x, n
  <1>5. OthersStay(g, m, N)
    <2>1. ASSUME NEW k \in SyncMods, k # m PROVE In(N, k) = In(g, k) /\ x \notin In(g, k)
      <3>1. k \notin N[x].members /\ (x \in DOMAIN g => k \notin g[x].members)
        BY <1>2, <1>3, <1>4, <2>1
      <3>2. \A t \in DOMAIN N : k \in N[t].members => t \in DOMAIN g /\ k \in g[t].members
        BY <1>2, <3>1
      <3>3. \A t \in DOMAIN g : k \in g[t].members => t \in DOMAIN N /\ k \in N[t].members
        BY <1>2, <3>1
      <3>. QED BY <3>1, <3>2, <3>3 DEF In
    <2>2. \A k, t : t \in In(g, k) => t \in DOMAIN g
      BY DEF In
    <2>. QED BY <1>2, <2>1, <2>2 DEF OthersStay
  <1>6. ASSUME NEW f, NEW h, Told(g, m, f, h) PROVE Told(N, m, Overlaid(f, o), h)
    <2>1. f = Inherit /\ h = TRUE
      BY <1>1, <1>6 DEF Told
    <2>2. Overlaid(f, o) = o
      BY <2>1 DEF Overlaid
    <2>. QED BY <1>1, <1>2, <1>3, <2>1, <2>2 DEF Told
  <1>. QED BY <1>5, <1>6

LEMMA MergedTells ==
  ASSUME NEW g, NEW m \in SyncMods, NEW o \in Flags, NEW N, Finds(g, In(g, m), m),
         NEW s \in In(g, m), Cardinality(g[s].members) = 1, IsMerged(g, s, o, N)
  PROVE  /\ OthersStay(g, m, N)
         /\ \A f, h : Told(g, m, f, h) => Told(N, m, Overlaid(f, o), h)
  <1>1. s \in DOMAIN g /\ GroupMap(g) /\ Apart(g) /\ m \in g[s].members /\ In(g, m) = {s}
    BY DEF Finds, In
  <1>2. g[s] \in SyncGroup /\ Overlaid(g[s].flag, o) \in Flags
    BY <1>1, GroupsFields DEF GroupMap
  <1>3. g[s].members = {m}
    <2>1. g[s].members \subseteq SyncMods
      BY <1>2, GroupsFields
    <2>2. IsFiniteSet(g[s].members)
      BY <2>1, FS_Subset, GroupsAssumption
    <2>. QED BY <1>1, <2>2, FS_Singleton
  <1>. DEFINE n == [g[s] EXCEPT !.flag = Overlaid(@, o)]
  <1>4. n.flag = Overlaid(g[s].flag, o) /\ n.members = g[s].members /\ n.headless = g[s].headless
    BY <1>2 DEF SyncGroup
  <1>5. DOMAIN N = DOMAIN g /\ N[s] = n /\ \A t \in DOMAIN g : t # s => N[t] = g[t]
    BY <1>1 DEF IsMerged
  <1>. HIDE DEF n
  <1>6. \A k \in SyncMods : In(N, k) = In(g, k)
    BY <1>1, MergedShrinks
  <1>7. OthersStay(g, m, N)
    BY <1>3, <1>5, <1>6 DEF OthersStay, In
  <1>8. ASSUME NEW f, NEW h, Told(g, m, f, h) PROVE Told(N, m, Overlaid(f, o), h)
    <2>1. s # Catchall /\ g[s].flag = f /\ g[s].headless = h
      BY <1>1, <1>8 DEF Told
    <2>2. In(N, m) = {s} /\ N[s].flag = Overlaid(f, o) /\ N[s].headless = h
      BY <1>1, <1>4, <1>5, <1>6, <2>1
    <2>. QED BY <2>1, <2>2 DEF Told
  <1>. QED BY <1>7, <1>8

LEMMA SplitTells ==
  ASSUME NEW g, NEW m \in SyncMods, NEW o \in Flags, NEW N, Finds(g, In(g, m), m), OwnName(g, m),
         NEW s \in In(g, m), Cardinality(g[s].members) # 1, IsSplit(g, s, m, o, N)
  PROVE  /\ OthersStay(g, m, N)
         /\ \A f, h : Told(g, m, f, h) => Told(N, m, Overlaid(f, o), h)
  <1>. DEFINE x == SplitSlug[m]
              n == Fresh(m, Overlaid(g[s].flag, o), g[s].headless)
              p == [g[s] EXCEPT !.members = @ \ {m}]
  <1>1. s \in DOMAIN g /\ GroupMap(g) /\ m \in g[s].members /\ In(g, m) = {s} /\ x # Catchall
    BY GroupsFields DEF Finds, In
  <1>2. g[s] \in SyncGroup /\ g[s].members \subseteq SyncMods
    BY <1>1, GroupsFields DEF GroupMap
  <1>3. s # x
    <2>1. Cardinality({m}) = 1
      BY FS_Singleton
    <2>2. s = x => g[s].members \subseteq {m}
      BY <1>1 DEF OwnName
    <2>3. s = x => g[s].members = {m}
      BY <1>1, <2>2
    <2>. HIDE DEF x
    <2>. QED BY <2>1, <2>3
  <1>4. n.members = {m} /\ n.flag = Overlaid(g[s].flag, o) /\ n.headless = g[s].headless
    BY DEF Fresh
  <1>5. p.members = g[s].members \ {m} /\ p.flag = g[s].flag /\ p.headless = g[s].headless
    BY <1>2 DEF SyncGroup
  <1>6. /\ DOMAIN N = DOMAIN g \cup {x} /\ N[x] = n /\ N[s] = p
        /\ \A t \in DOMAIN g : t # x /\ t # s => N[t] = g[t]
    BY <1>1, <1>3 DEF IsSplit
  <1>7. x \in DOMAIN g => g[x].members \subseteq {m}
    BY DEF OwnName
  <1>8. In(N, m) = {x}
    BY SplitShrinks
  <1>. HIDE DEF x, n, p
  <1>9. OthersStay(g, m, N)
    BY <1>4, <1>5, <1>6, <1>7 DEF OthersStay, In
  <1>10. ASSUME NEW f, NEW h, Told(g, m, f, h) PROVE Told(N, m, Overlaid(f, o), h)
    <2>1. g[s].flag = f /\ g[s].headless = h
      BY <1>1, <1>10 DEF Told
    <2>2. In(N, m) = {x} /\ x # Catchall /\ N[x].flag = Overlaid(f, o) /\ N[x].headless = h
      BY <1>1, <1>4, <1>6, <1>8, <2>1
    <2>. QED BY <2>2 DEF Told
  <1>. QED BY <1>9, <1>10

LEMMA MigrateTells ==
  ASSUME NEW g, NEW m \in SyncMods, NEW o \in Flags, Finds(g, In(g, m), m), OwnName(g, m)
  PROVE  LET N == Migrate(g, In(g, m), m, o) IN
         /\ OthersStay(g, m, N)
         /\ \A f, h : Told(g, m, f, h) => Told(N, m, Overlaid(f, o), h)
         /\ \A k \in SyncMods : k # m /\ OwnName(g, k) => OwnName(N, k)
  <1>. DEFINE N == Migrate(g, In(g, m), m, o)
              Tells == /\ OthersStay(g, m, N)
                       /\ \A f, h : Told(g, m, f, h) => Told(N, m, Overlaid(f, o), h)
  <1>1. \/ In(g, m) = {} /\ Created(g, m, o, N)
        \/ \E s \in In(g, m) : \/ Cardinality(g[s].members) = 1 /\ IsMerged(g, s, o, N)
                               \/ Cardinality(g[s].members) # 1 /\ IsSplit(g, s, m, o, N)
    BY MigrateIs
  <1>. HIDE DEF N
  <1>2. Tells
    <2>1. CASE In(g, m) = {} /\ Created(g, m, o, N)
      BY <2>1, CreatedTells
    <2>2. ASSUME NEW s \in In(g, m), Cardinality(g[s].members) = 1, IsMerged(g, s, o, N) PROVE Tells
      BY <2>2, MergedTells
    <2>3. ASSUME NEW s \in In(g, m), Cardinality(g[s].members) # 1, IsSplit(g, s, m, o, N) PROVE Tells
      BY <2>3, SplitTells
    <2>. QED BY <1>1, <2>1, <2>2, <2>3
  <1>3. ASSUME NEW k \in SyncMods, k # m, OwnName(g, k) PROVE OwnName(N, k)
    <2>1. Shrinks(g, m, N)
      BY MigrateShrinks DEF N
    <2>2. SplitSlug[k] # SplitSlug[m]
      BY <1>3, GroupsAssumption
    <2>3. SplitSlug[k] \in DOMAIN N => SplitSlug[k] \in DOMAIN g
      BY <1>1, <2>2 DEF Created, IsMerged, IsSplit
    <2>4. ASSUME SplitSlug[k] \in DOMAIN N, NEW j \in N[SplitSlug[k]].members PROVE j = k
      <3>1. j \in SyncMods /\ SplitSlug[k] \in In(N, j)
        BY <2>1, <2>4, GroupsFields DEF Shrinks, GroupMap, In
      <3>2. CASE j = m
        <4>1. SplitSlug[k] \in In(g, m)
          <5>1. In(N, m) = {SplitSlug[m]} \/ In(N, m) = In(g, m)
            <6>1. GroupMap(g) /\ Apart(g) /\ \A s \in In(g, m) : s \in DOMAIN g
              BY DEF Finds
            <6>2. CASE In(g, m) = {} /\ Created(g, m, o, N)
              BY <6>2, CreatedShrinks
            <6>3. ASSUME NEW s \in In(g, m), IsMerged(g, s, o, N) PROVE In(N, m) = In(g, m)
              BY <6>1, <6>3, MergedShrinks
            <6>4. ASSUME NEW s \in In(g, m), IsSplit(g, s, m, o, N) PROVE In(N, m) = {SplitSlug[m]}
              BY <6>4, SplitShrinks
            <6>. QED BY <1>1, <6>2, <6>3, <6>4
          <5>. QED BY <2>2, <3>1, <3>2, <5>1
        <4>. QED BY <1>3, <3>2, <4>1 DEF OwnName, In
      <3>3. CASE j # m
        <4>1. SplitSlug[k] \in In(g, j)
          BY <2>1, <3>1, <3>3 DEF Shrinks
        <4>. QED BY <1>3, <4>1 DEF OwnName, In
      <3>. QED BY <3>2, <3>3
    <2>. QED BY <2>4 DEF OwnName
  <1>. QED BY <1>2, <1>3 DEF N

(* The whole migration: one mod after the other. *)

OneMod(c, g, n) ==
  IF \E m \in HasOverride(c) : SplitSlug[m] = SlugOrder[n]
  THEN LET m == CHOOSE k \in HasOverride(c) : SplitSlug[k] = SlugOrder[n]
       IN Migrate(g, GroupOf(c, m), m, c.overrides[m])
  ELSE g

GroupsUpTo(c, k, f) == f = [n \in 0..k |-> IF n = 0 THEN c.groups ELSE OneMod(c, f[n - 1], n)]
MigratedInTurn(c, k, f) ==
  f[0] = c.groups /\ \A n \in 1..k : n - 1 \in 0..k /\ f[n] = OneMod(c, f[n - 1], n)

\* The recursion of the migration has a solution.
LEMMA GroupsExist ==
  ASSUME NEW c, NEW k \in Nat
  PROVE  \E f : GroupsUpTo(c, k, f)
  <1>. DEFINE Bad == {n \in Nat : ~(\E f : GroupsUpTo(c, n, f))}
  <1>1. ASSUME Bad # {} PROVE FALSE
    <2>1. PICK n \in Bad : \A m \in Bad : n <= m
      BY <1>1, LeastNat
    <2>2. n # 0
      <3>. DEFINE f == [m \in 0..0 |-> c.groups]
      <3>1. \A m \in 0..0 : m = 0
        OBVIOUS
      <3>2. f = [m \in 0..0 |-> IF m = 0 THEN c.groups ELSE OneMod(c, f[m - 1], m)]
        BY <3>1
      <3>3. GroupsUpTo(c, 0, f)
        BY <3>2 DEF GroupsUpTo
      <3>. QED BY <3>3
    <2>3. n \in Nat /\ n - 1 \in Nat
      BY <2>2
    <2>4. n - 1 \notin Bad
      BY <2>1, <2>3
    <2>5. PICK g : GroupsUpTo(c, n - 1, g)
      BY <2>3, <2>4
    <2>. DEFINE f == [m \in 0..n |-> IF m = 0 THEN c.groups ELSE OneMod(c, g[m - 1], m)]
    <2>6. \A m \in 0..(n - 1) : f[m] = g[m]
      <3>1. g = [m \in 0..(n - 1) |-> IF m = 0 THEN c.groups ELSE OneMod(c, g[m - 1], m)]
        BY <2>5 DEF GroupsUpTo
      <3>2. \A m \in 0..(n - 1) : g[m] = IF m = 0 THEN c.groups ELSE OneMod(c, g[m - 1], m)
        BY <3>1, Zenon
      <3>3. \A m \in 0..(n - 1) : m \in 0..n
        BY <2>3
      <3>. QED BY <3>2, <3>3
    <2>7. \A m \in 0..n : m # 0 => m - 1 \in 0..(n - 1)
      BY <2>3
    <2>8. f = [m \in 0..n |-> IF m = 0 THEN c.groups ELSE OneMod(c, f[m - 1], m)]
      BY <2>6, <2>7
    <2>9. GroupsUpTo(c, n, f)
      BY <2>8 DEF GroupsUpTo
    <2>. QED BY <2>1, <2>9
  <1>. QED BY <1>1

LEMMA GroupsStep ==
  ASSUME NEW c, NEW k \in Nat, NEW f, GroupsUpTo(c, k, f)
  PROVE  MigratedInTurn(c, k, f)
  <1>1. f = [n \in 0..k |-> IF n = 0 THEN c.groups ELSE OneMod(c, f[n - 1], n)]
    BY DEF GroupsUpTo
  <1>2. \A n \in 0..k : f[n] = IF n = 0 THEN c.groups ELSE OneMod(c, f[n - 1], n)
    BY <1>1, Zenon
  <1>3. 0 \in 0..k /\ \A n \in 1..k : n \in 0..k /\ n # 0 /\ n - 1 \in 0..k
    OBVIOUS
  <1>. QED BY <1>2, <1>3 DEF MigratedInTurn

LEMMA SlugsInOrder ==
  /\ Len(SlugOrder) \in Nat /\ DOMAIN SlugOrder = 1..Len(SlugOrder)
  /\ \A s \in Slugs : \E n \in 1..Len(SlugOrder) : SlugOrder[n] = s
  /\ \A j, k \in 1..Len(SlugOrder) : SlugOrder[j] = SlugOrder[k] => j = k
  <1>1. Len(SlugOrder) \in Nat /\ DOMAIN SlugOrder = 1..Len(SlugOrder)
    BY GroupsAssumption
  <1>. QED BY <1>1, GroupsAssumption DEF Slugs

LEMMA MigratedIsLast ==
  ASSUME NEW c
  PROVE  \E f : MigratedInTurn(c, Len(SlugOrder), f) /\ MigratedGroups(c) = f[Len(SlugOrder)]
  <1>. DEFINE N == Len(SlugOrder)
              g == CHOOSE f : f = [n \in 0..N |-> IF n = 0 THEN c.groups ELSE OneMod(c, f[n - 1], n)]
  <1>1. N \in Nat
    BY SlugsInOrder
  <1>2. GroupsUpTo(c, N, g)
    <2>1. \E f : GroupsUpTo(c, N, f)
      BY <1>1, GroupsExist
    <2>2. \E f : f = [n \in 0..N |-> IF n = 0 THEN c.groups ELSE OneMod(c, f[n - 1], n)]
      BY <2>1 DEF GroupsUpTo
    <2>3. g = [n \in 0..N |-> IF n = 0 THEN c.groups ELSE OneMod(c, g[n - 1], n)]
      BY <2>2, Zenon
    <2>. QED BY <2>3 DEF GroupsUpTo
  <1>3. MigratedGroups(c) = g[N]
    BY DEF MigratedGroups, OneMod
  <1>4. MigratedInTurn(c, N, g)
    BY <1>1, <1>2, GroupsStep
  <1>. QED BY <1>3, <1>4

\* A mod's override has been migrated.
Done(c, m, n) == m \in HasOverride(c) /\ \E j \in 1..n : SplitSlug[m] = SlugOrder[j]

\* The groups after n slugs: whatever the groups were before.
Between(c, g, n) ==
  /\ GroupMap(g) /\ Apart(g) /\ Plain(g) /\ DOMAIN c.groups \subseteq DOMAIN g
  /\ \A m \in SyncMods : ~Done(c, m, n) => In(g, m) \subseteq GroupOf(c, m)

\* The same when nobody else is in a group under a mod's name.
Overrides(c, m, n, f) == IF Done(c, m, n) THEN Overlaid(f, c.overrides[m]) ELSE f
TellsAll(c, g, n) == \A m \in SyncMods :
  /\ ~Done(c, m, n) => In(g, m) = GroupOf(c, m)
  /\ m \in HasOverride(c) /\ ~Done(c, m, n) => OwnName(g, m)
  /\ \A f, h : Told(c.groups, m, f, h) => Told(g, m, Overrides(c, m, n, f), h)

OwnNames(c) == \A m \in HasOverride(c) : OwnName(c.groups, m)

LEMMA DoneStep ==
  ASSUME NEW c, NEW n \in 1..Len(SlugOrder)
  PROVE  /\ \A m : Done(c, m, n) <=> Done(c, m, n - 1) \/ (m \in HasOverride(c) /\ SplitSlug[m] = SlugOrder[n])
         /\ \A m : m \in HasOverride(c) /\ SplitSlug[m] = SlugOrder[n] => ~Done(c, m, n - 1)
  <1>1. n \in Nat /\ n - 1 \in Nat /\ 1..n = 1..(n - 1) \cup {n} /\ n \notin 1..(n - 1)
    BY SlugsInOrder
  <1>2. \A j \in 1..(n - 1) : j \in 1..Len(SlugOrder) /\ j # n
    BY SlugsInOrder
  <1>3. \A j \in 1..(n - 1) : SlugOrder[j] # SlugOrder[n]
    BY <1>2, SlugsInOrder
  <1>. QED BY <1>1, <1>3 DEF Done

LEMMA FirstIsBetween ==
  ASSUME NEW c, FileOK(c)
  PROVE  Between(c, c.groups, 0) /\ (OwnNames(c) => TellsAll(c, c.groups, 0))
  <1>1. \A m : ~Done(c, m, 0) /\ GroupOf(c, m) = In(c.groups, m)
    BY DEF Done, GroupOf, In
  <1>2. \A m, f : Overrides(c, m, 0, f) = f
    BY <1>1 DEF Overrides
  <1>. QED BY <1>1, <1>2 DEF FileOK, Between, TellsAll, OwnNames

LEMMA BetweenStep ==
  ASSUME NEW c, FileOK(c), NEW n \in 1..Len(SlugOrder), NEW g, Between(c, g, n - 1)
  PROVE  LET N == OneMod(c, g, n) IN
         Between(c, N, n) /\ (TellsAll(c, g, n - 1) => TellsAll(c, N, n))
  <1>. DEFINE N == OneMod(c, g, n)
  <1>1. CASE ~ \E m \in HasOverride(c) : SplitSlug[m] = SlugOrder[n]
    <2>1. N = g
      BY <1>1 DEF OneMod
    <2>2. \A m : Done(c, m, n) <=> Done(c, m, n - 1)
      BY <1>1, DoneStep
    <2>3. \A m, f : Overrides(c, m, n, f) = Overrides(c, m, n - 1, f)
      BY <2>2 DEF Overrides
    <2>. HIDE DEF N
    <2>4. Between(c, N, n)
      BY <2>1, <2>2 DEF Between
    <2>5. TellsAll(c, g, n - 1) => TellsAll(c, N, n)
      BY <2>1, <2>2, <2>3 DEF TellsAll
    <2>. QED BY <2>4, <2>5 DEF N
  <1>2. CASE \E m \in HasOverride(c) : SplitSlug[m] = SlugOrder[n]
    <2>. DEFINE m == CHOOSE k \in HasOverride(c) : SplitSlug[k] = SlugOrder[n]
                was == GroupOf(c, m)
                o == c.overrides[m]
    <2>1. m \in HasOverride(c) /\ SplitSlug[m] = SlugOrder[n]
      BY <1>2
    <2>2. N = Migrate(g, was, m, o)
      BY <1>2 DEF OneMod
    <2>3. m \in SyncMods /\ o \in Flags
      BY <2>1 DEF HasOverride, FileOK
    <2>4. ~Done(c, m, n - 1) /\ Done(c, m, n)
      BY <2>1, DoneStep
    <2>. HIDE DEF m
    <2>5. \A k \in SyncMods : k # m => (Done(c, k, n) <=> Done(c, k, n - 1))
      <3>1. \A k \in SyncMods : SplitSlug[k] = SlugOrder[n] => k = m
        BY <2>1, <2>3, GroupsAssumption
      <3>. QED BY <3>1, DoneStep
    <2>6. Finds(g, was, m)
      <3>1. was = In(c.groups, m) /\ was \subseteq DOMAIN c.groups
        BY DEF GroupOf, In
      <3>2. \A s, t \in was : s = t
        BY <2>3, <3>1 DEF FileOK, Apart
      <3>3. In(g, m) \subseteq was
        BY <2>3, <2>4 DEF Between
      <3>. HIDE DEF was
      <3>. QED BY <3>1, <3>2, <3>3 DEF Finds, Between
    <2>. HIDE DEF o, N
    <2>7. Between(c, N, n)
      <3>1. Shrinks(g, m, N)
        <4>. HIDE DEF was
        <4>. QED BY <2>2, <2>3, <2>6, MigrateShrinks
      <3>. QED BY <2>4, <2>5, <3>1 DEF Between, Shrinks
    <2>8. ASSUME TellsAll(c, g, n - 1) PROVE TellsAll(c, N, n)
      <3>1. was = In(g, m) /\ OwnName(g, m)
        BY <2>1, <2>3, <2>4, <2>8 DEF TellsAll
      <3>. HIDE DEF was
      <3>2. /\ OthersStay(g, m, N)
            /\ \A f, h : Told(g, m, f, h) => Told(N, m, Overlaid(f, o), h)
            /\ \A k \in SyncMods : k # m /\ OwnName(g, k) => OwnName(N, k)
        BY <2>2, <2>3, <2>6, <3>1, MigrateTells
      <3>3. ASSUME NEW k \in SyncMods, k # m
            PROVE  /\ ~Done(c, k, n) => In(N, k) = GroupOf(c, k)
                   /\ k \in HasOverride(c) /\ ~Done(c, k, n) => OwnName(N, k)
                   /\ \A f, h : Told(c.groups, k, f, h) => Told(N, k, Overrides(c, k, n, f), h)
        <4>1. Done(c, k, n) <=> Done(c, k, n - 1)
          BY <2>5, <3>3
        <4>2. /\ In(N, k) = In(g, k)
              /\ \A t \in In(g, k) : N[t].flag = g[t].flag /\ N[t].headless = g[t].headless
          BY <3>2, <3>3 DEF OthersStay
        <4>3. \A f, h : Told(g, k, f, h) => Told(N, k, f, h)
          BY <4>2 DEF Told
        <4>4. \A f : Overrides(c, k, n, f) = Overrides(c, k, n - 1, f)
          BY <4>1 DEF Overrides
        <4>. QED BY <2>8, <3>2, <3>3, <4>1, <4>2, <4>3, <4>4 DEF TellsAll
      <3>4. \A f, h : Told(c.groups, m, f, h) => Told(N, m, Overrides(c, m, n, f), h)
        <4>1. \A f, h : Told(c.groups, m, f, h) => Told(g, m, f, h)
          BY <2>3, <2>4, <2>8 DEF TellsAll, Overrides
        <4>2. \A f : Overrides(c, m, n, f) = Overlaid(f, o)
          BY <2>4 DEF Overrides, o
        <4>. QED BY <3>2, <4>1, <4>2
      <3>5. ASSUME NEW k \in SyncMods
            PROVE  /\ ~Done(c, k, n) => In(N, k) = GroupOf(c, k)
                   /\ k \in HasOverride(c) /\ ~Done(c, k, n) => OwnName(N, k)
                   /\ \A f, h : Told(c.groups, k, f, h) => Told(N, k, Overrides(c, k, n, f), h)
        <4>1. CASE k = m
          BY <2>4, <3>4, <4>1
        <4>2. CASE k # m
          BY <3>3, <4>2
        <4>. QED BY <4>1, <4>2
      <3>. QED BY <3>5 DEF TellsAll
    <2>. QED BY <2>7, <2>8 DEF N
  <1>. QED BY <1>1, <1>2

LEMMA MigratedKeeps ==
  ASSUME NEW c, FileOK(c)
  PROVE  /\ Between(c, MigratedGroups(c), Len(SlugOrder))
         /\ OwnNames(c) => TellsAll(c, MigratedGroups(c), Len(SlugOrder))
  <1>. DEFINE L == Len(SlugOrder)
  <1>1. PICK f : MigratedInTurn(c, L, f) /\ MigratedGroups(c) = f[L]
    BY MigratedIsLast
  <1>2. f[0] = c.groups /\ \A n \in 1..L : n - 1 \in 0..L /\ f[n] = OneMod(c, f[n - 1], n)
    BY <1>1 DEF MigratedInTurn
  <1>. DEFINE Good(n) == Between(c, f[n], n) /\ (OwnNames(c) => TellsAll(c, f[n], n))
              Bad == {n \in 0..L : ~Good(n)}
  <1>3. ASSUME Bad # {} PROVE FALSE
    <2>1. PICK n \in Bad : \A m \in Bad : n <= m
      <3>1. Bad \subseteq Nat
        BY SlugsInOrder
      <3>. HIDE DEF Bad
      <3>. QED BY <1>3, <3>1, LeastNat
    <2>2. n \in 0..L /\ ~Good(n)
      BY <2>1
    <2>3. Good(0)
      BY <1>2, FirstIsBetween
    <2>4. n \in 1..L /\ n - 1 \in 0..L /\ n - 1 \notin Bad
      BY <2>1, <2>2, <2>3, SlugsInOrder
    <2>5. Good(n - 1) /\ f[n] = OneMod(c, f[n - 1], n)
      BY <1>2, <2>4
    <2>6. Good(n)
      BY <2>4, <2>5, BetweenStep
    <2>. QED BY <2>2, <2>6
  <1>4. L \in 0..L /\ Good(L)
    BY <1>3, SlugsInOrder
  <1>. QED BY <1>1, <1>4

(* The loaded file. *)

LEMMA DroppedKeeps ==
  ASSUME NEW g, GroupMap(g), Apart(g), Plain(g)
  PROVE  LET N == DropGroups(g, {Catchall}) IN
         /\ GroupMap(N) /\ Apart(N) /\ Plain(N)
         /\ \A m \in SyncMods : \A f, h : Told(g, m, f, h) => Told(N, m, f, h)
  <1>. DEFINE N == DropGroups(g, {Catchall})
  <1>1. DOMAIN N = DOMAIN g \ {Catchall} /\ \A t \in DOMAIN N : N[t] = g[t]
    BY DEF DropGroups
  <1>. HIDE DEF N
  <1>2. \A m \in SyncMods : In(N, m) = In(g, m) \ {Catchall}
    BY <1>1 DEF In
  <1>3. GroupMap(N) /\ Apart(N) /\ Plain(N)
    BY <1>1, <1>2 DEF GroupMap, Apart, Plain
  <1>4. \A m \in SyncMods : \A f, h : Told(g, m, f, h) => Told(N, m, f, h)
    <2>1. \A m \in SyncMods : In(N, m) \subseteq DOMAIN N
      BY DEF In
    <2>. QED BY <1>1, <1>2, <2>1 DEF Told
  <1>. QED BY <1>3, <1>4 DEF N

LEMMA PredefinedKeeps ==
  ASSUME NEW d, GroupMap(d), Apart(d), Plain(d)
  PROVE  LET N == Predefined(d) IN
         /\ GroupMap(N) /\ Apart(N) /\ Plain(N)
         /\ \A m \in SyncMods : \A f, h : Told(d, m, f, h) => Told(N, m, f, h)
  <1>. DEFINE N == Predefined(d)
              e == [members |-> {}, flag |-> Inherit, headless |-> FALSE]
  <1>1. NoHeadless \in Slugs
    BY GroupsAssumption
  <1>3. e \in SyncGroup /\ e.members = {} /\ e.flag = Inherit /\ e.headless = FALSE
    BY DEF SyncGroup, Flags
  <1>. HIDE DEF e
  <1>4. /\ DOMAIN N = DOMAIN d \cup {NoHeadless}
        /\ \A t \in DOMAIN d : t # NoHeadless => N[t] = d[t]
        /\ N[NoHeadless] \in SyncGroup
        /\ NoHeadless \notin DOMAIN d => N[NoHeadless] = e
        /\ NoHeadless \in DOMAIN d =>
             /\ N[NoHeadless].members = d[NoHeadless].members
             /\ N[NoHeadless].flag = d[NoHeadless].flag
        /\ N[NoHeadless].headless = FALSE
    <2>1. CASE NoHeadless \in DOMAIN d
      <3>1. N = [d EXCEPT ![NoHeadless].headless = FALSE]
        BY <2>1 DEF Predefined
      <3>2. d[NoHeadless] \in SyncGroup
        BY <2>1 DEF GroupMap
      <3>. DEFINE h == [d[NoHeadless] EXCEPT !.headless = FALSE]
      <3>3. h \in SyncGroup /\ h.members = d[NoHeadless].members /\ h.flag = d[NoHeadless].flag /\ h.headless = FALSE
        BY <3>2 DEF SyncGroup
      <3>4. DOMAIN N = DOMAIN d /\ N[NoHeadless] = h /\ \A t \in DOMAIN d : t # NoHeadless => N[t] = d[t]
        BY <2>1, <3>1
      <3>. HIDE DEF h, N
      <3>. QED BY <2>1, <3>3, <3>4
    <2>2. CASE NoHeadless \notin DOMAIN d
      <3>1. N = SetGroup(d, NoHeadless, e)
        BY <2>2 DEF Predefined, e
      <3>2. /\ DOMAIN N = DOMAIN d \cup {NoHeadless} /\ N[NoHeadless] = e
            /\ \A t \in DOMAIN d : t # NoHeadless => N[t] = d[t]
        BY <3>1 DEF SetGroup
      <3>. HIDE DEF N
      <3>. QED BY <1>3, <2>2, <3>2
    <2>. QED BY <2>1, <2>2
  <1>. HIDE DEF N
  <1>5. GroupMap(N)
    BY <1>1, <1>4 DEF GroupMap
  <1>6. \A m \in SyncMods : In(N, m) = In(d, m)
    BY <1>3, <1>4 DEF In
  <1>7. Apart(N) /\ Plain(N)
    BY <1>4, <1>6 DEF Apart, Plain
  <1>8. ASSUME NEW m \in SyncMods, NEW f, NEW h, Told(d, m, f, h) PROVE Told(N, m, f, h)
    <2>1. CASE In(d, m) = {} /\ f = Inherit /\ h = TRUE
      BY <1>6, <2>1 DEF Told
    <2>2. ASSUME NEW s, In(d, m) = {s}, s # Catchall, d[s].flag = f, d[s].headless = h PROVE Told(N, m, f, h)
      <3>1. s \in DOMAIN d /\ In(N, m) = {s}
        BY <1>6, <2>2 DEF In
      <3>2. N[s].flag = f /\ N[s].headless = h
        BY <1>4, <2>2, <3>1 DEF Plain
      <3>. QED BY <2>2, <3>1, <3>2 DEF Told
    <2>. QED BY <1>8, <2>1, <2>2 DEF Told
  <1>. QED BY <1>5, <1>7, <1>8 DEF N

LEMMA MigratedFields ==
  ASSUME NEW c, FileOK(c)
  PROVE  /\ Migrated(c) = [flag |-> c.flag, overrides |-> NoOverrides,
                           groups |-> Predefined(DropGroups(MigratedGroups(c), {Catchall}))]
         /\ FileOK(Migrated(c))
         /\ OwnNames(c) => \A m \in SyncMods : \A f, h : Told(c.groups, m, f, h) =>
              Told(Migrated(c).groups, m, IF m \in HasOverride(c) THEN Overlaid(f, c.overrides[m]) ELSE f, h)
  <1>. DEFINE g == MigratedGroups(c)
              N == Predefined(DropGroups(g, {Catchall}))
              r == [flag |-> c.flag, overrides |-> NoOverrides, groups |-> N]
  <1>1. Migrated(c) = r
    <2>1. c = [flag |-> c.flag, overrides |-> c.overrides, groups |-> c.groups]
      BY DEF FileOK
    <2>2. Migrated(c) = [c EXCEPT !.overrides = NoOverrides, !.groups = N]
      BY DEF Migrated
    <2>. HIDE DEF N
    <2>3. /\ DOMAIN [c EXCEPT !.overrides = NoOverrides, !.groups = N] = {"flag", "overrides", "groups"}
          /\ [c EXCEPT !.overrides = NoOverrides, !.groups = N].flag = c.flag
          /\ [c EXCEPT !.overrides = NoOverrides, !.groups = N].overrides = NoOverrides
          /\ [c EXCEPT !.overrides = NoOverrides, !.groups = N].groups = N
      BY <2>1
    <2>. QED BY <2>1, <2>2, <2>3
  <1>2. Between(c, g, Len(SlugOrder)) /\ (OwnNames(c) => TellsAll(c, g, Len(SlugOrder)))
    BY MigratedKeeps
  <1>3. GroupMap(g) /\ Apart(g) /\ Plain(g)
    BY <1>2 DEF Between
  <1>4. /\ GroupMap(N) /\ Apart(N) /\ Plain(N)
        /\ \A m \in SyncMods : \A f, h : Told(g, m, f, h) => Told(N, m, f, h)
    <2>. HIDE DEF g
    <2>. DEFINE d == DropGroups(g, {Catchall})
    <2>1. /\ GroupMap(d) /\ Apart(d) /\ Plain(d)
          /\ \A m \in SyncMods : \A f, h : Told(g, m, f, h) => Told(d, m, f, h)
      BY <1>3, DroppedKeeps
    <2>. HIDE DEF d
    <2>2. /\ GroupMap(Predefined(d)) /\ Apart(Predefined(d)) /\ Plain(Predefined(d))
          /\ \A m \in SyncMods : \A f, h : Told(d, m, f, h) => Told(Predefined(d), m, f, h)
      BY <2>1, PredefinedKeeps
    <2>. QED BY <2>1, <2>2 DEF d
  <1>. HIDE DEF g, N
  <1>5. NoOverrides \in [SyncMods -> Flags \cup {"none"}] /\ c.flag \in Settings
    BY DEF NoOverrides, FileOK
  <1>6. FileOK(r)
    BY <1>4, <1>5 DEF FileOK
  <1>7. ASSUME OwnNames(c), NEW m \in SyncMods, NEW f, NEW h, Told(c.groups, m, f, h)
        PROVE  Told(N, m, IF m \in HasOverride(c) THEN Overlaid(f, c.overrides[m]) ELSE f, h)
    <2>1. Done(c, m, Len(SlugOrder)) <=> m \in HasOverride(c)
      BY SlugsInOrder, GroupsFields DEF Done
    <2>2. Told(g, m, Overrides(c, m, Len(SlugOrder), f), h)
      BY <1>2, <1>7 DEF TellsAll
    <2>. QED BY <1>4, <2>1, <2>2 DEF Overrides
  <1>. QED BY <1>1, <1>6, <1>7 DEF N, g

LEMMA LoadKeepsSettings ==
  ASSUME NEW c, FileOK(c), OwnNames(c), NEW m \in SyncMods, Catchall \notin GroupOf(c, m)
  PROVE  Effective(Migrated(c), m) = Effective(c, m)
  <1>. DEFINE Of(d) == IF GroupOf(d, m) = {} THEN [flag |-> Inherit, headless |-> TRUE]
                       ELSE LET s == CHOOSE t \in GroupOf(d, m) : TRUE
                            IN [flag |-> d.groups[s].flag, headless |-> d.groups[s].headless]
              Own(d) == IF d.overrides[m] = "none" THEN Inherit ELSE d.overrides[m]
              f == Of(c).flag
              h == Of(c).headless
  <1>1. \A d : Effective(d, m) = [flag |-> Overlaid(d.flag, Overlaid(Of(d).flag, Own(d))), headless |-> Of(d).headless]
    BY DEF Effective
  <1>2. \A d, e, k : Told(d.groups, m, e, k) => Of(d).flag = e /\ Of(d).headless = k
    <2>1. ASSUME NEW d, NEW e, NEW k, Told(d.groups, m, e, k) PROVE Of(d).flag = e /\ Of(d).headless = k
      <3>1. GroupOf(d, m) = In(d.groups, m)
        BY DEF GroupOf, In
      <3>2. CASE In(d.groups, m) = {} /\ e = Inherit /\ k = TRUE
        BY <3>1, <3>2
      <3>3. ASSUME NEW s, In(d.groups, m) = {s}, d.groups[s].flag = e, d.groups[s].headless = k
            PROVE  Of(d).flag = e /\ Of(d).headless = k
        <4>1. GroupOf(d, m) # {} /\ (CHOOSE t \in GroupOf(d, m) : TRUE) = s
          BY <3>1, <3>3
        <4>. QED BY <3>3, <4>1
      <3>. QED BY <2>1, <3>2, <3>3 DEF Told
    <2>. QED BY <2>1
  <1>3. Told(c.groups, m, f, h)
    <2>1. GroupOf(c, m) = In(c.groups, m) /\ \A s, t \in In(c.groups, m) : s = t
      BY DEF GroupOf, In, FileOK, Apart
    <2>2. CASE GroupOf(c, m) = {}
      BY <2>1, <2>2 DEF Told
    <2>3. CASE GroupOf(c, m) # {}
      <3>. DEFINE s == CHOOSE t \in GroupOf(c, m) : TRUE
      <3>1. s \in GroupOf(c, m) /\ In(c.groups, m) = {s} /\ s # Catchall
        BY <2>1, <2>3
      <3>2. f = c.groups[s].flag /\ h = c.groups[s].headless
        BY <2>3
      <3>. HIDE DEF s, f, h
      <3>. QED BY <3>1, <3>2 DEF Told
    <2>. QED BY <2>2, <2>3
  <1>. DEFINE o == IF m \in HasOverride(c) THEN Overlaid(f, c.overrides[m]) ELSE f
  <1>4. Told(Migrated(c).groups, m, o, h)
    <2>. HIDE DEF f, h
    <2>. QED BY <1>3, MigratedFields
  <1>5. Of(Migrated(c)).flag = o /\ Of(Migrated(c)).headless = h
    <2>. HIDE DEF f, h, o, Of
    <2>. QED BY <1>2, <1>4
  <1>6. Own(Migrated(c)) = Inherit /\ Migrated(c).flag = c.flag
    BY MigratedFields DEF NoOverrides
  <1>7. o = Overlaid(f, Own(c))
    <2>. HIDE DEF f, h, Of
    <2>. QED BY DEF HasOverride, Overlaid
  <1>. HIDE DEF f, h, o, Of, Own
  <1>8. Effective(Migrated(c), m) = [flag |-> Overlaid(c.flag, Overlaid(o, Inherit)), headless |-> h]
    BY <1>1, <1>5, <1>6
  <1>9. Effective(c, m) = [flag |-> Overlaid(c.flag, Overlaid(f, Own(c))), headless |-> h]
    BY <1>1 DEF f, h
  <1>10. Overlaid(o, Inherit) = o
    BY DEF Overlaid
  <1>. QED BY <1>7, <1>8, <1>9, <1>10

(* The handlers. *)

LEMMA InitGroups == GroupsInit => GroupsInv
  <1>. SUFFICES ASSUME NEW flag \in Settings, NEW overrides \in [SyncMods -> Flags \cup {"none"}],
                       NEW in \in [SyncMods -> Slugs \cup {Inherit}], NEW flags \in [Slugs -> {"off", Inherit}],
                       clientMods = SyncMods, syncFile = OldFile(flag, overrides, in, flags)
                PROVE  GroupsInv
    BY DEF GroupsInit
  <1>. DEFINE D == {in[m] : m \in SyncMods} \ {Inherit}
              old == [s \in D |-> [members |-> {m \in SyncMods : in[m] = s}, flag |-> flags[s], headless |-> s # NoHeadless]]
              c == OldFile(flag, overrides, in, flags)
  <1>1. c = [flag |-> flag, overrides |-> overrides, groups |-> old]
    BY DEF OldFile
  <1>2. D \subseteq Slugs /\ \A s \in D : flags[s] \in Flags
    BY DEF Flags, Settings
  <1>3. \A s \in D : /\ old[s] \in SyncGroup
                     /\ old[s].members = {m \in SyncMods : in[m] = s} /\ (s = NoHeadless => old[s].headless = FALSE)
    <2>1. \A s \in D : old[s] = [members |-> {m \in SyncMods : in[m] = s}, flag |-> flags[s], headless |-> s # NoHeadless]
      OBVIOUS
    <2>2. \A s \in D : old[s].members = {m \in SyncMods : in[m] = s} /\ (s = NoHeadless => old[s].headless = FALSE)
      BY <2>1
    <2>3. \A s \in D : old[s] \in SyncGroup
      BY <1>2, <2>1 DEF SyncGroup
    <2>. QED BY <2>2, <2>3
  <1>4. DOMAIN old = D
    OBVIOUS
  <1>. HIDE DEF D, old, c
  <1>5. GroupMap(old) /\ Apart(old) /\ Plain(old)
    BY <1>2, <1>3, <1>4 DEF GroupMap, Apart, Plain, In
  <1>6. FileOK(c)
    BY <1>1, <1>5 DEF FileOK
  <1>. QED BY <1>6 DEF GroupsInv, c

\* Members may leave their groups.
LeavesOnly(g, N) ==
  /\ DOMAIN N = DOMAIN g
  /\ \A s \in DOMAIN g : N[s] \in SyncGroup /\ N[s].members \subseteq g[s].members /\ N[s].headless = g[s].headless

LEMMA LeavingKeeps ==
  ASSUME NEW g, NEW N, GroupMap(g), LeavesOnly(g, N)
  PROVE  GroupMap(N) /\ (Apart(g) => Apart(N)) /\ (Plain(g) => Plain(N))
  BY DEF LeavesOnly, GroupMap, Apart, Plain, In

LEMMA WithGroups ==
  ASSUME NEW c, FileOK(c), NEW N, GroupMap(N), Apart(N), Plain(N)
  PROVE  FileOK([c EXCEPT !.groups = N])
  <1>1. [c EXCEPT !.groups = N] = [flag |-> c.flag, overrides |-> c.overrides, groups |-> N]
    BY DEF FileOK
  <1>. QED BY <1>1 DEF FileOK

LEMMA FormKeeps ==
  ASSUME NEW sent \in Forms, GroupsInv
  PROVE  LET N == Predefined(FirstKeeps(InstalledOnly(sent))) IN GroupMap(N) /\ Apart(N) /\ Plain(N)
  <1>. DEFINE i == InstalledOnly(sent)
              k == FirstKeeps(i)
  <1>1. GroupMap(sent) /\ Plain(sent)
    <2>. DEFINE Made == [members : SUBSET SyncMods, flag : {"off", Inherit}, headless : {TRUE}]
    <2>1. PICK nh \in SUBSET SyncMods, f \in UNION {[S -> Made] : S \in SUBSET UserSlugs} :
                 sent = SetGroup(f, NoHeadless, [members |-> nh, flag |-> Inherit, headless |-> FALSE])
      <3>. DEFINE U == UNION {[S -> Made] : S \in SUBSET UserSlugs}
                  P(nh, f) == SetGroup(f, NoHeadless, [members |-> nh, flag |-> Inherit, headless |-> FALSE])
      <3>1. Forms = {P(nh, f) : nh \in SUBSET SyncMods, f \in U}
        BY DEF Forms
      <3>. HIDE DEF U, P
      <3>2. \E nh \in SUBSET SyncMods, f \in U : sent = P(nh, f)
        BY <3>1
      <3>. QED BY <3>2 DEF U, P
    <2>6. PICK S \in SUBSET UserSlugs : f \in [S -> Made]
      BY <2>1
    <2>. DEFINE e == [members |-> nh, flag |-> Inherit, headless |-> FALSE]
    <2>2. e \in SyncGroup /\ e.headless = FALSE
      BY DEF SyncGroup, Flags
    <2>3. \A s \in S : f[s] \in SyncGroup
      BY <2>6 DEF SyncGroup, Flags, Settings
    <2>4. S \subseteq Slugs /\ NoHeadless \in Slugs
      BY GroupsAssumption
    <2>. HIDE DEF e
    <2>5. DOMAIN sent = S \cup {NoHeadless} /\ \A s \in DOMAIN sent : sent[s] = IF s = NoHeadless THEN e ELSE f[s]
      BY <2>1, <2>6 DEF SetGroup, e
    <2>. QED BY <2>2, <2>3, <2>4, <2>5 DEF GroupMap, Plain
  <1>2. LeavesOnly(sent, i)
    BY <1>1 DEF LeavesOnly, InstalledOnly, GroupMap, SyncGroup
  <1>3. GroupMap(i) /\ Plain(i)
    BY <1>1, <1>2, LeavingKeeps
  <1>. HIDE DEF i
  <1>4. /\ DOMAIN k = DOMAIN i
        /\ \A s \in DOMAIN i : k[s] = [i[s] EXCEPT !.members = {m \in @ : \A n, j \in DOMAIN SlugOrder :
             SlugOrder[j] = s /\ n < j /\ SlugOrder[n] \in DOMAIN i => m \notin i[SlugOrder[n]].members}]
    BY DEF FirstKeeps
  <1>. HIDE DEF k
  <1>5. \A s \in DOMAIN i :
           /\ k[s] \in SyncGroup /\ k[s].headless = i[s].headless
           /\ k[s].members = {m \in i[s].members : \A n, j \in DOMAIN SlugOrder :
                SlugOrder[j] = s /\ n < j /\ SlugOrder[n] \in DOMAIN i => m \notin i[SlugOrder[n]].members}
    BY <1>3, <1>4 DEF GroupMap, SyncGroup
  <1>6. LeavesOnly(i, k)
    BY <1>4, <1>5 DEF LeavesOnly
  <1>7. Apart(k)
    <2>1. SUFFICES ASSUME NEW m \in SyncMods, NEW s \in In(k, m), NEW t \in In(k, m), s # t PROVE FALSE
      BY DEF Apart
    <2>2. s \in DOMAIN i /\ t \in DOMAIN i /\ m \in k[s].members /\ m \in k[t].members
      BY <1>4 DEF In
    <2>3. PICK a, b \in 1..Len(SlugOrder) : SlugOrder[a] = s /\ SlugOrder[b] = t
      BY <1>3, <2>2, SlugsInOrder DEF GroupMap
    <2>4. a \in DOMAIN SlugOrder /\ b \in DOMAIN SlugOrder /\ a # b /\ a \in Nat /\ b \in Nat
      BY <2>1, <2>3, SlugsInOrder
    <2>5. m \in i[s].members /\ m \in i[t].members
      BY <1>5, <2>2
    <2>6. CASE a < b
      BY <1>5, <2>2, <2>3, <2>4, <2>5, <2>6
    <2>7. CASE b < a
      BY <1>5, <2>2, <2>3, <2>4, <2>5, <2>7
    <2>. QED BY <2>4, <2>6, <2>7
  <1>8. GroupMap(k) /\ Plain(k)
    BY <1>3, <1>6, LeavingKeeps
  <1>. QED BY <1>7, <1>8, PredefinedKeeps DEF k, i

LEMMA GroupsStay == GroupsInv /\ [GroupsNext]_groupVars => GroupsInv'
  <1>. SUFFICES ASSUME GroupsInv, [GroupsNext]_groupVars PROVE GroupsInv'
    OBVIOUS
  <1>. DEFINE c == Migrated(syncFile)
  <1>1. FileOK(syncFile) /\ clientMods \subseteq SyncMods
    BY DEF GroupsInv
  <1>2. FileOK(c) /\ GroupMap(c.groups) /\ Apart(c.groups) /\ Plain(c.groups)
    BY <1>1, MigratedFields DEF FileOK
  <1>. HIDE DEF c
  <1>3. CASE LoadFile
    BY <1>1, <1>2, <1>3 DEF LoadFile, GroupsInv, c
  <1>4. ASSUME NEW flag \in Settings, SaveGlobal(flag) PROVE GroupsInv'
    <2>1. [c EXCEPT !.flag = flag] = [flag |-> flag, overrides |-> c.overrides, groups |-> c.groups]
      BY <1>2 DEF FileOK
    <2>2. FileOK([c EXCEPT !.flag = flag])
      BY <1>2, <2>1 DEF FileOK
    <2>3. syncFile' = [c EXCEPT !.flag = flag] /\ clientMods' = clientMods
      BY <1>4 DEF SaveGlobal, c
    <2>. QED BY <1>1, <2>2, <2>3 DEF GroupsInv
  <1>5. ASSUME NEW sent \in Forms, SaveGroupForm(sent) PROVE GroupsInv'
    <2>. DEFINE N == Predefined(FirstKeeps(InstalledOnly(sent)))
    <2>1. GroupMap(N) /\ Apart(N) /\ Plain(N)
      BY FormKeeps
    <2>2. syncFile' = [c EXCEPT !.groups = N] /\ clientMods' = clientMods
      BY <1>5 DEF SaveGroupForm, c
    <2>. HIDE DEF N
    <2>3. FileOK([c EXCEPT !.groups = N])
      BY <1>2, <2>1, WithGroups
    <2>. QED BY <1>1, <2>2, <2>3 DEF GroupsInv
  <1>6. ASSUME NEW m \in SyncMods, RemoveFromGroups(m) PROVE GroupsInv'
    <2>. DEFINE N == [s \in DOMAIN c.groups |-> [c.groups[s] EXCEPT !.members = @ \ {m}]]
    <2>1. LeavesOnly(c.groups, N)
      BY <1>2 DEF LeavesOnly, GroupMap, SyncGroup
    <2>2. syncFile' = [c EXCEPT !.groups = N] /\ clientMods' = clientMods \ {m}
      BY <1>6 DEF RemoveFromGroups, c
    <2>. HIDE DEF N
    <2>3. FileOK([c EXCEPT !.groups = N])
      BY <1>2, <2>1, LeavingKeeps, WithGroups
    <2>. QED BY <1>1, <2>2, <2>3 DEF GroupsInv
  <1>7. ASSUME NEW m \in SyncMods, InstallClient(m) PROVE GroupsInv'
    BY <1>1, <1>7 DEF InstallClient, GroupsInv
  <1>8. CASE UNCHANGED groupVars
    BY <1>1, <1>8 DEF groupVars, GroupsInv
  <1>. QED BY <1>3, <1>4, <1>5, <1>6, <1>7, <1>8 DEF GroupsNext

LEMMA GroupsInvImplies == GroupsInv => GroupsTypeOK /\ MigrationKeepsSettings
  <1>. SUFFICES ASSUME GroupsInv PROVE GroupsTypeOK /\ MigrationKeepsSettings
    OBVIOUS
  <1>1. GroupsTypeOK
    BY DEF GroupsInv, FileOK, GroupMap, GroupsTypeOK
  <1>2. ASSUME \A m \in HasOverride(syncFile) : SplitSlug[m] \in DOMAIN syncFile.groups =>
                  syncFile.groups[SplitSlug[m]].members \subseteq {m},
               NEW m \in SyncMods, Catchall \notin GroupOf(syncFile, m)
        PROVE  Effective(Migrated(syncFile), m) = Effective(syncFile, m)
    <2>1. FileOK(syncFile) /\ OwnNames(syncFile)
      BY <1>2 DEF GroupsInv, OwnNames, OwnName
    <2>. QED BY <1>2, <2>1, LoadKeepsSettings
  <1>3. MigrationKeepsSettings
    BY <1>2 DEF MigrationKeepsSettings
  <1>. QED BY <1>1, <1>3

\* The settings file is one the program can read, whatever is loaded and saved.
THEOREM GroupsTyped == GroupsSpec => []GroupsTypeOK
  <1>. QED BY InitGroups, GroupsStay, GroupsInvImplies, PTL DEF GroupsSpec

\* Loading the file of an older version changes no mod's settings, for any mods, groups
\* and order of the overrides: the migration of one override neither undoes nor is undone
\* by that of another.
THEOREM SettingsKept == GroupsSpec => []MigrationKeepsSettings
  <1>. QED BY InitGroups, GroupsStay, GroupsInvImplies, PTL DEF GroupsSpec

------------------------------------------------------------------------------
(* The forms of a preset                                                    *)

\* What an input may show.
SomeValues == UNION {FieldValues(t) : t \in DOMAIN EditedWith}
FormTexts ==
  (UNION {Typings(i) : i \in {"Toggle", "Integer", "Float", "Text", "Textarea"}})
    \cup {Shown(v) : v \in SomeValues}

\* A form that is open is of a section there is, and typed into where the setting is.
FormsInv ==
  /\ FormsTypeOK
  /\ form = NoForm \/ form \in [section : FormSections, typed : BOOLEAN, text : FormTexts]
  /\ form # NoForm /\ form.typed => form.section = focus.section

LEMMA TypesOfSettings ==
  ASSUME NEW x \in AllSettings
  PROVE  /\ x.type \in {"bool", "i32", "f64", "String"}
         /\ x.section \in FormSections
         /\ FieldOf(x) # {}
         /\ x.type = "bool" => \A f \in FieldOf(x) : f.input = "Toggle"
         /\ x.type = "i32" => \A f \in FieldOf(x) : f.input = "Integer"
         /\ x.type = "f64" => \A f \in FieldOf(x) : f.input = "Float"
         /\ x.type = "String" => \A f \in FieldOf(x) : f.input \in {"Text", "Textarea"}
  <1>1. x.type \in DOMAIN EditedWith /\ FieldOf(x) # {} /\ \A f \in FieldOf(x) : f.input \in EditedWith[x.type]
    BY TablesFit
  <1>2. DOMAIN EditedWith = {"bool", "i32", "f64", "String"}
    BY DEF EditedWith
  <1>3. EditedWith["bool"] = {"Toggle"} /\ EditedWith["i32"] = {"Integer"} /\ EditedWith["f64"] = {"Float"}
        /\ EditedWith["String"] = {"Text", "Textarea"}
    BY DEF EditedWith
  <1>4. x.section \in FormSections
    BY DEF AllSettings, SettingsOf
  <1>. QED BY <1>1, <1>2, <1>3, <1>4

LEMMA SectionsSettings ==
  ASSUME NEW s \in FormSections, NEW x \in SettingsOf(s)
  PROVE  x \in AllSettings
  BY DEF AllSettings

\* What a form was opened with, or was typed and let through, is taken; what arrives is
\* of the type of the setting, and what was meant.
Offered(x, text) ==
  \/ \E v \in FieldValues(x.type) : text = Shown(v)
  \/ \E f \in FieldOf(x) : text \in Typings(f.input)

LEMMA ShownIsTaken ==
  ASSUME NEW x \in AllSettings, NEW v \in FieldValues(x.type)
  PROVE  Taken(x, Shown(v))
  <1>1. ASSUME NEW f \in FieldOf(x) PROVE Valid(f.input, Shown(v)) /\ Fits(x.type, Posted(f.input, Shown(v)))
    <2>1. CASE x.type = "bool"
      BY <2>1, TypesOfSettings DEF FieldValues, Shown, Text, Valid, Fits, Posted
    <2>2. CASE x.type = "i32"
      BY <2>2, TypesOfSettings DEF FieldValues, Shown, Text, Valid, Fits, Posted, ParseNumber
    <2>3. CASE x.type = "f64"
      BY <2>3, TypesOfSettings DEF FieldValues, Shown, Text, Valid, Fits, Posted, ParseNumber
    <2>4. CASE x.type = "String"
      BY <2>4, TypesOfSettings DEF FieldValues, Shown, Text, Valid, Fits, Posted
    <2>. QED BY <2>1, <2>2, <2>3, <2>4, TypesOfSettings
  <1>. QED BY <1>1, TypesOfSettings DEF Taken

LEMMA TypedIsTaken ==
  ASSUME NEW x \in AllSettings, NEW g \in FieldOf(x), NEW text \in Typings(g.input),
         \A f \in FieldOf(x) : Valid(f.input, text)
  PROVE  Taken(x, text)
  <1>1. ASSUME NEW f \in FieldOf(x) PROVE Fits(x.type, Posted(f.input, text))
    <2>0. Valid(f.input, text)
      OBVIOUS
    <2>1. CASE x.type = "bool"
      BY <2>1, TypesOfSettings DEF Fits, Posted
    <2>2. CASE x.type = "i32"
      <3>1. f.input = "Integer" /\ g.input = "Integer"
        BY <2>2, TypesOfSettings
      <3>. QED BY <2>0, <2>2, <3>1 DEF Typings, Text, Valid, Fits, Posted, ParseNumber
    <2>3. CASE x.type = "f64"
      BY <2>3, TypesOfSettings DEF Fits, Posted
    <2>4. CASE x.type = "String"
      BY <2>4, TypesOfSettings DEF Fits, Posted
    <2>. QED BY <2>1, <2>2, <2>3, <2>4, TypesOfSettings
  <1>. QED BY <1>1, TypesOfSettings DEF Taken

LEMMA ReceivedIs ==
  ASSUME NEW x \in AllSettings, NEW text, Offered(x, text), Taken(x, text), NEW r \in Received(x, text)
  PROVE  /\ r \in FieldValues(x.type) /\ r # "missing"
         /\ r \in IF text.notation = "exponent" THEN {text.is, "digit"} ELSE {text.is}
  <1>1. PICK f \in FieldOf(x) : r = Posted(f.input, text).is
    BY TypesOfSettings DEF Received
  <1>2. Fits(x.type, Posted(f.input, text))
    BY TypesOfSettings DEF Taken
  <1>3. \/ \E v \in FieldValues(x.type) : text = Shown(v)
        \/ \E g \in FieldOf(x) : text \in Typings(g.input)
    BY DEF Offered
  <1>4. CASE x.type = "bool"
    BY <1>1, <1>3, <1>4, TypesOfSettings DEF FieldValues, Shown, Text, Posted, Typings
  <1>5. CASE x.type = "i32"
    <2>1. f.input = "Integer"
      BY <1>5, TypesOfSettings
    <2>2. r = ParseNumber(text) /\ r \notin {"fraction", "tiny"}
      BY <1>1, <1>2, <1>5, <2>1 DEF Posted, Fits
    <2>3. CASE \E v \in FieldValues(x.type) : text = Shown(v)
      BY <1>5, <2>2, <2>3 DEF FieldValues, Shown, Text, ParseNumber
    <2>4. CASE \E g \in FieldOf(x) : text \in Typings(g.input)
      <3>1. text \in Typings("Integer")
        BY <1>5, <2>4, TypesOfSettings
      <3>. QED BY <1>5, <2>2, <3>1 DEF FieldValues, Typings, Text, ParseNumber
    <2>. QED BY <1>3, <2>3, <2>4
  <1>6. CASE x.type = "f64"
    <2>1. f.input = "Float"
      BY <1>6, TypesOfSettings
    <2>2. r = ParseNumber(text)
      BY <1>1, <2>1 DEF Posted
    <2>3. CASE \E v \in FieldValues(x.type) : text = Shown(v)
      BY <1>6, <2>2, <2>3 DEF FieldValues, Shown, Text, ParseNumber
    <2>4. CASE \E g \in FieldOf(x) : text \in Typings(g.input)
      <3>1. text \in Typings("Float")
        BY <1>6, <2>4, TypesOfSettings
      <3>. QED BY <1>6, <2>2, <3>1 DEF FieldValues, Typings, Text, ParseNumber
    <2>. QED BY <1>3, <2>3, <2>4
  <1>7. CASE x.type = "String"
    <2>1. f.input \in {"Text", "Textarea"}
      BY <1>7, TypesOfSettings
    <2>2. r = text.is
      BY <1>1, <2>1 DEF Posted
    <2>3. CASE \E v \in FieldValues(x.type) : text = Shown(v)
      BY <1>7, <2>2, <2>3 DEF FieldValues, Shown, Text
    <2>4. CASE \E g \in FieldOf(x) : text \in Typings(g.input)
      <3>1. text \in Typings("Text")
        BY <1>7, <2>4, TypesOfSettings DEF Typings
      <3>. QED BY <1>7, <2>2, <3>1 DEF FieldValues, Typings, Text
    <2>. QED BY <1>3, <2>3, <2>4
  <1>. QED BY <1>4, <1>5, <1>6, <1>7, TypesOfSettings

LEMMA StandardIsTaken ==
  ASSUME NEW s \in FormSections
  PROVE  StandardTaken[s]
  <1>1. \A x \in AllSettings : "standard" \in FieldValues(x.type)
    BY TypesOfSettings DEF FieldValues
  <1>2. \A x \in SettingsOf(s) : Taken(x, Shown("standard"))
    BY <1>1, SectionsSettings, ShownIsTaken
  <1>. QED BY <1>2 DEF StandardTaken

LEMMA FormsInitInv == FormsInit => FormsInv
  <1>. SUFFICES ASSUME FormsInit PROVE FormsInv
    OBVIOUS
  <1>1. "standard" \in FieldValues(focus.type)
    BY TypesOfSettings DEF FormsInit, FieldValues
  <1>. QED BY <1>1 DEF FormsInit, FormsInv, FormsTypeOK

\* What is opened with, or typed, is one of the texts.
LEMMA ShownIsText ==
  ASSUME NEW x \in AllSettings, NEW v \in FieldValues(x.type)
  PROVE  Shown(v) \in FormTexts
  <1>1. x.type \in DOMAIN EditedWith
    BY TypesOfSettings DEF EditedWith
  <1>2. v \in SomeValues
    BY <1>1 DEF SomeValues
  <1>. QED BY <1>2 DEF FormTexts

LEMMA TypedIsText ==
  ASSUME NEW x \in AllSettings, NEW f \in FieldOf(x), NEW text \in Typings(f.input)
  PROVE  text \in FormTexts
  <1>1. f.input \in {"Toggle", "Integer", "Float", "Text", "Textarea"}
    BY TypesOfSettings
  <1>. QED BY <1>1 DEF FormTexts

LEMMA SavedIsMeant ==
  ASSUME FormsInv, SaveForm
  PROVE  /\ svmConf' \in FieldValues(focus.type) /\ svmConf' # "missing"
         /\ svmConf' \in MeantValue
  <1>1. focus \in AllSettings /\ svmConf \in FieldValues(focus.type) /\ form # NoForm
    BY DEF FormsInv, FormsTypeOK, SaveForm
  <1>2. \A v \in FieldValues(focus.type) : v # "missing"
    BY <1>1, TypesOfSettings DEF FieldValues
  <1>3. CASE form.section # focus.section
    BY <1>1, <1>2, <1>3 DEF SaveForm, MeantValue
  <1>4. CASE form.section = focus.section
    <2>1. Taken(focus, form.text) /\ svmConf' \in Received(focus, form.text)
      BY <1>4 DEF SaveForm, CanSave
    <2>2. Offered(focus, form.text)
      BY <1>1 DEF FormsInv, FormsTypeOK, Offered
    <2>. QED BY <1>1, <1>4, <2>1, <2>2, ReceivedIs DEF MeantValue
  <1>. QED BY <1>3, <1>4

LEMMA FormsNextInv == FormsInv /\ [FormsNext]_formVars => FormsInv'
  <1>. SUFFICES ASSUME FormsInv, [FormsNext]_formVars PROVE FormsInv'
    OBVIOUS
  <1>1. focus \in AllSettings /\ svmConf \in FieldValues(focus.type)
        /\ preset \in FieldValues(focus.type) \cup {"missing"}
    BY DEF FormsInv, FormsTypeOK
  <1>2. ASSUME NEW says \in (FieldValues(focus.type) \ {"digit"}) \cup {"missing"}, ReplacePreset(says)
        PROVE  FormsInv'
    <2>1. focus.missing \in {"standard", "zero", "error"}
      BY <1>1, TablesFit
    <2>2. {"standard", "zero"} \subseteq FieldValues(focus.type)
      BY <1>1, TypesOfSettings DEF FieldValues
    <2>3. svmConf' \in FieldValues(focus.type)
      BY <1>1, <1>2, <2>1, <2>2 DEF ReplacePreset, Deserialize
    <2>. QED BY <1>1, <1>2, <2>3 DEF ReplacePreset, FormsInv, FormsTypeOK
  <1>3. ASSUME NEW s \in {focus.section} \cup OtherSections, OpenForm(s)
        PROVE  FormsInv'
    <2>. DEFINE v == IF s = focus.section THEN svmConf ELSE "standard"
    <2>1. v \in FieldValues(focus.type)
      BY <1>1, TypesOfSettings DEF FieldValues
    <2>2. form' = [section |-> s, typed |-> FALSE, text |-> Shown(v)] /\ UNCHANGED <<focus, preset, svmConf>>
      BY <1>3 DEF OpenForm
    <2>3. s \in FormSections
      BY <1>1, TypesOfSettings, FormsAssumption
    <2>4. Shown(v) \in FormTexts
      BY <1>1, <2>1, ShownIsText
    <2>. HIDE DEF v
    <2>. QED BY <1>1, <2>1, <2>2, <2>3, <2>4 DEF FormsInv, FormsTypeOK
  <1>4. ASSUME NEW f \in FieldOf(focus), NEW text \in Typings(f.input), TypeIn(text)
        PROVE  FormsInv'
    <2>1. form \in [section : FormSections, typed : BOOLEAN, text : FormTexts]
          /\ form.section = focus.section
      BY <1>4 DEF TypeIn, FormsInv
    <2>2. text \in FormTexts
      BY <1>1, TypedIsText
    <2>3. form' = [form EXCEPT !.text = text, !.typed = TRUE] /\ UNCHANGED <<focus, preset, svmConf>>
      BY <1>4 DEF TypeIn
    <2>4. form' \in [section : FormSections, typed : BOOLEAN, text : FormTexts]
          /\ form'.section = form.section /\ form'.text = text /\ form'.typed = TRUE
      BY <2>1, <2>2, <2>3
    <2>. QED BY <1>1, <2>1, <2>3, <2>4 DEF FormsInv, FormsTypeOK
  <1>5. CASE CloseForm
    BY <1>1, <1>5 DEF CloseForm, FormsInv, FormsTypeOK
  <1>6. CASE SaveForm
    BY <1>1, <1>6, SavedIsMeant DEF SaveForm, FormsInv, FormsTypeOK
  <1>7. CASE UNCHANGED formVars
    BY <1>7 DEF formVars, FormsInv, FormsTypeOK
  <1>. QED BY <1>2, <1>3, <1>4, <1>5, <1>6, <1>7 DEF FormsNext

\* The form that is open is of a section there is, and shows or holds what an input of that
\* setting's kind can (src/src/web/handlers/svm.rs, src/src/assets/svm-form.js).
THEOREM FormsTyped == FormsSpec => []FormsTypeOK
  <1>1. FormsInv => FormsTypeOK
    BY DEF FormsInv
  <1>. QED BY <1>1, FormsInitInv, FormsNextInv, PTL DEF FormsSpec

\* A form as it was opened, or with what the browser let through, can be saved.
LEMMA LetThroughIsTaken == FormsInv => (form # NoForm /\ LetThrough => CanSave)
  <1>. SUFFICES ASSUME FormsInv, form # NoForm, LetThrough PROVE CanSave
    OBVIOUS
  <1>1. focus \in AllSettings /\ form.section \in FormSections /\ form.typed \in BOOLEAN
    BY DEF FormsInv, FormsTypeOK
  <1>2. StandardTaken[form.section]
    BY <1>1, StandardIsTaken
  <1>3. CASE form.typed
    <2>1. PICK g \in FieldOf(focus) : form.text \in Typings(g.input)
      BY <1>3 DEF FormsInv, FormsTypeOK
    <2>2. \A f \in FieldOf(focus) : Valid(f.input, form.text)
      BY <1>3 DEF LetThrough
    <2>3. Taken(focus, form.text)
      BY <1>1, <2>1, <2>2, TypedIsTaken
    <2>. QED BY <1>2, <2>3 DEF CanSave
  <1>4. CASE ~form.typed
    <2>1. PICK v \in FieldValues(focus.type) : form.text = Shown(v)
      BY <1>4 DEF FormsInv, FormsTypeOK
    <2>2. Taken(focus, form.text)
      BY <1>1, <2>1, ShownIsTaken
    <2>. QED BY <1>2, <2>2 DEF CanSave
  <1>. QED BY <1>3, <1>4

\* Whatever a preset holds and whoever replaces it, a form that is open can be saved, and
\* the save keeps or sets what was meant (src/src/web/handlers/svm.rs, save_section; the
\* script src/src/assets/svm-form.js).
THEOREM FormsKeep == FormsSpec => FormsKeepSettings
  <1>1. FormsInv /\ [FormsNext]_formVars
        => [SaveForm => svmConf' \in MeantValue /\ Deserialize(focus, preset') = svmConf']_formVars
    <2>1. ASSUME FormsInv, SaveForm PROVE svmConf' \in MeantValue /\ Deserialize(focus, preset') = svmConf'
      BY <2>1, SavedIsMeant DEF SaveForm, Deserialize
    <2>. QED BY <2>1
  <1>. QED BY <1>1, FormsInitInv, FormsNextInv, LetThroughIsTaken, PTL DEF FormsSpec, FormsKeepSettings
=============================================================================
