------------------------------ MODULE Accounts ------------------------------
(***************************************************************************)
(* The institutional accounts: what superusers do to them from the user    *)
(* panel and from the Django admin, and what their owners do themselves.   *)
(* A call of a superuser loads the account without a lock, then updates    *)
(* its row - which locks it until the call commits - and only then reads   *)
(* the groups it replaces.  The database is READ COMMITTED.                *)
(***************************************************************************)
EXTENDS PanelRoles, Naturals, FiniteSets

CONSTANTS Users,          \* institutional accounts; superusers are not managed here
          Superusers,     \* the superusers' open tabs, one call each
          Given,          \* the roles handed out (bound)
          MaxPasswords,   \* bound: passwords ever set
          None

ASSUME GivenAreRoles == Given \subseteq Roles /\ None \notin Given

VARIABLES account,    \* [active, password, must]; password 0: no such account
          groups,     \* the functional groups of each account
          sessions,   \* stored sessions: whose, and of which password
          issued,     \* passwords set so far; each is new, as its hash is salted
          call,       \* the call each superuser has in progress
          own         \* the login or password change each owner has in progress

accountVars == <<account, groups, sessions, issued, call, own>>

NoAccount == [active |-> FALSE, password |-> 0, must |-> FALSE]

Idle == [name |-> "idle"]

Exists(u) == account[u].password # 0

\* What request.user is: a session opens an active account whose password it was made for.
Opens(session) ==
    /\ account[session.user].active
    /\ account[session.user].password = session.password

LoggedIn(u) == \E session \in sessions : session.user = u /\ Opens(session)

SessionsOf(u) == {session \in sessions : session.user = u}

\* The row of an account is locked by the call that has updated it and not committed.
Locked(u) == \E s \in Superusers : call[s] # Idle /\ call[s].user = u /\ call[s].step # "loaded"

SetsRole(c) == c.name \in {"update", "admin_form"}

AccountsInit ==
    /\ account = [u \in Users |-> NoAccount]
    /\ groups = [u \in Users |-> {}]
    /\ sessions = {}
    /\ issued = 0
    /\ call = [s \in Superusers |-> Idle]
    /\ own = [u \in Users |-> Idle]

-----------------------------------------------------------------------------
(* Superusers                                                              *)

\* Bound: MaxPasswords.
NewPassword == issued < MaxPasswords /\ issued' = issued + 1

\* create_institutional_user: nobody sees any of it before it commits.
CreateUser(u, role, active) ==
    /\ ~Exists(u)
    /\ NewPassword
    /\ account' = [account EXCEPT ![u] = [active |-> active, password |-> issued + 1, must |-> TRUE]]
    /\ groups' = [groups EXCEPT ![u] = {role}]
    /\ UNCHANGED <<sessions, call, own>>

\* The admin's creation form: a role or none, and no access profile.
AdminCreateUser(u, role) ==
    /\ ~Exists(u)
    /\ NewPassword
    /\ account' = [account EXCEPT ![u] = [active |-> TRUE, password |-> issued + 1, must |-> FALSE]]
    /\ groups' = [groups EXCEPT ![u] = {role} \ {None}]
    /\ UNCHANGED <<sessions, call, own>>

Load(s, c) ==
    /\ call[s] = Idle
    /\ Exists(c.user)
    /\ call' = [call EXCEPT ![s] = c]
    /\ UNCHANGED <<account, groups, sessions, issued, own>>

\* What a call of the form keeps of the account, and one that sets no role: nothing.
Filled(name, u, role, active) ==
    [name |-> name, user |-> u, role |-> role, active |-> active,
     row |-> account[u], read |-> groups[u], step |-> "loaded"]

Plain(name, u) ==
    [name |-> name, user |-> u, role |-> None, active |-> FALSE,
     row |-> NoAccount, read |-> {}, step |-> "loaded"]

\* update_institutional_user refuses an account with two functional roles.
LoadUpdate(s, u, role, active) ==
    /\ Cardinality(groups[u]) <= 1
    /\ Load(s, Filled("update", u, role, active))

LoadActivate(s, u) == ~account[u].active /\ Load(s, Plain("activate", u))

LoadDeactivate(s, u) == account[u].active /\ Load(s, Plain("deactivate", u))

LoadReset(s, u) == Load(s, Plain("reset", u))

\* The admin's change form saves the whole row it loaded.
LoadAdminForm(s, u, role, active) == Load(s, Filled("admin_form", u, role, active))

\* The first UPDATE waits for whoever has updated the row.
UpdateRow(s) ==
    /\ call[s] # Idle
    /\ call[s].step = "loaded"
    /\ ~Locked(call[s].user)
    /\ call' = [call EXCEPT ![s].step = "updated"]
    /\ UNCHANGED <<account, groups, sessions, issued, own>>

\* Mutant of MembershipsRead: those the form was filled with.
MembershipsLoaded(c) == c.read

\* set_user_functional_role: the memberships to remove are read here, and not before.
MembershipsRead(c) == groups[c.user]

ReadGroups(s) ==
    /\ call[s] # Idle
    /\ SetsRole(call[s])
    /\ call[s].step = "updated"
    /\ call' = [call EXCEPT ![s].read = MembershipsRead(call[s]), ![s].step = "read"]
    /\ UNCHANGED <<account, groups, sessions, issued, own>>

Finished(s) ==
    /\ call[s] # Idle
    /\ call[s].step = IF SetsRole(call[s]) THEN "read" ELSE "updated"
    /\ call' = [call EXCEPT ![s] = Idle]

\* Whether a session ends is decided by what the call loaded, not by the row it updates.
CommitUpdate(s) ==
    LET c == call[s] IN
    /\ Finished(s)
    /\ c.name = "update"
    /\ account' = [account EXCEPT ![c.user].active = c.active]
    /\ groups' = [groups EXCEPT ![c.user] = (@ \ c.read) \cup {c.role}]
    /\ sessions' = IF c.row.active /\ ~c.active THEN sessions \ SessionsOf(c.user) ELSE sessions
    /\ UNCHANGED <<issued, own>>

CommitAdminForm(s) ==
    LET c == call[s] IN
    /\ Finished(s)
    /\ c.name = "admin_form"
    /\ account' = [account EXCEPT ![c.user].active = c.active,
                                  ![c.user].password = c.row.password]
    /\ groups' = [groups EXCEPT ![c.user] = (@ \ c.read) \cup ({c.role} \ {None})]
    /\ UNCHANGED <<sessions, issued, own>>

CommitActivate(s) ==
    LET c == call[s] IN
    /\ Finished(s)
    /\ c.name = "activate"
    /\ account' = [account EXCEPT ![c.user].active = TRUE]
    /\ UNCHANGED <<groups, sessions, issued, own>>

CommitDeactivate(s) ==
    LET c == call[s] IN
    /\ Finished(s)
    /\ c.name = "deactivate"
    /\ account' = [account EXCEPT ![c.user].active = FALSE]
    /\ sessions' = sessions \ SessionsOf(c.user)
    /\ UNCHANGED <<groups, issued, own>>

CommitReset(s) ==
    LET c == call[s] IN
    /\ Finished(s)
    /\ c.name = "reset"
    /\ NewPassword
    /\ account' = [account EXCEPT ![c.user].password = issued + 1, ![c.user].must = TRUE]
    /\ sessions' = sessions \ SessionsOf(c.user)
    /\ UNCHANGED <<groups, own>>

\* The call fails and is rolled back.
Abandon(s) ==
    /\ call[s] # Idle
    /\ call' = [call EXCEPT ![s] = Idle]
    /\ UNCHANGED <<account, groups, sessions, issued, own>>

-----------------------------------------------------------------------------
(* Owners                                                                  *)

\* The credentials are checked first, the session is stored after last_login.
StartLogin(u) ==
    /\ own[u] = Idle
    /\ account[u].active
    /\ own' = [own EXCEPT ![u] = [name |-> "login", row |-> account[u]]]
    /\ UNCHANGED <<account, groups, sessions, issued, call>>

FinishLogin(u) ==
    /\ own[u].name = "login"
    /\ ~Locked(u)
    /\ sessions' = sessions \cup {[user |-> u, password |-> own[u].row.password]}
    /\ own' = [own EXCEPT ![u] = Idle]
    /\ UNCHANGED <<account, groups, issued, call>>

Logout(u) ==
    /\ LoggedIn(u)
    /\ sessions' = sessions \ {session \in SessionsOf(u) : Opens(session)}
    /\ UNCHANGED <<account, groups, issued, call, own>>

StartChange(u) ==
    /\ own[u] = Idle
    /\ LoggedIn(u)
    /\ own' = [own EXCEPT ![u] = [name |-> "change", row |-> account[u]]]
    /\ UNCHANGED <<account, groups, sessions, issued, call>>

\* PasswordChangeForm.save writes every column of the row the request loaded and moves
\* the session to the new password.
SaveChange(u) ==
    /\ own[u].name = "change"
    /\ ~Locked(u)
    /\ NewPassword
    /\ account' = [account EXCEPT ![u].active = own[u].row.active, ![u].password = issued + 1]
    /\ sessions' = (sessions \ {[user |-> u, password |-> own[u].row.password]})
                       \cup {[user |-> u, password |-> issued + 1]}
    /\ own' = [own EXCEPT ![u].name = "saved"]
    /\ UNCHANGED <<groups, call>>

\* clear_must_change_password, which reads the profile only now.
ClearMustChange(u) ==
    /\ own[u].name = "saved"
    /\ account' = [account EXCEPT ![u].must = FALSE]
    /\ own' = [own EXCEPT ![u] = Idle]
    /\ UNCHANGED <<groups, sessions, issued, call>>

\* The request fails: before SaveChange nothing of it is kept.
AbandonOwn(u) ==
    /\ own[u] # Idle
    /\ own' = [own EXCEPT ![u] = Idle]
    /\ UNCHANGED <<account, groups, sessions, issued, call>>

-----------------------------------------------------------------------------
SuperuserNext ==
    \/ \E u \in Users, role \in Given, active \in BOOLEAN : CreateUser(u, role, active)
    \/ \E u \in Users, role \in Given \cup {None} : AdminCreateUser(u, role)
    \/ \E s \in Superusers, u \in Users :
          \/ LoadActivate(s, u) \/ LoadDeactivate(s, u) \/ LoadReset(s, u)
          \/ \E role \in Given, active \in BOOLEAN : LoadUpdate(s, u, role, active)
          \/ \E role \in Given \cup {None}, active \in BOOLEAN : LoadAdminForm(s, u, role, active)
    \/ \E s \in Superusers :
          \/ UpdateRow(s) \/ ReadGroups(s)
          \/ CommitUpdate(s) \/ CommitAdminForm(s)
          \/ CommitActivate(s) \/ CommitDeactivate(s) \/ CommitReset(s) \/ Abandon(s)

OwnerNext ==
    \E u \in Users :
        \/ StartLogin(u) \/ FinishLogin(u) \/ Logout(u)
        \/ StartChange(u) \/ SaveChange(u) \/ ClearMustChange(u)
        \/ AbandonOwn(u)

AccountsNext == SuperuserNext \/ OwnerNext

AccountsSpec == AccountsInit /\ [][AccountsNext]_accountVars

-----------------------------------------------------------------------------
\* However updates of the panel and of the admin interleave, no account ever belongs to
\* two functional groups (role_services.py:147, docs/ROLES_AND_PERMISSIONS.md:27-31): the
\* permissions of two roles never add up.
OneFunctionalRole == \A u \in Users : Cardinality(groups[u]) <= 1
=============================================================================
