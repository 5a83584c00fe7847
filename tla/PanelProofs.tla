----------------------------- MODULE PanelProofs -----------------------------
(***************************************************************************)
(* Theorems about the parts of the panel, for any number of users,         *)
(* superusers, requests, processes, threads and creators.                  *)
(*                                                                         *)
(* OneFunctionalRole: what a call removes it has read while it held the    *)
(* row of the account, and nobody else writes the groups of an account     *)
(* whose row is locked.  Then EvidenceFrozen and ActsWithinRole of the     *)
(* desks beside them: a page keeps the roles that let it be posted, and    *)
(* the services check the row.  OfferedWorkOpens follows from the          *)
(* permissions each role is given.                                         *)
(*                                                                         *)
(* HiddenAgesOut, for any Timeout and any RenderTime: a page is read at    *)
(* most RenderTime before it is stored and stored for Timeout, so whatever *)
(* shows a project that is no longer public was read no later than hidden. *)
(*                                                                         *)
(* The operational codes, for any codes typed before there were sequences: *)
(* creations give consecutive numbers and the inspection, which takes no   *)
(* lock, raises no false alarm.                                            *)
(***************************************************************************)
EXTENDS ExpenseDesk, PublicPortal, OperationalCodes, FiniteSetTheorems, TLAPS

-------------------------------------------------------------------------------
(* The accounts and the desk of expense requests.                          *)

AccountRow == [active : BOOLEAN, password : Nat, must : BOOLEAN]

CallType ==
    [name : {"update", "activate", "deactivate", "reset", "admin_form"}, user : Users,
     role : Given \cup {None}, active : BOOLEAN, row : AccountRow, read : SUBSET Given,
     step : {"loaded", "updated", "read"}]

AccountsTypeOK ==
    /\ account \in [Users -> AccountRow]
    /\ groups \in [Users -> SUBSET Given]
    /\ issued \in Nat
    /\ call \in [Superusers -> CallType \cup {Idle}]

\* Accounts are never removed: a call works on one that exists, and one that does not has
\* no groups.
CallsHaveAccounts ==
    /\ \A u \in Users : ~Exists(u) => groups[u] = {}
    /\ \A s \in Superusers : call[s] # Idle =>
          /\ Exists(call[s].user)
          /\ call[s].name = "update" => call[s].role \in Given
          /\ call[s].name = "admin_form" => call[s].row.password # 0

\* One call at a time has updated a row, and what it then reads stays true until it commits.
LockHolds ==
    /\ \A s, t \in Superusers :
          s # t /\ call[s] # Idle /\ call[t] # Idle
             /\ call[s].step # "loaded" /\ call[t].step # "loaded" => call[s].user # call[t].user
    /\ \A s \in Superusers :
          call[s] # Idle /\ call[s].step = "read" => call[s].read = groups[call[s].user]

AtMostOne(roles) == \A x, y \in roles : x = y

AccountsInv ==
    /\ AccountsTypeOK
    /\ CallsHaveAccounts
    /\ LockHolds
    /\ \A u \in Users : AtMostOne(groups[u])

-----------------------------------------------------------------------------
LEMMA AccountsInvInit == AccountsInit => AccountsInv
  BY DEF AccountsInit, AccountsInv, AccountsTypeOK, CallsHaveAccounts, LockHolds, AtMostOne,
         AccountRow, NoAccount, Exists

\* The groups of a new account.
LEMMA CreateKeeps ==
    ASSUME NEW u \in Users, NEW row \in AccountRow, NEW roles \in SUBSET Given,
           AccountsInv, ~Exists(u), row.password # 0, AtMostOne(roles),
           issued' \in Nat,
           account' = [account EXCEPT ![u] = row],
           groups' = [groups EXCEPT ![u] = roles],
           call' = call
    PROVE  AccountsInv'
  <1>1. AccountsTypeOK'
    BY DEF AccountsInv, AccountsTypeOK
  <1>2. \A s \in Superusers : call[s] # Idle => call[s] \in CallType /\ call[s].user # u
    BY DEF AccountsInv, AccountsTypeOK, CallsHaveAccounts
  <1>3. CallsHaveAccounts'
    BY <1>2 DEF AccountsInv, AccountsTypeOK, CallsHaveAccounts, Exists, CallType
  <1>4. LockHolds'
    BY <1>2 DEF AccountsInv, AccountsTypeOK, LockHolds, CallType
  <1>5. \A v \in Users : AtMostOne(groups'[v])
    BY DEF AccountsInv, AccountsTypeOK
  <1> QED BY <1>1, <1>3, <1>4, <1>5 DEF AccountsInv

\* A call that begins has changed nothing.
LEMMA LoadKeeps ==
    ASSUME NEW s \in Superusers, NEW c \in CallType, AccountsInv, Load(s, c),
           c.step = "loaded",
           c.name = "update" => c.role \in Given,
           c.name = "admin_form" => c.row = account[c.user]
    PROVE  AccountsInv'
  <1>1. AccountsTypeOK'
    BY DEF AccountsInv, AccountsTypeOK, Load
  <1>2. CallsHaveAccounts'
    BY DEF AccountsInv, AccountsTypeOK, CallsHaveAccounts, Load, Exists, CallType
  <1>3. LockHolds'
    BY DEF AccountsInv, AccountsTypeOK, LockHolds, Load
  <1> QED BY <1>1, <1>2, <1>3 DEF AccountsInv, Load

LEMMA LoadsKeep ==
    ASSUME NEW s \in Superusers, NEW u \in Users, AccountsInv,
           \/ LoadActivate(s, u) \/ LoadDeactivate(s, u) \/ LoadReset(s, u)
           \/ \E role \in Given, active \in BOOLEAN : LoadUpdate(s, u, role, active)
           \/ \E role \in Given \cup {None}, active \in BOOLEAN : LoadAdminForm(s, u, role, active)
    PROVE  AccountsInv'
  <1>1. \A name \in {"activate", "deactivate", "reset"} :
            /\ Plain(name, u) \in CallType
            /\ Plain(name, u).step = "loaded" /\ Plain(name, u).name = name
    BY DEF Plain, CallType, AccountRow, NoAccount
  <1>2. \A name \in {"update", "admin_form"}, role \in Given \cup {None}, active \in BOOLEAN :
            LET c == Filled(name, u, role, active) IN
            /\ c \in CallType
            /\ c.step = "loaded" /\ c.name = name /\ c.user = u /\ c.role = role
            /\ c.row = account[u]
    BY DEF Filled, CallType, AccountsInv, AccountsTypeOK
  <1>3. CASE LoadActivate(s, u)
    BY <1>1, <1>3, LoadKeeps DEF LoadActivate
  <1>4. CASE LoadDeactivate(s, u)
    BY <1>1, <1>4, LoadKeeps DEF LoadDeactivate
  <1>5. CASE LoadReset(s, u)
    BY <1>1, <1>5, LoadKeeps DEF LoadReset
  <1>6. ASSUME NEW role \in Given, NEW active \in BOOLEAN, LoadUpdate(s, u, role, active)
        PROVE  AccountsInv'
    <2> DEFINE c == Filled("update", u, role, active)
    <2>1. c \in CallType /\ c.step = "loaded" /\ c.name = "update" /\ c.role \in Given
      BY <1>2
    <2>2. Load(s, c)
      BY <1>6 DEF LoadUpdate
    <2> HIDE DEF c
    <2> QED BY <2>1, <2>2, LoadKeeps
  <1>7. ASSUME NEW role \in Given \cup {None}, NEW active \in BOOLEAN,
               LoadAdminForm(s, u, role, active)
        PROVE  AccountsInv'
    <2> DEFINE c == Filled("admin_form", u, role, active)
    <2>1. c \in CallType /\ c.step = "loaded" /\ c.name = "admin_form" /\ c.row = account[c.user]
      BY <1>2
    <2>2. Load(s, c)
      BY <1>7 DEF LoadAdminForm
    <2> HIDE DEF c
    <2> QED BY <2>1, <2>2, LoadKeeps
  <1> QED BY <1>3, <1>4, <1>5, <1>6, <1>7

\* The first UPDATE takes the lock.
LEMMA UpdateRowKeeps == ASSUME NEW s \in Superusers, AccountsInv, UpdateRow(s) PROVE AccountsInv'
  <1>1. call[s] \in CallType /\ call' = [call EXCEPT ![s].step = "updated"]
    BY DEF AccountsInv, AccountsTypeOK, UpdateRow
  <1>2. call'[s] = [call[s] EXCEPT !.step = "updated"] /\ call'[s] \in CallType
    BY <1>1 DEF AccountsInv, AccountsTypeOK, CallType
  <1>3. \A t \in Superusers \ {s} : call'[t] = call[t]
    BY <1>1 DEF AccountsInv, AccountsTypeOK
  <1>4. AccountsTypeOK'
    BY <1>1, <1>2, <1>3 DEF AccountsInv, AccountsTypeOK, UpdateRow
  <1>5. CallsHaveAccounts'
    BY <1>1, <1>2, <1>3 DEF AccountsInv, CallsHaveAccounts, UpdateRow, Exists, CallType
  <1>6. \A t \in Superusers \ {s} :
            call[t] # Idle /\ call[t].step # "loaded" => call[t].user # call[s].user
    BY <1>1 DEF UpdateRow, Locked
  <1>7. LockHolds'
    BY <1>1, <1>2, <1>3, <1>6 DEF AccountsInv, LockHolds, UpdateRow, CallType
  <1> QED BY <1>4, <1>5, <1>7 DEF AccountsInv, UpdateRow

LEMMA ReadGroupsKeeps == ASSUME NEW s \in Superusers, AccountsInv, ReadGroups(s) PROVE AccountsInv'
  <1> DEFINE c == [call[s] EXCEPT !.read = groups[call[s].user], !.step = "read"]
  <1>1. /\ call[s] \in CallType /\ call[s] # Idle /\ call[s].step # "loaded"
        /\ UNCHANGED <<account, groups, issued>>
        /\ call' = [call EXCEPT ![s] = c]
    BY DEF AccountsInv, AccountsTypeOK, ReadGroups, MembershipsRead, CallType
  <1>2. /\ c \in CallType /\ c.user = call[s].user /\ c.name = call[s].name
        /\ c.role = call[s].role /\ c.row = call[s].row
        /\ c.read = groups[c.user] /\ c.step = "read"
    BY <1>1 DEF AccountsInv, AccountsTypeOK, CallType
  <1>3. call'[s] = c /\ \A t \in Superusers \ {s} : call'[t] = call[t]
    BY <1>1 DEF AccountsInv, AccountsTypeOK
  <1> HIDE DEF c
  <1>4. AccountsTypeOK'
    BY <1>1, <1>2 DEF AccountsInv, AccountsTypeOK
  <1>5. CallsHaveAccounts'
    BY <1>1, <1>2, <1>3 DEF AccountsInv, CallsHaveAccounts, Exists
  <1>6. LockHolds'
    BY <1>1, <1>2, <1>3 DEF AccountsInv, LockHolds
  <1> QED BY <1>1, <1>4, <1>5, <1>6 DEF AccountsInv

\* A call that ends, committed or not, and leaves the groups of its account alone or sets
\* those of the account it holds.
LEMMA EndKeeps ==
    ASSUME NEW s \in Superusers, NEW roles \in SUBSET Given, AccountsInv,
           call[s] # Idle,
           call' = [call EXCEPT ![s] = Idle],
           account' \in [Users -> AccountRow],
           \A u \in Users : Exists(u) => account'[u].password # 0,
           issued' \in Nat,
           \/ groups' = groups
           \/ /\ groups' = [groups EXCEPT ![call[s].user] = roles]
              /\ call[s].step # "loaded"
              /\ AtMostOne(roles)
    PROVE  AccountsInv'
  <1>1. call[s] \in CallType /\ call[s].user \in Users /\ Exists(call[s].user)
    BY DEF AccountsInv, AccountsTypeOK, CallsHaveAccounts, CallType
  <1>2. call'[s] = Idle /\ \A t \in Superusers \ {s} : call'[t] = call[t]
    BY DEF AccountsInv, AccountsTypeOK
  <1>3. AccountsTypeOK'
    BY <1>1 DEF AccountsInv, AccountsTypeOK
  <1>4. CallsHaveAccounts'
    <2>1. \A u \in Users : Exists(u) => account'[u].password # 0
      BY DEF Exists
    <2>2. \A u \in Users : account'[u].password = 0 => groups'[u] = {}
      BY <1>1, <2>1 DEF AccountsInv, AccountsTypeOK, CallsHaveAccounts
    <2>3. \A t \in Superusers : call'[t] # Idle => call'[t] = call[t] /\ call[t] # Idle
      BY <1>2
    <2>4. \A t \in Superusers : call[t] # Idle => call[t].user \in Users
      BY DEF AccountsInv, AccountsTypeOK, CallType
    <2>5. \A t \in Superusers : call'[t] # Idle =>
              /\ account'[call'[t].user].password # 0
              /\ call'[t].name = "update" => call'[t].role \in Given
              /\ call'[t].name = "admin_form" => call'[t].row.password # 0
      BY <2>1, <2>3, <2>4 DEF AccountsInv, CallsHaveAccounts
    <2> QED BY <2>2, <2>5 DEF CallsHaveAccounts, Exists
  <1>5. LockHolds'
    BY <1>1, <1>2 DEF AccountsInv, AccountsTypeOK, LockHolds, CallType
  <1>6. \A u \in Users : AtMostOne(groups'[u])
    BY <1>1 DEF AccountsInv, AccountsTypeOK
  <1> QED BY <1>3, <1>4, <1>5, <1>6 DEF AccountsInv

\* Whoever commits new groups has read the groups it replaces, and read them all.
LEMMA CommitKeeps ==
    ASSUME NEW s \in Superusers, AccountsInv,
           \/ CommitUpdate(s) \/ CommitAdminForm(s) \/ CommitActivate(s)
           \/ CommitDeactivate(s) \/ CommitReset(s) \/ Abandon(s)
    PROVE  AccountsInv'
  <1> DEFINE c == call[s]
  <1>1. c # Idle /\ c \in CallType /\ c.user \in Users /\ Exists(c.user)
    BY DEF CommitUpdate, CommitAdminForm, CommitActivate, CommitDeactivate, CommitReset,
           Abandon, Finished, AccountsInv, AccountsTypeOK, CallsHaveAccounts, CallType
  <1>2. /\ account \in [Users -> AccountRow]
        /\ groups \in [Users -> SUBSET Given]
        /\ issued \in Nat
    BY DEF AccountsInv, AccountsTypeOK
  <1>3. c.step = "read" => c.read = groups[c.user]
    BY <1>1 DEF AccountsInv, LockHolds
  <1>4. c.row \in AccountRow /\ c.active \in BOOLEAN
    BY <1>1 DEF CallType
  <1>5. CASE CommitUpdate(s)
    <2>1. groups' = [groups EXCEPT ![c.user] = {c.role}]
      BY <1>2, <1>3, <1>5 DEF CommitUpdate, Finished, SetsRole
    <2>2. {c.role} \in SUBSET Given /\ AtMostOne({c.role})
      BY <1>1, <1>5 DEF CommitUpdate, AccountsInv, CallsHaveAccounts, AtMostOne
    <2>3. /\ account' \in [Users -> AccountRow]
          /\ \A u \in Users : Exists(u) => account'[u].password # 0
      BY <1>1, <1>2, <1>4, <1>5 DEF CommitUpdate, AccountRow, Exists
    <2>4. c.step # "loaded" /\ call' = [call EXCEPT ![s] = Idle] /\ issued' = issued
      BY <1>5 DEF CommitUpdate, Finished, SetsRole
    <2> QED BY <1>1, <1>2, <2>1, <2>2, <2>3, <2>4, EndKeeps
  <1>6. CASE CommitAdminForm(s)
    <2> DEFINE roles == {c.role} \ {None}
    <2>1. groups' = [groups EXCEPT ![c.user] = roles]
      BY <1>2, <1>3, <1>6 DEF CommitAdminForm, Finished, SetsRole
    <2>2. roles \in SUBSET Given /\ AtMostOne(roles)
      BY <1>1 DEF CallType, AtMostOne
    <2>3. c.row.password # 0
      BY <1>1, <1>6 DEF CommitAdminForm, AccountsInv, CallsHaveAccounts
    <2>4. /\ account' \in [Users -> AccountRow]
          /\ \A u \in Users : Exists(u) => account'[u].password # 0
      BY <1>1, <1>2, <1>4, <1>6, <2>3 DEF CommitAdminForm, AccountRow, Exists
    <2>5. c.step # "loaded" /\ call' = [call EXCEPT ![s] = Idle] /\ issued' = issued
      BY <1>6 DEF CommitAdminForm, Finished, SetsRole
    <2> HIDE DEF roles
    <2> QED BY <1>1, <1>2, <2>1, <2>2, <2>4, <2>5, EndKeeps
  <1>7. CASE CommitActivate(s) \/ CommitDeactivate(s) \/ Abandon(s)
    <2>1. /\ account' \in [Users -> AccountRow]
          /\ \A u \in Users : Exists(u) => account'[u].password # 0
      <3>1. \/ account' = account
            \/ \E b \in BOOLEAN : account' = [account EXCEPT ![c.user].active = b]
        BY <1>7 DEF CommitActivate, CommitDeactivate, Abandon
      <3> HIDE DEF c
      <3> QED BY <1>1, <1>2, <3>1 DEF AccountRow, Exists
    <2>2. call' = [call EXCEPT ![s] = Idle] /\ issued' = issued /\ groups' = groups
      BY <1>7 DEF CommitActivate, CommitDeactivate, Abandon, Finished
    <2>3. issued' \in Nat /\ {} \in SUBSET Given /\ call[s] # Idle
      BY <1>1, <1>2, <2>2
    <2> QED BY ONLY s \in Superusers, AccountsInv, <2>1, <2>2, <2>3, EndKeeps
  <1>8. CASE CommitReset(s)
    <2>1. /\ account' \in [Users -> AccountRow]
          /\ \A u \in Users : Exists(u) => account'[u].password # 0
      <3>1. account' = [account EXCEPT ![c.user].password = issued + 1, ![c.user].must = TRUE]
        BY <1>8 DEF CommitReset, NewPassword
      <3> HIDE DEF c
      <3> QED BY <1>1, <1>2, <3>1 DEF AccountRow, Exists
    <2>2. call' = [call EXCEPT ![s] = Idle] /\ issued' \in Nat /\ groups' = groups
      BY <1>2, <1>8 DEF CommitReset, NewPassword, Finished
    <2> QED BY <1>1, <1>2, <2>1, <2>2, EndKeeps
  <1> QED BY <1>5, <1>6, <1>7, <1>8

-----------------------------------------------------------------------------
\* What an owner's request keeps of the row it loaded.
OwnType == [name : {"login", "change", "saved"}, row : AccountRow]

OwnTypeOK == own \in [Users -> OwnType \cup {Idle}]

\* A request in progress is not idle.
LEMMA NamedIsNotIdle ==
    ASSUME NEW u \in Users, OwnTypeOK, own[u].name \in {"login", "change", "saved"}
    PROVE  own[u] \in OwnType
  BY DEF Idle, OwnTypeOK

\* Owners write neither groups nor calls.
LEMMA OwnerKeeps ==
    ASSUME AccountsInv, OwnTypeOK, OwnerNext
    PROVE  AccountsInv'
  <1>1. PICK u \in Users :
            \/ StartLogin(u) \/ FinishLogin(u) \/ Logout(u)
            \/ StartChange(u) \/ SaveChange(u) \/ ClearMustChange(u) \/ AbandonOwn(u)
    BY DEF OwnerNext
  <1>2. groups' = groups /\ call' = call
    BY <1>1 DEF StartLogin, FinishLogin, Logout, StartChange, SaveChange, ClearMustChange,
                AbandonOwn
  <1>3. account \in [Users -> AccountRow] /\ issued \in Nat
    BY DEF AccountsInv, AccountsTypeOK
  <1>4. /\ account' \in [Users -> AccountRow] /\ issued' \in Nat
        /\ \A v \in Users : Exists(v) => account'[v].password # 0
    <2>1. CASE SaveChange(u)
      <3> DEFINE active == own[u].row.active
      <3>1. active \in BOOLEAN
        BY <2>1, NamedIsNotIdle DEF SaveChange, OwnType, AccountRow
      <3>2. /\ account' = [account EXCEPT ![u].active = active, ![u].password = issued + 1]
            /\ issued' = issued + 1
        BY <2>1 DEF SaveChange, NewPassword
      <3> HIDE DEF active
      <3>3. account' \in [Users -> AccountRow]
        <4> DEFINE mid == [account EXCEPT ![u].active = active]
        <4>1. mid \in [Users -> AccountRow]
          BY <1>3, <3>1 DEF AccountRow
        <4>2. account' = [mid EXCEPT ![u].password = issued + 1]
          BY <3>2
        <4> HIDE DEF mid
        <4> QED BY <1>3, <4>1, <4>2 DEF AccountRow
      <3>4. \A v \in Users : v # u => account'[v] = account[v]
        BY <1>3, <3>2
      <3>5. account'[u].password = issued + 1
        BY <1>3, <3>2 DEF AccountRow
      <3> QED BY <1>3, <3>2, <3>3, <3>4, <3>5 DEF Exists
    <2>2. CASE ClearMustChange(u)
      BY <1>3, <2>2 DEF ClearMustChange, AccountRow, Exists
    <2>3. CASE account' = account /\ issued' = issued
      BY <1>3, <2>3 DEF Exists
    <2> QED BY <1>1, <2>1, <2>2, <2>3
            DEF StartLogin, FinishLogin, Logout, StartChange, AbandonOwn
  <1>5. \A v \in Users : account'[v].password = 0 => ~Exists(v)
    BY <1>4
  <1>6. AccountsTypeOK'
    BY <1>2, <1>4 DEF AccountsInv, AccountsTypeOK
  <1>7. CallsHaveAccounts'
    <2>1. \A s \in Superusers : call[s] # Idle => call[s].user \in Users
      BY DEF AccountsInv, AccountsTypeOK, CallType
    <2> QED BY <1>2, <1>4, <1>5, <2>1 DEF AccountsInv, CallsHaveAccounts, Exists
  <1>8. LockHolds'
    BY <1>2 DEF AccountsInv, LockHolds
  <1> QED BY <1>2, <1>6, <1>7, <1>8 DEF AccountsInv

LEMMA OwnTypeKept ==
    ASSUME AccountsInv, OwnTypeOK, AccountsNext \/ UNCHANGED accountVars
    PROVE  OwnTypeOK'
  <1>1. account \in [Users -> AccountRow]
    BY DEF AccountsInv, AccountsTypeOK
  <1>2. CASE SuperuserNext \/ UNCHANGED accountVars
    <2>1. own' = own
      BY <1>2 DEF SuperuserNext, accountVars, CreateUser, AdminCreateUser, LoadActivate,
             LoadDeactivate, LoadReset, LoadUpdate, LoadAdminForm, Load, UpdateRow, ReadGroups,
             CommitUpdate, CommitAdminForm, CommitActivate, CommitDeactivate, CommitReset,
             Abandon
    <2> QED BY <2>1 DEF OwnTypeOK
  <1>3. ASSUME NEW u \in Users, NEW work \in OwnType \cup {Idle},
               own' = [own EXCEPT ![u] = work]
        PROVE  OwnTypeOK'
    BY <1>3 DEF OwnTypeOK
  <1>4. CASE OwnerNext
    <2>1. PICK u \in Users :
              \/ StartLogin(u) \/ FinishLogin(u) \/ Logout(u)
              \/ StartChange(u) \/ SaveChange(u) \/ ClearMustChange(u) \/ AbandonOwn(u)
      BY <1>4 DEF OwnerNext
    <2>2. CASE FinishLogin(u) \/ ClearMustChange(u) \/ AbandonOwn(u)
      BY <1>3, <2>2 DEF FinishLogin, ClearMustChange, AbandonOwn
    <2>3. CASE StartLogin(u) \/ StartChange(u)
      BY <1>1, <2>3 DEF StartLogin, StartChange, OwnType, OwnTypeOK
    <2>4. CASE SaveChange(u)
      BY <2>4, NamedIsNotIdle DEF SaveChange, OwnType, OwnTypeOK
    <2>5. CASE Logout(u)
      BY <2>5 DEF Logout, OwnTypeOK
    <2> QED BY <2>1, <2>2, <2>3, <2>4, <2>5
  <1> QED BY <1>2, <1>4 DEF AccountsNext

-----------------------------------------------------------------------------
LEMMA AccountsStep ==
    ASSUME AccountsInv, OwnTypeOK, AccountsNext
    PROVE  AccountsInv'
  <1>1. account \in [Users -> AccountRow] /\ issued \in Nat
    BY DEF AccountsInv, AccountsTypeOK
  <1>2. ASSUME NEW u \in Users, NEW role \in Given, NEW active \in BOOLEAN,
               CreateUser(u, role, active)
        PROVE  AccountsInv'
    <2> DEFINE row == [active |-> active, password |-> issued + 1, must |-> TRUE]
    <2>1. row \in AccountRow /\ row.password # 0 /\ issued + 1 \in Nat
      BY <1>1 DEF AccountRow
    <2>2. {role} \in SUBSET Given /\ AtMostOne({role})
      BY DEF AtMostOne
    <2>3. /\ ~Exists(u) /\ issued' = issued + 1
          /\ account' = [account EXCEPT ![u] = row]
          /\ groups' = [groups EXCEPT ![u] = {role}]
          /\ call' = call
      BY <1>2 DEF CreateUser, NewPassword
    <2> HIDE DEF row
    <2> QED BY <2>1, <2>2, <2>3, CreateKeeps
  <1>3. ASSUME NEW u \in Users, NEW role \in Given \cup {None}, AdminCreateUser(u, role)
        PROVE  AccountsInv'
    <2> DEFINE row == [active |-> TRUE, password |-> issued + 1, must |-> FALSE]
               roles == {role} \ {None}
    <2>1. row \in AccountRow /\ row.password # 0 /\ issued + 1 \in Nat
      BY <1>1 DEF AccountRow
    <2>2. roles \in SUBSET Given /\ AtMostOne(roles)
      BY DEF AtMostOne
    <2>3. /\ ~Exists(u) /\ issued' = issued + 1
          /\ account' = [account EXCEPT ![u] = row]
          /\ groups' = [groups EXCEPT ![u] = roles]
          /\ call' = call
      BY <1>3 DEF AdminCreateUser, NewPassword
    <2> HIDE DEF row, roles
    <2> QED BY <2>1, <2>2, <2>3, CreateKeeps
  <1>4. ASSUME NEW s \in Superusers,
               \/ UpdateRow(s) \/ ReadGroups(s)
               \/ CommitUpdate(s) \/ CommitAdminForm(s)
               \/ CommitActivate(s) \/ CommitDeactivate(s) \/ CommitReset(s) \/ Abandon(s)
        PROVE  AccountsInv'
    BY <1>4, UpdateRowKeeps, ReadGroupsKeeps, CommitKeeps
  <1> QED BY <1>2, <1>3, <1>4, LoadsKeep, OwnerKeeps DEF AccountsNext, SuperuserNext

LEMMA AtMostOneIsOne ==
    ASSUME NEW roles, AtMostOne(roles) PROVE Cardinality(roles) <= 1
  <1>1. CASE roles = {}
    BY <1>1, FS_EmptySet
  <1>2. CASE roles # {}
    <2>1. PICK role \in roles : TRUE
      BY <1>2
    <2>2. roles = {role}
      BY <2>1 DEF AtMostOne
    <2>3. Cardinality({role}) = 1
      BY FS_Singleton
    <2> QED BY <2>2, <2>3
  <1> QED BY <1>1, <1>2

LEMMA AccountsInvKept ==
    ASSUME AccountsInv, OwnTypeOK, [AccountsNext]_accountVars
    PROVE  AccountsInv' /\ OwnTypeOK'
  <1>1. OwnTypeOK'
    BY OwnTypeKept
  <1>2. UNCHANGED accountVars => AccountsInv'
    BY DEF accountVars, AccountsInv, AccountsTypeOK, CallsHaveAccounts, LockHolds, Exists
  <1>3. AccountsNext => AccountsInv'
    BY AccountsStep
  <1> QED BY <1>1, <1>2, <1>3

\* The invariant of the accounts, for any number of accounts and of superusers at work.
THEOREM AccountsSafe == AccountsSpec => [](AccountsInv /\ OwnTypeOK)
  <1>1. AccountsInit => AccountsInv /\ OwnTypeOK
    BY AccountsInvInit DEF AccountsInit, OwnTypeOK
  <1>2. AccountsInv /\ OwnTypeOK /\ [AccountsNext]_accountVars => (AccountsInv /\ OwnTypeOK)'
    BY AccountsInvKept
  <1> QED BY <1>1, <1>2, PTL DEF AccountsSpec

\* OneFunctionalRole of Accounts: no interleaving of panel and admin updates leaves an
\* account in two functional groups (set_user_functional_role).
THEOREM OneRole == AccountsSpec => []OneFunctionalRole
  <1>1. AccountsInv => OneFunctionalRole
    BY AtMostOneIsOne DEF AccountsInv, OneFunctionalRole
  <1> QED BY <1>1, AccountsSafe, PTL

-----------------------------------------------------------------------------
(* The desks                                                               *)

RequestRow ==
    [status : {"absent", "pending_decision", "approved_reserved", "withdrawn", "denied",
               "fulfilled", "annulled"},
     owner : Users \cup {None}, papers : SUBSET Papers]

Pages ==
    {"create", "update", "withdraw", "annul", "approve", "deny", "fulfill", "attach", "detach"}

PostedPage ==
    [name : Pages, user : Users, roles : SUBSET Given, request : Requests \cup {None},
     paper : Papers \cup {None}, step : {"posted", "stored"}]

\* The roles that let a page be posted.
RolesFor(page) ==
    CASE page \in {"approve", "deny"} -> {"committee"}
      [] page \in {"fulfill", "annul"} -> {"admin"}
      [] OTHER -> {"operator", "admin"}

DeskTypeOK ==
    /\ request \in [Requests -> RequestRow]
    /\ tab \in [Tabs -> PostedPage \cup {Idle}]

\* A page that waits was posted with a role for it; only a creation is of no request, and one
\* about a file names it; a request that is not there has no files.
DeskInOrder ==
    /\ \A t \in Tabs : tab[t] # Idle =>
          /\ tab[t].roles \cap RolesFor(tab[t].name) # {}
          /\ IF tab[t].name = "create" THEN tab[t].request = None ELSE tab[t].request \in Requests
          /\ tab[t].name \in {"attach", "detach"} => tab[t].paper \in Papers
    /\ \A r \in Requests : request[r].status = "absent" => request[r].papers = {}

\* Which functional group has a permission (sync_operation_roles).
LEMMA RoleOfVerb ==
    ASSUME NEW g \in Roles
    PROVE  /\ Holds(g, "decide", "expenserequest") => g = "committee"
           /\ Holds(g, "fulfill", "expenserequest") => g = "admin"
           /\ Holds(g, "annul", "expenserequest") => g = "admin"
           /\ Holds(g, "withdraw", "expenserequest") => g \in {"operator", "admin"}
           /\ Holds(g, "add", "expenserequest") => g \in {"operator", "admin"}
           /\ Holds(g, "change", "expenserequest") => g \in {"operator", "admin"}
           /\ Holds(g, "add", "expenserequestattachment") => g \in {"operator", "admin"}
           /\ Holds(g, "delete", "expenserequestattachment") => g \in {"operator", "admin"}
  <1>1. CASE g = "admin"
    <2>1. <<"decide", "expenserequest">> \notin Permissions["admin"]
      BY DEF Permissions, Roles, AdminExcluded, TerritorialAdministration
    <2> QED BY <1>1, <2>1 DEF Holds
  <1>2. CASE g = "operator"
    <2>1. Permissions["operator"] = OperatorPermissions
      BY DEF Permissions, Roles
    <2>2. /\ <<"decide", "expenserequest">> \notin OperatorPermissions
          /\ <<"fulfill", "expenserequest">> \notin OperatorPermissions
          /\ <<"annul", "expenserequest">> \notin OperatorPermissions
      BY DEF OperatorPermissions
    <2> QED BY <1>2, <2>1, <2>2 DEF Holds
  <1>3. CASE g = "auditor"
    <2>1. Permissions["auditor"] = AuditorPermissions \cup TerritorialReading
      BY DEF Permissions, Roles
    <2>2. \A verb, thing : <<verb, thing>> \in AuditorPermissions => verb = "view"
      BY DEF AuditorPermissions
    <2>3. \A verb, thing : <<verb, thing>> \in TerritorialReading => verb = "view"
      BY DEF TerritorialReading
    <2> QED BY <1>3, <2>1, <2>2, <2>3 DEF Holds
  <1>4. CASE g = "committee"
    <2>1. Permissions["committee"] = CommitteePermissions \cup TerritorialReading
      BY DEF Permissions, Roles
    <2>2. \A verb, thing : <<verb, thing>> \in CommitteePermissions =>
              verb \in {"view", "review", "decide", "resolve"}
      BY DEF CommitteePermissions
    <2>3. \A verb, thing : <<verb, thing>> \in TerritorialReading => verb = "view"
      BY DEF TerritorialReading
    <2> QED BY <1>4, <2>1, <2>2, <2>3 DEF Holds
  <1> QED BY <1>1, <1>2, <1>3, <1>4 DEF Roles

LEMMA AdmittedHaveRole ==
    ASSUME NEW roles \in SUBSET Given, NEW u \in Users, NEW r \in Requests,
           NEW page \in Admitted(roles, u, r)
    PROVE  page \in Pages \ {"create"} /\ roles \cap RolesFor(page) # {}
  <1>1. page \in Pages \ {"create"}
    BY DEF Admitted, Pages
  <1>2. /\ page = "update" => Can(roles, "change", "expenserequest")
        /\ page = "withdraw" => Can(roles, "withdraw", "expenserequest")
        /\ page = "annul" => Can(roles, "annul", "expenserequest")
        /\ page \in {"approve", "deny"} => Can(roles, "decide", "expenserequest")
        /\ page = "fulfill" => Can(roles, "fulfill", "expenserequest")
        /\ page = "attach" => Can(roles, "add", "expenserequestattachment")
        /\ page = "detach" => Can(roles, "delete", "expenserequestattachment")
    BY DEF Admitted, OpensUpdate, OpensWithdraw, OpensAnnul, OpensApprove, OpensDeny,
           OpensFulfill, OpensAttach, OpensDetach, Annullable, Decidable, Fulfillable
  <1>3. \A g \in roles : g \in Roles
    BY GivenAreRoles
  <1>4. CASE page \in {"approve", "deny"}
    <2>1. PICK g \in roles : Holds(g, "decide", "expenserequest")
      BY <1>2, <1>4 DEF Can
    <2>2. g = "committee" /\ RolesFor(page) = {"committee"}
      BY <1>3, <1>4, <2>1, RoleOfVerb DEF RolesFor
    <2> QED BY <1>1, <2>2
  <1>5. CASE page \in {"fulfill", "annul"}
    <2>1. PICK g \in roles :
              Holds(g, "fulfill", "expenserequest") \/ Holds(g, "annul", "expenserequest")
      BY <1>2, <1>5 DEF Can
    <2>2. g = "admin"
      BY <1>3, <2>1, RoleOfVerb
    <2>3. RolesFor(page) = {"admin"}
      BY <1>5 DEF RolesFor
    <2> QED BY <1>1, <2>2, <2>3
  <1>6. CASE page \in {"update", "withdraw", "attach", "detach"}
    <2>1. RolesFor(page) = {"operator", "admin"}
      BY <1>6 DEF RolesFor
    <2>2. PICK g \in roles :
              \/ Holds(g, "change", "expenserequest") \/ Holds(g, "withdraw", "expenserequest")
              \/ Holds(g, "add", "expenserequestattachment")
              \/ Holds(g, "delete", "expenserequestattachment")
      BY <1>2, <1>6 DEF Can
    <2>3. g \in {"operator", "admin"}
      BY <1>3, <2>2, RoleOfVerb
    <2> QED BY <1>1, <2>1, <2>3
  <1> QED BY <1>1, <1>4, <1>5, <1>6 DEF Pages

\* What a posted page is, and with which roles.
LEMMA PostKeeps ==
    ASSUME DeskTypeOK, DeskInOrder, NEW t \in Tabs, NEW page \in Pages, NEW u \in Users,
           NEW r \in Requests \cup {None}, NEW paper \in Papers \cup {None},
           groups[u] \in SUBSET Given, groups[u] \cap RolesFor(page) # {},
           IF page = "create" THEN r = None ELSE r \in Requests,
           page \in {"attach", "detach"} => paper \in Papers,
           Post(t, page, u, r, paper)
    PROVE  DeskTypeOK' /\ DeskInOrder'
  <1> DEFINE new == [name |-> page, user |-> u, roles |-> groups[u],
                     request |-> r, paper |-> paper, step |-> "posted"]
  <1>1. new \in PostedPage
    BY DEF PostedPage
  <1>2. request' = request /\ tab' = [tab EXCEPT ![t] = new]
    BY DEF Post
  <1>3. new.roles = groups[u] /\ new.name = page /\ new.request = r /\ new.paper = paper
    OBVIOUS
  <1> HIDE DEF new
  <1>4. DeskTypeOK'
    BY <1>1, <1>2 DEF DeskTypeOK
  <1>5. DeskInOrder'
    BY <1>2, <1>3 DEF DeskTypeOK, DeskInOrder
  <1> QED BY <1>4, <1>5

\* A page that is answered leaves the other tabs as they are.
LEMMA AnswerKeeps ==
    ASSUME DeskTypeOK, DeskInOrder, NEW t \in Tabs, NEW r \in Requests, NEW row \in RequestRow,
           row.status = "absent" => row.papers = {},
           request' = [request EXCEPT ![r] = row], Answer(t)
    PROVE  DeskTypeOK' /\ DeskInOrder'
  BY DEF DeskTypeOK, DeskInOrder, Answer

\* A page that is answered: whose it is and what it makes of the one row it changes.
LEMMA AnsweredRow ==
    ASSUME DeskTypeOK, DeskInOrder, NEW t \in Tabs,
           \/ Create(t) \/ Withdraw(t) \/ Approve(t) \/ Deny(t) \/ Fulfill(t)
           \/ Annul(t) \/ ConfirmPaper(t) \/ Detach(t)
    PROVE  \E r \in Requests, row \in RequestRow :
              /\ request' = [request EXCEPT ![r] = row]
              /\ Answer(t) /\ tab[t] # Idle
              /\ row.status # "absent"
              /\ row.papers # request[r].papers => request[r].status = "pending_decision"
              /\ tab[t].request \in {r, None}
              /\ RolesFor(tab[t].name) = MayTake(request[r].status, row.status)
              /\ RolesFor(tab[t].name) = {"operator", "admin"} => row.owner = tab[t].user
  <1>1. tab[t] # Idle
    BY DEF Create, Withdraw, Approve, Deny, Fulfill, Annul, ConfirmPaper, Detach, Serving, Idle
  <1>2. tab[t] \in PostedPage
    BY <1>1 DEF DeskTypeOK
  <1>3. CASE Create(t)
    <2> DEFINE row == [status |-> "pending_decision", owner |-> tab[t].user, papers |-> {}]
    <2>1. PICK r \in Requests : ~Registered(r) /\ request' = [request EXCEPT ![r] = row]
      BY <1>3 DEF Create
    <2>2. /\ row \in RequestRow /\ row.status = "pending_decision" /\ row.papers = {}
          /\ row.owner = tab[t].user
      BY <1>2 DEF RequestRow, PostedPage
    <2> HIDE DEF row
    <2>3. request[r].papers = {}
      BY <2>1 DEF Registered, DeskInOrder
    <2>4. tab[t].name = "create" /\ tab[t].request = None /\ Answer(t)
      BY <1>1, <1>3 DEF Create, Serving, DeskInOrder
    <2>5. /\ RolesFor(tab[t].name) = {"operator", "admin"}
          /\ MayTake(request[r].status, row.status) = {"operator", "admin"}
      BY <2>2, <2>4 DEF RolesFor, MayTake
    <2> QED BY <1>1, <2>1, <2>2, <2>3, <2>4, <2>5
  <1>4. ASSUME tab[t].name # "create"
        PROVE  tab[t].request \in Requests /\ request[tab[t].request] \in RequestRow
    BY <1>1, <1>4 DEF DeskInOrder, DeskTypeOK
  <1> DEFINE r == tab[t].request
  <1>5. ASSUME NEW status \in {"withdrawn", "approved_reserved", "denied", "fulfilled", "annulled"},
               tab[t].name # "create", MoveTo(t, status), Answer(t),
               RolesFor(tab[t].name) = MayTake(request[r].status, status),
               RolesFor(tab[t].name) = {"operator", "admin"} => request[r].owner = tab[t].user
        PROVE  \E q \in Requests, row \in RequestRow :
                  /\ request' = [request EXCEPT ![q] = row]
                  /\ Answer(t) /\ tab[t] # Idle
                  /\ row.status # "absent"
                  /\ row.papers # request[q].papers => request[q].status = "pending_decision"
                  /\ tab[t].request \in {q, None}
                  /\ RolesFor(tab[t].name) = MayTake(request[q].status, row.status)
                  /\ RolesFor(tab[t].name) = {"operator", "admin"} => row.owner = tab[t].user
    <2> DEFINE row == [request[r] EXCEPT !.status = status]
    <2>1. r \in Requests /\ request[r] \in RequestRow
      BY <1>4, <1>5
    <2>2. /\ row \in RequestRow /\ row.status = status /\ row.papers = request[r].papers
          /\ row.owner = request[r].owner
      BY <2>1 DEF RequestRow
    <2>3. request' = [request EXCEPT ![r] = row]
      BY <1>5 DEF MoveTo
    <2> HIDE DEF row
    <2>4. row.status # "absent"
      BY <2>2
    <2> QED BY <1>1, <1>5, <2>1, <2>2, <2>3, <2>4
  <1>6. ASSUME NEW papers \in SUBSET Papers, tab[t].name \in {"attach", "detach"},
               OwnPending(t), Answer(t),
               request' = [request EXCEPT ![r] = [@ EXCEPT !.papers = papers]]
        PROVE  \E q \in Requests, row \in RequestRow :
                  /\ request' = [request EXCEPT ![q] = row]
                  /\ Answer(t) /\ tab[t] # Idle
                  /\ row.status # "absent"
                  /\ row.papers # request[q].papers => request[q].status = "pending_decision"
                  /\ tab[t].request \in {q, None}
                  /\ RolesFor(tab[t].name) = MayTake(request[q].status, row.status)
                  /\ RolesFor(tab[t].name) = {"operator", "admin"} => row.owner = tab[t].user
    <2> DEFINE row == [request[r] EXCEPT !.papers = papers]
    <2>1. r \in Requests /\ request[r] \in RequestRow
      BY <1>4, <1>6
    <2>2. row \in RequestRow /\ row.status = request[r].status /\ row.owner = request[r].owner
      BY <2>1 DEF RequestRow
    <2>3. request' = [request EXCEPT ![r] = row]
      BY <1>6
    <2> HIDE DEF row
    <2>4. request[r].status = "pending_decision" /\ request[r].owner = tab[t].user
      BY <1>6 DEF OwnPending
    <2>5. /\ RolesFor(tab[t].name) = {"operator", "admin"}
          /\ MayTake(request[r].status, row.status) = {"operator", "admin"}
      BY <1>6, <2>2, <2>4 DEF RolesFor, MayTake
    <2> QED BY <1>1, <1>6, <2>1, <2>2, <2>3, <2>4, <2>5
  <1>7. CASE Withdraw(t)
    <2>1. /\ tab[t].name = "withdraw" /\ request[r].owner = tab[t].user
          /\ MoveTo(t, "withdrawn") /\ Answer(t)
      BY <1>7 DEF Withdraw, Serving, OwnPending
    <2>2. RolesFor(tab[t].name) = MayTake(request[r].status, "withdrawn")
      BY <2>1 DEF RolesFor, MayTake
    <2> QED BY <1>5, <2>1, <2>2
  <1>8. ASSUME NEW status \in {"approved_reserved", "denied"}, tab[t].name \in {"approve", "deny"},
               MoveTo(t, status), Answer(t)
        PROVE  /\ RolesFor(tab[t].name) = {"committee"}
               /\ MayTake(request[r].status, status) = {"committee"}
    BY <1>8 DEF RolesFor, MayTake
  <1>9. CASE Approve(t) \/ Deny(t)
    <2>1. PICK status \in {"approved_reserved", "denied"} :
              tab[t].name \in {"approve", "deny"} /\ MoveTo(t, status) /\ Answer(t)
      BY <1>9 DEF Approve, Deny, Serving
    <2>2. /\ RolesFor(tab[t].name) = {"committee"}
          /\ MayTake(request[r].status, status) = {"committee"}
      BY <1>8, <2>1
    <2>3. {"committee"} # {"operator", "admin"}
      OBVIOUS
    <2> QED BY <1>5, <2>1, <2>2, <2>3
  <1>10. CASE Fulfill(t) \/ Annul(t)
    <2>1. PICK status \in {"fulfilled", "annulled"} :
              tab[t].name \in {"fulfill", "annul"} /\ MoveTo(t, status) /\ Answer(t)
      BY <1>10 DEF Fulfill, Annul, Serving
    <2>2. RolesFor(tab[t].name) = {"admin"} /\ MayTake(request[r].status, status) = {"admin"}
      BY <2>1 DEF RolesFor, MayTake
    <2>3. {"admin"} # {"operator", "admin"}
      OBVIOUS
    <2> QED BY <1>5, <2>1, <2>2, <2>3
  <1>11. CASE ConfirmPaper(t) \/ Detach(t)
    <2>1. tab[t].name \in {"attach", "detach"} /\ OwnPending(t) /\ Answer(t)
      BY <1>11 DEF ConfirmPaper, Detach, Serving, Confirmable
    <2>2. tab[t].paper \in Papers
      BY <1>1, <2>1 DEF DeskInOrder
    <2>3. request[r].papers \subseteq Papers
      BY <1>4, <2>1 DEF RequestRow
    <2>4. PICK papers \in {request[r].papers \cup {tab[t].paper},
                            request[r].papers \ {tab[t].paper}} :
              request' = [request EXCEPT ![r] = [@ EXCEPT !.papers = papers]]
      BY <1>11 DEF ConfirmPaper, Detach
    <2>5. papers \in SUBSET Papers
      BY <2>2, <2>3, <2>4
    <2> QED BY <1>6, <2>1, <2>4, <2>5
  <1> QED BY <1>3, <1>7, <1>9, <1>10, <1>11

LEMMA DeskInvInit == DeskInit => DeskTypeOK /\ DeskInOrder
  BY DEF DeskInit, DeskTypeOK, DeskInOrder, NoRequest, RequestRow

LEMMA DeskStep ==
    ASSUME DeskTypeOK, DeskInOrder, AccountsTypeOK, [DeskNext]_deskVars
    PROVE  DeskTypeOK' /\ DeskInOrder'
  <1>1. CASE UNCHANGED deskVars
    BY <1>1 DEF deskVars, DeskTypeOK, DeskInOrder
  <1> SUFFICES ASSUME DeskNext PROVE DeskTypeOK' /\ DeskInOrder'
    BY <1>1
  <1>2. \A u \in Users : groups[u] \in SUBSET Given
    BY DEF AccountsTypeOK
  <1>3. ASSUME NEW t \in Tabs, NEW u \in Users, PostCreate(t, u)
        PROVE  DeskTypeOK' /\ DeskInOrder'
    <2>1. PICK g \in groups[u] : Holds(g, "add", "expenserequest")
      BY <1>3 DEF PostCreate, OpensCreate, OpensCreateForProject, GlobalCreate, Can
    <2>2. g \in {"operator", "admin"}
      BY <1>2, <2>1, RoleOfVerb, GivenAreRoles
    <2>3. RolesFor("create") = {"operator", "admin"}
      BY DEF RolesFor
    <2>4. groups[u] \cap RolesFor("create") # {}
      BY <2>1, <2>2, <2>3
    <2>5. Post(t, "create", u, None, None) /\ "create" \in Pages
      BY <1>3 DEF PostCreate, Pages
    <2> QED BY <1>2, <2>4, <2>5, PostKeeps
  <1>4. ASSUME NEW t \in Tabs, NEW u \in Users, NEW r \in Requests,
               NEW page \in Admitted(groups[u], u, r), PostPage(t, page, u, r)
        PROVE  DeskTypeOK' /\ DeskInOrder'
    <2>1. page \in Pages \ {"create"} /\ groups[u] \cap RolesFor(page) # {}
      BY <1>2, AdmittedHaveRole
    <2>2. request[r].papers \subseteq Papers
      BY DEF DeskTypeOK, RequestRow
    <2>3. PICK paper \in Papers \cup {None} :
              Post(t, page, u, r, paper) /\ (page \in {"attach", "detach"} => paper \in Papers)
      BY <1>4, <2>2 DEF PostPage
    <2> QED BY <1>2, <2>1, <2>3, PostKeeps
  <1>5. ASSUME NEW t \in Tabs, Update(t) \/ Refuse(t)
        PROVE  DeskTypeOK' /\ DeskInOrder'
    BY <1>5 DEF Update, Refuse, Answer, DeskTypeOK, DeskInOrder
  <1>6. ASSUME NEW t \in Tabs, StorePaper(t)
        PROVE  DeskTypeOK' /\ DeskInOrder'
    <2>1. tab[t] \in PostedPage
      BY <1>6 DEF StorePaper, Serving, DeskTypeOK, Idle
    <2> DEFINE new == [tab[t] EXCEPT !.step = "stored"]
    <2>2. /\ new \in PostedPage /\ new.name = tab[t].name /\ new.roles = tab[t].roles
          /\ new.request = tab[t].request /\ new.paper = tab[t].paper
      BY <2>1 DEF PostedPage
    <2>3. tab' = [tab EXCEPT ![t] = new] /\ request' = request /\ tab[t] # Idle
      BY <1>6 DEF StorePaper, Serving, Idle
    <2> HIDE DEF new
    <2>4. DeskTypeOK'
      BY <2>2, <2>3 DEF DeskTypeOK
    <2>5. DeskInOrder'
      BY <2>2, <2>3 DEF DeskTypeOK, DeskInOrder
    <2> QED BY <2>4, <2>5
  <1>7. ASSUME NEW t \in Tabs,
               \/ Create(t) \/ Withdraw(t) \/ Approve(t) \/ Deny(t) \/ Fulfill(t)
               \/ Annul(t) \/ ConfirmPaper(t) \/ Detach(t)
        PROVE  DeskTypeOK' /\ DeskInOrder'
    <2>1. PICK r \in Requests, row \in RequestRow :
              request' = [request EXCEPT ![r] = row] /\ Answer(t) /\ row.status # "absent"
      BY <1>7, AnsweredRow
    <2> QED BY <2>1, AnswerKeeps
  <1> QED BY <1>3, <1>4, <1>5, <1>6, <1>7 DEF DeskNext

\* What a step does to the requests: nothing, or what one answered page may do.
LEMMA RequestsOfAStep ==
    ASSUME DeskTypeOK, DeskInOrder, [DeskNext]_deskVars
    PROVE  \/ request' = request
           \/ \E t \in Tabs : \E r \in Requests, row \in RequestRow :
                 /\ request' = [request EXCEPT ![r] = row]
                 /\ Answer(t) /\ tab[t] # Idle
                 /\ row.status # "absent"
                 /\ row.papers # request[r].papers => request[r].status = "pending_decision"
                 /\ tab[t].request \in {r, None}
                 /\ RolesFor(tab[t].name) = MayTake(request[r].status, row.status)
                 /\ RolesFor(tab[t].name) = {"operator", "admin"} => row.owner = tab[t].user
  <1>1. CASE request' = request
    BY <1>1
  <1>2. ASSUME NEW t \in Tabs,
               \/ Create(t) \/ Withdraw(t) \/ Approve(t) \/ Deny(t) \/ Fulfill(t)
               \/ Annul(t) \/ ConfirmPaper(t) \/ Detach(t)
        PROVE  \E r \in Requests, row \in RequestRow :
                 /\ request' = [request EXCEPT ![r] = row]
                 /\ Answer(t) /\ tab[t] # Idle
                 /\ row.status # "absent"
                 /\ row.papers # request[r].papers => request[r].status = "pending_decision"
                 /\ tab[t].request \in {r, None}
                 /\ RolesFor(tab[t].name) = MayTake(request[r].status, row.status)
                 /\ RolesFor(tab[t].name) = {"operator", "admin"} => row.owner = tab[t].user
    BY <1>2, AnsweredRow
  <1>3. ASSUME NEW t \in Tabs,
               \/ \E u \in Users : PostCreate(t, u)
               \/ \E u \in Users, r \in Requests :
                     \E page \in Admitted(groups[u], u, r) : PostPage(t, page, u, r)
               \/ Update(t) \/ StorePaper(t) \/ Refuse(t)
        PROVE  request' = request
    BY <1>3 DEF PostCreate, PostPage, Post, Update, StorePaper, Refuse
  <1> QED BY <1>1, <1>2, <1>3 DEF DeskNext, deskVars

DeskInv == AccountsInv /\ OwnTypeOK /\ DeskTypeOK /\ DeskInOrder

LEMMA PanelInDesk ==
    ASSUME [PanelNext]_panelVars PROVE [AccountsNext]_accountVars /\ [DeskNext]_deskVars
  BY DEF PanelNext, panelVars

\* The desks stay in order beside the administration of the accounts.
LEMMA AlwaysInOrder == PanelSpec => []DeskInv
  <1>1. PanelInit => DeskInv
    BY AccountsInvInit, DeskInvInit DEF PanelInit, DeskInv, AccountsInit, OwnTypeOK
  <1>2. DeskInv /\ [PanelNext]_panelVars => DeskInv'
    <2> SUFFICES ASSUME DeskInv, [PanelNext]_panelVars PROVE DeskInv'
      OBVIOUS
    <2>1. AccountsInv' /\ OwnTypeOK'
      BY PanelInDesk, AccountsInvKept DEF DeskInv
    <2>2. DeskTypeOK' /\ DeskInOrder'
      BY PanelInDesk, DeskStep DEF DeskInv, AccountsInv
    <2> QED BY <2>1, <2>2 DEF DeskInv
  <1> QED BY <1>1, <1>2, PTL DEF PanelSpec

\* The evidence of a request is frozen once it is decided or closed (docs/FLOWS.md:475),
\* also for the upload that was stored while the committee decided: for any number of
\* users, requests, files and open pages.
THEOREM EvidenceStays == PanelSpec => EvidenceFrozen
  <1>1. ASSUME DeskInv, [PanelNext]_panelVars
        PROVE  [\A r \in Requests :
                   request'[r].papers # request[r].papers
                       => request[r].status = "pending_decision"]_deskVars
    <2> SUFFICES ASSUME NEW q \in Requests, request'[q].papers # request[q].papers
                 PROVE  request[q].status = "pending_decision"
      OBVIOUS
    <2>1. PICK r \in Requests, row \in RequestRow :
              /\ request' = [request EXCEPT ![r] = row]
              /\ row.papers # request[r].papers => request[r].status = "pending_decision"
      BY <1>1, PanelInDesk, RequestsOfAStep DEF DeskInv
    <2> QED BY <1>1, <2>1 DEF DeskInv, DeskTypeOK
  <1> QED BY <1>1, AlwaysInOrder, PTL DEF PanelSpec, EvidenceFrozen

\* Whatever becomes of accounts and roles meanwhile, each change of a request is made for a
\* user who had, when the page was posted, the role that may make it, and changes that are
\* the requester's are made by the requester (the guards of the views and services of
\* expense requests, over the permissions of sync_operation_roles).
THEOREM RolesAreRespected == PanelSpec => ActsWithinRole
  <1>1. ASSUME DeskInv, [PanelNext]_panelVars
        PROVE  [\A r \in Requests : request'[r] # request[r] =>
                   \E t \in Tabs :
                       /\ tab[t] # Idle /\ tab'[t] = Idle /\ tab[t].request \in {r, None}
                       /\ tab[t].roles \cap MayTake(request[r].status, request'[r].status) # {}
                       /\ MayTake(request[r].status, request'[r].status) = {"operator", "admin"}
                              => request'[r].owner = tab[t].user]_deskVars
    <2> SUFFICES ASSUME NEW q \in Requests, request'[q] # request[q]
                 PROVE  \E t \in Tabs :
                            /\ tab[t] # Idle /\ tab'[t] = Idle /\ tab[t].request \in {q, None}
                            /\ tab[t].roles \cap MayTake(request[q].status, request'[q].status) # {}
                            /\ MayTake(request[q].status, request'[q].status)
                                     = {"operator", "admin"}
                                   => request'[q].owner = tab[t].user
      OBVIOUS
    <2>1. PICK t \in Tabs : \E r \in Requests, row \in RequestRow :
              /\ request' = [request EXCEPT ![r] = row]
              /\ Answer(t) /\ tab[t] # Idle
              /\ tab[t].request \in {r, None}
              /\ RolesFor(tab[t].name) = MayTake(request[r].status, row.status)
              /\ RolesFor(tab[t].name) = {"operator", "admin"} => row.owner = tab[t].user
      BY <1>1, PanelInDesk, RequestsOfAStep DEF DeskInv
    <2>2. tab'[t] = Idle
      BY <1>1, <2>1 DEF Answer, DeskInv, DeskTypeOK
    <2>3. /\ tab[t].request \in {q, None}
          /\ RolesFor(tab[t].name) = MayTake(request[q].status, request'[q].status)
          /\ RolesFor(tab[t].name) = {"operator", "admin"} => request'[q].owner = tab[t].user
      BY <1>1, <2>1 DEF DeskInv, DeskTypeOK
    <2>4. tab[t].roles \cap RolesFor(tab[t].name) # {}
      BY <1>1, <2>1 DEF DeskInv, DeskInOrder
    <2> QED BY <2>1, <2>2, <2>3, <2>4
  <1> QED BY <1>1, AlwaysInOrder, PTL DEF PanelSpec, ActsWithinRole

\* Who may remove a file of a request sees it, and who decides on requests sees them.
LEMMA SeesWhatItUses ==
    ASSUME NEW g \in Roles
    PROVE  /\ Holds(g, "delete", "expenserequestattachment") =>
                  Holds(g, "view", "expenserequestattachment")
           /\ Holds(g, "decide", "expenserequest") => Holds(g, "view", "expenserequest")
  <1>1. /\ Holds("admin", "view", "expenserequestattachment")
        /\ Holds("operator", "view", "expenserequestattachment")
        /\ Holds("committee", "view", "expenserequest")
    <2>1. <<"view", "expenserequestattachment">> \in Permissions["admin"]
      <3>1. <<"view", "expenserequestattachment">> \in Verbs \X Models
        BY DEF Verbs, Models
      <3>2. <<"view", "expenserequestattachment">> \notin AdminExcluded
        BY DEF AdminExcluded
      <3> QED BY <3>1, <3>2 DEF Permissions, Roles
    <2>2. <<"view", "expenserequestattachment">> \in Permissions["operator"]
      BY DEF Permissions, Roles, OperatorPermissions
    <2>3. <<"view", "expenserequest">> \in Permissions["committee"]
      BY DEF Permissions, Roles, CommitteePermissions
    <2> QED BY <2>1, <2>2, <2>3 DEF Holds
  <1>2. /\ Holds(g, "delete", "expenserequestattachment") => g \in {"operator", "admin"}
        /\ Holds(g, "decide", "expenserequest") => g = "committee"
    BY RoleOfVerb
  <1> QED BY <1>1, <1>2

\* The buttons of a page a user can open are the pages that open for them.
LEMMA ButtonsAreAdmitted ==
    ASSUME NEW roles, NEW u, NEW r, Visible(roles, u, r)
    PROVE  Buttons(roles, u, r) = Admitted(roles, u, r)
  <1> DEFINE all == {"update", "withdraw", "attach", "detach",
                     "annul", "approve", "deny", "fulfill"}
  <1>1. Buttons(roles, u, r) \subseteq all /\ Admitted(roles, u, r) \subseteq all
    BY DEF Buttons, RequesterButtons, DecisionButtons, AnnulButton, FulfillButton, Admitted
  <1>2. ASSUME NEW page \in {"update", "withdraw", "attach", "detach"}
        PROVE  page \in Buttons(roles, u, r) <=> page \in Admitted(roles, u, r)
    <2>1. page \in Buttons(roles, u, r) <=> page \in RequesterButtons(roles, u, r)
      BY <1>2 DEF Buttons, DecisionButtons, AnnulButton, FulfillButton
    <2> QED BY <1>2, <2>1
            DEF RequesterButtons, Admitted, OpensUpdate, OpensWithdraw, OpensAttach, OpensDetach,
                MutableOwn
  <1>3. ASSUME NEW page \in {"approve", "deny", "annul", "fulfill"}
        PROVE  page \in Buttons(roles, u, r) <=> page \in Admitted(roles, u, r)
    <2>1. page \notin RequesterButtons(roles, u, r)
      BY <1>3 DEF RequesterButtons
    <2> QED BY <1>3, <2>1
            DEF Buttons, DecisionButtons, AnnulButton, FulfillButton, Admitted, OpensApprove,
                OpensDeny, OpensAnnul, OpensFulfill, Decidable, Annullable, Fulfillable
  <1> QED BY <1>1, <1>2, <1>3

\* Whoever can open a request is offered exactly the pages and files that would open for
\* them, and every row of a dashboard queue leads to a page its reader can open and act on
\* (the templates and selectors of the panel, over the permissions of sync_operation_roles).
THEOREM OffersAreHonest == PanelSpec => []OfferedWorkOpens
  <1>1. ASSUME DeskInv PROVE OfferedWorkOpens
    <2> SUFFICES ASSUME NEW u \in Users
                 PROVE  LET roles == groups[u] IN
                        /\ \A r \in Requests : OpensDetail(roles, u, r) =>
                              /\ Buttons(roles, u, r) = Admitted(roles, u, r)
                              /\ LinksPapers(roles) <=> OpensPapers(roles, u, r)
                              /\ "detach" \in Buttons(roles, u, r) => LinksPapers(roles)
                        /\ \A r \in Queue(roles, u, "fulfillment") :
                              "fulfill" \in Admitted(roles, u, r)
                        /\ \A r \in Queue(roles, u, "decision") :
                              r \in Listed(roles, u)
                              /\ {"approve", "deny"} \subseteq Buttons(roles, u, r)
                        /\ \A r \in Queue(roles, u, "tracking") : OpensDetail(roles, u, r)
      BY DEF OfferedWorkOpens
    <2> DEFINE roles == groups[u]
    <2>1. \A g \in roles : g \in Roles
      BY <1>1, GivenAreRoles DEF DeskInv, AccountsInv, AccountsTypeOK
    <2>2. /\ Can(roles, "delete", "expenserequestattachment") =>
                Can(roles, "view", "expenserequestattachment")
          /\ Can(roles, "decide", "expenserequest") => Can(roles, "view", "expenserequest")
      BY <2>1, SeesWhatItUses DEF Can
    <2> HIDE DEF roles
    <2>3. ASSUME NEW r \in Requests, OpensDetail(roles, u, r)
          PROVE  /\ Buttons(roles, u, r) = Admitted(roles, u, r)
                 /\ LinksPapers(roles) <=> OpensPapers(roles, u, r)
                 /\ "detach" \in Buttons(roles, u, r) => LinksPapers(roles)
      <3>1. Visible(roles, u, r) /\ Can(roles, "view", "expenserequest")
        BY <2>3 DEF OpensDetail
      <3>2. Buttons(roles, u, r) = Admitted(roles, u, r)
        BY <3>1, ButtonsAreAdmitted
      <3>3. "detach" \in Admitted(roles, u, r) => Can(roles, "delete", "expenserequestattachment")
        BY DEF Admitted, OpensDetach
      <3> QED BY <2>2, <3>1, <3>2, <3>3 DEF LinksPapers, OpensPapers
    <2>4. ASSUME NEW r \in Queue(roles, u, "fulfillment") PROVE "fulfill" \in Admitted(roles, u, r)
      BY <2>4 DEF Queue, Admitted, OpensFulfill
    <2>5. ASSUME NEW r \in Queue(roles, u, "decision")
          PROVE  r \in Listed(roles, u) /\ {"approve", "deny"} \subseteq Buttons(roles, u, r)
      <3>1. /\ r \in Requests /\ Can(roles, "decide", "expenserequest") /\ Visible(roles, u, r)
            /\ request[r].status = "pending_decision"
        BY <2>5 DEF Queue, Decidable
      <3>2. r \in Listed(roles, u)
        BY <2>2, <3>1 DEF Listed, OpensDetail
      <3> QED BY <3>1, <3>2 DEF Buttons, DecisionButtons
    <2>6. ASSUME NEW r \in Queue(roles, u, "tracking") PROVE OpensDetail(roles, u, r)
      BY <2>6 DEF Queue, OpensDetail
    <2> QED BY <2>3, <2>4, <2>5, <2>6 DEF roles
  <1> QED BY <1>1, AlwaysInOrder, PTL

-------------------------------------------------------------------------------
(* The public portal and its caches.                                       *)

Renders == Processes \X Threads

Page == [shows : BOOLEAN, until : Nat]

Rendering == [shows : BOOLEAN, began : Nat]

PortalTypeOK ==
    /\ clock \in Nat
    /\ project \in [active : BOOLEAN, public : BOOLEAN]
    /\ hidden \in Nat
    /\ cached \in [Processes -> Page \cup {NoPage}]
    /\ render \in [Renders -> Rendering \cup {NoPage}]
    /\ clearing \subseteq Processes
    /\ served \in [shows : BOOLEAN, at : Nat]

\* Nothing happened later than now, no page takes longer than RenderTime and none is kept
\* longer than Timeout.
InTime ==
    /\ hidden <= clock
    /\ served.at <= clock
    /\ \A p \in Processes : cached[p] # NoPage => cached[p].until <= clock + Timeout
    /\ \A h \in Renders : render[h] # NoPage =>
          render[h].began <= clock /\ clock <= render[h].began + RenderTime

\* What still shows a project the selectors have lost was read before that.
OldPagesEnd ==
    ~Eligible =>
        /\ \A h \in Renders : render[h] # NoPage /\ render[h].shows => render[h].began <= hidden
        /\ \A p \in Processes : cached[p] # NoPage /\ cached[p].shows =>
              cached[p].until <= hidden + RenderTime + Timeout

PortalInv == PortalTypeOK /\ InTime /\ OldPagesEnd /\ HiddenAgesOut

-----------------------------------------------------------------------------
LEMMA PortalInvInit == PortalInit => PortalInv
  BY TimesAreNatural
  DEF PortalInit, PortalInv, PortalTypeOK, InTime, OldPagesEnd, HiddenAgesOut, Eligible,
      Renders

LEMMA HitKeeps == ASSUME NEW p \in Processes, PortalInv, Hit(p) PROVE PortalInv'
  <1> USE TimesAreNatural
  <1>1. cached[p] \in Page /\ clock < cached[p].until
    BY DEF PortalInv, PortalTypeOK, Hit, Fresh
  <1>2. ~Eligible /\ cached[p].shows => cached[p].until <= hidden + RenderTime + Timeout
    BY <1>1 DEF PortalInv, OldPagesEnd, Hit, Fresh
  <1>3. HiddenAgesOut'
    BY <1>1, <1>2 DEF PortalInv, PortalTypeOK, HiddenAgesOut, Hit, Send, Eligible, Page
  <1>4. PortalTypeOK' /\ InTime' /\ OldPagesEnd'
    BY <1>1 DEF PortalInv, PortalTypeOK, InTime, OldPagesEnd, Hit, Send, Eligible, Page
  <1> QED BY <1>3, <1>4 DEF PortalInv

LEMMA MissKeeps == ASSUME NEW h \in Renders, PortalInv, Miss(h) PROVE PortalInv'
  <1> USE TimesAreNatural DEF Renders
  <1>1. [shows |-> Eligible, began |-> clock] \in Rendering
    BY DEF PortalInv, PortalTypeOK, Rendering, Eligible
  <1>2. PortalTypeOK'
    BY <1>1 DEF PortalInv, PortalTypeOK, Miss
  <1>3. InTime' /\ OldPagesEnd'
    BY <1>1 DEF PortalInv, PortalTypeOK, InTime, OldPagesEnd, Miss, Eligible
  <1>4. HiddenAgesOut'
    BY DEF PortalInv, HiddenAgesOut, Miss, Eligible
  <1> QED BY <1>2, <1>3, <1>4 DEF PortalInv

LEMMA RespondKeeps == ASSUME NEW h \in Renders, PortalInv, Respond(h) PROVE PortalInv'
  <1> USE TimesAreNatural DEF Renders
  <1> DEFINE page == [shows |-> render[h].shows, until |-> clock + Timeout]
  <1>1. render[h] \in Rendering /\ h[1] \in Processes
    BY DEF PortalInv, PortalTypeOK, Respond
  <1>2. page \in Page
    BY <1>1 DEF PortalInv, PortalTypeOK, Page, Rendering
  <1>3. ~Eligible /\ render[h].shows => clock <= hidden + RenderTime
    BY <1>1 DEF PortalInv, PortalTypeOK, InTime, OldPagesEnd, Respond, Rendering
  <1>4. PortalTypeOK'
    BY <1>1, <1>2 DEF PortalInv, PortalTypeOK, Respond, Send, Rendering
  <1>5. InTime'
    BY <1>1, <1>2 DEF PortalInv, PortalTypeOK, InTime, Respond, Send
  <1>6. OldPagesEnd'
    BY <1>1, <1>2, <1>3 DEF PortalInv, PortalTypeOK, OldPagesEnd, Respond, Eligible
  <1>7. HiddenAgesOut'
    BY <1>3 DEF PortalInv, PortalTypeOK, HiddenAgesOut, Respond, Send, Eligible
  <1> QED BY <1>4, <1>5, <1>6, <1>7 DEF PortalInv

LEMMA UncachedKeeps == PortalInv /\ Uncached => PortalInv'
  BY TimesAreNatural
  DEF PortalInv, PortalTypeOK, InTime, OldPagesEnd, HiddenAgesOut, Uncached, Send, Eligible

\* When the selectors lose the project, everything that shows it is already in time.
LEMMA ChangeKeeps ==
    ASSUME NEW p \in Processes, NEW now \in [active : BOOLEAN, public : BOOLEAN],
           PortalInv, Change(p, now)
    PROVE  PortalInv'
  <1> USE TimesAreNatural
  <1>1. PortalTypeOK'
    BY DEF PortalInv, PortalTypeOK, Change
  <1>2. InTime'
    BY DEF PortalInv, PortalTypeOK, InTime, Change
  <1>3. CASE Eligible /\ ~(now.active /\ now.public)
    <2>1. hidden' = clock
      BY <1>3 DEF Change
    <2>2. OldPagesEnd'
      BY <2>1 DEF PortalInv, PortalTypeOK, InTime, OldPagesEnd, Change, Page
    <2>3. HiddenAgesOut'
      BY <2>1 DEF PortalInv, PortalTypeOK, InTime, HiddenAgesOut, Change
    <2> QED BY <1>1, <1>2, <2>2, <2>3 DEF PortalInv
  <1>4. CASE ~(Eligible /\ ~(now.active /\ now.public))
    <2>1. hidden' = hidden /\ (~Eligible' => ~Eligible)
      BY <1>4 DEF Change, Eligible
    <2> QED BY <1>1, <1>2, <2>1 DEF PortalInv, OldPagesEnd, HiddenAgesOut, Change
  <1> QED BY <1>3, <1>4

LEMMA ClearKeeps == ASSUME NEW p \in Processes, PortalInv, Clear(p) PROVE PortalInv'
  BY TimesAreNatural
  DEF PortalInv, PortalTypeOK, InTime, OldPagesEnd, HiddenAgesOut, Clear, Eligible

LEMMA RestartKeeps == ASSUME NEW p \in Processes, PortalInv, Restart(p) PROVE PortalInv'
  BY TimesAreNatural
  DEF PortalInv, PortalTypeOK, InTime, OldPagesEnd, HiddenAgesOut, Restart, Eligible, Renders

\* The clock waits for a page that has taken RenderTime.
LEMMA TickKeeps == PortalInv /\ Tick => PortalInv'
  <1> SUFFICES ASSUME PortalInv, Tick PROVE PortalInv'
    OBVIOUS
  <1> USE TimesAreNatural
  <1>1. PortalTypeOK' /\ OldPagesEnd' /\ HiddenAgesOut'
    BY DEF PortalInv, PortalTypeOK, OldPagesEnd, HiddenAgesOut, Tick, Eligible
  <1>2. InTime'
    BY DEF PortalInv, PortalTypeOK, InTime, Tick, Renders, Rendering, Page
  <1> QED BY <1>1, <1>2 DEF PortalInv

LEMMA PortalStep == PortalInv /\ [PortalNext]_portalVars => PortalInv'
  <1> SUFFICES ASSUME PortalInv, [PortalNext]_portalVars PROVE PortalInv'
    OBVIOUS
  <1>1. CASE UNCHANGED portalVars
    BY <1>1
    DEF portalVars, PortalInv, PortalTypeOK, InTime, OldPagesEnd, HiddenAgesOut, Eligible
  <1>2. ASSUME NEW p \in Processes, Hit(p) \/ Clear(p) \/ Restart(p) PROVE PortalInv'
    BY <1>2, HitKeeps, ClearKeeps, RestartKeeps
  <1>3. ASSUME NEW p \in Processes,
               \/ Change(p, [active |-> TRUE, public |-> ~project.public])
               \/ Change(p, [active |-> FALSE, public |-> FALSE])
        PROVE  PortalInv'
    BY <1>3, ChangeKeeps
  <1>4. ASSUME NEW h \in Renders, Miss(h) \/ Respond(h) PROVE PortalInv'
    BY <1>4, MissKeeps, RespondKeeps
  <1> QED BY <1>1, <1>2, <1>3, <1>4, UncachedKeeps, TickKeeps DEF PortalNext, Renders

\* A project that was hidden or closed is never shown later than a page takes to render and
\* to expire, for any number of processes and threads (HiddenAgesOut).
THEOREM HiddenPagesEnd == PortalSpec => []HiddenAgesOut
  <1>1. PortalInv => HiddenAgesOut
    BY DEF PortalInv
  <1> QED BY PortalInvInit, PortalStep, <1>1, PTL DEF PortalSpec

-------------------------------------------------------------------------------
(* The operational codes.                                                  *)

CodesTypeOK ==
    /\ codes \subseteq Code
    /\ next \in Nat \ {0}
    /\ reserved \in [Creators -> Nat]
    /\ looked \in [done : BOOLEAN, codes : SUBSET Code]
    /\ given \in Seq(Nat)

\* Every padded code is behind the sequence, those the inspection has read too.
SequenceAhead ==
    \A code \in codes \cup looked.codes : code.form = "padded" => code.number < next

\* The row lock: one reservation at a time, of the number that is committed as next.
OneReserves ==
    /\ \A c \in Creators : reserved[c] # 0 => reserved[c] = next
    /\ \A c, d \in Creators : reserved[c] # 0 /\ reserved[d] # 0 => c = d

LastGiven == given # <<>> => given[Len(given)] = next - 1

CodesInv ==
    CodesTypeOK /\ SequenceAhead /\ OneReserves /\ LastGiven /\ NumbersInOrder /\ AlarmsAreReal

-----------------------------------------------------------------------------
LEMMA CodesInvInit ==
    ASSUME NEW legacy \in SUBSET Code, CodesInit(legacy) PROVE CodesInv
  <1>1. CodesTypeOK
    BY DEF CodesInit, CodesTypeOK, NumbersOf, Code
  <1>2. SequenceAhead
    <2> SUFFICES ASSUME NEW code \in legacy, code.form = "padded" PROVE code.number < next
      BY DEF SequenceAhead, CodesInit
    <2>1. code.number \in NumbersOf(legacy, {"padded"})
      BY DEF NumbersOf
    <2> QED BY <2>1 DEF CodesInit
  <1> QED
    BY <1>1, <1>2
    DEF CodesInv, CodesInit, OneReserves, LastGiven, NumbersInOrder, AlarmsAreReal

LEMMA ReserveKeeps == ASSUME NEW c \in Creators, CodesInv, Reserve(c) PROVE CodesInv'
  <1>1. CodesTypeOK' /\ OneReserves'
    BY DEF CodesInv, CodesTypeOK, OneReserves, Reserve, SequenceLocked
  <1> QED
    BY <1>1
    DEF CodesInv, Reserve, SequenceAhead, LastGiven, NumbersInOrder, AlarmsAreReal

\* The number that is given is next, and next moves one ahead.
LEMMA CommitCodeKeeps ==
    ASSUME NEW c \in Creators, CodesInv, CommitCreation(c) PROVE CodesInv'
  <1> DEFINE n == reserved[c]
  <1>1. n = next /\ n \in Nat \ {0} /\ next' = n + 1 /\ Padded(n) \in Code
    BY DEF CodesInv, CodesTypeOK, OneReserves, CommitCreation, Padded, Code, Forms
  <1>2. given' = Append(given, n) /\ given \in Seq(Nat)
    BY DEF CodesInv, CodesTypeOK, CommitCreation
  <1>3. CodesTypeOK'
    BY <1>1, <1>2 DEF CodesInv, CodesTypeOK, CommitCreation
  <1>4. SequenceAhead'
    BY <1>1 DEF CodesInv, CodesTypeOK, SequenceAhead, CommitCreation, Padded, Code
  <1>5. OneReserves'
    BY <1>1 DEF CodesInv, CodesTypeOK, OneReserves, CommitCreation
  <1>6. LastGiven'
    BY <1>1, <1>2 DEF LastGiven
  <1>7. NumbersInOrder'
    <2>1. Len(given') = Len(given) + 1 /\ given'[Len(given) + 1] = n
          /\ \A i \in 1..Len(given) : given'[i] = given[i]
      BY <1>1, <1>2
    <2>2. Len(given) > 0 => given[Len(given)] = n - 1
      BY <1>1, <1>2 DEF CodesInv, LastGiven
    <2>3. SUFFICES ASSUME NEW i \in 2..Len(given') PROVE given'[i] = given'[i - 1] + 1
      BY DEF NumbersInOrder
    <2>4. CASE i <= Len(given)
      BY <1>2, <2>1, <2>4 DEF CodesInv, NumbersInOrder
    <2>5. CASE i = Len(given) + 1
      BY <1>1, <1>2, <2>1, <2>2, <2>5
    <2> QED BY <1>2, <2>1, <2>4, <2>5
  <1>8. AlarmsAreReal'
    BY DEF CodesInv, AlarmsAreReal, CommitCreation
  <1> QED BY <1>3, <1>4, <1>5, <1>6, <1>7, <1>8 DEF CodesInv

LEMMA RollBackKeeps ==
    ASSUME NEW c \in Creators, CodesInv, RollBackCreation(c) PROVE CodesInv'
  <1>1. CodesTypeOK' /\ OneReserves'
    BY DEF CodesInv, CodesTypeOK, OneReserves, RollBackCreation
  <1> QED
    BY <1>1
    DEF CodesInv, RollBackCreation, SequenceAhead, LastGiven, NumbersInOrder, AlarmsAreReal

LEMMA WordKeeps == ASSUME NEW code \in Code, CodesInv, CreateWithWord(code) PROVE CodesInv'
  <1>1. CodesTypeOK' /\ SequenceAhead'
    BY DEF CodesInv, CodesTypeOK, SequenceAhead, CreateWithWord
  <1> QED
    BY <1>1
    DEF CodesInv, CreateWithWord, OneReserves, LastGiven, NumbersInOrder, AlarmsAreReal

LEMMA DeleteKeeps == ASSUME NEW code \in codes, CodesInv, DeleteRow(code) PROVE CodesInv'
  <1>1. CodesTypeOK' /\ SequenceAhead'
    BY DEF CodesInv, CodesTypeOK, SequenceAhead, DeleteRow
  <1> QED
    BY <1>1
    DEF CodesInv, DeleteRow, OneReserves, LastGiven, NumbersInOrder, AlarmsAreReal

LEMMA InspectCodesKeeps == CodesInv /\ InspectCodes => CodesInv'
  <1> SUFFICES ASSUME CodesInv, InspectCodes PROVE CodesInv'
    OBVIOUS
  <1>1. CodesTypeOK' /\ SequenceAhead'
    BY DEF CodesInv, CodesTypeOK, SequenceAhead, InspectCodes
  <1> QED
    BY <1>1
    DEF CodesInv, InspectCodes, OneReserves, LastGiven, NumbersInOrder, AlarmsAreReal

\* What the inspection read is behind the sequence it reads now, but for what was typed.
LEMMA InspectSequenceKeeps == CodesInv /\ InspectSequence => CodesInv'
  <1> SUFFICES ASSUME CodesInv, InspectSequence PROVE CodesInv'
    OBVIOUS
  <1>1. looked'.codes = looked.codes /\ CodesTypeOK'
    BY DEF CodesInv, CodesTypeOK, InspectSequence
  <1>2. AlarmsAreReal'
    <2> SUFFICES ASSUME verdict' = "LAGGING_SEQUENCE"
                 PROVE  \E code \in looked.codes : code.form = "typed"
      BY <1>1 DEF AlarmsAreReal
    <2>1. PICK n \in Canonical(looked.codes) : next <= n
      BY DEF InspectSequence, SequenceStatus
    <2>2. PICK code \in looked.codes : code.form \in {"padded", "typed"} /\ code.number = n
      BY <2>1 DEF Canonical, NumbersOf
    <2>3. code.form # "padded"
      BY <2>1, <2>2 DEF CodesInv, CodesTypeOK, SequenceAhead, Code
    <2> QED BY <2>2, <2>3
  <1> QED
    BY <1>1, <1>2
    DEF CodesInv, InspectSequence, SequenceAhead, OneReserves, LastGiven, NumbersInOrder

LEMMA CodesStep == CodesInv /\ [CodesNext]_codeVars => CodesInv'
  <1> SUFFICES ASSUME CodesInv, [CodesNext]_codeVars PROVE CodesInv'
    OBVIOUS
  <1>1. ASSUME NEW c \in Creators, Reserve(c) \/ CommitCreation(c) \/ RollBackCreation(c)
        PROVE  CodesInv'
    BY <1>1, ReserveKeeps, CommitCodeKeeps, RollBackKeeps
  <1>2. ASSUME NEW code \in Legacy, CreateWithWord(code) PROVE CodesInv'
    BY <1>2, WordKeeps, LegacyAreCodes
  <1>3. ASSUME NEW code \in codes, DeleteRow(code) PROVE CodesInv'
    BY <1>3, DeleteKeeps
  <1>4. CASE UNCHANGED codeVars
    BY <1>4
    DEF codeVars, CodesInv, CodesTypeOK, SequenceAhead, OneReserves, LastGiven,
        NumbersInOrder, AlarmsAreReal
  <1> QED
    BY <1>1, <1>2, <1>3, <1>4, InspectCodesKeeps, InspectSequenceKeeps DEF CodesNext

LEMMA CodesInvariant == CodesSpec => []CodesInv
  <1> DEFINE Start == \E legacy \in SUBSET Legacy : CodesInit(legacy)
  <1>1. Start => CodesInv
    BY CodesInvInit, LegacyAreCodes
  <1>2. CodesSpec => Start /\ [][CodesNext]_codeVars
    BY DEF CodesSpec
  <1> HIDE DEF Start
  <1> QED BY <1>1, <1>2, CodesStep, PTL

\* Creations give consecutive numbers, whatever is deleted or rolled back meanwhile, for any
\* number of transactions at once (NumbersInOrder).
THEOREM NumbersStayInOrder == CodesSpec => []NumbersInOrder
  <1>1. CodesInv => NumbersInOrder
    BY DEF CodesInv
  <1> QED BY CodesInvariant, <1>1, PTL

\* No creation that commits between the two reads of the inspection makes it report a
\* sequence that lags, for any legacy codes (AlarmsAreReal).
THEOREM NoFalseAlarms == CodesSpec => []AlarmsAreReal
  <1>1. CodesInv => AlarmsAreReal
    BY DEF CodesInv
  <1> QED BY CodesInvariant, <1>1, PTL

==============================================================================
