----------------------------- MODULE UserSystem -----------------------------
(***************************************************************************)
(* user_sys and core: the registered users and the users who are logged in *)
(* (src/system/user_system.cpp, src/system/core_system.cpp, the user half  *)
(* of src/IO/commandparser.cpp).  The registry is an index on disk, the    *)
(* sessions are a set in memory that a restart forgets.                    *)
(*                                                                         *)
(* Names and mail addresses are left out: no decision depends on them.     *)
(***************************************************************************)
EXTENDS Integers, FiniteSets, Index, SessionSet

CONSTANTS
  Uid,        \* user names
  Password,   \* passwords
  Privilege,  \* the privileges that a command may name with -g
  Absent      \* stands for a password that modify_profile does not give

INVALID_PRIVILEGE == -1  \* what UserInfo holds when the command has no -g
AdminPrivilege == 10

ASSUME PrivilegeAssumption == Privilege \subseteq Nat
ASSUME PasswordAssumption == Absent \notin Password

VARIABLES
  up,            \* the program is running
  user_info,     \* index of the users: uid -> UserInfo
  users_id_now,  \* the users who are logged in
  answer         \* the user command executed last, its uid and its result

vars == <<up, user_info, users_id_now, answer>>

UserInfo == [password: Password, privilege: Int]
GivenPrivilege == Privilege \cup {INVALID_PRIVILEGE}

Find(uid) == uid \in users_id_now

\* The first run of the program registers its first user as administrator.
Init ==
  /\ up = TRUE
  /\ \E uid \in Uid, password \in Password :
       user_info = IndexInsert(EmptyIndex, uid,
                     [password |-> password, privilege |-> AdminPrivilege])
  /\ users_id_now = {}
  /\ answer = <<"add_admin", "", "0">>

\* A command that is refused prints -1 and does nothing else.
Refuse(command, uid) ==
  /\ answer' = <<command, uid, "-1">>
  /\ UNCHANGED <<up, user_info, users_id_now>>

-----------------------------------------------------------------------------
MayAdd(c_uid, privilege) ==
  Find(c_uid) /\ user_info[c_uid].privilege > privilege

AddUser(c_uid, uid, password, privilege) ==
  /\ up
  /\ IF MayAdd(c_uid, privilege) /\ uid \notin DOMAIN user_info
     THEN /\ user_info' = IndexInsert(user_info, uid,
                            [password |-> password, privilege |-> privilege])
          /\ answer' = <<"add_user", uid, "0">>
          /\ UNCHANGED <<up, users_id_now>>
     ELSE Refuse("add_user", uid)

\* A mistake: users of the same privilege see each other.
MaySeePeers(c_uid, uid) ==
  /\ Find(c_uid)
  /\ uid \in DOMAIN user_info
  /\ user_info[c_uid].privilege >= user_info[uid].privilege

\* c_uid may look at uid: someone of a lower privilege, or itself.
MaySee(c_uid, uid) ==
  /\ Find(c_uid)
  /\ uid \in DOMAIN user_info
  /\ \/ user_info[c_uid].privilege > user_info[uid].privilege
     \/ user_info[c_uid].privilege = user_info[uid].privilege /\ c_uid = uid

Seek(c_uid, uid) ==
  /\ up
  /\ answer' = <<"query_profile", uid, IF MaySee(c_uid, uid) THEN "profile" ELSE "-1">>
  /\ UNCHANGED <<up, user_info, users_id_now>>

\* A mistake: what is absent is copied as well.
ModifiedBlindly(uinfo, password, privilege) ==
  [password |-> password, privilege |-> privilege]

\* UserInfo::Modify: what the command does not give stays as it is.
Modified(uinfo, password, privilege) ==
  [password |-> IF password = Absent THEN uinfo.password ELSE password,
   privilege |-> IF privilege = INVALID_PRIVILEGE THEN uinfo.privilege ELSE privilege]

\* A mistake: one's own privilege may be given.
ModifyUpToOwn(c_uid, uid, password, privilege) ==
  /\ up
  /\ IF MaySee(c_uid, uid) /\ user_info[c_uid].privilege >= privilege
     THEN /\ user_info' = IndexReplace(user_info, uid,
                            Modified(user_info[uid], password, privilege))
          /\ answer' = <<"modify_profile", uid, "profile">>
          /\ UNCHANGED <<up, users_id_now>>
     ELSE Refuse("modify_profile", uid)

Modify(c_uid, uid, password, privilege) ==
  /\ up
  /\ IF MaySee(c_uid, uid) /\ user_info[c_uid].privilege > privilege
     THEN /\ user_info' = IndexReplace(user_info, uid,
                            Modified(user_info[uid], password, privilege))
          /\ answer' = <<"modify_profile", uid, "profile">>
          /\ UNCHANGED <<up, users_id_now>>
     ELSE Refuse("modify_profile", uid)

\* A mistake: a user who is not registered is let in.
LogInUnknown(uid, password) ==
  /\ up
  /\ IF ~Find(uid) /\ (uid \in DOMAIN user_info => user_info[uid].password = password)
     THEN /\ users_id_now' = users_id_now \cup {uid}
          /\ answer' = <<"login", uid, "0">>
          /\ UNCHANGED <<up, user_info>>
     ELSE Refuse("login", uid)

LogIn(uid, password) ==
  /\ up
  /\ IF ~Find(uid) /\ uid \in DOMAIN user_info /\ user_info[uid].password = password
     THEN /\ users_id_now' = users_id_now \cup {uid}
          /\ answer' = <<"login", uid, "0">>
          /\ UNCHANGED <<up, user_info>>
     ELSE Refuse("login", uid)

LogOut(uid) ==
  /\ up
  /\ users_id_now' = Erase(users_id_now, uid)
  /\ answer' = <<"logout", uid, IF Erased(users_id_now, uid) THEN "0" ELSE "-1">>
  /\ UNCHANGED <<up, user_info>>

\* exit; the sessions lived in the memory of the process.
Exit ==
  /\ up
  /\ up' = FALSE
  /\ users_id_now' = {}
  /\ answer' = <<"exit", "", "bye">>
  /\ UNCHANGED user_info

\* Another run of the program: has_opened is there, no administrator is added.
Boot ==
  /\ ~up
  /\ up' = TRUE
  /\ answer' = <<"start", "", "0">>
  /\ UNCHANGED <<user_info, users_id_now>>

Command ==
  \E uid \in Uid :
    \/ \E password \in Password : LogIn(uid, password)
    \/ LogOut(uid)
    \/ \E c_uid \in Uid :
         \/ Seek(c_uid, uid)
         \/ \E privilege \in GivenPrivilege :
              \/ \E password \in Password : AddUser(c_uid, uid, password, privilege)
              \/ \E password \in Password \cup {Absent} :
                   Modify(c_uid, uid, password, privilege)

Next == Exit \/ Boot \/ Command

Spec == Init /\ [][Next]_vars

-----------------------------------------------------------------------------
\* Every variable holds a value of its type.
TypeOK ==
  /\ up \in BOOLEAN
  /\ IsIndex(user_info, Uid, UserInfo)
  /\ users_id_now \in SUBSET Uid

\* "As c_user has loged in .it must has registered": the user who gives a
\* command is looked up with .value() and without a test in AddUser, Seek and
\* Modify, so that a session of somebody unknown would be a crash.
OnlineRegistered == users_id_now \subseteq DOMAIN user_info

\* The users whom nobody outranks.
TopUsers ==
  {u \in DOMAIN user_info :
     \A v \in DOMAIN user_info : user_info[v].privilege <= user_info[u].privilege}

\* Nobody climbs to the top: the highest privilege never rises, and while it
\* stays the same no user joins those who have it, whatever users are added,
\* promoted or demoted (AddUser and Modify grant only what is below the giver's
\* own privilege).  So there is never a second administrator.
NobodyReachesTheTop ==
  [][\A u \in TopUsers : \A v \in TopUsers' :
       /\ user_info'[v].privilege <= user_info[u].privilege
       /\ user_info'[v].privilege = user_info[u].privilege => v \in TopUsers]_vars

\* An account is never lost or taken over: once registered a user stays
\* registered, and password or privilege change only while somebody who is
\* logged in either is that user or outranks it (AddUser must not replace a
\* user, the Remove and Insert of Modify must not lose one).
AccountsKept ==
  [][\A u \in DOMAIN user_info :
       /\ u \in DOMAIN user_info'
       /\ user_info'[u] # user_info[u] =>
            \E c \in users_id_now :
              c = u \/ user_info[c].privilege > user_info[u].privilege]_vars

\* A command ends no session but that of the user it names.
LogoutOnlyOwnSession ==
  [][up' => \A u \in users_id_now \ users_id_now' : answer'[2] = u]_vars
=============================================================================
