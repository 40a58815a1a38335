----------------------------- MODULE UserProofs -----------------------------
(***************************************************************************)
(* Proofs about UserSystem, for any number of users, passwords and         *)
(* privileges.                                                             *)
(***************************************************************************)
EXTENDS UserSystem, FiniteSetTheorems, TLAPS

\* What the code relies on is inductive: the users in a session are registered
\* because nothing ever unregisters a user.
IInv == TypeOK /\ OnlineRegistered

\* A privilege that a command gives is a number.
LEMMA GivenIsInt == \A privilege \in GivenPrivilege : privilege \in Int
BY PrivilegeAssumption DEF GivenPrivilege, INVALID_PRIVILEGE

\* UserInfo::Modify yields a user, whatever the command leaves out.
LEMMA ModifiedIsUserInfo ==
  ASSUME NEW uinfo \in UserInfo, NEW password \in Password \cup {Absent},
         NEW privilege \in GivenPrivilege
  PROVE  Modified(uinfo, password, privilege) \in UserInfo
BY GivenIsInt DEF Modified, UserInfo

LEMMA InitIInv == Init => IInv
<1> SUFFICES ASSUME Init PROVE IInv
  OBVIOUS
<1>1. PICK uid \in Uid, password \in Password :
        user_info = IndexInsert(EmptyIndex, uid,
                      [password |-> password, privilege |-> AdminPrivilege])
  BY DEF Init
<1>2. [password |-> password, privilege |-> AdminPrivilege] \in UserInfo
  BY DEF UserInfo, AdminPrivilege
<1>3. IsIndex(user_info, Uid, UserInfo)
  BY <1>1, <1>2 DEF EmptyIndex, IsIndex, IndexInsert
<1>4. QED
  BY <1>3 DEF Init, IInv, TypeOK, OnlineRegistered

LEMMA NextIInv == IInv /\ [Next]_vars => IInv'
<1> SUFFICES ASSUME IInv, [Next]_vars PROVE IInv'
  OBVIOUS
<1> USE DEF IInv, TypeOK, OnlineRegistered
<1>1. CASE UNCHANGED vars
  BY <1>1 DEF vars, IsIndex
<1>2. CASE Exit
  BY <1>2 DEF Exit, IsIndex
<1>3. CASE Boot
  BY <1>3 DEF Boot, IsIndex
<1>4. ASSUME NEW uid \in Uid, NEW password \in Password, LogIn(uid, password)
      PROVE  IInv'
  BY <1>4 DEF LogIn, Refuse, IsIndex
<1>5. ASSUME NEW uid \in Uid, LogOut(uid)
      PROVE  IInv'
  BY <1>5 DEF LogOut, Erase, IsIndex
<1>6. ASSUME NEW uid \in Uid, NEW c_uid \in Uid, Seek(c_uid, uid)
      PROVE  IInv'
  BY <1>6 DEF Seek, IsIndex
<1>7. ASSUME NEW uid \in Uid, NEW c_uid \in Uid, NEW privilege \in GivenPrivilege,
             NEW password \in Password, AddUser(c_uid, uid, password, privilege)
      PROVE  IInv'
  <2> DEFINE uinfo == [password |-> password, privilege |-> privilege]
  <2>1. uinfo \in UserInfo
    BY GivenIsInt DEF UserInfo
  <2>2. CASE MayAdd(c_uid, privilege) /\ uid \notin DOMAIN user_info
    <3>1. user_info' = IndexInsert(user_info, uid, uinfo)
      BY <1>7, <2>2 DEF AddUser
    <3> HIDE DEF uinfo
    <3>2. IsIndex(user_info', Uid, UserInfo)
      BY <2>1, <3>1 DEF IsIndex, IndexInsert
    <3>3. DOMAIN user_info' = DOMAIN user_info \cup {uid}
      BY <3>1 DEF IndexInsert
    <3>4. QED
      BY <1>7, <2>2, <3>2, <3>3 DEF AddUser
  <2>3. CASE ~(MayAdd(c_uid, privilege) /\ uid \notin DOMAIN user_info)
    BY <1>7, <2>3 DEF AddUser, Refuse, IsIndex
  <2>4. QED
    BY <2>2, <2>3
<1>8. ASSUME NEW uid \in Uid, NEW c_uid \in Uid, NEW privilege \in GivenPrivilege,
             NEW password \in Password \cup {Absent},
             Modify(c_uid, uid, password, privilege)
      PROVE  IInv'
  <2> DEFINE uinfo == Modified(user_info[uid], password, privilege)
  <2>1. CASE MaySee(c_uid, uid) /\ user_info[c_uid].privilege > privilege
    <3>1. user_info' = IndexReplace(user_info, uid, uinfo)
      BY <1>8, <2>1 DEF Modify
    <3>2. user_info[uid] \in UserInfo
      BY <2>1 DEF MaySee, IsIndex
    <3>3. uinfo \in UserInfo
      BY <3>2, ModifiedIsUserInfo
    <3> HIDE DEF uinfo
    <3>4. IsIndex(user_info', Uid, UserInfo)
      BY <3>1, <3>3 DEF IsIndex, IndexReplace, IndexInsert, IndexRemove
    <3>5. DOMAIN user_info' = DOMAIN user_info \cup {uid}
      BY <3>1 DEF IndexReplace, IndexInsert, IndexRemove
    <3>6. QED
      BY <1>8, <2>1, <3>4, <3>5 DEF Modify
  <2>2. CASE ~(MaySee(c_uid, uid) /\ user_info[c_uid].privilege > privilege)
    BY <1>8, <2>2 DEF Modify, Refuse, IsIndex
  <2>3. QED
    BY <2>1, <2>2
<1>9. QED
  BY <1>1, <1>2, <1>3, <1>4, <1>5, <1>6, <1>7, <1>8 DEF Next, Command

\* Type correctness: whatever commands are given, registry and sessions hold
\* what their types say.
THEOREM TypeCorrect == Spec => []TypeOK
<1>1. Init => IInv
  BY InitIInv
<1>2. IInv /\ [Next]_vars => IInv'
  BY NextIInv
<1>3. IInv => TypeOK
  BY DEF IInv
<1>4. QED
  BY <1>1, <1>2, <1>3, PTL DEF Spec

\* "As c_user has loged in .it must has registered": the lookups of the user
\* who gives a command, whose result is used without a test, never miss.
THEOREM SessionsAreRegistered == Spec => []OnlineRegistered
<1>1. Init => IInv
  BY InitIInv
<1>2. IInv /\ [Next]_vars => IInv'
  BY NextIInv
<1>3. IInv => OnlineRegistered
  BY DEF IInv
<1>4. QED
  BY <1>1, <1>2, <1>3, PTL DEF Spec

-----------------------------------------------------------------------------
\* What one step may do to the registry.  Only AddUser and Modify touch it, and
\* both grant less than the giver has.
Granted(uid, uinfo) ==
  \E c \in users_id_now :
    /\ user_info[c].privilege > uinfo.privilege
         \/ (uid \in DOMAIN user_info /\ uinfo.privilege = user_info[uid].privilege)
    /\ uid \in DOMAIN user_info =>
         c = uid \/ user_info[c].privilege > user_info[uid].privilege

LEMMA StepGrants ==
  ASSUME IInv, [Next]_vars
  PROVE  \/ user_info' = user_info
         \/ \E uid \in Uid, uinfo \in UserInfo :
              /\ Granted(uid, uinfo)
              /\ user_info' = IndexReplace(user_info, uid, uinfo)
<1> USE DEF IInv, TypeOK, OnlineRegistered
<1>1. CASE UNCHANGED vars
  BY <1>1 DEF vars
<1>2. CASE Exit \/ Boot
  BY <1>2 DEF Exit, Boot
<1>3. ASSUME NEW uid \in Uid,
             \/ \E password \in Password : LogIn(uid, password)
             \/ LogOut(uid)
             \/ \E c_uid \in Uid : Seek(c_uid, uid)
      PROVE  user_info' = user_info
  BY <1>3 DEF LogIn, LogOut, Seek, Refuse
<1>4. ASSUME NEW uid \in Uid, NEW c_uid \in Uid, NEW privilege \in GivenPrivilege,
             NEW password \in Password, AddUser(c_uid, uid, password, privilege),
             user_info' # user_info
      PROVE  \E uinfo \in UserInfo :
               /\ Granted(uid, uinfo)
               /\ user_info' = IndexReplace(user_info, uid, uinfo)
  <2> DEFINE uinfo == [password |-> password, privilege |-> privilege]
  <2>1. uinfo \in UserInfo
    BY GivenIsInt DEF UserInfo
  <2>2. /\ c_uid \in users_id_now
        /\ user_info[c_uid].privilege > uinfo.privilege
        /\ uid \notin DOMAIN user_info
        /\ user_info' = IndexInsert(user_info, uid, uinfo)
    BY <1>4 DEF AddUser, MayAdd, Find, Refuse
  <2>3. IndexRemove(user_info, uid) = user_info
    BY <2>2 DEF IndexRemove, IsIndex
  <2>4. QED
    BY <2>1, <2>2, <2>3 DEF Granted, IndexReplace
<1>5. ASSUME NEW uid \in Uid, NEW c_uid \in Uid, NEW privilege \in GivenPrivilege,
             NEW password \in Password \cup {Absent},
             Modify(c_uid, uid, password, privilege), user_info' # user_info
      PROVE  \E uinfo \in UserInfo :
               /\ Granted(uid, uinfo)
               /\ user_info' = IndexReplace(user_info, uid, uinfo)
  <2> DEFINE uinfo == Modified(user_info[uid], password, privilege)
  <2>1. /\ MaySee(c_uid, uid)
        /\ user_info[c_uid].privilege > privilege
        /\ user_info' = IndexReplace(user_info, uid, uinfo)
    BY <1>5 DEF Modify, Refuse
  <2>2. c_uid \in users_id_now /\ uid \in DOMAIN user_info
    BY <2>1 DEF MaySee, Find
  <2>3. user_info[uid] \in UserInfo
    BY <2>2 DEF IsIndex
  <2>4. uinfo \in UserInfo
    BY <2>3, ModifiedIsUserInfo
  <2>5. uinfo.privilege = privilege \/ uinfo.privilege = user_info[uid].privilege
    BY DEF Modified
  <2>6. c_uid = uid \/ user_info[c_uid].privilege > user_info[uid].privilege
    BY <2>1 DEF MaySee
  <2> HIDE DEF uinfo
  <2>7. Granted(uid, uinfo)
    BY <2>1, <2>2, <2>5, <2>6 DEF Granted
  <2>8. QED
    BY <2>1, <2>4, <2>7
<1>6. QED
  BY <1>1, <1>2, <1>3, <1>4, <1>5 DEF Next, Command

\* An account is never lost or taken over, for any number of users.
THEOREM AccountsAreKept == Spec => AccountsKept
<1> DEFINE Kept ==
      \A u \in DOMAIN user_info :
        /\ u \in DOMAIN user_info'
        /\ user_info'[u] # user_info[u] =>
             \E c \in users_id_now :
               c = u \/ user_info[c].privilege > user_info[u].privilege
<1>1. IInv /\ [Next]_vars => Kept
  <2> SUFFICES ASSUME IInv, [Next]_vars, user_info' # user_info,
                      NEW u \in DOMAIN user_info
               PROVE  /\ u \in DOMAIN user_info'
                      /\ user_info'[u] # user_info[u] =>
                           \E c \in users_id_now :
                             c = u \/ user_info[c].privilege > user_info[u].privilege
    OBVIOUS
  <2>1. PICK uid \in Uid, uinfo \in UserInfo :
          /\ Granted(uid, uinfo)
          /\ user_info' = IndexReplace(user_info, uid, uinfo)
    BY StepGrants
  <2>2. DOMAIN user_info' = DOMAIN user_info \cup {uid}
    BY <2>1 DEF IndexReplace, IndexInsert, IndexRemove
  <2>3. \A k \in DOMAIN user_info \ {uid} : user_info'[k] = user_info[k]
    BY <2>1 DEF IndexReplace, IndexInsert, IndexRemove
  <2>4. QED
    BY <2>1, <2>2, <2>3 DEF Granted
<1>2. Init => IInv
  BY InitIInv
<1>3. IInv /\ [Next]_vars => IInv'
  BY NextIInv
<1>4. Kept => [Kept]_vars
  OBVIOUS
<1> HIDE DEF Kept
<1>5. Spec => [][Kept]_vars
  BY <1>1, <1>2, <1>3, <1>4, PTL DEF Spec
<1>6. QED
  BY <1>5 DEF AccountsKept, Kept

\* Nobody climbs to the top, for any number of users and any privileges.
THEOREM TopStaysTheTop == Spec => NobodyReachesTheTop
<1> DEFINE Capped ==
      \A u \in TopUsers : \A v \in TopUsers' :
        /\ user_info'[v].privilege <= user_info[u].privilege
        /\ user_info'[v].privilege = user_info[u].privilege => v \in TopUsers
<1>1. IInv /\ [Next]_vars => Capped
  <2> SUFFICES ASSUME IInv, [Next]_vars, NEW u \in TopUsers, NEW v \in TopUsers'
               PROVE  /\ user_info'[v].privilege <= user_info[u].privilege
                      /\ user_info'[v].privilege = user_info[u].privilege
                           => v \in TopUsers
    OBVIOUS
  <2>1. /\ \A w \in DOMAIN user_info : user_info[w] \in UserInfo
        /\ users_id_now \subseteq DOMAIN user_info
    BY DEF IInv, TypeOK, OnlineRegistered, IsIndex
  <2>2. /\ \A w \in DOMAIN user_info : user_info[w].privilege \in Int
    BY <2>1 DEF UserInfo
  <2>3. /\ u \in DOMAIN user_info
        /\ \A w \in DOMAIN user_info : user_info[w].privilege <= user_info[u].privilege
    BY DEF TopUsers
  <2>4. v \in DOMAIN user_info'
    BY DEF TopUsers
  <2>5. CASE user_info' = user_info
    <3>1. /\ v \in DOMAIN user_info
          /\ user_info'[v] = user_info[v]
      BY <2>4, <2>5
    <3>2. QED
      BY <2>2, <2>3, <3>1 DEF TopUsers
  <2>6. CASE user_info' # user_info
    <3>1. PICK uid \in Uid, uinfo \in UserInfo :
            /\ Granted(uid, uinfo)
            /\ user_info' = IndexReplace(user_info, uid, uinfo)
      BY <2>6, StepGrants
    <3>2. /\ DOMAIN user_info' = DOMAIN user_info \cup {uid}
          /\ user_info'[uid] = uinfo
          /\ \A k \in DOMAIN user_info \ {uid} : user_info'[k] = user_info[k]
      <4>1. DOMAIN user_info' = DOMAIN user_info \cup {uid}
        BY <3>1 DEF IndexReplace, IndexInsert, IndexRemove
      <4>2. user_info'[uid] = uinfo
        BY <3>1 DEF IndexReplace, IndexInsert, IndexRemove
      <4>3. \A k \in DOMAIN user_info \ {uid} : user_info'[k] = user_info[k]
        BY <3>1 DEF IndexReplace, IndexInsert, IndexRemove
      <4>4. QED
        BY <4>1, <4>2, <4>3
    <3>3. uinfo.privilege \in Int
      BY DEF UserInfo
    <3>4. CASE v # uid
      <4>1. v \in DOMAIN user_info /\ user_info'[v] = user_info[v]
        BY <2>4, <3>2, <3>4
      <4>2. QED
        BY <2>2, <2>3, <4>1 DEF TopUsers
    <3>5. CASE v = uid
      <4>1. PICK c \in users_id_now :
              user_info[c].privilege > uinfo.privilege
                \/ (uid \in DOMAIN user_info
                     /\ uinfo.privilege = user_info[uid].privilege)
        BY <3>1 DEF Granted
      <4>2. CASE user_info[c].privilege > uinfo.privilege
        <5>1. /\ c \in DOMAIN user_info
              /\ user_info[c].privilege <= user_info[u].privilege
          BY <2>1, <2>3
        <5>2. uinfo.privilege < user_info[u].privilege
          BY <2>2, <2>3, <3>3, <4>2, <5>1
        <5>3. QED
          BY <2>2, <2>3, <3>2, <3>3, <3>5, <5>2
      <4>3. CASE uid \in DOMAIN user_info /\ uinfo.privilege = user_info[uid].privilege
        BY <2>2, <2>3, <3>2, <3>5, <4>3 DEF TopUsers
      <4>4. QED
        BY <4>1, <4>2, <4>3
    <3>6. QED
      BY <3>4, <3>5
  <2>7. QED
    BY <2>5, <2>6
<1>2. Init => IInv
  BY InitIInv
<1>3. IInv /\ [Next]_vars => IInv'
  BY NextIInv
<1>4. Capped => [Capped]_vars
  OBVIOUS
<1> HIDE DEF Capped
<1>5. Spec => [][Capped]_vars
  BY <1>1, <1>2, <1>3, <1>4, PTL DEF Spec
<1>6. QED
  BY <1>5 DEF NobodyReachesTheTop, Capped

-----------------------------------------------------------------------------
\* A session ends when its user is named; when no other user is logged in it
\* may end at another name (Set::Erase of the last element, core::LogOut).
SessionsEndByName ==
  up' => \A u \in users_id_now \ users_id_now' : answer'[2] = u \/ users_id_now = {u}

\* A set of at most one element that has u is {u}.
LEMMA OnlyElement ==
  ASSUME NEW set, IsFiniteSet(set), Cardinality(set) <= 1, NEW u \in set
  PROVE  set = {u}
<1>1. IsFiniteSet({u}) /\ Cardinality({u}) = 1 /\ {u} \subseteq set
  BY FS_Singleton
<1>2. Cardinality({u}) <= Cardinality(set) /\ Cardinality(set) \in Nat
  BY <1>1, FS_Subset, FS_CardinalityType
<1>3. Cardinality({u}) = Cardinality(set)
  BY <1>1, <1>2
<1>4. QED
  BY <1>1, <1>3, FS_Subset

\* The sessions are finitely many: one login, one more.
LEMMA SessionsFinite ==
  ASSUME NEW S, IsFiniteSet(S), NEW T, NEW u,
         \/ T = S \/ T = {} \/ T = S \cup {u} \/ T = S \ {u}
  PROVE  IsFiniteSet(T)
BY FS_EmptySet, FS_AddElement, FS_RemoveElement

SessionsAreFinite == IsFiniteSet(users_id_now)

LEMMA NextFinite ==
  SessionsAreFinite /\ [Next]_vars => SessionsAreFinite'
<1> SUFFICES ASSUME IsFiniteSet(users_id_now), [Next]_vars PROVE IsFiniteSet(users_id_now')
  BY DEF SessionsAreFinite
<1>1. \E u : \/ users_id_now' = users_id_now \/ users_id_now' = {}
             \/ users_id_now' = users_id_now \cup {u} \/ users_id_now' = users_id_now \ {u}
  BY DEF Next, vars, Exit, Boot, Command, LogIn, LogOut, Erase, Seek, AddUser, Modify, Refuse
<1>2. QED
  BY <1>1, SessionsFinite

\* How far a logout may reach: never beyond the user it names, but for the one
\* session there is.
THEOREM LogoutSparesTheOthers == Spec => [][SessionsEndByName]_vars
<1>1. SessionsAreFinite /\ [Next]_vars => [SessionsEndByName]_vars
  <2> SUFFICES ASSUME IsFiniteSet(users_id_now), Next, up',
                      NEW u \in users_id_now \ users_id_now'
               PROVE  answer'[2] = u \/ users_id_now = {u}
    BY DEF SessionsEndByName, SessionsAreFinite
  <2>1. PICK uid \in Uid : LogOut(uid)
    BY DEF Next, Exit, Boot, Command, LogIn, Seek, AddUser, Modify, Refuse
  <2>2. CASE Cardinality(users_id_now) <= 1
    BY <2>2, OnlyElement
  <2>3. CASE ~(Cardinality(users_id_now) <= 1)
    <3>1. u = uid
      BY <2>1, <2>3 DEF LogOut, Erase
    <3>2. answer'[2] = uid
      BY <2>1 DEF LogOut
    <3>3. QED
      BY <3>1, <3>2
  <2>4. QED
    BY <2>2, <2>3
<1>2. Init => SessionsAreFinite
  BY FS_EmptySet DEF Init, SessionsAreFinite
<1>3. SessionsAreFinite /\ [Next]_vars => SessionsAreFinite'
  BY NextFinite
<1>4. QED
  BY <1>1, <1>2, <1>3, PTL DEF Spec
=============================================================================
