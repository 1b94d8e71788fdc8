--------------------------- MODULE AccountsProofs ---------------------------
(***************************************************************************)
(* Who may administer and who gets the signup bonus, for any users, any    *)
(* number of concurrent requests and either database.                      *)
(***************************************************************************)
EXTENDS Accounts, FiniteSetTheorems, TLAPS

Row == [role : {"user", "admin"}, status : {"active", "banned"}]

Request ==
    [pc : {"idle", "active", "admin", "tx"},
     actor : Users \cup {NULL}, target : Users \cup {NULL},
     role : {"user", "admin", NULL}, status : {"active", "banned", NULL}, lose : BOOLEAN]

(* A request names its caller until it has been let in, and a target that  *)
(* has a row when it is about to write.                                    *)
TypeInv ==
    /\ Ledger!TypeOK
    /\ users \in [Users -> Row \cup {NoUser}]
    /\ signup \in [Users -> {"none", "count", "promote", "bonus", "done"}]
    /\ req \in [Requests -> Request]
    /\ \A r \in Requests : /\ req[r].pc = "active" => req[r].actor \in Users
                           /\ req[r].pc = "tx" => req[r].target \in Registered
    /\ dialect \in Dialects

(* Who has a row has begun to register; only Bootstrap is ever promoted.   *)
Begun ==
    \A u \in Users :
        /\ signup[u] = "none" <=> users[u] = NoUser
        /\ signup[u] \in {"count", "promote"} => u = Bootstrap

(* The window is still open while the bootstrap user's registration has    *)
(* not passed its promotion: until then there is no administrator, and no  *)
(* request that has ever met one.                                          *)
WindowOpen == Bootstrap \in Users => signup[Bootstrap] \in {"none", "count", "promote"}

NobodyYet ==
    WindowOpen => /\ Admins = {}
                  /\ \A r \in Requests : req[r].pc \in {"idle", "active"}

(* The bonus is the last thing a registration does.                        *)
BonusLast ==
    \A u \in Users :
        /\ signup[u] # "done" => txs[u] = <<>>
        /\ Len(txs[u]) <= 1

IInv == TypeInv /\ Begun /\ NobodyYet /\ BonusLast

-----------------------------------------------------------------------------
(* The absent row is no row, and no administrator.                         *)
LEMMA NoUserIsNoRow == NoUser \notin Row /\ NewUser \in Row /\ NoUser.role # "admin"
<1>1. NoUser.role = NULL
  BY DEF NoUser
<1>2. \A row \in Row : row.role \in {"user", "admin"}
  BY DEF Row
<1>3. NewUser \in Row
  BY DEF NewUser, Row
<1> QED BY <1>1, <1>2, <1>3, NullAssumption

(* The invariant holds of the empty database.                              *)
LEMMA InitIInv == Init => IInv
<1> SUFFICES ASSUME Init PROVE IInv
  OBVIOUS
<1>1. Ledger!TypeOK /\ \A u \in Users : txs[u] = <<>>
  BY DEF Init, Ledger!Init, Ledger!TypeOK
<1>2. NoRequest \in Request
  BY DEF NoRequest, Request
<1>3. NoRequest.pc = "idle"
  BY DEF NoRequest
<1>4. TypeInv
  BY <1>1, <1>2, <1>3 DEF Init, TypeInv
<1>5. Begun /\ BonusLast
  BY <1>1 DEF Init, Begun, BonusLast
<1>6. NobodyYet
  BY <1>3, NoUserIsNoRow DEF Init, NobodyYet, Admins
<1> QED BY <1>4, <1>5, <1>6 DEF IInv

(* What a bonus does to the ledger: one row for one user.                  *)
LEMMA BonusEffect ==
    ASSUME IInv, NEW u \in Users, txs[u] = <<>>, Ledger!GrantSignupBonus(u, Bonus)
    PROVE  /\ Ledger!TypeOK'
           /\ Len(txs'[u]) = 1
           /\ \A v \in Users \ {u} : txs'[v] = txs[v]
<1>1. /\ accounts \in SUBSET Users /\ monthly \in [Users -> Int] /\ addon \in [Users -> Int]
      /\ txs \in [Users -> Seq(Ledger!CreditTransaction)]
  BY DEF IInv, TypeInv, Ledger!TypeOK
<1> DEFINE row == [type |-> "signup_grant", monthlyDelta |-> Bonus, addonDelta |-> 0,
                   monthlyAfter |-> monthly[u] + Bonus, addonAfter |-> addon[u] + 0,
                   generationID |-> NULL, externalID |-> Ledger!SignupKey(u)]
<1>2. /\ accounts' = accounts \cup {u}
      /\ monthly' = [monthly EXCEPT ![u] = @ + Bonus]
      /\ addon' = [addon EXCEPT ![u] = @ + 0]
      /\ txs' = [txs EXCEPT ![u] = Append(@, row)]
  BY DEF Ledger!GrantSignupBonus, Ledger!Post
<1>3. row \in Ledger!CreditTransaction
  <2>1. Ledger!SignupKey(u) \in Ledger!ExternalIDs
    BY DEF Ledger!ExternalIDs
  <2>2. /\ Bonus \in Int /\ monthly[u] + Bonus \in Int /\ addon[u] + 0 \in Int
        /\ "signup_grant" \in Ledger!TxTypes
    BY <1>1, BonusAssumption DEF Ledger!TxTypes
  <2> QED BY <2>1, <2>2 DEF Ledger!CreditTransaction
<1> HIDE DEF row
<1>4. txs' \in [Users -> Seq(Ledger!CreditTransaction)]
  <2>1. Append(txs[u], row) \in Seq(Ledger!CreditTransaction)
    BY <1>1, <1>3
  <2> QED BY <1>1, <1>2, <2>1
<1>5. monthly' \in [Users -> Int] /\ addon' \in [Users -> Int] /\ accounts' \in SUBSET Users
  BY <1>1, <1>2, BonusAssumption
<1>6. Len(txs'[u]) = 1 /\ \A v \in Users \ {u} : txs'[v] = txs[v]
  BY <1>1, <1>2
<1> QED BY <1>4, <1>5, <1>6 DEF Ledger!TypeOK

-----------------------------------------------------------------------------
(* The steps of a registration                                             *)

(* A registration keeps the invariant: the new row is a plain user.        *)
LEMMA RegisterIInv ==
    ASSUME IInv, NEW u \in Users, Register(u)
    PROVE  IInv'
<1> USE DEF IInv, ledgerVars
<1>1. /\ users' = [users EXCEPT ![u] = NewUser] /\ users[u] = NoUser
      /\ signup' = [signup EXCEPT ![u] = IF u = Bootstrap THEN "count" ELSE "bonus"]
      /\ UNCHANGED <<ledgerVars, req, dialect>>
  BY DEF Register, Registered
<1>2. Ledger!TypeOK'
  BY <1>1 DEF TypeInv, Ledger!TypeOK
<1>3. TypeInv'
  BY <1>1, <1>2, NoUserIsNoRow DEF TypeInv, Registered
<1>4. Begun'
  BY <1>1, NoUserIsNoRow DEF Begun, TypeInv
<1>5. NobodyYet'
  <2>1. NewUser.role # "admin"
    BY DEF NewUser
  <2>2. Admins' \subseteq Admins
    BY <1>1, <2>1 DEF Admins, TypeInv
  <2>3. WindowOpen' => WindowOpen
    BY <1>1 DEF WindowOpen, TypeInv, Begun
  <2> QED BY <1>1, <2>2, <2>3 DEF NobodyYet
<1>6. BonusLast'
  BY <1>1 DEF BonusLast, TypeInv, Begun
<1> QED BY <1>3, <1>4, <1>5, <1>6

(* So does either statement of PromoteAdmin.                               *)
LEMMA PromotionIInv ==
    ASSUME IInv, NEW u \in Users, PromoteCount(u) \/ PromoteUpdate(u) \/ PromoteFails(u)
    PROVE  IInv'
<1> USE DEF IInv, ledgerVars
<1>1. signup[u] \in {"count", "promote"} /\ u = Bootstrap /\ UNCHANGED <<ledgerVars, req, dialect>>
  BY DEF PromoteCount, PromoteUpdate, PromoteFails, Begun
<1>2. /\ \E s \in {"promote", "bonus"} : signup' = [signup EXCEPT ![u] = s]
      /\ users' = users \/ (users' = [users EXCEPT ![u].role = "admin"] /\ signup'[u] = "bonus")
  BY DEF PromoteCount, PromoteUpdate, PromoteFails, TypeInv
<1>3. users[u] \in Row
  BY <1>1 DEF Begun, TypeInv
<1>4. [users[u] EXCEPT !.role = "admin"] \in Row
  BY <1>3 DEF Row
<1>5. /\ users' \in [Users -> Row \cup {NoUser}] /\ Registered' = Registered
      /\ \A v \in Users : users'[v] = NoUser <=> users[v] = NoUser
  BY <1>2, <1>3, <1>4, NoUserIsNoRow DEF TypeInv, Registered
<1>6. Ledger!TypeOK'
  BY <1>1 DEF TypeInv, Ledger!TypeOK
<1>7. TypeInv'
  BY <1>1, <1>2, <1>5, <1>6 DEF TypeInv
<1>8. Begun'
  BY <1>1, <1>2, <1>5 DEF Begun, TypeInv
<1>9. NobodyYet'
  <2>1. WindowOpen' => users' = users
    BY <1>1, <1>2 DEF WindowOpen, TypeInv
  <2>2. WindowOpen
    BY <1>1 DEF WindowOpen
  <2> QED BY <1>1, <2>1, <2>2 DEF NobodyYet, Admins
<1>10. BonusLast'
  BY <1>1, <1>2 DEF BonusLast, TypeInv
<1> QED BY <1>7, <1>8, <1>9, <1>10

(* So does the bonus, which ends its registration.                         *)
LEMMA SignupBonusIInv ==
    ASSUME IInv, NEW u \in Users, SignupBonus(u)
    PROVE  IInv'
<1> USE DEF IInv
<1>1. /\ signup[u] = "bonus" /\ signup' = [signup EXCEPT ![u] = "done"]
      /\ UNCHANGED <<users, req, dialect>>
      /\ Ledger!GrantSignupBonus(u, Bonus) \/ UNCHANGED ledgerVars
  BY DEF SignupBonus
<1>2. txs[u] = <<>>
  BY <1>1 DEF BonusLast
<1>3. Ledger!TypeOK' /\ Len(txs'[u]) <= 1 /\ \A v \in Users \ {u} : txs'[v] = txs[v]
  <2>1. ASSUME Ledger!GrantSignupBonus(u, Bonus)
        PROVE  Ledger!TypeOK' /\ Len(txs'[u]) <= 1 /\ \A v \in Users \ {u} : txs'[v] = txs[v]
    <3>1. /\ Ledger!TypeOK' /\ Len(txs'[u]) = 1
          /\ \A v \in Users \ {u} : txs'[v] = txs[v]
      BY <1>2, <2>1, BonusEffect
    <3>2. Len(txs'[u]) <= 1
      BY <3>1
    <3> QED BY <3>1, <3>2
  <2>2. ASSUME UNCHANGED <<accounts, monthly, addon, txs>>
        PROVE  Ledger!TypeOK' /\ Len(txs'[u]) <= 1 /\ \A v \in Users \ {u} : txs'[v] = txs[v]
    <3>1. Ledger!TypeOK'
      BY <2>2 DEF TypeInv, Ledger!TypeOK
    <3>2. Len(txs[u]) <= 1
      BY DEF BonusLast
    <3> QED BY <2>2, <3>1, <3>2
  <2> QED BY <1>1, <2>1, <2>2 DEF ledgerVars
<1>4. TypeInv'
  BY <1>1, <1>3 DEF TypeInv, Registered
<1>5. Begun'
  BY <1>1 DEF Begun, TypeInv
<1>6. NobodyYet'
  <2>1. WindowOpen' => WindowOpen
    BY <1>1 DEF WindowOpen, TypeInv
  <2> QED BY <1>1, <2>1 DEF NobodyYet, Admins
<1>7. BonusLast'
  BY <1>1, <1>3 DEF BonusLast, TypeInv
<1> QED BY <1>4, <1>5, <1>6, <1>7

(* Cut short by a restart, a registration is done and a request is gone.   *)
LEMMA RestartIInv ==
    ASSUME IInv, Restart
    PROVE  IInv'
<1> USE DEF IInv
<1>1. /\ signup' = [u \in Users |-> IF signup[u] = "none" THEN "none" ELSE "done"]
      /\ req' = [r \in Requests |-> NoRequest]
      /\ UNCHANGED <<accounts, monthly, addon, txs, dialect>>
      /\ \/ /\ Bootstrap \in Registered /\ Admins = {}
            /\ users' = [users EXCEPT ![Bootstrap].role = "admin"]
         \/ users' = users
  BY DEF Restart, CutShort, ledgerVars
<1>2. NoRequest \in Request /\ NoRequest.pc = "idle"
  BY DEF NoRequest, Request
<1>3. ASSUME Bootstrap \in Registered
      PROVE  [users[Bootstrap] EXCEPT !.role = "admin"] \in Row
  <2>1. Bootstrap \in Users /\ users[Bootstrap] \in Row
    BY <1>3 DEF Registered, TypeInv
  <2> QED BY <2>1 DEF Row
<1>4. /\ users' \in [Users -> Row \cup {NoUser}]
      /\ \A v \in Users : users'[v] = NoUser <=> users[v] = NoUser
  BY <1>1, <1>3, NoUserIsNoRow DEF TypeInv, Registered
<1>5. Ledger!TypeOK'
  BY <1>1 DEF TypeInv, Ledger!TypeOK
<1>6. TypeInv'
  BY <1>1, <1>2, <1>4, <1>5 DEF TypeInv
<1>7. Begun'
  BY <1>1, <1>4 DEF Begun, TypeInv
<1>8. NobodyYet'
  <2>1. WindowOpen' => WindowOpen /\ Bootstrap \notin Registered
    BY <1>1 DEF WindowOpen, TypeInv, Begun, Registered
  <2> QED BY <1>1, <1>2, <2>1 DEF NobodyYet, Admins
<1>9. BonusLast'
  BY <1>1 DEF BonusLast, TypeInv
<1> QED BY <1>6, <1>7, <1>8, <1>9

-----------------------------------------------------------------------------
(* The steps of a PATCH request                                            *)

(* What changes no row and no registration needs a look at the requests.   *)
LEMMA RequestIInv ==
    ASSUME IInv, NEW r \in Requests, NEW q \in Request,
           req' = [req EXCEPT ![r] = q],
           UNCHANGED <<ledgerVars, users, signup, dialect>>,
           q.pc = "active" => q.actor \in Users,
           q.pc = "tx" => q.target \in Registered,
           WindowOpen => q.pc \in {"idle", "active"}
    PROVE  IInv'
<1> USE DEF IInv, ledgerVars
<1>1. Ledger!TypeOK'
  BY DEF TypeInv, Ledger!TypeOK
<1>2. TypeInv'
  BY <1>1 DEF TypeInv, Registered
<1>3. Begun' /\ BonusLast'
  BY DEF Begun, BonusLast, TypeInv
<1>4. NobodyYet'
  BY DEF NobodyYet, WindowOpen, Admins, TypeInv
<1> QED BY <1>2, <1>3, <1>4

(* A new request has not been let in, and has read nothing.                *)
LEMMA ArriveIInv ==
    ASSUME IInv, NEW r \in Requests, NEW actor \in Users, Arrive(r, actor)
    PROVE  IInv'
<1> DEFINE q == [NoRequest EXCEPT !.pc = "active", !.actor = actor]
<1>1. q \in Request /\ q.pc = "active" /\ q.actor = actor
  BY DEF NoRequest, Request
<1>2. req' = [req EXCEPT ![r] = q] /\ UNCHANGED <<ledgerVars, users, signup, dialect>>
  BY DEF Arrive
<1> HIDE DEF q
<1> QED BY <1>1, <1>2, RequestIInv

(* An answered request holds nothing.                                      *)
LEMMA AnswerIInv ==
    ASSUME IInv, NEW r \in Requests, Answer(r), UNCHANGED <<ledgerVars, users, signup, dialect>>
    PROVE  IInv'
<1>1. NoRequest \in Request /\ NoRequest.pc = "idle"
  BY DEF NoRequest, Request
<1> QED BY <1>1, RequestIInv DEF Answer

(* A request is let in only if its user is an administrator now.           *)
LEMMA AuthorizeIInv ==
    ASSUME IInv, NEW r \in Requests, Authorize(r)
    PROVE  IInv'
<1>1. /\ req[r].pc = "active" /\ UNCHANGED <<ledgerVars, users, signup, dialect>>
      /\ req[r] \in Request /\ req[r].actor \in Users /\ req \in [Requests -> Request]
  BY DEF Authorize, IInv, TypeInv
<1>2. ASSUME users[req[r].actor].role = "admin", req' = [req EXCEPT ![r].pc = "admin"]
      PROVE  IInv'
  <2> DEFINE q == [req[r] EXCEPT !.pc = "admin"]
  <2>1. q \in Request /\ q.pc = "admin"
    BY <1>1 DEF Request
  <2>2. req' = [req EXCEPT ![r] = q]
    BY <1>1, <1>2
  <2>3. ~WindowOpen
    BY <1>1, <1>2 DEF IInv, NobodyYet, Admins
  <2> HIDE DEF q
  <2> QED BY <1>1, <2>1, <2>2, <2>3, RequestIInv
<1>3. ASSUME Answer(r) PROVE IInv'
  BY <1>1, <1>3, AnswerIInv
<1> QED BY <1>2, <1>3 DEF Authorize

(* The read of the target is remembered, and changes no row.               *)
LEMMA ReadTargetIInv ==
    ASSUME IInv, NEW r \in Requests, NEW target \in Users, NEW role \in {"user", "admin", NULL},
           NEW status \in {"active", "banned", NULL}, ReadTarget(r, target, role, status)
    PROVE  IInv'
<1> DEFINE lose == users[target].role = "admin" /\ (role = "user" \/ status = "banned")
           q == [req[r] EXCEPT !.pc = "tx", !.actor = NULL, !.target = target,
                               !.role = role, !.status = status, !.lose = lose]
<1>1. /\ req[r].pc = "admin" /\ UNCHANGED <<ledgerVars, users, signup, dialect>>
      /\ target \in Registered
      /\ req[r] \in Request /\ req \in [Requests -> Request]
  BY DEF ReadTarget, IInv, TypeInv
<1>2. lose \in BOOLEAN
  OBVIOUS
<1>3. req' = [req EXCEPT ![r].pc = "tx", ![r].actor = NULL, ![r].target = target,
                         ![r].role = role, ![r].status = status, ![r].lose = lose]
  BY DEF ReadTarget
<1> HIDE DEF lose
<1>4. q \in Request /\ q.pc = "tx" /\ q.target = target
  BY <1>1, <1>2 DEF Request
<1>5. req' = [req EXCEPT ![r] = q]
  BY <1>1, <1>3
<1>6. ~WindowOpen
  BY <1>1 DEF IInv, NobodyYet
<1> HIDE DEF q
<1> QED BY <1>1, <1>4, <1>5, <1>6, RequestIInv

(* A patch leaves a row a row, and a request with none no chance to write. *)
LEMMA PatchIInv ==
    ASSUME IInv, NEW r \in Requests, Patch(r)
    PROVE  IInv'
<1> USE DEF IInv
<1>1. /\ req[r].pc = "tx" /\ req[r].target \in Registered /\ req[r] \in Request
      /\ req' = [req EXCEPT ![r] = NoRequest]
      /\ UNCHANGED <<accounts, monthly, addon, txs, signup, dialect>>
  BY DEF Patch, Answer, TypeInv, ledgerVars
<1>2. NoRequest \in Request /\ NoRequest.pc = "idle"
  BY DEF NoRequest, Request
<1>3. users[req[r].target] \in Row /\ req[r].target \in Users
  BY <1>1 DEF TypeInv, Registered
<1>4. Patched(users[req[r].target], req[r]) \in Row
  BY <1>1, <1>3 DEF Patched, Row, Request
<1>5. \/ users' = users
      \/ users' = [users EXCEPT ![req[r].target] = Patched(users[req[r].target], req[r])]
  BY DEF Patch
<1>6. /\ users' \in [Users -> Row \cup {NoUser}]
      /\ \A v \in Users : users'[v] = NoUser <=> users[v] = NoUser
  BY <1>3, <1>4, <1>5, NoUserIsNoRow DEF TypeInv
<1>7. Ledger!TypeOK'
  BY <1>1 DEF TypeInv, Ledger!TypeOK
<1>8. TypeInv'
  BY <1>1, <1>2, <1>6, <1>7 DEF TypeInv, Registered
<1>9. Begun' /\ BonusLast'
  BY <1>1, <1>6 DEF Begun, BonusLast, TypeInv
<1>10. NobodyYet'
  <2>1. ~WindowOpen
    BY <1>1 DEF NobodyYet
  <2> QED BY <1>1, <2>1 DEF NobodyYet, WindowOpen
<1> QED BY <1>8, <1>9, <1>10

-----------------------------------------------------------------------------
(* Every step                                                              *)

(* Every step keeps the invariant.                                         *)
LEMMA NextIInv ==
    ASSUME IInv, [Next]_vars
    PROVE  IInv'
<1>1. ASSUME NEW u \in Users, Register(u) PROVE IInv'
  BY <1>1, RegisterIInv
<1>2. ASSUME NEW u \in Users, PromoteCount(u) \/ PromoteUpdate(u) \/ PromoteFails(u)
      PROVE  IInv'
  BY <1>2, PromotionIInv
<1>3. ASSUME NEW u \in Users, SignupBonus(u) PROVE IInv'
  BY <1>3, SignupBonusIInv
<1>4. ASSUME NEW r \in Requests, NEW actor \in Users, Arrive(r, actor) PROVE IInv'
  BY <1>4, ArriveIInv
<1>5. ASSUME NEW r \in Requests, NEW target \in Users, NEW role \in {"user", "admin", NULL},
             NEW status \in {"active", "banned", NULL}, ReadTarget(r, target, role, status)
      PROVE  IInv'
  BY <1>5, ReadTargetIInv
<1>6. ASSUME NEW r \in Requests, Authorize(r) PROVE IInv'
  BY <1>6, AuthorizeIInv
<1>7. ASSUME NEW r \in Requests, Patch(r) PROVE IInv'
  BY <1>7, PatchIInv
<1>8. ASSUME NEW r \in Requests, PatchFails(r) PROVE IInv'
  BY <1>8, AnswerIInv DEF PatchFails
<1>9. CASE Restart
  BY <1>9, RestartIInv
<1>10. ASSUME UNCHANGED vars PROVE IInv'
  BY <1>10 DEF vars, ledgerVars, IInv, TypeInv, Ledger!TypeOK, Begun, NobodyYet, WindowOpen,
              BonusLast, Registered, Admins
<1> QED BY <1>1, <1>2, <1>3, <1>4, <1>5, <1>6, <1>7, <1>8, <1>9, <1>10 DEF Next

(* The invariant holds throughout: registrations, promotions, restarts and *)
(* patches keep the ledger, the rows and the requests consistent.          *)
THEOREM AccountsInvariant == Spec => []IInv
<1> QED BY InitIInv, NextIInv, PTL DEF Spec

(* Every variable has its type, whatever the interleaving of registrations *)
(* and PATCH requests.                                                     *)
THEOREM AccountsTyped == Spec => []TypeOK
<1>1. IInv => TypeOK
  BY DEF IInv, TypeInv, TypeOK, Row, Request
<1> QED BY <1>1, AccountsInvariant, PTL

(* The signup bonus is paid to registered users only and at most once      *)
(* (GrantSignupBonus, called at the end of Register).                      *)
THEOREM BonusPaidOnce == Spec => []BonusOnce
<1>1. ASSUME IInv PROVE BonusOnce
  <2> SUFFICES ASSUME NEW u \in Users
               PROVE  Len(txs[u]) <= 1 /\ (Len(txs[u]) = 1 => u \in Registered)
    BY DEF BonusOnce
  <2>1. txs[u] = <<>> => Len(txs[u]) # 1
    OBVIOUS
  <2>2. u \in Registered \/ txs[u] = <<>>
    BY <1>1 DEF IInv, Begun, BonusLast, Registered
  <2> QED BY <1>1, <2>1, <2>2 DEF IInv, BonusLast
<1> QED BY <1>1, AccountsInvariant, PTL

(* What changes a user's row.                                              *)
LEMMA RowsChange ==
    ASSUME Next
    PROVE  \/ UNCHANGED users
           \/ \E u \in Users : Register(u) \/ PromoteUpdate(u)
           \/ \E r \in Requests : Patch(r)
           \/ Restart
<1>1. ASSUME NEW u \in Users, PromoteCount(u) \/ PromoteFails(u) \/ SignupBonus(u)
      PROVE  UNCHANGED users
  BY <1>1 DEF PromoteCount, PromoteFails, SignupBonus
<1>2. ASSUME NEW r \in Requests, Authorize(r) \/ PatchFails(r)
      PROVE  UNCHANGED users
  BY <1>2 DEF Authorize, PatchFails
<1>3. ASSUME NEW r \in Requests, NEW actor \in Users, Arrive(r, actor)
      PROVE  UNCHANGED users
  BY <1>3 DEF Arrive
<1>4. ASSUME NEW r \in Requests, NEW target \in Users, NEW role \in {"user", "admin", NULL},
             NEW status \in {"active", "banned", NULL}, ReadTarget(r, target, role, status)
      PROVE  UNCHANGED users
  BY <1>4 DEF ReadTarget
<1> QED BY <1>1, <1>2, <1>3, <1>4 DEF Next

(* Only the bootstrap user, and only while there is no administrator, is   *)
(* promoted other than by an administrator's request (PromoteAdmin). That  *)
(* its count is out of date when it writes does no harm: until then nobody *)
(* can have promoted anybody.                                              *)
THEOREM WindowClosesForGood == Spec => BootstrapWindowCloses
<1>1. ASSUME IInv, Next PROVE WindowStep
  <2> SUFFICES ASSUME NEW u \in Users, u \in Admins' \ Admins
               PROVE  \/ \E r \in Requests : Decided(r) /\ req[r].target = u /\ req[r].role = "admin"
                      \/ u = Bootstrap /\ Admins = {}
    BY DEF WindowStep
  <2>1. users' # users /\ users'[u].role = "admin" /\ users[u].role # "admin"
    BY DEF Admins
  <2>2. ASSUME NEW v \in Users, Register(v) PROVE FALSE
    BY <1>1, <2>1, <2>2 DEF Register, IInv, TypeInv, NewUser
  <2>3. ASSUME NEW v \in Users, PromoteUpdate(v) PROVE u = Bootstrap /\ Admins = {}
    <3>1. v = Bootstrap /\ signup[v] = "promote" /\ u = v
      BY <1>1, <2>1, <2>3 DEF PromoteUpdate, IInv, TypeInv, Begun
    <3> QED BY <1>1, <3>1 DEF IInv, NobodyYet, WindowOpen
  <2>4. ASSUME NEW r \in Requests, Patch(r)
        PROVE  Decided(r) /\ req[r].target = u /\ req[r].role = "admin"
    <3>1. req[r].pc = "tx" /\ req' = [req EXCEPT ![r] = NoRequest] /\ req \in [Requests -> Request]
      BY <1>1, <2>4 DEF Patch, Answer, IInv, TypeInv
    <3>2. Decided(r)
      BY <3>1 DEF Decided, NoRequest
    <3>3. users' = [users EXCEPT ![req[r].target] = Patched(users[req[r].target], req[r])]
      BY <2>1, <2>4 DEF Patch
    <3>4. req[r].target = u /\ Patched(users[u], req[r]).role = "admin"
      BY <1>1, <2>1, <3>3 DEF IInv, TypeInv
    <3> QED BY <2>1, <3>2, <3>4 DEF Patched
  <2>5. ASSUME Restart PROVE u = Bootstrap /\ Admins = {}
    BY <1>1, <2>1, <2>5 DEF Restart, IInv, TypeInv
  <2> QED BY <1>1, <2>1, <2>2, <2>3, <2>4, <2>5, RowsChange
<1>2. UNCHANGED vars => WindowStep
  BY DEF vars, WindowStep, Admins
<1>3. IInv /\ [Next]_vars => [WindowStep]_vars
  BY <1>1, <1>2
<1> QED BY <1>3, AccountsInvariant, PTL DEF Spec, BootstrapWindowCloses

(* Guard 2 of Patch: one that met an administrator in its target leaves a  *)
(* usable one, for the count it makes is of the rows it then changes.      *)
THEOREM CountedPatchesLeaveAdmin == Spec => CountedPatchLeavesAdmin
<1>1. ASSUME IInv, Next PROVE CountedStep
  <2> SUFFICES ASSUME NEW r \in Requests, Decided(r), req[r].lose, ActiveAdmins # {}
               PROVE  ActiveAdmins' # {}
    BY DEF CountedStep
  <2>1. req \in [Requests -> Request] /\ req[r].pc = "tx" /\ req'[r].pc = "idle"
    BY <1>1 DEF IInv, TypeInv, Decided
  <2>2. ASSUME UNCHANGED users PROVE ActiveAdmins' # {}
    BY <2>2 DEF ActiveAdmins, Admins
  <2>3. ASSUME Patch(r) PROVE ActiveAdmins' # {}
    <3>1. CASE ~Allowed(r)
      BY <2>2, <2>3, <3>1 DEF Patch
    <3>2. CASE Allowed(r)
      <4>1. Cardinality(ActiveAdmins) > 1
        BY <3>2 DEF Allowed
      <4>2. ActiveAdmins # {req[r].target}
        BY <4>1, FS_Singleton
      <4>3. PICK v \in ActiveAdmins : v # req[r].target
        BY <4>2
      <4>4. users'[v] = users[v] /\ v \in Users
        BY <1>1, <2>3, <3>2, <4>3 DEF Patch, IInv, TypeInv, ActiveAdmins, Admins
      <4> QED BY <4>3, <4>4 DEF ActiveAdmins, Admins
    <3> QED BY <3>1, <3>2
  <2>4. ASSUME NEW s \in Requests, s # r, Patch(s) PROVE FALSE
    BY <2>1, <2>4 DEF Patch, Answer
  <2>5. ASSUME Restart PROVE ActiveAdmins' # {}
    <3>1. ActiveAdmins \subseteq Admins
      BY DEF ActiveAdmins
    <3>2. UNCHANGED users
      BY <2>5, <3>1 DEF Restart
    <3> QED BY <2>2, <3>2
  <2>6. ASSUME NEW u \in Users, Register(u) \/ PromoteUpdate(u) PROVE FALSE
    BY <2>1, <2>6 DEF Register, PromoteUpdate
  <2> QED BY <1>1, <2>2, <2>3, <2>4, <2>5, <2>6, RowsChange
<1>2. UNCHANGED vars => CountedStep
  BY DEF vars, CountedStep, ActiveAdmins, Admins
<1>3. IInv /\ [Next]_vars => [CountedStep]_vars
  BY <1>1, <1>2
<1> QED BY <1>3, AccountsInvariant, PTL DEF Spec, CountedPatchLeavesAdmin

-----------------------------------------------------------------------------
(* The books                                                               *)

(* What is proved of the ledger.                                           *)
Books == INSTANCE CreditLedgerProofs

(* The bonus is the ledger's own operation; nothing else touches it.       *)
LEMMA StepIsLedgerStep == [Next]_vars => [Ledger!Next]_(Ledger!vars)
<1> SUFFICES ASSUME [Next]_vars PROVE Ledger!Next \/ UNCHANGED ledgerVars
  BY DEF ledgerVars, Ledger!vars
<1>1. ASSUME NEW u \in Users, SignupBonus(u)
      PROVE  Ledger!Next \/ UNCHANGED ledgerVars
  <2>1. CASE Ledger!GrantSignupBonus(u, Bonus)
    <3>1. Bonus \in GrantAmounts
      BY <2>1, BonusAssumption DEF Ledger!GrantSignupBonus
    <3> QED BY <2>1, <3>1 DEF Ledger!Next
  <2> QED BY <1>1, <2>1 DEF SignupBonus
<1>2. ASSUME NEW u \in Users,
             Register(u) \/ PromoteCount(u) \/ PromoteUpdate(u) \/ PromoteFails(u)
      PROVE  UNCHANGED ledgerVars
  BY <1>2 DEF Register, PromoteCount, PromoteUpdate, PromoteFails
<1>3. ASSUME NEW r \in Requests, NEW actor \in Users, Arrive(r, actor)
      PROVE  UNCHANGED ledgerVars
  BY <1>3 DEF Arrive
<1>4. ASSUME NEW r \in Requests, NEW target \in Users, NEW role \in {"user", "admin", NULL},
             NEW status \in {"active", "banned", NULL}, ReadTarget(r, target, role, status)
      PROVE  UNCHANGED ledgerVars
  BY <1>4 DEF ReadTarget
<1>5. ASSUME NEW r \in Requests, Authorize(r) \/ Patch(r) \/ PatchFails(r)
      PROVE  UNCHANGED ledgerVars
  BY <1>5 DEF Authorize, Patch, PatchFails
<1>6. ASSUME Restart \/ UNCHANGED vars PROVE UNCHANGED ledgerVars
  BY <1>6 DEF Restart, vars
<1> QED BY <1>1, <1>2, <1>3, <1>4, <1>5, <1>6 DEF Next

(* Registrations, restarts and administrators' patches change the ledger   *)
(* only by its own operations, one at a time.                              *)
THEOREM RegistrationsUseTheLedger == Spec => Ledger!Spec
<1>1. Init => Ledger!Init
  BY DEF Init
<1> QED BY <1>1, StepIsLedgerStep, PTL DEF Spec, Ledger!Spec

(* Books and Ledger are the same specification under two names.            *)
LEMMA SameLedgerSpec == Ledger!Spec => Books!Spec
BY DEF Ledger!Spec, Books!Spec, Ledger!Init, Books!Init, Ledger!Next, Books!Next,
       Ledger!vars, Books!vars, Ledger!Spend, Books!Spend, Ledger!Refund, Books!Refund,
       Ledger!RefundRow, Books!RefundRow, Ledger!Grant, Books!Grant,
       Ledger!ResetMonthly, Books!ResetMonthly,
       Ledger!GrantSignupBonus, Books!GrantSignupBonus, Ledger!Post, Books!Post,
       Ledger!CanAfford, Books!CanAfford, Ledger!MonthlyShare, Books!MonthlyShare,
       Ledger!GenTypeTaken, Books!GenTypeTaken, Ledger!ExtTypeTaken, Books!ExtTypeTaken,
       Ledger!IsTx, Books!IsTx, Ledger!SignupKey, Books!SignupKey

(* So the books balance and no user is posted a second bonus.              *)
THEOREM RegistrationsKeepTheBooks == Spec => [](Ledger!Reconciles /\ Ledger!KeysUnique)
<1>1. Books!Spec => [](Books!Reconciles /\ Books!KeysUnique)
  BY Books!BooksBalance, Books!EachKeyPostedOnce, LedgerAssumption, PTL
<1>2. Books!Reconciles /\ Books!KeysUnique => Ledger!Reconciles /\ Ledger!KeysUnique
  BY DEF Books!Reconciles, Ledger!Reconciles, Books!SnapshotsChain, Ledger!SnapshotsChain,
         Books!AccountIsLastSnapshot, Ledger!AccountIsLastSnapshot,
         Books!MonthlyBefore, Ledger!MonthlyBefore, Books!AddonBefore, Ledger!AddonBefore,
         Books!KeysUnique, Ledger!KeysUnique
<1> QED BY <1>1, <1>2, SameLedgerSpec, RegistrationsUseTheLedger, PTL

-----------------------------------------------------------------------------
(* When the last administrator can go                                      *)

(* The patch would take an administrator away, by the rows of now.         *)
TakesAdmin(r) ==
    /\ users[req[r].target].role = "admin"
    /\ req[r].role = "user" \/ req[r].status = "banned"

(* A patch that takes an administrator away without knowing it.            *)
Stale(r) == req[r].pc = "tx" /\ TakesAdmin(r) /\ ~req[r].lose

(* The last usable administrator only ever goes by a stale patch.          *)
StaleStep ==
    ActiveAdmins # {} /\ ActiveAdmins' = {} => \E r \in Requests : Decided(r) /\ Stale(r)

OnlyStaleLoses == [][StaleStep]_vars

(* What a pending patch read of its target is still so.                    *)
ReadStands == \A r \in Requests : req[r].pc = "tx" => req[r].lose = TakesAdmin(r)

(* A patch that takes no administrator away leaves the usable ones usable. *)
LEMMA HarmlessPatch ==
    ASSUME IInv, NEW r \in Requests, Patch(r), ~TakesAdmin(r)
    PROVE  ActiveAdmins \subseteq ActiveAdmins'
<1> SUFFICES ASSUME NEW v \in ActiveAdmins PROVE v \in ActiveAdmins'
  OBVIOUS
<1>1. v \in Users /\ users[v].role = "admin" /\ users[v].status = "active"
  BY DEF ActiveAdmins, Admins
<1>2. users \in [Users -> Row \cup {NoUser}] /\ req \in [Requests -> Request]
  BY DEF IInv, TypeInv
<1>3. \/ users'[v] = users[v]
      \/ v = req[r].target /\ users'[v] = Patched(users[v], req[r])
  BY <1>2 DEF Patch
<1>4. req[r].role \in {"user", "admin", NULL} /\ req[r].status \in {"active", "banned", NULL}
  BY <1>2 DEF Request
<1>5. CASE users'[v] = users[v]
  BY <1>1, <1>5 DEF ActiveAdmins, Admins
<1>6. CASE v = req[r].target /\ users'[v] = Patched(users[v], req[r])
  <2>1. req[r].role # "user" /\ req[r].status # "banned"
    BY <1>1, <1>6 DEF TakesAdmin
  <2>2. users'[v].role = "admin" /\ users'[v].status = "active"
    BY <1>1, <1>4, <1>6, <2>1 DEF Patched
  <2> QED BY <1>1, <2>2 DEF ActiveAdmins, Admins
<1> QED BY <1>3, <1>5, <1>6

(* The last usable administrator goes in one way only: a patch that read   *)
(* its target before another request made an administrator of it (the      *)
(* First before the transaction in Patch). Every other step, of any number *)
(* of requests on either database, leaves one.                             *)
THEOREM OnlyStaleReadsLoseAdmin == Spec => OnlyStaleLoses
<1>1. ASSUME IInv, Next, CountedStep PROVE StaleStep
  <2> SUFFICES ASSUME ActiveAdmins # {}, ActiveAdmins' = {}
               PROVE  \E r \in Requests : Decided(r) /\ Stale(r)
    BY DEF StaleStep
  <2>1. users \in [Users -> Row \cup {NoUser}] /\ req \in [Requests -> Request]
    BY <1>1 DEF IInv, TypeInv
  <2>2. ASSUME UNCHANGED users PROVE FALSE
    BY <2>2 DEF ActiveAdmins, Admins
  <2>3. ASSUME NEW u \in Users, Register(u) PROVE FALSE
    <3>1. \A v \in Admins : users'[v] = users[v]
      BY <2>1, <2>3, NoUserIsNoRow DEF Register, Registered, Admins
    <3> QED BY <3>1 DEF ActiveAdmins, Admins
  <2>4. ASSUME NEW u \in Users, PromoteUpdate(u) PROVE FALSE
    <3>1. PICK v \in ActiveAdmins : TRUE
      OBVIOUS
    <3>2. v \in Users /\ users[v].role = "admin" /\ users[v].status = "active"
      BY <3>1 DEF ActiveAdmins, Admins
    <3>3. users[v] \in Row
      BY <2>1, <3>2, NoUserIsNoRow
    <3>4. users'[v].role = "admin" /\ users'[v].status = "active"
      BY <2>1, <2>4, <3>2, <3>3 DEF PromoteUpdate, Row
    <3> QED BY <3>2, <3>4 DEF ActiveAdmins, Admins
  <2>5. ASSUME NEW r \in Requests, Patch(r) PROVE Decided(r) /\ Stale(r)
    <3>1. Decided(r)
      BY <2>1, <2>5 DEF Patch, Answer, Decided, NoRequest
    <3>2. ~req[r].lose
      BY <1>1, <3>1 DEF CountedStep
    <3>3. TakesAdmin(r)
      BY <1>1, <2>5, HarmlessPatch
    <3> QED BY <3>1, <3>2, <3>3 DEF Stale, Decided
  <2>6. ASSUME Restart PROVE FALSE
    <3>1. ActiveAdmins \subseteq Admins
      BY DEF ActiveAdmins
    <3>2. UNCHANGED users
      BY <2>6, <3>1 DEF Restart
    <3> QED BY <2>2, <3>2
  <2> QED BY <1>1, <2>2, <2>3, <2>4, <2>5, <2>6, RowsChange
<1>2. UNCHANGED vars => StaleStep
  BY DEF vars, StaleStep, ActiveAdmins, Admins
<1>3. IInv /\ [Next]_vars /\ [CountedStep]_vars => [StaleStep]_vars
  BY <1>1, <1>2
<1> QED BY <1>3, AccountsInvariant, CountedPatchesLeaveAdmin, PTL
        DEF Spec, OnlyStaleLoses, CountedPatchLeavesAdmin

(* A pending request is as it was, or has just read its target.            *)
LEMMA PendingRequest ==
    ASSUME IInv, Next, NEW r \in Requests, req'[r].pc = "tx"
    PROVE  \/ req'[r] = req[r]
           \/ UNCHANGED users /\ req'[r].lose = TakesAdmin(r)'
<1>1. req \in [Requests -> Request]
  BY DEF IInv, TypeInv
<1>2. ASSUME NEW u \in Users, \/ Register(u) \/ PromoteCount(u) \/ PromoteUpdate(u)
                              \/ PromoteFails(u) \/ SignupBonus(u)
      PROVE  req' = req
  BY <1>2 DEF Register, PromoteCount, PromoteUpdate, PromoteFails, SignupBonus
<1>3. ASSUME NEW s \in Requests, Answer(s) PROVE req'[r] = req[r]
  BY <1>1, <1>3 DEF Answer, NoRequest
<1>4. ASSUME NEW s \in Requests, NEW actor \in Users, Arrive(s, actor) PROVE req'[r] = req[r]
  BY <1>1, <1>4 DEF Arrive, NoRequest
<1>5. ASSUME NEW s \in Requests, Authorize(s) PROVE req'[r] = req[r]
  <2>1. CASE Answer(s)
    BY <2>1, <1>3
  <2>2. CASE req' = [req EXCEPT ![s].pc = "admin"]
    BY <1>1, <2>2 DEF Request
  <2> QED BY <1>5, <2>1, <2>2 DEF Authorize
<1>6. ASSUME NEW s \in Requests, Patch(s) \/ PatchFails(s) PROVE req'[r] = req[r]
  BY <1>3, <1>6 DEF Patch, PatchFails
<1>7. CASE Restart
  BY <1>7 DEF Restart, CutShort, NoRequest
<1>8. ASSUME NEW s \in Requests, NEW target \in Users, NEW role \in {"user", "admin", NULL},
             NEW status \in {"active", "banned", NULL}, ReadTarget(s, target, role, status)
      PROVE  req'[r] = req[r] \/ (UNCHANGED users /\ req'[r].lose = TakesAdmin(r)')
  <2>1. CASE s # r
    BY <1>1, <1>8, <2>1 DEF ReadTarget
  <2>2. CASE s = r
    <3> DEFINE lose == /\ users[target].role = "admin"
                       /\ role = "user" \/ status = "banned"
    <3>1. users' = users
      BY <1>8 DEF ReadTarget
    <3>2. req'[r] = [req[r] EXCEPT !.pc = "tx", !.actor = NULL, !.target = target,
                     !.role = role, !.status = status, !.lose = lose]
      BY <1>1, <1>8, <2>2 DEF ReadTarget
    <3> HIDE DEF lose
    <3>3. /\ req'[r].target = target /\ req'[r].role = role /\ req'[r].status = status
          /\ req'[r].lose = lose
      BY <1>1, <3>2 DEF Request
    <3> QED BY <3>1, <3>3 DEF TakesAdmin, lose
  <2> QED BY <2>1, <2>2
<1> QED BY <1>2, <1>4, <1>5, <1>6, <1>7, <1>8 DEF Next

(* With one request at a time, nothing but the request itself changes its  *)
(* target's row: by then the bootstrap user has been promoted or not.      *)
LEMMA ReadStandsNext ==
    ASSUME \A r, s \in Requests : r = s, IInv, ReadStands, [Next]_vars
    PROVE  ReadStands'
<1>1. CASE UNCHANGED vars
  BY <1>1 DEF vars, ReadStands, TakesAdmin
<1>2. CASE Next
  <2> SUFFICES ASSUME NEW r \in Requests, req'[r].pc = "tx"
               PROVE  req'[r].lose = TakesAdmin(r)'
    BY DEF ReadStands
  <2>1. users \in [Users -> Row \cup {NoUser}] /\ req \in [Requests -> Request]
    BY DEF IInv, TypeInv
  <2>2. CASE req'[r] = req[r]
    <3>1. req[r].pc = "tx" /\ req[r].target \in Registered
      BY <2>2 DEF IInv, TypeInv
    <3>2. ASSUME users'[req[r].target] = users[req[r].target]
          PROVE  req'[r].lose = TakesAdmin(r)'
      BY <2>2, <3>1, <3>2 DEF ReadStands, TakesAdmin
    <3>3. ASSUME NEW u \in Users, Register(u) PROVE users'[req[r].target] = users[req[r].target]
      BY <2>1, <3>1, <3>3 DEF Register, Registered
    <3>4. ASSUME NEW u \in Users, PromoteUpdate(u) PROVE FALSE
      <4>1. u = Bootstrap /\ signup[u] = "promote"
        BY <3>4 DEF PromoteUpdate, IInv, Begun
      <4> QED BY <3>1, <4>1 DEF IInv, NobodyYet, WindowOpen
    <3>5. ASSUME NEW s \in Requests, Patch(s) PROVE FALSE
      <4>1. s = r
        OBVIOUS
      <4>2. req'[r].pc = "idle"
        BY <2>1, <3>5, <4>1 DEF Patch, Answer, NoRequest
      <4> QED BY <4>2
    <3>6. ASSUME Restart PROVE FALSE
      BY <3>6 DEF Restart, CutShort, NoRequest
    <3> QED BY <1>2, <3>2, <3>3, <3>4, <3>5, <3>6, RowsChange
  <2> QED BY <1>2, <2>2, PendingRequest
<1> QED BY <1>1, <1>2

(* Where PATCH requests come one at a time, somebody can always administer *)
(* once somebody can: the guard is only defeated by requests that overlap. *)
THEOREM OneByOneAdminRemains ==
    ASSUME \A r, s \in Requests : r = s
    PROVE  Spec => AdminRemains
<1>1. Init => ReadStands
  BY DEF Init, ReadStands, NoRequest
<1>2. IInv /\ ReadStands /\ [Next]_vars => ReadStands'
  BY ReadStandsNext
<1>3. ReadStands => \A r \in Requests : ~Stale(r)
  BY DEF ReadStands, Stale
<1>4. ReadStands /\ [StaleStep]_vars => [ActiveAdmins # {} => ActiveAdmins' # {}]_vars
  BY <1>3 DEF StaleStep
<1> QED BY <1>1, <1>2, <1>4, AccountsInvariant, OnlyStaleReadsLoseAdmin, PTL
        DEF Spec, OnlyStaleLoses, AdminRemains
=============================================================================
