-------------------------- MODULE Sessions_proofs --------------------------
(***************************************************************************)
(* The four properties of Sessions, for any people, sign-ins, requests and *)
(* uploads.                                                                *)
(*                                                                         *)
(* The inductive invariant says what the statements of one database        *)
(* session leave for the next one: accounts agree with the sign-ins that   *)
(* made and refreshed them, whatever was read earlier still belongs to the *)
(* same person, a session's row is there only after its sign-in ended and  *)
(* at most once, and what a sign-in found over is over for good.           *)
(***************************************************************************)
EXTENDS Sessions, TLAPS

(* The users table: one row per identity, made by a sign-in of the same    *)
(* person, and holding a token of theirs.                                  *)
AccountsAgree ==
    /\ \A a \in users : /\ IdentityOf[a.id] = a.identity
                        /\ IdentityOf[a.token] = a.identity
    /\ \A a, b \in users : a.identity = b.identity => a = b

(* Between its statements a sign-in holds an account of its own person.    *)
SignInsAgree ==
    \A s \in SignIns :
        /\ signIn[s].step = "insert" => signIn[s].user = s
        /\ signIn[s].step \in {"update", "session"} => BelongsTo(signIn[s].user, s)

(* A ticket names an account of whoever asked for it.                      *)
TicketsAgree ==
    \A u \in Uploads : upload[u].user # None => BelongsTo(upload[u].user, upload[u].session)

(* A row is inserted once, at the end of its sign-in, and a signed-out     *)
(* session had one.                                                        *)
SessionsAgree ==
    /\ \A r \in sessions : signIn[r.key].step = "ended" /\ r.key \notin signedOut
    /\ \A r1, r2 \in sessions : r1.key = r2.key => r1 = r2
    /\ \A s \in signedOut : signIn[s].step = "ended"

(* Once a sign-in has written its token, the account's token is its own or *)
(* that of one that was not over when it began.                            *)
TokensAdvance ==
    /\ \A s \in SignIns : \A o \in before[s] : signIn[o].step \in Over
    /\ \A a \in users, s \in SignIns :
          signIn[s].step \in {"session", "ended"} /\ IdentityOf[s] = a.identity =>
             a.token \notin before[s]

Inv ==
    /\ TypeOK
    /\ AccountsAgree
    /\ SignInsAgree
    /\ EveryoneIsThemselves
    /\ TicketsAgree
    /\ SessionsAgree
    /\ TokensAdvance

-----------------------------------------------------------------------------
SignInRecords == [step : SignInSteps, user : Accounts \cup {None}]
RequestRecords == [step : RequestSteps, session : SignIns \cup {None},
                   user : Accounts \cup {None}, token : SignIns \cup {None}]
UploadRecords == [step : {"none", "ticket", "arriving", "ended"}, session : SignIns \cup {None},
                  user : Accounts \cup {None}, aged : BOOLEAN, late : BOOLEAN,
                  owner : Accounts \cup {None}]

(* What the handlers write into a record leaves it a record of its kind.   *)
LEMMA SignInChange ==
    ASSUME NEW r \in SignInRecords, NEW step \in SignInSteps
    PROVE  [r EXCEPT !.step = step] \in SignInRecords
  BY DEF SignInRecords

LEMMA RequestStepChange ==
    ASSUME NEW r \in RequestRecords, NEW step \in RequestSteps
    PROVE  [r EXCEPT !.step = step] \in RequestRecords
  BY DEF RequestRecords

LEMMA RequestChange ==
    ASSUME NEW r \in RequestRecords, NEW step \in RequestSteps, NEW s \in SignIns
    PROVE  /\ [r EXCEPT !.step = step, !.user = s] \in RequestRecords
           /\ [r EXCEPT !.step = step, !.token = s] \in RequestRecords
           /\ [r EXCEPT !.step = step, !.session = s] \in RequestRecords
  BY DEF RequestRecords, Accounts

LEMMA UploadChange ==
    ASSUME NEW r \in UploadRecords, NEW b \in BOOLEAN, NEW owner \in Accounts \cup {None}
    PROVE  /\ [r EXCEPT !.aged = b] \in UploadRecords
           /\ [r EXCEPT !.step = "arriving", !.late = b] \in UploadRecords
           /\ [r EXCEPT !.step = "ended", !.owner = owner] \in UploadRecords
  BY DEF UploadRecords

LEMMA TicketRecord ==
    ASSUME NEW s \in SignIns \cup {None}, NEW user \in Accounts \cup {None}
    PROVE  [NoUpload EXCEPT !.step = "ticket", !.session = s, !.user = user] \in UploadRecords
  BY DEF UploadRecords, NoUpload

LEMMA IdleRecords == IdleRequest \in RequestRecords /\ NoUpload \in UploadRecords
  BY DEF IdleRequest, NoUpload, RequestRecords, UploadRecords, RequestSteps

LEMMA Typed ==
    TypeOK <=> /\ users \subseteq Users
               /\ sessions \subseteq SessionRows
               /\ signIn \in [SignIns -> SignInRecords]
               /\ request \in [Requests -> RequestRecords]
               /\ upload \in [Uploads -> UploadRecords]
               /\ signedOut \subseteq SignIns
               /\ before \in [SignIns -> SUBSET SignIns]
  BY DEF TypeOK, SignInRecords, RequestRecords, UploadRecords

LEMMA TypeInit == Init => TypeOK
<1> SUFFICES ASSUME Init PROVE TypeOK
  OBVIOUS
<1>1. /\ users \subseteq Users /\ sessions \subseteq SessionRows /\ signedOut \subseteq SignIns
      /\ before \in [SignIns -> SUBSET SignIns]
  BY DEF Init
<1>2. [step |-> "none", user |-> None] \in SignInRecords
  BY DEF SignInRecords, SignInSteps
<1> QED
  BY <1>1, <1>2, IdleRecords, Typed DEF Init

LEMMA TypeStep == TypeOK /\ SignInsAgree /\ [Next]_vars => TypeOK'
<1> SUFFICES ASSUME TypeOK, SignInsAgree, [Next]_vars PROVE TypeOK'
  OBVIOUS
<1>0. /\ users \subseteq Users /\ sessions \subseteq SessionRows
      /\ signIn \in [SignIns -> SignInRecords] /\ request \in [Requests -> RequestRecords]
      /\ upload \in [Uploads -> UploadRecords] /\ signedOut \subseteq SignIns
      /\ before \in [SignIns -> SUBSET SignIns]
  BY Typed
<1>T. TypeOK' <=> /\ (users \subseteq Users)' /\ (sessions \subseteq SessionRows)'
                  /\ (signIn \in [SignIns -> SignInRecords])'
                  /\ (request \in [Requests -> RequestRecords])'
                  /\ (upload \in [Uploads -> UploadRecords])'
                  /\ (signedOut \subseteq SignIns)'
                  /\ (before \in [SignIns -> SUBSET SignIns])'
  BY Typed, PTL
<1>S. SignInSteps = {"none", "select", "insert", "update", "session", "ended", "failed"}
  BY DEF SignInSteps
<1>R. RequestSteps = {"idle", "session", "drop", "user", "touch", "resolved"}
  BY DEF RequestSteps
<1>I. IdleRequest \in RequestRecords
  BY IdleRecords
<1>F. ASSUME NEW q \in Requests, Forget(q) PROVE request' \in [Requests -> RequestRecords]
  BY <1>F, <1>0, <1>I DEF Forget
<1> HIDE DEF Next
<1>1. ASSUME NEW s \in SignIns, StartSignIn(s) PROVE TypeOK'
  <2>1. signIn' \in [SignIns -> SignInRecords]
    BY <1>1, <1>0, <1>S, SignInChange DEF StartSignIn
  <2>2. before' \in [SignIns -> SUBSET SignIns]
    BY <1>1, <1>0 DEF StartSignIn
  <2> QED
    BY <1>1, <1>0, <1>T, <2>1, <2>2 DEF StartSignIn, tables
<1>2. ASSUME NEW s \in SignIns, SelectUser(s) PROVE TypeOK'
  <2>1. \A a \in users : a.id \in Accounts
    BY <1>0 DEF Users
  <2>2. \E step \in SignInSteps, user \in Accounts \cup {None} :
           signIn' = [signIn EXCEPT ![s] = [step |-> step, user |-> user]]
    BY <1>2, <1>S, <2>1 DEF SelectUser, Accounts
  <2>3. PICK step \in SignInSteps, user \in Accounts \cup {None} :
           signIn' = [signIn EXCEPT ![s] = [step |-> step, user |-> user]]
    BY <2>2
  <2>4. [step |-> step, user |-> user] \in SignInRecords
    BY DEF SignInRecords
  <2>5. signIn' \in [SignIns -> SignInRecords]
    BY <1>0, <2>3, <2>4
  <2> QED
    BY <1>2, <1>0, <1>T, <2>5 DEF SelectUser, tables
<1>3. ASSUME NEW s \in SignIns, InsertUser(s) PROVE TypeOK'
  <2>1. NewUser(s) \in Users
    BY IdentityAssumption DEF NewUser, Users, Accounts
  <2>2. users' \subseteq Users
    BY <1>3, <1>0, <2>1 DEF InsertUser
  <2>3. \A step \in SignInSteps : [signIn[s] EXCEPT !.step = step] \in SignInRecords
    BY <1>0, SignInChange
  <2>4. signIn' \in [SignIns -> SignInRecords]
    BY <1>3, <1>0, <1>S, <2>3 DEF InsertUser
  <2> QED
    BY <1>3, <1>0, <1>T, <2>2, <2>4 DEF InsertUser
<1>4. ASSUME NEW s \in SignIns, UpdateUser(s) PROVE TypeOK'
  <2>1. \A a \in users : [a EXCEPT !.token = s] \in Users
    BY <1>0 DEF Users
  <2>2. users' \subseteq Users
    BY <1>4, <1>0, <2>1 DEF UpdateUser
  <2>3. signIn' \in [SignIns -> SignInRecords]
    BY <1>4, <1>0, <1>S, SignInChange DEF UpdateUser
  <2> QED
    BY <1>4, <1>0, <1>T, <2>2, <2>3 DEF UpdateUser
<1>5. ASSUME NEW s \in SignIns, CreateSession(s) PROVE TypeOK'
  <2>1. signIn[s].user \in Accounts
    BY <1>5, <1>0 DEF CreateSession, SignInsAgree, BelongsTo, Users
  <2>2. [key |-> s, user |-> signIn[s].user, expired |-> FALSE] \in SessionRows
    BY <2>1 DEF SessionRows
  <2>3. sessions' \subseteq SessionRows
    BY <1>5, <1>0, <2>2 DEF CreateSession
  <2>4. [step |-> "ended", user |-> None] \in SignInRecords
    BY <1>S DEF SignInRecords
  <2>5. signIn' \in [SignIns -> SignInRecords]
    BY <1>5, <1>0, <2>4 DEF CreateSession
  <2> QED
    BY <1>5, <1>0, <1>T, <2>3, <2>5 DEF CreateSession
<1>6. ASSUME NEW s \in SignIns, SignInFails(s) PROVE TypeOK'
  <2>1. [step |-> "failed", user |-> None] \in SignInRecords
    BY <1>S DEF SignInRecords
  <2>2. signIn' \in [SignIns -> SignInRecords]
    BY <1>6, <1>0, <2>1 DEF SignInFails
  <2> QED
    BY <1>6, <1>0, <1>T, <2>2 DEF SignInFails, tables
<1>7. ASSUME NEW s \in SignIns, Logout(s) PROVE TypeOK'
  <2>1. \A r \in sessions : r.key \in SignIns
    BY <1>0 DEF SessionRows
  <2>2. signedOut' \subseteq SignIns /\ sessions' \subseteq SessionRows
    BY <1>7, <1>0, <2>1 DEF Logout, SignOut, Rows
  <2> QED
    BY <1>7, <1>0, <1>T, <2>2 DEF Logout
<1>8. ASSUME NEW s \in SignIns, Expire(s) PROVE TypeOK'
  <2>1. \A r \in sessions : [r EXCEPT !.expired = TRUE] \in SessionRows
    BY <1>0 DEF SessionRows
  <2>2. sessions' \subseteq SessionRows
    BY <1>8, <1>0, <2>1 DEF Expire, Rows
  <2> QED
    BY <1>8, <1>0, <1>T, <2>2 DEF Expire
<1>9. ASSUME NEW q \in Requests, NEW s \in SignIns, StartRequest(q, s) PROVE TypeOK'
  <2>1. [IdleRequest EXCEPT !.step = "session", !.session = s] \in RequestRecords
    BY <1>I, <1>R, RequestChange
  <2>2. request' \in [Requests -> RequestRecords]
    BY <1>9, <1>0, <2>1 DEF StartRequest
  <2> QED
    BY <1>9, <1>0, <1>T, <2>2 DEF StartRequest, tables
<1>10. ASSUME NEW q \in Requests, LookUp(q) PROVE TypeOK'
  <2>1. \A r \in sessions : r.user \in SignIns
    BY <1>0 DEF SessionRows, Accounts
  <2>2. ASSUME NEW r \in sessions,
               request' = [request EXCEPT ![q].step = IF r.expired THEN "drop" ELSE "user",
                                          ![q].user = r.user]
        PROVE  request' \in [Requests -> RequestRecords]
    <3> DEFINE step == IF r.expired THEN "drop" ELSE "user"
    <3>1. step \in RequestSteps
      BY <1>R
    <3>2. request' = [request EXCEPT ![q] = [request[q] EXCEPT !.step = step, !.user = r.user]]
      BY <1>0, <2>2 DEF RequestRecords
    <3> HIDE DEF step
    <3>3. [request[q] EXCEPT !.step = step, !.user = r.user] \in RequestRecords
      BY <1>0, <2>1, <3>1, RequestChange
    <3> QED
      BY <1>0, <3>2, <3>3
  <2>3. request' \in [Requests -> RequestRecords]
    BY <1>10, <1>F, <2>2 DEF LookUp, Rows
  <2> QED
    BY <1>10, <1>0, <1>T, <2>3 DEF LookUp, tables
<1>11. ASSUME NEW q \in Requests, DropExpired(q) PROVE TypeOK'
  BY <1>11, <1>0, <1>T, <1>F DEF DropExpired
<1>12. ASSUME NEW q \in Requests, ReadUser(q) PROVE TypeOK'
  <2>1. PICK a \in users : request' = [request EXCEPT ![q].step = "touch", ![q].token = a.token]
    BY <1>12 DEF ReadUser
  <2>2. a.token \in SignIns
    BY <1>0 DEF Users
  <2>3. request' = [request EXCEPT ![q] = [request[q] EXCEPT !.step = "touch", !.token = a.token]]
    BY <1>0, <2>1 DEF RequestRecords
  <2>4. request' \in [Requests -> RequestRecords]
    BY <1>0, <1>R, <2>2, <2>3, RequestChange
  <2> QED
    BY <1>12, <1>0, <1>T, <2>4 DEF ReadUser, tables
<1>13. ASSUME NEW q \in Requests, Touch(q) PROVE TypeOK'
  <2>1. Forget(q) \/ request' = [request EXCEPT ![q].step = "resolved"]
    BY <1>13 DEF Touch
  <2>2. [request[q] EXCEPT !.step = "resolved"] \in RequestRecords
    BY <1>0, <1>R, RequestStepChange
  <2>3. request' \in [Requests -> RequestRecords]
    BY <1>0, <1>F, <2>1, <2>2
  <2> QED
    BY <1>13, <1>0, <1>T, <2>3 DEF Touch, tables
<1>14. ASSUME NEW q \in Requests, LookUpFails(q) PROVE TypeOK'
  BY <1>14, <1>0, <1>T, <1>F DEF LookUpFails, tables
<1>15. ASSUME NEW q \in Requests, Answer(q) PROVE TypeOK'
  BY <1>15, <1>0, <1>T, <1>F DEF Answer, tables
<1>16. ASSUME NEW q \in Requests, LogoutEverywhere(q) PROVE TypeOK'
  <2>1. \A r \in sessions : r.key \in SignIns
    BY <1>0 DEF SessionRows
  <2>2. signedOut' \subseteq SignIns /\ sessions' \subseteq SessionRows
    BY <1>16, <1>0, <2>1 DEF LogoutEverywhere, SignOut
  <2> QED
    BY <1>16, <1>0, <1>T, <1>F, <2>2 DEF LogoutEverywhere
<1>17. ASSUME NEW q \in Requests, NEW u \in Uploads, IssueTicket(q, u) PROVE TypeOK'
  <2>1. request[q].session \in SignIns \cup {None} /\ request[q].user \in Accounts \cup {None}
    BY <1>0 DEF RequestRecords
  <2>2. upload' \in [Uploads -> UploadRecords]
    BY <1>17, <1>0, <2>1, TicketRecord DEF IssueTicket
  <2> QED
    BY <1>17, <1>0, <1>T, <1>F, <2>2 DEF IssueTicket, tables
<1>18. ASSUME NEW u \in Uploads, Arrive(u) PROVE TypeOK'
  <2>1. upload[u].aged \in BOOLEAN
    BY <1>0 DEF UploadRecords
  <2>2. upload' = [upload EXCEPT ![u] = [upload[u] EXCEPT !.step = "arriving",
                                                          !.late = upload[u].aged]]
    BY <1>18, <1>0 DEF Arrive, UploadRecords
  <2>3. upload' \in [Uploads -> UploadRecords]
    BY <1>0, <2>1, <2>2, UploadChange, NoneAssumption
  <2> QED
    BY <1>18, <1>0, <1>T, <2>3 DEF Arrive, tables
<1>19. ASSUME NEW u \in Uploads, Redeem(u) PROVE TypeOK'
  <2> DEFINE owner == IF upload[u].aged THEN None ELSE upload[u].user
  <2>1. owner \in Accounts \cup {None}
    BY <1>0 DEF UploadRecords
  <2>2. upload' = [upload EXCEPT ![u] = [upload[u] EXCEPT !.step = "ended", !.owner = owner]]
    BY <1>19, <1>0 DEF Redeem, UploadRecords
  <2> HIDE DEF owner
  <2>3. upload' \in [Uploads -> UploadRecords]
    BY <1>0, <2>1, <2>2, UploadChange
  <2> QED
    BY <1>19, <1>0, <1>T, <2>3 DEF Redeem, tables
<1>20. ASSUME NEW u \in Uploads, AgeTicket(u) PROVE TypeOK'
  <2>1. upload' \in [Uploads -> UploadRecords]
    BY <1>20, <1>0, UploadChange DEF AgeTicket
  <2> QED
    BY <1>20, <1>0, <1>T, <2>1 DEF AgeTicket, tables
<1>21. CASE UNCHANGED vars
  BY <1>21, <1>0, <1>T DEF vars, tables
<1> QED
  BY <1>1, <1>2, <1>3, <1>4, <1>5, <1>6, <1>7, <1>8, <1>9, <1>10, <1>11, <1>12, <1>13,
     <1>14, <1>15, <1>16, <1>17, <1>18, <1>19, <1>20, <1>21
     DEF Next, SignInStep, RequestStep

-----------------------------------------------------------------------------
(* Which actions write what.                                               *)
LEMMA Writers ==
    ASSUME [Next]_vars
    PROVE  /\ users' = users \/ \E s \in SignIns : InsertUser(s) \/ UpdateUser(s)
           /\ \/ signIn' = signIn /\ before' = before
              \/ \E s \in SignIns : SignInStep(s)
           /\ \/ sessions' = sessions
              \/ \E s \in SignIns : CreateSession(s) \/ Logout(s) \/ Expire(s)
              \/ \E q \in Requests : DropExpired(q) \/ LogoutEverywhere(q)
           /\ \/ signedOut' = signedOut
              \/ \E s \in SignIns : Logout(s)
              \/ \E q \in Requests : LogoutEverywhere(q)
           /\ \/ request' = request
              \/ \E q \in Requests :
                    \/ \E s \in SignIns : StartRequest(q, s)
                    \/ RequestStep(q)
                    \/ \E u \in Uploads : IssueTicket(q, u)
           /\ \/ upload' = upload
              \/ \E q \in Requests, u \in Uploads : IssueTicket(q, u)
              \/ \E u \in Uploads : Arrive(u) \/ Redeem(u) \/ AgeTicket(u)
<1>1. CASE UNCHANGED vars
  BY <1>1 DEF vars, tables
<1>2. ASSUME NEW s \in SignIns, SignInStep(s)
      PROVE  /\ sessions' = sessions \/ CreateSession(s)
             /\ users' = users \/ InsertUser(s) \/ UpdateUser(s)
             /\ UNCHANGED <<signedOut, request, upload>>
  BY <1>2 DEF SignInStep, StartSignIn, SelectUser, InsertUser, UpdateUser, CreateSession,
              SignInFails, tables
<1>3. ASSUME NEW s \in SignIns, Logout(s) \/ Expire(s)
      PROVE  /\ signedOut' = signedOut \/ Logout(s)
             /\ UNCHANGED <<users, signIn, before, request, upload>>
  BY <1>3 DEF Logout, Expire
<1>4. ASSUME NEW q \in Requests, NEW s \in SignIns, StartRequest(q, s)
      PROVE  UNCHANGED <<users, sessions, signIn, before, signedOut, upload>>
  BY <1>4 DEF StartRequest, tables
<1>5. ASSUME NEW q \in Requests, RequestStep(q)
      PROVE  /\ sessions' = sessions \/ DropExpired(q) \/ LogoutEverywhere(q)
             /\ signedOut' = signedOut \/ LogoutEverywhere(q)
             /\ UNCHANGED <<users, signIn, before, upload>>
  BY <1>5 DEF RequestStep, LookUp, DropExpired, ReadUser, Touch, LookUpFails, Answer,
              LogoutEverywhere, tables
<1>6. ASSUME NEW q \in Requests, NEW u \in Uploads, IssueTicket(q, u)
      PROVE  UNCHANGED <<users, sessions, signIn, before, signedOut>>
  BY <1>6 DEF IssueTicket, tables
<1>7. ASSUME NEW u \in Uploads, Arrive(u) \/ Redeem(u) \/ AgeTicket(u)
      PROVE  UNCHANGED <<users, sessions, signIn, before, signedOut, request>>
  BY <1>7 DEF Arrive, Redeem, AgeTicket, tables
<1>8. CASE \E s \in SignIns : SignInStep(s)
  BY <1>8, <1>2
<1>9. CASE \E s \in SignIns : Logout(s) \/ Expire(s)
  BY <1>9, <1>3
<1>10. CASE \E q \in Requests, s \in SignIns : StartRequest(q, s)
  BY <1>10, <1>4
<1>11. CASE \E q \in Requests : RequestStep(q)
  BY <1>11, <1>5
<1>12. CASE \E q \in Requests, u \in Uploads : IssueTicket(q, u)
  BY <1>12, <1>6
<1>13. CASE \E u \in Uploads : Arrive(u) \/ Redeem(u) \/ AgeTicket(u)
  BY <1>13, <1>7
<1> QED
  BY <1>1, <1>8, <1>9, <1>10, <1>11, <1>12, <1>13 DEF Next

(* An account keeps its id and its identity.                               *)
LEMMA AccountsKept ==
    ASSUME TypeOK, [Next]_vars
    PROVE  \A a \in users : \E b \in users' : a.id = b.id /\ a.identity = b.identity
<1>0. users \subseteq Users
  BY Typed
<1>1. ASSUME NEW s \in SignIns, InsertUser(s) PROVE users \subseteq users'
  BY <1>1 DEF InsertUser
<1>2. ASSUME NEW s \in SignIns, UpdateUser(s), NEW a \in users
      PROVE  \E b \in users' : a.id = b.id /\ a.identity = b.identity
  <2> DEFINE b == IF a.id = signIn[s].user THEN [a EXCEPT !.token = s] ELSE a
  <2>1. b \in users'
    BY <1>2 DEF UpdateUser
  <2>2. a.id = b.id /\ a.identity = b.identity
    BY <1>0 DEF Users
  <2> QED
    BY <2>1, <2>2
<1> QED
  BY <1>1, <1>2, Writers

LEMMA BelongsKept ==
    ASSUME TypeOK, [Next]_vars, NEW user, NEW s, BelongsTo(user, s)
    PROVE  BelongsTo(user, s)'
  BY AccountsKept DEF BelongsTo

LEMMA AccountsStep ==
    ASSUME TypeOK, AccountsAgree, SignInsAgree, [Next]_vars
    PROVE  AccountsAgree'
<1>0. users \subseteq Users
  BY Typed
<1>1. CASE users' = users
  BY <1>1 DEF AccountsAgree
<1>2. ASSUME NEW s \in SignIns, InsertUser(s), users' # users PROVE AccountsAgree'
  <2>1. ~Taken(s) /\ users' = users \cup {NewUser(s)}
    BY <1>2 DEF InsertUser
  <2> QED
    BY <2>1 DEF AccountsAgree, Taken, NewUser
<1>3. ASSUME NEW s \in SignIns, UpdateUser(s) PROVE AccountsAgree'
  <2> DEFINE new(a) == IF a.id = signIn[s].user THEN [a EXCEPT !.token = s] ELSE a
  <2>1. users' = {new(a) : a \in users}
    BY <1>3 DEF UpdateUser
  <2>2. \A a \in users : a.id = signIn[s].user => a.identity = IdentityOf[s]
    BY <1>3 DEF UpdateUser, SignInsAgree, BelongsTo, AccountsAgree
  <2>3. \A a \in users : /\ new(a).id = a.id /\ new(a).identity = a.identity
                         /\ IdentityOf[new(a).token] = a.identity
    BY <1>0, <2>2 DEF Users, AccountsAgree
  <2> HIDE DEF new
  <2> QED
    BY <2>1, <2>3 DEF AccountsAgree
<1> QED
  BY <1>1, <1>2, <1>3, Writers

LEMMA SignInsStep ==
    ASSUME TypeOK, AccountsAgree, SignInsAgree, [Next]_vars
    PROVE  SignInsAgree'
<1>0. users \subseteq Users /\ signIn \in [SignIns -> SignInRecords]
  BY Typed
<1>1. \A user, o : BelongsTo(user, o) => \E a \in users' : a.id = user /\ a.identity = IdentityOf[o]
  BY BelongsKept DEF BelongsTo
<1>2. CASE signIn' = signIn
  BY <1>1, <1>2 DEF SignInsAgree, BelongsTo
<1>3. ASSUME NEW s \in SignIns, SignInStep(s) PROVE SignInsAgree'
  <2>1. \A o \in SignIns \ {s} : signIn'[o] = signIn[o]
    BY <1>0, <1>3 DEF SignInStep, StartSignIn, SelectUser, InsertUser, UpdateUser,
                      CreateSession, SignInFails
  <2>2. /\ signIn'[s].step = "insert" => signIn'[s].user = s
        /\ signIn'[s].step \in {"update", "session"} =>
              \E a \in users' : a.id = signIn'[s].user /\ a.identity = IdentityOf[s]
    <3>1. CASE StartSignIn(s) \/ CreateSession(s) \/ SignInFails(s)
      BY <1>0, <3>1 DEF StartSignIn, CreateSession, SignInFails, SignInRecords
    <3>2. CASE SelectUser(s)
      <4>1. users' = users
        BY <3>2 DEF SelectUser, tables
      <4> QED
        BY <1>0, <3>2, <4>1 DEF SelectUser, SignInRecords
    <3>3. CASE InsertUser(s)
      <4>1. signIn[s].user = s
        BY <3>3 DEF InsertUser, SignInsAgree
      <4>2. CASE Taken(s)
        BY <1>0, <3>3, <4>2 DEF InsertUser, SignInRecords
      <4>3. CASE ~Taken(s)
        <5>1. NewUser(s) \in users' /\ NewUser(s).id = s /\ NewUser(s).identity = IdentityOf[s]
          BY <3>3, <4>3 DEF InsertUser, NewUser
        <5>2. signIn'[s].user = s /\ signIn'[s].step = "session"
          BY <1>0, <3>3, <4>1, <4>3 DEF InsertUser, SignInRecords
        <5> QED
          BY <5>1, <5>2
      <4> QED
        BY <4>2, <4>3
    <3>4. CASE UpdateUser(s)
      <4>1. signIn'[s].user = signIn[s].user /\ signIn'[s].step = "session"
            /\ signIn[s].step = "update"
        BY <1>0, <3>4 DEF UpdateUser, SignInRecords
      <4>2. BelongsTo(signIn[s].user, s)
        BY <4>1 DEF SignInsAgree
      <4> QED
        BY <1>1, <4>1, <4>2
    <3> QED
      BY <1>3, <3>1, <3>2, <3>3, <3>4 DEF SignInStep
  <2>3. ASSUME NEW o \in SignIns, o # s
        PROVE  /\ signIn'[o].step = "insert" => signIn'[o].user = o
               /\ signIn'[o].step \in {"update", "session"} =>
                     \E a \in users' : a.id = signIn'[o].user /\ a.identity = IdentityOf[o]
    BY <1>1, <2>1, <2>3 DEF SignInsAgree
  <2> QED
    BY <2>2, <2>3 DEF SignInsAgree, BelongsTo
<1> QED
  BY <1>2, <1>3, Writers

LEMMA EveryoneStep ==
    ASSUME TypeOK, AccountsAgree, SignInsAgree, EveryoneIsThemselves, TicketsAgree, [Next]_vars
    PROVE  EveryoneIsThemselves' /\ TicketsAgree'
<1> DEFINE Now(user, s) == \E a \in users' : a.id = user /\ a.identity = IdentityOf[s]
<1>0. /\ users \subseteq Users /\ sessions \subseteq SessionRows
      /\ signIn \in [SignIns -> SignInRecords]
      /\ request \in [Requests -> RequestRecords]
      /\ upload \in [Uploads -> UploadRecords]
  BY Typed
<1>1. \A user, s : BelongsTo(user, s) => Now(user, s)
  BY BelongsKept DEF BelongsTo
<1> HIDE DEF Now
<1>2. \A r \in sessions' : Now(r.user, r.key)
  <2>1. \A r \in sessions : Now(r.user, r.key)
    BY <1>1 DEF EveryoneIsThemselves
  <2>2. ASSUME NEW s \in SignIns, CreateSession(s) PROVE \A r \in sessions' : Now(r.user, r.key)
    <3>1. Now(signIn[s].user, s)
      BY <1>1, <2>2 DEF CreateSession, SignInsAgree
    <3> QED
      BY <2>1, <2>2, <3>1 DEF CreateSession
  <2>3. ASSUME NEW s \in SignIns, Expire(s) PROVE \A r \in sessions' : Now(r.user, r.key)
    <3>1. \A r \in sessions : LET e == [r EXCEPT !.expired = TRUE]
                              IN  e.user = r.user /\ e.key = r.key
      BY <1>0 DEF SessionRows
    <3> QED
      BY <2>1, <2>3, <3>1 DEF Expire, Rows
  <2>4. ASSUME NEW s \in SignIns, Logout(s) PROVE sessions' \subseteq sessions
    BY <2>4 DEF Logout, SignOut
  <2>5. ASSUME NEW q \in Requests, DropExpired(q) \/ LogoutEverywhere(q)
        PROVE  sessions' \subseteq sessions
    BY <2>5 DEF DropExpired, LogoutEverywhere, SignOut
  <2> QED
    BY <2>1, <2>2, <2>3, <2>4, <2>5, Writers
<1>3. ASSUME NEW p \in Requests
      PROVE  /\ request'[p].user # None => Now(request'[p].user, request'[p].session)
             /\ request'[p].token # None =>
                   IdentityOf[request'[p].token] = IdentityOf[request'[p].session]
  <2>1. /\ request[p].user # None => Now(request[p].user, request[p].session)
        /\ request[p].token # None =>
              IdentityOf[request[p].token] = IdentityOf[request[p].session]
    BY <1>1 DEF EveryoneIsThemselves
  <2>2. IdleRequest.user = None /\ IdleRequest.token = None
    BY DEF IdleRequest
  <2>3. ASSUME Forget(p) PROVE request'[p] = IdleRequest
    BY <1>0, <2>3 DEF Forget
  <2>4. ASSUME NEW s \in SignIns, StartRequest(p, s)
        PROVE  request'[p].user = None /\ request'[p].token = None
    BY <1>0, <2>4 DEF StartRequest, IdleRequest
  <2>5. ASSUME NEW r \in sessions, r.key = request[p].session,
               request' = [request EXCEPT ![p].step = IF r.expired THEN "drop" ELSE "user",
                                          ![p].user = r.user]
        PROVE  /\ request'[p].user = r.user /\ request'[p].session = r.key
               /\ request'[p].token = request[p].token
               /\ BelongsTo(r.user, r.key)
    BY <1>0, <2>5 DEF RequestRecords, EveryoneIsThemselves
  <2>6. ASSUME NEW a \in users, a.id = request[p].user,
               request' = [request EXCEPT ![p].step = "touch", ![p].token = a.token]
        PROVE  /\ request'[p].user = request[p].user
               /\ request'[p].session = request[p].session
               /\ IdentityOf[request'[p].token] = IdentityOf[request[p].session]
    <3>1. /\ request'[p].user = request[p].user /\ request'[p].session = request[p].session
          /\ request'[p].token = a.token
      BY <1>0, <2>6 DEF RequestRecords
    <3>2. request[p].user # None
      BY <1>0, <2>6, NoneAssumption DEF Users, Accounts
    <3>3. BelongsTo(a.id, request[p].session)
      BY <2>6, <3>2 DEF EveryoneIsThemselves
    <3>4. IdentityOf[a.token] = IdentityOf[a.id] /\ IdentityOf[a.id] = IdentityOf[request[p].session]
      BY <3>3 DEF BelongsTo, AccountsAgree
    <3> QED
      BY <3>1, <3>4
  <2>7. ASSUME request' = [request EXCEPT ![p].step = "resolved"]
        PROVE  /\ request'[p].user = request[p].user
               /\ request'[p].session = request[p].session
               /\ request'[p].token = request[p].token
    BY <1>0, <2>7 DEF RequestRecords
  <2>8. ASSUME RequestStep(p)
        PROVE  \/ Forget(p)
               \/ \E r \in sessions :
                     /\ r.key = request[p].session
                     /\ request' = [request EXCEPT
                           ![p].step = IF r.expired THEN "drop" ELSE "user", ![p].user = r.user]
               \/ \E a \in users :
                     /\ a.id = request[p].user
                     /\ request' = [request EXCEPT ![p].step = "touch", ![p].token = a.token]
               \/ request' = [request EXCEPT ![p].step = "resolved"]
    BY <2>8 DEF RequestStep, LookUp, DropExpired, ReadUser, Touch, LookUpFails, Answer,
                LogoutEverywhere, Rows
  <2>9. ASSUME NEW q \in Requests, q # p,
               \/ \E s \in SignIns : StartRequest(q, s)
               \/ RequestStep(q)
               \/ \E u \in Uploads : IssueTicket(q, u)
        PROVE  request'[p] = request[p]
    BY <1>0, <2>9 DEF StartRequest, RequestStep, LookUp, DropExpired, ReadUser, Touch,
                      LookUpFails, Answer, LogoutEverywhere, IssueTicket, Forget
  <2>10. ASSUME NEW u \in Uploads, IssueTicket(p, u) PROVE Forget(p)
    BY <2>10 DEF IssueTicket
  <2>11. CASE RequestStep(p)
    BY <1>1, <2>1, <2>2, <2>3, <2>5, <2>6, <2>7, <2>8, <2>11
  <2> QED
    BY <2>1, <2>2, <2>3, <2>4, <2>9, <2>10, <2>11, Writers
<1>4. ASSUME NEW v \in Uploads
      PROVE  /\ upload'[v].user # None => Now(upload'[v].user, upload'[v].session)
             /\ upload'[v].owner # None => Now(upload'[v].owner, upload'[v].session)
  <2>1. /\ upload[v].user # None => Now(upload[v].user, upload[v].session)
        /\ upload[v].owner # None => Now(upload[v].owner, upload[v].session)
    BY <1>1 DEF EveryoneIsThemselves, TicketsAgree
  <2>2. ASSUME NEW q \in Requests, IssueTicket(q, v)
        PROVE  /\ upload'[v].user = request[q].user /\ upload'[v].session = request[q].session
               /\ upload'[v].owner = None
    BY <1>0, <2>2 DEF IssueTicket, NoUpload
  <2>3. ASSUME NEW q \in Requests, request[q].user # None
        PROVE  Now(request[q].user, request[q].session)
    BY <1>1, <2>3 DEF EveryoneIsThemselves
  <2>4. ASSUME Arrive(v) \/ AgeTicket(v)
        PROVE  /\ upload'[v].user = upload[v].user /\ upload'[v].session = upload[v].session
               /\ upload'[v].owner = upload[v].owner
    BY <1>0, <2>4 DEF Arrive, AgeTicket, UploadRecords
  <2>5. ASSUME Redeem(v)
        PROVE  /\ upload'[v].user = upload[v].user /\ upload'[v].session = upload[v].session
               /\ upload'[v].owner \in {None, upload[v].user}
    BY <1>0, <2>5 DEF Redeem, UploadRecords
  <2>6. ASSUME NEW u \in Uploads, u # v,
               \/ \E q \in Requests : IssueTicket(q, u)
               \/ Arrive(u) \/ Redeem(u) \/ AgeTicket(u)
        PROVE  upload'[v] = upload[v]
    BY <1>0, <2>6 DEF IssueTicket, Arrive, Redeem, AgeTicket
  <2> QED
    BY <2>1, <2>2, <2>3, <2>4, <2>5, <2>6, Writers
<1> QED
  BY <1>2, <1>3, <1>4 DEF EveryoneIsThemselves, TicketsAgree, BelongsTo, Now

(* A sign-in moves forward: one that is over stays as it is.               *)
LEMMA OverIsOver ==
    ASSUME TypeOK, [Next]_vars, NEW o \in SignIns, signIn[o].step \in Over
    PROVE  signIn'[o] = signIn[o]
<1>0. signIn \in [SignIns -> SignInRecords]
  BY Typed
<1>1. ASSUME NEW s \in SignIns, SignInStep(s) PROVE s # o /\ signIn'[o] = signIn[o]
  BY <1>0, <1>1 DEF SignInStep, StartSignIn, SelectUser, InsertUser, UpdateUser,
                    CreateSession, SignInFails, Over
<1> QED
  BY <1>1, Writers

LEMMA SessionsStep ==
    ASSUME TypeOK, SessionsAgree, [Next]_vars
    PROVE  SessionsAgree'
<1>0. /\ sessions \subseteq SessionRows /\ signedOut \subseteq SignIns
      /\ signIn \in [SignIns -> SignInRecords]
  BY Typed
<1>1. \A o \in SignIns : signIn[o].step = "ended" => signIn'[o].step = "ended"
  BY OverIsOver DEF Over
<1>2. \A r \in sessions : r.key \in SignIns /\ signIn'[r.key].step = "ended"
  BY <1>0, <1>1 DEF SessionsAgree, SessionRows
<1>3. ASSUME NEW s \in SignIns, CreateSession(s) PROVE SessionsAgree'
  <2>1. /\ s \notin signedOut /\ \A r \in sessions : r.key # s
        /\ signIn'[s].step = "ended" /\ signedOut' = signedOut
    BY <1>0, <1>3 DEF CreateSession, SessionsAgree
  <2>2. \A r \in sessions' : r \in sessions \/ r = [key |-> s, user |-> signIn[s].user, expired |-> FALSE]
    BY <1>3 DEF CreateSession
  <2>3. [key |-> s, user |-> signIn[s].user, expired |-> FALSE].key = s
    OBVIOUS
  <2>4. \A r \in sessions' : signIn'[r.key].step = "ended" /\ r.key \notin signedOut'
    BY <1>2, <2>1, <2>2, <2>3 DEF SessionsAgree
  <2>5. \A r1, r2 \in sessions' : r1.key = r2.key => r1 = r2
    BY <2>1, <2>2, <2>3 DEF SessionsAgree
  <2>6. \A o \in signedOut' : signIn'[o].step = "ended"
    BY <1>0, <1>1, <2>1 DEF SessionsAgree
  <2> QED
    BY <2>4, <2>5, <2>6 DEF SessionsAgree
<1>4. ASSUME NEW rows, rows \subseteq sessions, SignOut(rows) PROVE SessionsAgree'
  <2>1. sessions' \subseteq sessions
    BY <1>4 DEF SignOut
  <2>2. \A r \in sessions' : r.key \notin signedOut'
    BY <1>4 DEF SignOut, SessionsAgree
  <2>3. \A s \in signedOut' : s \in SignIns /\ signIn'[s].step = "ended"
    BY <1>0, <1>1, <1>2, <1>4 DEF SignOut, SessionsAgree
  <2> QED
    BY <1>2, <2>1, <2>2, <2>3 DEF SessionsAgree
<1>5. ASSUME NEW s \in SignIns, Expire(s) PROVE SessionsAgree'
  <2>1. PICK r \in sessions :
           sessions' = (sessions \ {r}) \cup {[r EXCEPT !.expired = TRUE]}
    BY <1>5 DEF Expire, Rows
  <2>2. [r EXCEPT !.expired = TRUE].key = r.key
    BY <1>0 DEF SessionRows
  <2>3. signedOut' = signedOut
    BY <1>5 DEF Expire
  <2>4. \A t \in sessions' : signIn'[t.key].step = "ended" /\ t.key \notin signedOut'
    BY <1>2, <2>1, <2>2, <2>3 DEF SessionsAgree
  <2>5. \A r1, r2 \in sessions' : r1.key = r2.key => r1 = r2
    BY <2>1, <2>2 DEF SessionsAgree
  <2>6. \A o \in signedOut' : signIn'[o].step = "ended"
    BY <1>0, <1>1, <2>3 DEF SessionsAgree
  <2> QED
    BY <2>4, <2>5, <2>6 DEF SessionsAgree
<1>6. ASSUME sessions' \subseteq sessions, signedOut' = signedOut PROVE SessionsAgree'
  BY <1>0, <1>1, <1>2, <1>6 DEF SessionsAgree
<1>7. ASSUME NEW q \in Requests, DropExpired(q) PROVE SessionsAgree'
  BY <1>6, <1>7 DEF DropExpired
<1>8. ASSUME NEW q \in Requests, LogoutEverywhere(q) PROVE SessionsAgree'
  BY <1>4, <1>8 DEF LogoutEverywhere
<1>9. ASSUME NEW s \in SignIns, Logout(s) PROVE SessionsAgree'
  BY <1>4, <1>9 DEF Logout, Rows
<1> QED
  BY <1>3, <1>5, <1>6, <1>7, <1>8, <1>9, Writers

LEMMA TokensStep ==
    ASSUME TypeOK, AccountsAgree, SignInsAgree, TokensAdvance, [Next]_vars
    PROVE  TokensAdvance'
<1>0. /\ users \subseteq Users /\ signIn \in [SignIns -> SignInRecords]
      /\ before \in [SignIns -> SUBSET SignIns]
  BY Typed
<1>1. \A s \in SignIns : \A o \in before'[s] : signIn'[o].step \in Over
  <2>1. \A s \in SignIns : \A o \in before[s] : o \in SignIns /\ signIn'[o].step \in Over
    BY <1>0, OverIsOver DEF TokensAdvance
  <2>2. ASSUME NEW s \in SignIns, StartSignIn(s)
        PROVE  /\ \A t \in SignIns \ {s} : before'[t] = before[t]
               /\ \A o \in before'[s] : o \in SignIns /\ signIn[o].step \in Over
    BY <1>0, <2>2 DEF StartSignIn
  <2>3. ASSUME NEW s \in SignIns, SignInStep(s), ~StartSignIn(s) PROVE before' = before
    BY <2>3 DEF SignInStep, SelectUser, InsertUser, UpdateUser, CreateSession, SignInFails
  <2>4. \A o \in SignIns : signIn[o].step \in Over => signIn'[o].step \in Over
    BY OverIsOver
  <2> QED
    BY <2>1, <2>2, <2>3, <2>4, Writers
<1>2. ASSUME NEW a \in users', NEW s \in SignIns,
             signIn'[s].step \in {"session", "ended"}, IdentityOf[s] = a.identity
      PROVE  a.token \notin before'[s]
  <2>1. CASE users' = users /\ signIn'[s].step = signIn[s].step /\ before'[s] = before[s]
    BY <1>2, <2>1 DEF TokensAdvance
  <2>2. ASSUME NEW t \in SignIns, InsertUser(t) \/ UpdateUser(t)
        PROVE  /\ before' = before /\ signIn[t].step \notin Over
               /\ \A o \in SignIns \ {t} : signIn'[o] = signIn[o]
    BY <1>0, <2>2 DEF InsertUser, UpdateUser, Over
  <2>3. \A t \in SignIns : signIn[t].step \notin Over => t \notin before[s]
    BY DEF TokensAdvance
  <2>4. ASSUME NEW t \in SignIns, InsertUser(t), ~Taken(t) PROVE a.token \notin before'[s]
    <3>1. users' = users \cup {NewUser(t)} /\ \A b \in users : b.identity # IdentityOf[t]
      BY <2>4 DEF InsertUser, Taken
    <3>2. CASE a = NewUser(t)
      BY <2>2, <2>3, <2>4, <3>2 DEF NewUser
    <3>3. CASE a \in users
      <4>1. s # t
        BY <1>2, <3>1, <3>3
      <4> QED
        BY <1>2, <2>2, <2>4, <3>3, <4>1 DEF TokensAdvance
    <3> QED
      BY <3>1, <3>2, <3>3
  <2>5. ASSUME NEW t \in SignIns, InsertUser(t), Taken(t) PROVE a.token \notin before'[s]
    <3>1. users' = users /\ signIn'[t].step = "failed"
      BY <1>0, <2>5 DEF InsertUser, SignInRecords
    <3> QED
      BY <1>2, <2>2, <2>5, <3>1 DEF TokensAdvance
  <2>6. ASSUME NEW t \in SignIns, UpdateUser(t) PROVE a.token \notin before'[s]
    <3>1. PICK b \in users :
             a = IF b.id = signIn[t].user THEN [b EXCEPT !.token = t] ELSE b
      BY <2>6 DEF UpdateUser
    <3>2. a.identity = b.identity
      BY <1>0, <3>1 DEF Users
    <3>3. CASE b.id = signIn[t].user
      <4>1. a.token = t
        BY <1>0, <3>1, <3>3 DEF Users
      <4> QED
        BY <2>2, <2>3, <2>6, <4>1
    <3>4. CASE b.id # signIn[t].user
      <4>1. a = b
        BY <3>1, <3>4
      <4>2. s # t
        <5>1. PICK c \in users : c.id = signIn[t].user /\ c.identity = IdentityOf[t]
          BY <2>6 DEF UpdateUser, SignInsAgree, BelongsTo
        <5>2. b # c
          BY <3>4, <5>1
        <5> QED
          BY <1>2, <3>2, <5>1, <5>2 DEF AccountsAgree
      <4> QED
        BY <1>2, <2>2, <2>6, <4>1, <4>2 DEF TokensAdvance
    <3> QED
      BY <3>3, <3>4
  <2>7. ASSUME NEW t \in SignIns,
               StartSignIn(t) \/ SelectUser(t) \/ CreateSession(t) \/ SignInFails(t)
        PROVE  a.token \notin before'[s]
    <3>1. users' = users
      BY <2>7 DEF StartSignIn, SelectUser, CreateSession, SignInFails, tables
    <3>2. /\ \A o \in SignIns \ {t} : signIn'[o] = signIn[o] /\ before'[o] = before[o]
      BY <1>0, <2>7 DEF StartSignIn, SelectUser, CreateSession, SignInFails
    <3>3. \/ signIn'[t].step \notin {"session", "ended"}
          \/ signIn[t].step = "session" /\ before' = before
      BY <1>0, <2>7 DEF StartSignIn, SelectUser, CreateSession, SignInFails, SignInRecords
    <3> QED
      BY <1>2, <3>1, <3>2, <3>3 DEF TokensAdvance
  <2> QED
    BY <1>2, <2>1, <2>4, <2>5, <2>6, <2>7, Writers DEF SignInStep
<1> QED
  BY <1>1, <1>2 DEF TokensAdvance

-----------------------------------------------------------------------------
LEMMA Invariance == Spec => []Inv
<1>1. Init => Inv
  <2> SUFFICES ASSUME Init PROVE Inv
    OBVIOUS
  <2>1. AccountsAgree /\ SignInsAgree /\ SessionsAgree /\ TokensAdvance
    BY DEF Init, AccountsAgree, SignInsAgree, SessionsAgree, TokensAdvance
  <2>2. EveryoneIsThemselves /\ TicketsAgree
    BY DEF Init, EveryoneIsThemselves, TicketsAgree, IdleRequest, NoUpload
  <2> QED
    BY <2>1, <2>2, TypeInit DEF Inv
<1>2. Inv /\ [Next]_vars => Inv'
  BY TypeStep, AccountsStep, SignInsStep, EveryoneStep, SessionsStep, TokensStep DEF Inv
<1> QED
  BY <1>1, <1>2, PTL DEF Spec

(* Whatever sign-ins, requests and uploads do between each other's         *)
(* statements, a session, a request, its GitHub token and an upload are    *)
(* those of the person who signed in (auth/store.py, auth/dependencies.py).*)
THEOREM Themselves == Spec => []EveryoneIsThemselves
<1>1. Inv => EveryoneIsThemselves
  BY DEF Inv
<1> QED
  BY <1>1, Invariance, PTL

(* A stored token is never one that a later sign-in, which got through,    *)
(* found over when it began (auth/store.py, upsert_user).                  *)
THEOREM TokenStaysCurrent == Spec => []TokenIsCurrent
<1>1. Inv => TokenIsCurrent
  BY DEF Inv, TokensAdvance, TokenIsCurrent
<1> QED
  BY <1>1, Invariance, PTL

(* Two sign-ins of one person never make two accounts, and an account is   *)
(* never lost or renamed (auth/store.py, upsert_user; the unique github_id).*)
THEOREM AccountsAreForLife == Spec => OneAccountEach
<1>1. Inv /\ Inv' /\ [Next]_vars =>
        /\ \A a, b \in users' : a.identity = b.identity => a = b
        /\ \A a \in users : \E b \in users' : a.id = b.id /\ a.identity = b.identity
  BY AccountsKept DEF Inv, AccountsAgree
<1> QED
  BY <1>1, Invariance, PTL DEF Spec, OneAccountEach

(* After a sign-out no row of the session comes back, and no request that  *)
(* had read it before finishes resolving it (auth/store.py,                *)
(* revoke_session and resolve_session).                                    *)
THEOREM SignOutHolds == Spec => SignedOutMeansOut
<1>1. Inv /\ Inv' /\ [Next]_vars =>
        /\ \A r \in sessions' : r.key \notin signedOut'
        /\ \A q \in Requests :
              request[q].step = "touch" /\ request'[q].step = "resolved" =>
                 request[q].session \notin signedOut
  <2> SUFFICES ASSUME Inv, Inv', [Next]_vars
               PROVE  /\ \A r \in sessions' : r.key \notin signedOut'
                      /\ \A q \in Requests :
                            request[q].step = "touch" /\ request'[q].step = "resolved" =>
                               request[q].session \notin signedOut
    OBVIOUS
  <2>0. request \in [Requests -> RequestRecords]
    BY Typed DEF Inv
  <2>1. \A r \in sessions' : r.key \notin signedOut'
    BY DEF Inv, SessionsAgree
  <2>2. ASSUME NEW p \in Requests, request[p].step = "touch", request'[p].step = "resolved"
        PROVE  request[p].session \notin signedOut
    <3>1. ASSUME Forget(p) PROVE FALSE
      BY <2>0, <2>2, <3>1 DEF Forget, IdleRequest
    <3>2. ASSUME NEW q \in Requests, q # p,
                 \/ \E s \in SignIns : StartRequest(q, s)
                 \/ RequestStep(q)
                 \/ \E u \in Uploads : IssueTicket(q, u)
          PROVE  FALSE
      BY <2>0, <2>2, <3>2 DEF StartRequest, RequestStep, LookUp, DropExpired, ReadUser, Touch,
                              LookUpFails, Answer, LogoutEverywhere, IssueTicket, Forget
    <3>3. Touch(p)
      BY <2>0, <2>2, <3>1, <3>2, Writers
         DEF StartRequest, RequestStep, LookUp, DropExpired, ReadUser, LookUpFails, Answer,
             LogoutEverywhere, IssueTicket
    <3>4. PICK r \in sessions : r.key = request[p].session
      BY <2>2, <3>1, <3>3 DEF Touch, Rows
    <3> QED
      BY <3>4 DEF Inv, SessionsAgree
  <2> QED
    BY <2>1, <2>2
<1> QED
  BY <1>1, Invariance, PTL DEF Spec, SignedOutMeansOut
=============================================================================
