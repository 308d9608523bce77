------------------------------ MODULE Sessions ------------------------------
(***************************************************************************)
(* Accounts, sessions and upload tickets: routers/auth.py, auth/store.py,  *)
(* auth/dependencies.py, auth/tickets.py, and the end of analyse_upload    *)
(* that redeems a ticket.                                                  *)
(*                                                                         *)
(* Sign-ins, requests and uploads interleave between the statements of     *)
(* their database sessions (READ COMMITTED).  A session token and the      *)
(* GitHub token it came with are both named by the sign-in that made them. *)
(* Tokens cannot be guessed, and the keys that encrypt do not change.      *)
(***************************************************************************)
EXTENDS Naturals, FiniteSets

CONSTANTS
    SignIns,     \* POSTs to /api/auth/session; each would add one account at most
    Requests,    \* authenticated requests that may be under way at a time
    Uploads,     \* uploads by people who are signed in
    Identities,  \* GitHub accounts
    IdentityOf,  \* per sign-in: whose GitHub token it exchanges
    None         \* no session, no account: anonymous

ASSUME NoneAssumption     == None \notin SignIns
ASSUME IdentityAssumption == IdentityOf \in [SignIns -> Identities]

VARIABLES
    users,      \* the users table
    sessions,   \* the sessions table
    signIn,     \* where each sign-in stands and what it has read
    request,    \* where each request stands and what it has read
    upload,     \* where each upload stands
    signedOut,  \* history: sessions ended by a sign-out
    before      \* history: the person's sign-ins that were over when one began

tables == <<users, sessions>>
vars == <<tables, signIn, request, upload, signedOut, before>>

\* An account is named by the sign-in that added it.
Accounts == SignIns
Users == [id : Accounts, identity : Identities, token : SignIns]
SessionRows == [key : SignIns, user : Accounts, expired : BOOLEAN]

SignInSteps == {"none", "select", "insert", "update", "session", "ended", "failed"}
Over == {"ended", "failed"}
RequestSteps == {"idle", "session", "drop", "user", "touch", "resolved"}

IdleRequest == [step |-> "idle", session |-> None, user |-> None, token |-> None]
NoUpload == [step |-> "none", session |-> None, user |-> None, aged |-> FALSE,
             late |-> FALSE, owner |-> None]

TypeOK ==
    /\ users \subseteq Users
    /\ sessions \subseteq SessionRows
    /\ signIn \in [SignIns -> [step : SignInSteps, user : Accounts \cup {None}]]
    /\ request \in [Requests -> [step : RequestSteps, session : SignIns \cup {None},
                                 user : Accounts \cup {None},
                                 token : SignIns \cup {None}]]
    /\ upload \in [Uploads -> [step : {"none", "ticket", "arriving", "ended"},
                               session : SignIns \cup {None},
                               user : Accounts \cup {None}, aged : BOOLEAN,
                               late : BOOLEAN, owner : Accounts \cup {None}]]
    /\ signedOut \subseteq SignIns
    /\ before \in [SignIns -> SUBSET SignIns]

Init ==
    /\ users = {}
    /\ sessions = {}
    /\ signIn = [s \in SignIns |-> [step |-> "none", user |-> None]]
    /\ request = [q \in Requests |-> IdleRequest]
    /\ upload = [u \in Uploads |-> NoUpload]
    /\ signedOut = {}
    /\ before = [s \in SignIns |-> {}]

-----------------------------------------------------------------------------
(* Signing in: create_user_session.                                        *)

\* GitHub has confirmed the token and said whose it is.
StartSignIn(s) ==
    /\ signIn[s].step = "none"
    /\ signIn' = [signIn EXCEPT ![s].step = "select"]
    /\ before' = [before EXCEPT ![s] =
          {o \in SignIns : signIn[o].step \in Over /\ IdentityOf[o] = IdentityOf[s]}]
    /\ UNCHANGED <<tables, request, upload, signedOut>>

\* upsert_user: look the account up by github_id.
SelectUser(s) ==
    /\ signIn[s].step = "select"
    /\ LET found == {a \in users : a.identity = IdentityOf[s]}
       IN  \/ /\ found = {}
              /\ signIn' = [signIn EXCEPT ![s] = [step |-> "insert", user |-> s]]
           \/ \E a \in found :
                 signIn' = [signIn EXCEPT ![s] = [step |-> "update", user |-> a.id]]
    /\ UNCHANGED <<tables, request, upload, signedOut, before>>

Taken(s) == \E a \in users : a.identity = IdentityOf[s]

NewUser(s) == [id |-> s, identity |-> IdentityOf[s], token |-> s]

\* Faulty variant: github_id is not unique.
InsertUserNotUnique(s) ==
    /\ signIn[s].step = "insert"
    /\ users' = users \cup {NewUser(s)}
    /\ signIn' = [signIn EXCEPT ![s].step = "session"]
    /\ UNCHANGED <<sessions, request, upload, signedOut, before>>

\* Faulty variant: the conflict is taken to mean that the account is there.
InsertUserIgnoresConflict(s) ==
    /\ signIn[s].step = "insert"
    /\ users' = IF Taken(s) THEN users ELSE users \cup {NewUser(s)}
    /\ signIn' = [signIn EXCEPT ![s].step = "session"]
    /\ UNCHANGED <<sessions, request, upload, signedOut, before>>

\* INSERT: github_id is unique, and whoever comes second is refused.
InsertUser(s) ==
    /\ signIn[s].step = "insert"
    /\ \/ /\ ~Taken(s)
          /\ users' = users \cup {NewUser(s)}
          /\ signIn' = [signIn EXCEPT ![s].step = "session"]
       \/ /\ Taken(s)
          /\ UNCHANGED users
          /\ signIn' = [signIn EXCEPT ![s].step = "failed"]
    /\ UNCHANGED <<sessions, request, upload, signedOut, before>>

\* Faulty variant: the profile is refreshed and the token is not.
UpdateUserKeepsToken(s) ==
    /\ signIn[s].step = "update"
    /\ UNCHANGED users
    /\ signIn' = [signIn EXCEPT ![s].step = "session"]
    /\ UNCHANGED <<sessions, request, upload, signedOut, before>>

\* UPDATE by id: the stored token is replaced.
UpdateUser(s) ==
    /\ signIn[s].step = "update"
    /\ users' = {IF a.id = signIn[s].user THEN [a EXCEPT !.token = s] ELSE a : a \in users}
    /\ signIn' = [signIn EXCEPT ![s].step = "session"]
    /\ UNCHANGED <<sessions, request, upload, signedOut, before>>

\* create_session: insert the session and sweep the expired ones.
CreateSession(s) ==
    /\ signIn[s].step = "session"
    /\ sessions' = {r \in sessions : ~r.expired}
                      \cup {[key |-> s, user |-> signIn[s].user, expired |-> FALSE]}
    /\ signIn' = [signIn EXCEPT ![s] = [step |-> "ended", user |-> None]]
    /\ UNCHANGED <<users, request, upload, signedOut, before>>

\* A statement raises: what was committed stays.
SignInFails(s) ==
    /\ signIn[s].step \notin {"none"} \cup Over
    /\ signIn' = [signIn EXCEPT ![s] = [step |-> "failed", user |-> None]]
    /\ UNCHANGED <<tables, request, upload, signedOut, before>>

-----------------------------------------------------------------------------
(* A request that carries a session: current_user, resolve_session.        *)

\* Whoever was given the session may present it, also after it has ended.
StartRequest(q, s) ==
    /\ request[q].step = "idle"
    /\ signIn[s].step = "ended"
    /\ request' = [request EXCEPT ![q] = [IdleRequest EXCEPT !.step = "session",
                                                             !.session = s]]
    /\ UNCHANGED <<tables, signIn, upload, signedOut, before>>

\* The request is over, or its caller anonymous.
Forget(q) == request' = [request EXCEPT ![q] = IdleRequest]

Rows(s) == {r \in sessions : r.key = s}

\* Read the session: unknown, past its time, or whose it is.
LookUp(q) ==
    /\ request[q].step = "session"
    /\ \/ Rows(request[q].session) = {} /\ Forget(q)
       \/ \E r \in Rows(request[q].session) :
             request' = [request EXCEPT ![q].step = IF r.expired THEN "drop" ELSE "user",
                                        ![q].user = r.user]
    /\ UNCHANGED <<tables, signIn, upload, signedOut, before>>

\* It has expired: delete it.
DropExpired(q) ==
    /\ request[q].step = "drop"
    /\ sessions' = sessions \ Rows(request[q].session)
    /\ Forget(q)
    /\ UNCHANGED <<users, signIn, upload, signedOut, before>>

\* Read the account, with the GitHub token stored at this moment; the foreign key
\* keeps it there.
ReadUser(q) ==
    /\ request[q].step = "user"
    /\ \E a \in users :
          /\ a.id = request[q].user
          /\ request' = [request EXCEPT ![q].step = "touch", ![q].token = a.token]
    /\ UNCHANGED <<tables, signIn, upload, signedOut, before>>

\* Faulty variant: last_seen_at is merged, which brings a deleted row back.
TouchMerges(q) ==
    /\ request[q].step = "touch"
    /\ sessions' = IF Rows(request[q].session) # {} THEN sessions
                   ELSE sessions \cup {[key |-> request[q].session, user |-> request[q].user,
                                        expired |-> FALSE]}
    /\ request' = [request EXCEPT ![q].step = "resolved"]
    /\ UNCHANGED <<users, signIn, upload, signedOut, before>>

\* UPDATE last_seen_at: when the row was deleted since it was read no row
\* matches, the unit of work raises, and the caller is anonymous.
Touch(q) ==
    /\ request[q].step = "touch"
    /\ \/ /\ Rows(request[q].session) # {}
          /\ request' = [request EXCEPT ![q].step = "resolved"]
       \/ Rows(request[q].session) = {} /\ Forget(q)
    /\ UNCHANGED <<tables, signIn, upload, signedOut, before>>

\* A statement raises: current_user swallows it.
LookUpFails(q) ==
    /\ request[q].step \in {"session", "drop", "user", "touch"}
    /\ Forget(q)
    /\ UNCHANGED <<tables, signIn, upload, signedOut, before>>

-----------------------------------------------------------------------------
(* What a resolved request does.                                           *)

\* GET /me and everything else that only reads the account.
Answer(q) ==
    /\ request[q].step = "resolved"
    /\ Forget(q)
    /\ UNCHANGED <<tables, signIn, upload, signedOut, before>>

\* A DELETE of sessions that somebody asked for.
SignOut(rows) ==
    /\ sessions' = sessions \ rows
    /\ signedOut' = signedOut \cup {r.key : r \in rows}

\* logout_everywhere: revoke_all_sessions, in a database session of its own.
LogoutEverywhere(q) ==
    /\ request[q].step = "resolved"
    /\ SignOut({r \in sessions : r.user = request[q].user})
    /\ Forget(q)
    /\ UNCHANGED <<users, signIn, upload, before>>

\* create_upload_ticket: nothing is stored, the ticket holds the account.
IssueTicket(q, u) ==
    /\ request[q].step = "resolved"
    /\ upload[u].step = "none"
    /\ upload' = [upload EXCEPT ![u] = [NoUpload EXCEPT !.step = "ticket",
                                        !.session = request[q].session,
                                        !.user = request[q].user]]
    /\ Forget(q)
    /\ UNCHANGED <<tables, signIn, signedOut, before>>

\* logout: revoke_session, for whoever presents the token.
Logout(s) ==
    /\ signIn[s].step = "ended"
    /\ Rows(s) # {}
    /\ SignOut(Rows(s))
    /\ UNCHANGED <<users, signIn, request, upload, before>>

\* The upload's request reaches the server; its body follows.
Arrive(u) ==
    /\ upload[u].step = "ticket"
    /\ upload' = [upload EXCEPT ![u].step = "arriving", ![u].late = upload[u].aged]
    /\ UNCHANGED <<tables, signIn, request, signedOut, before>>

\* redeem_upload_ticket, after the body: an unusable ticket is no ticket.
Redeem(u) ==
    /\ upload[u].step = "arriving"
    /\ upload' = [upload EXCEPT ![u].step = "ended",
                                ![u].owner = IF upload[u].aged THEN None ELSE upload[u].user]
    /\ UNCHANGED <<tables, signIn, request, signedOut, before>>

-----------------------------------------------------------------------------
(* Time.                                                                   *)

\* session_ttl_days pass.
Expire(s) ==
    /\ \E r \in Rows(s) :
          /\ ~r.expired
          /\ sessions' = (sessions \ {r}) \cup {[r EXCEPT !.expired = TRUE]}
    /\ UNCHANGED <<users, signIn, request, upload, signedOut, before>>

\* TICKET_TTL_SECONDS pass.
AgeTicket(u) ==
    /\ upload[u].step \in {"ticket", "arriving"}
    /\ ~upload[u].aged
    /\ upload' = [upload EXCEPT ![u].aged = TRUE]
    /\ UNCHANGED <<tables, signIn, request, signedOut, before>>

SignInStep(s) ==
    \/ StartSignIn(s) \/ SelectUser(s) \/ InsertUser(s) \/ UpdateUser(s)
    \/ CreateSession(s) \/ SignInFails(s)
RequestStep(q) ==
    \/ LookUp(q) \/ DropExpired(q) \/ ReadUser(q) \/ Touch(q) \/ LookUpFails(q)
    \/ Answer(q) \/ LogoutEverywhere(q)

Next ==
    \/ \E s \in SignIns : SignInStep(s) \/ Logout(s) \/ Expire(s)
    \/ \E q \in Requests :
          \/ \E s \in SignIns : StartRequest(q, s)
          \/ RequestStep(q)
          \/ \E u \in Uploads : IssueTicket(q, u)
    \/ \E u \in Uploads : Arrive(u) \/ Redeem(u) \/ AgeTicket(u)

Spec == Init /\ [][Next]_vars

-----------------------------------------------------------------------------
(* Properties.                                                             *)

\* A GitHub account has one Vantage account, and for life: two first sign-ins at
\* the same time do not make two, and signing in again keeps the id that owns the
\* reports.
OneAccountEach ==
    [][/\ \A a, b \in users' : a.identity = b.identity => a = b
       /\ \A a \in users : \E b \in users' : a.id = b.id /\ a.identity = b.identity]_vars

BelongsTo(user, s) == \E a \in users : a.id = user /\ a.identity = IdentityOf[s]

\* A session, a request, the GitHub token it may spend, a ticket and the upload
\* it attributes are all those of the person who signed in.
EveryoneIsThemselves ==
    /\ \A r \in sessions : BelongsTo(r.user, r.key)
    /\ \A q \in Requests :
          /\ request[q].user # None => BelongsTo(request[q].user, request[q].session)
          /\ request[q].token # None =>
                IdentityOf[request[q].token] = IdentityOf[request[q].session]
    /\ \A u \in Uploads : upload[u].owner # None => BelongsTo(upload[u].owner, upload[u].session)

\* Once a sign-out went through, no request finishes resolving the session, those
\* that had already read it included, and nothing brings it back.
SignedOutMeansOut ==
    [][/\ \A r \in sessions' : r.key \notin signedOut'
       /\ \A q \in Requests :
             request[q].step = "touch" /\ request'[q].step = "resolved" =>
                request[q].session \notin signedOut]_vars

\* "Signing in again replaces the stored token": the account never goes back to a
\* token whose sign-in was over before a later one, which got through, began.
TokenIsCurrent ==
    \A a \in users, s \in SignIns :
        signIn[s].step = "ended" /\ IdentityOf[s] = a.identity => a.token \notin before[s]

\* "the ticket is checked when the request arrives, not when it ends": a ticket
\* that was good on arrival attributes the upload.
TicketHonoured ==
    \A u \in Uploads : upload[u].step = "ended" /\ ~upload[u].late =>
        upload[u].owner = upload[u].user
=============================================================================
