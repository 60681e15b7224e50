------------------------------ MODULE Accounts ------------------------------
(***************************************************************************)
(* Instance login: the boot that makes the first administrator and hands   *)
(* him the rows of the single-user mode (auth/bootstrap.ts), the session   *)
(* cookie and its gate (auth/session.ts, auth/currentUser.ts), login with  *)
(* its limiter, signup, logout and the session's status (routes/auth.ts),  *)
(* promotion and passwords (routes/users.ts, usersRepository.ts), and what *)
(* the web client shows of them (App.tsx, api/client.ts,                   *)
(* AdminUsersPage.tsx).  The handlers await bcrypt between reading a row   *)
(* and acting on it; the server is stopped or killed, and comes back with  *)
(* AUTH_ENABLED on or off, with what was last flushed.                     *)
(*                                                                         *)
(* An account's id is the order it was made in (a random UUID in the code);*)
(* a password and its hash are one value, Wrong one that nobody has.  All  *)
(* browsers come from one address.                                         *)
(***************************************************************************)
EXTENDS Naturals, FiniteSets

CONSTANTS
    Browsers,
    Names,          \* usernames
    AdminName,      \* the bootstrap administrator's: AUTH_USERNAME, or "admin"
    Passwords,
    Wrong,          \* a password that is nobody's
    MaxFailed,      \* MAX_FAILED_ATTEMPTS
    Window,         \* WINDOW_MS, in ticks
    MaxAccounts,    \* how many accounts are ever made (a bound)
    MaxStops        \* how often the server goes down (a bound)

Local == 0          \* LOCAL_SENTINEL_USER's id
NoUser == 0

ASSUME AccountsAssumption ==
    /\ MaxFailed \in Nat \ {0} /\ Window \in Nat
    /\ MaxAccounts \in Nat /\ MaxStops \in Nat
    /\ IsFiniteSet(Browsers) /\ AdminName \in Names

VARIABLES
    db,         \* the accounts, and whether any connection or job is "local"
    disk,       \* the same as last flushed
    lastId,     \* ids handed out
    server,     \* up, and AUTH_ENABLED
    attempts,   \* the limiter's record of the address
    cookie,     \* each browser's session cookie
    shown,      \* the session status each browser's page goes by
    req,        \* the request of each browser that awaits bcrypt
    strayed,    \* rows were made as "local" beside accounts (history)
    stops       \* how often the server went down (history, for the bound)

vars == <<db, disk, lastId, server, attempts, cookie, shown, req, strayed, stops>>

Ids == 1 .. lastId
Has(d) == DOMAIN d.users
Account == [name : Names, hash : Passwords, role : {"admin", "member"}]

NoCookie == [id |-> NoUser, role |-> "none"]
NoReq == [op |-> "none"]
LoggedOut == [required |-> TRUE, in |-> FALSE, admin |-> FALSE]
NoAttempts == [count |-> 0, age |-> 0]
-----------------------------------------------------------------------------
(* insertUser; the name is UNIQUE in the table.                            *)
With(users, id, account) ==
    [i \in DOMAIN users \cup {id} |-> IF i = id THEN account ELSE users[i]]

Taken(name) == \E i \in Has(db) : db.users[i].name = name

(* Mutant: the rows of the single-user mode are not handed over.           *)
BootstrapAuthKeepingRows(d, auth, password) ==
    IF ~auth \/ Has(d) # {}
      THEN db' = d /\ UNCHANGED lastId
      ELSE /\ lastId < MaxAccounts
           /\ lastId' = lastId + 1
           /\ db' = [d EXCEPT !.users = With(@, lastId + 1,
                          [name |-> AdminName, hash |-> password, role |-> "admin"])]

(* bootstrapAuth, on a database just opened: the administrator takes over  *)
(* the connections and jobs that were "local".                             *)
BootstrapAuth(d, auth, password) ==
    IF ~auth \/ Has(d) # {}
      THEN db' = d /\ UNCHANGED lastId
      ELSE /\ lastId < MaxAccounts
           /\ lastId' = lastId + 1
           /\ db' = [users |-> With(d.users, lastId + 1,
                                    [name |-> AdminName, hash |-> password, role |-> "admin"]),
                     local |-> FALSE]

(* decryptSession and the gate.  A cookie counts for what it holds, not for*)
(* what the accounts now say; with auth off it is not looked at.           *)
LoggedIn(b) == cookie[b].id # NoUser
Admitted(b) == server.auth => LoggedIn(b)
CurrentUser(b) == IF server.auth THEN cookie[b].id ELSE Local
IsAdmin(b) == server.auth => cookie[b].role = "admin"

(* GET /session, which asks the table. *)
SessionStatus(b) ==
    IF ~server.auth THEN [required |-> FALSE, in |-> TRUE, admin |-> FALSE]
    ELSE IF cookie[b].id \in Has(db)
           THEN [required |-> TRUE, in |-> TRUE,
                 admin |-> db.users[cookie[b].id].role = "admin"]
           ELSE LoggedOut

(* noteUnauthorized, the page's answer to any 401: what it was told of     *)
(* login being required stays.                                             *)
NoteUnauthorized(b) == [required |-> shown[b].required, in |-> FALSE, admin |-> FALSE]
LoginForm(b) == shown[b].required /\ ~shown[b].in

(* The limiter.  Its window starts with the first failure.                 *)
Expired == attempts.count > 0 /\ attempts.age > Window
(* Mutant: the window is never looked at. *)
IsRateLimitedForGood == attempts.count >= MaxFailed
IsRateLimited == attempts.count >= MaxFailed /\ ~Expired
RecordFailedAttempt ==
    attempts' = IF attempts.count = 0 \/ Expired
                  THEN [count |-> 1, age |-> 0]
                  ELSE [attempts EXCEPT !.count = @ + 1]
-----------------------------------------------------------------------------
Init ==
    /\ db = [users |-> [i \in {} |-> i], local |-> FALSE] /\ disk = db
    /\ lastId = 0
    /\ server = [up |-> FALSE, auth |-> FALSE]
    /\ attempts = NoAttempts
    /\ cookie = [b \in Browsers |-> NoCookie]
    /\ shown = [b \in Browsers |-> LoggedOut]
    /\ req = [b \in Browsers |-> NoReq]
    /\ strayed = FALSE /\ stops = 0

(* The process starts, with SESSION_SECRET as before or another one.       *)
Boot ==
    /\ ~server.up
    /\ \E auth \in BOOLEAN, password \in Passwords :
          /\ BootstrapAuth(disk, auth, password)
          /\ server' = [up |-> TRUE, auth |-> auth]
    /\ \/ UNCHANGED cookie
       \/ cookie' = [b \in Browsers |-> NoCookie]
    /\ attempts' = NoAttempts
    /\ UNCHANGED <<disk, shown, req, strayed, stops>>

Flush ==
    /\ server.up /\ disk' = db
    /\ UNCHANGED <<db, lastId, server, attempts, cookie, shown, req, strayed, stops>>

(* Stopped, after a final flush, or killed.                                *)
GoDown ==
    /\ server.up /\ stops < MaxStops
    /\ stops' = stops + 1
    /\ server' = [server EXCEPT !.up = FALSE]
    /\ disk' \in {disk, db}
    /\ req' = [b \in Browsers |-> NoReq]
    /\ UNCHANGED <<db, lastId, attempts, cookie, shown, strayed>>

(* The clock.  Its reading only matters up to the window's end.            *)
Tick ==
    /\ attempts.count > 0 /\ attempts.age <= Window
    /\ attempts' = [attempts EXCEPT !.age = @ + 1]
    /\ UNCHANGED <<db, disk, lastId, server, cookie, shown, req, strayed, stops>>
-----------------------------------------------------------------------------
Idle(b) == server.up /\ req[b] = NoReq
Show(b, status) == shown' = [shown EXCEPT ![b] = status]
Ask(b, r) == req' = [req EXCEPT ![b] = r]
SetCookie(b, id, account) ==
    cookie' = [cookie EXCEPT ![b] = [id |-> id, role |-> account.role]]

(* The page is loaded, or its session query fetched again.                 *)
Load(b) ==
    /\ server.up
    /\ Show(b, SessionStatus(b))
    /\ UNCHANGED <<db, disk, lastId, server, attempts, cookie, req, strayed, stops>>

(* Mutant: the limiter is not asked. *)
PostLoginUnlimited(b) ==
    /\ Idle(b) /\ LoginForm(b)
    /\ RecordFailedAttempt
    /\ UNCHANGED <<db, disk, lastId, server, cookie, shown, req, strayed, stops>>

(* POST /login up to bcrypt.compare, which an unknown name does not reach. *)
PostLogin(b) ==
    /\ Idle(b) /\ LoginForm(b) /\ ~IsRateLimited
    /\ \E name \in Names, password \in Passwords \cup {Wrong} :
          LET found == {i \in Has(db) : db.users[i].name = name}
          IN  IF ~server.auth \/ found = {}
                THEN RecordFailedAttempt /\ UNCHANGED req
                ELSE /\ \E i \in found :
                          Ask(b, [op |-> "login", id |-> i, row |-> db.users[i],
                                  matches |-> db.users[i].hash = password])
                     /\ UNCHANGED attempts
    /\ UNCHANGED <<db, disk, lastId, server, cookie, shown, strayed, stops>>

(* The row was read before the await: the cookie holds the role it had     *)
(* then.  The page reloads.                                                *)
LoginAnswered(b) ==
    /\ server.up /\ req[b].op = "login"
    /\ Ask(b, NoReq)
    /\ IF req[b].matches
         THEN /\ SetCookie(b, req[b].id, req[b].row)
              /\ Show(b, [required |-> TRUE, in |-> TRUE,
                          admin |-> db.users[req[b].id].role = "admin"])
              /\ UNCHANGED attempts
         ELSE RecordFailedAttempt /\ UNCHANGED <<cookie, shown>>
    /\ UNCHANGED <<db, disk, lastId, server, strayed, stops>>

PostSignup(b) ==
    /\ Idle(b) /\ LoginForm(b) /\ server.auth
    /\ \E name \in Names, password \in Passwords :
          ~Taken(name) /\ Ask(b, [op |-> "signup", name |-> name, hash |-> password])
    /\ UNCHANGED <<db, disk, lastId, server, attempts, cookie, shown, strayed, stops>>

(* Mutant: no UNIQUE constraint behind the check made before the hash. *)
SignupAnsweredTwice(b) ==
    /\ server.up /\ req[b].op = "signup" /\ lastId < MaxAccounts
    /\ Ask(b, NoReq)
    /\ lastId' = lastId + 1
    /\ LET account == [name |-> req[b].name, hash |-> req[b].hash, role |-> "member"]
       IN  db' = [db EXCEPT !.users = With(@, lastId + 1, account)]
    /\ UNCHANGED <<disk, server, attempts, cookie, shown, strayed, stops>>

(* After the hash: the row goes in, unless another signup was faster.      *)
SignupAnswered(b) ==
    /\ server.up /\ req[b].op = "signup" /\ lastId < MaxAccounts
    /\ Ask(b, NoReq)
    /\ IF Taken(req[b].name)
         THEN UNCHANGED <<db, lastId, cookie, shown>>
         ELSE /\ lastId' = lastId + 1
              /\ LET account == [name |-> req[b].name, hash |-> req[b].hash, role |-> "member"]
                 IN  /\ db' = [db EXCEPT !.users = With(@, lastId + 1, account)]
                     /\ SetCookie(b, lastId + 1, account)
              /\ Show(b, [required |-> TRUE, in |-> TRUE, admin |-> FALSE])
    /\ UNCHANGED <<disk, server, attempts, strayed, stops>>

Logout(b) ==
    /\ Idle(b) /\ shown[b].in /\ Admitted(b)
    /\ cookie' = [cookie EXCEPT ![b] = NoCookie]
    /\ Show(b, IF server.auth THEN LoggedOut ELSE SessionStatus(b))
    /\ UNCHANGED <<db, disk, lastId, server, attempts, req, strayed, stops>>

(* A gated request without a session is a 401, which the page takes note   *)
(* of: one that knew no login to be required stays as it is but its menu.  *)
Refused(b) ==
    /\ Idle(b) /\ ~LoginForm(b) /\ ~Admitted(b)
    /\ Show(b, NoteUnauthorized(b))
    /\ UNCHANGED <<db, disk, lastId, server, attempts, cookie, req, strayed, stops>>

(* A connection or a job is made. *)
MakeRow(b) ==
    /\ Idle(b) /\ ~LoginForm(b) /\ Admitted(b)
    /\ db' = [db EXCEPT !.local = @ \/ CurrentUser(b) = Local]
    /\ strayed' = (strayed \/ (CurrentUser(b) = Local /\ Has(db) # {}))
    /\ UNCHANGED <<disk, lastId, server, attempts, cookie, shown, req, stops>>

Administers(b) == Idle(b) /\ shown[b].admin /\ Admitted(b) /\ IsAdmin(b)

Promote(b) ==
    /\ Administers(b)
    /\ \E i \in Has(db) : db' = [db EXCEPT !.users[i].role = "admin"]
    /\ UNCHANGED <<disk, lastId, server, attempts, cookie, shown, req, strayed, stops>>

PostResetPassword(b) ==
    /\ Administers(b)
    /\ \E i \in Has(db), password \in Passwords :
          Ask(b, [op |-> "reset", id |-> i, hash |-> password])
    /\ UNCHANGED <<db, disk, lastId, server, attempts, cookie, shown, strayed, stops>>

ResetAnswered(b) ==
    /\ server.up /\ req[b].op = "reset"
    /\ Ask(b, NoReq)
    /\ db' = [db EXCEPT !.users[req[b].id].hash = req[b].hash]
    /\ UNCHANGED <<disk, lastId, server, attempts, cookie, shown, strayed, stops>>

(* POST /users/me/password: 400 for the sentinel, 404 without a row.       *)
PostChangePassword(b) ==
    /\ Idle(b) /\ shown[b].in /\ Admitted(b)
    /\ CurrentUser(b) # Local /\ CurrentUser(b) \in Has(db)
    /\ \E current \in Passwords \cup {Wrong}, password \in Passwords :
          Ask(b, [op |-> "change", id |-> CurrentUser(b), hash |-> password,
                  matches |-> db.users[CurrentUser(b)].hash = current])
    /\ UNCHANGED <<db, disk, lastId, server, attempts, cookie, shown, strayed, stops>>

(* A wrong current password is a 401 too.                                  *)
ChangeAnswered(b) ==
    /\ server.up /\ req[b].op = "change"
    /\ Ask(b, NoReq)
    /\ IF req[b].matches
         THEN db' = [db EXCEPT !.users[req[b].id].hash = req[b].hash] /\ UNCHANGED shown
         ELSE Show(b, NoteUnauthorized(b)) /\ UNCHANGED db
    /\ UNCHANGED <<disk, lastId, server, attempts, cookie, strayed, stops>>

Browser(b) ==
    \/ Load(b) \/ PostLogin(b) \/ LoginAnswered(b) \/ PostSignup(b) \/ SignupAnswered(b)
    \/ Logout(b) \/ Refused(b) \/ MakeRow(b)
    \/ Promote(b) \/ PostResetPassword(b) \/ ResetAnswered(b)
    \/ PostChangePassword(b) \/ ChangeAnswered(b)

Next == Boot \/ Flush \/ GoDown \/ Tick \/ \E b \in Browsers : Browser(b)

(* The clock goes on. *)
Spec == Init /\ [][Next]_vars /\ WF_vars(Tick)
-----------------------------------------------------------------------------
Db == [users : UNION {[I -> Account] : I \in SUBSET Ids}, local : BOOLEAN]

Request ==
    [op : {"none"}]
      \cup [op : {"login"}, id : Ids, row : Account, matches : BOOLEAN]
      \cup [op : {"signup"}, name : Names, hash : Passwords]
      \cup [op : {"reset"}, id : Ids, hash : Passwords]
      \cup [op : {"change"}, id : Ids, hash : Passwords, matches : BOOLEAN]

(* The type of the state. *)
AccTypeOK ==
    /\ db \in Db /\ disk \in Db
    /\ lastId \in 0 .. MaxAccounts /\ stops \in 0 .. MaxStops
    /\ server \in [up : BOOLEAN, auth : BOOLEAN]
    /\ attempts \in [count : Nat, age : 0 .. Window + 1]
    /\ cookie \in [Browsers -> [id : Ids \cup {NoUser}, role : {"none", "admin", "member"}]]
    /\ shown \in [Browsers -> [required : BOOLEAN, in : BOOLEAN, admin : BOOLEAN]]
    /\ req \in [Browsers -> Request]
    /\ strayed \in BOOLEAN

OneAccountPerName(d) ==
    \A i, j \in Has(d) : d.users[i].name = d.users[j].name => i = j

AdminRemains(d) == Has(d) # {} => \E i \in Has(d) : d.users[i].role = "admin"

(* Two signups that both found a name free make one account, and there is  *)
(* an administrator as soon as there is anyone: also in what a kill leaves *)
(* on the disk, and so with login on in every state of the server          *)
(* (routes/auth.ts, insertUser, bootstrapAuth).                            *)
AccountsInv ==
    /\ \A d \in {db, disk} : OneAccountPerName(d) /\ AdminRemains(d)
    /\ server.up /\ server.auth => Has(db) # {}

(* Turning login on leaves no connection or job of the single-user mode    *)
(* behind, whenever the boot that does it is cut short: except those made  *)
(* with login off again, beside accounts (bootstrapAuth).                  *)
LegacyRowsAdopted ==
    server.up /\ server.auth /\ db.local => strayed

(* However logins overlap at bcrypt, failures past the limit are those of  *)
(* requests that were let in before it was reached (isRateLimited).        *)
LimiterBounded ==
    attempts.count < MaxFailed + Cardinality(Browsers)

(* A limited address gets another try (recordFailedAttempt's window is not *)
(* pushed on by further failures).                                         *)
LimiterOpens == []<>~IsRateLimited

(* "Any 401 means 'not logged in'" (api/client.ts): a page only drops what *)
(* it shows, form and selection with it, when the session is gone.         *)
LoginFormMeansLoggedOut ==
    [][\A b \in Browsers : shown[b].in /\ ~shown'[b].in /\ server.up /\ server.auth
                              => cookie'[b].id \notin Has(db)]_vars
=============================================================================
