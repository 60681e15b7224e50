--------------------------- MODULE AccountsProofs ---------------------------
(* Accounts, the rows of the single-user mode and the login limiter, for   *)
(* any browsers, names and passwords, and any bounds.                      *)
EXTENDS Accounts, FiniteSetTheorems, TLAPS

USE DEF Local, NoUser

(* What is said of the accounts, and of the rows made with login off.      *)
AccountsKept ==
    /\ \A d \in {db, disk} : OneAccountPerName(d) /\ AdminRemains(d)
    /\ \A d \in {db, disk} : Has(d) # {} /\ d.local => strayed
    /\ server.up /\ server.auth => Has(db) # {}

(* A signup only waits on a server with login on.                          *)
SignupsServed == \A b \in Browsers : req[b].op = "signup" => server.up /\ server.auth

(* What is said of the limiter: a browser awaiting a login has not been    *)
(* counted yet, and none is let in past the limit before the window ends.  *)
Pending == {b \in Browsers : req[b].op = "login"}
MostFailed == MaxFailed - 1 + Cardinality(Browsers)
FailuresBounded ==
    /\ attempts.count <= MostFailed
    /\ ~Expired => attempts.count + Cardinality(Pending) <= MostFailed

(* The browsers are finitely many, and so are those awaiting a login.      *)
LEMMA PendingCount ==
    ASSUME NEW S \in SUBSET Browsers
    PROVE  /\ IsFiniteSet(S) /\ Cardinality(S) \in Nat
           /\ Cardinality(S) <= Cardinality(Browsers) /\ Cardinality(Browsers) \in Nat
           /\ \A b \in S : Cardinality(S \ {b}) = Cardinality(S) - 1
           /\ \A b \in Browsers \ S : /\ Cardinality(S \cup {b}) = Cardinality(S) + 1
                                      /\ Cardinality(S) + 1 <= Cardinality(Browsers)
<1>1. IsFiniteSet(Browsers) /\ IsFiniteSet(S)
  BY AccountsAssumption, FS_Subset
<1>2. \A b \in Browsers \ S : S \cup {b} \subseteq Browsers
  OBVIOUS
<1>3. Cardinality(S) <= Cardinality(Browsers)
  BY <1>1, FS_Subset
<1>4. Cardinality(S) \in Nat /\ Cardinality(Browsers) \in Nat
  BY <1>1, FS_CardinalityType
<1>5. \A b \in S : Cardinality(S \ {b}) = Cardinality(S) - 1
  BY <1>1, FS_RemoveElement
<1>6. \A b \in Browsers \ S : Cardinality(S \cup {b}) = Cardinality(S) + 1
  BY <1>1, FS_AddElement
<1>7. \A b \in Browsers \ S : Cardinality(S \cup {b}) <= Cardinality(Browsers)
  BY <1>1, <1>2, FS_Subset
<1> QED  BY <1>1, <1>3, <1>4, <1>5, <1>6, <1>7

(* An account more: its id is new, the others stay.                        *)
LEMMA WithAccount ==
    ASSUME AccTypeOK, NEW d \in Db, NEW a \in Account, lastId' = lastId + 1,
           lastId < MaxAccounts
    PROVE  LET new == With(d.users, lastId + 1, a)
           IN  /\ DOMAIN new = Has(d) \cup {lastId + 1}
               /\ new[lastId + 1] = a /\ \A i \in Has(d) : new[i] = d.users[i] /\ i # lastId + 1
               /\ Has(d) \subseteq Ids /\ \A i \in Has(d) : d.users[i] \in Account
               /\ new \in UNION {[I -> Account] : I \in SUBSET Ids'}
<1>1. PICK I \in SUBSET Ids : d.users \in [I -> Account]
  BY DEF Db
<1>2. Has(d) \subseteq Ids
  BY <1>1 DEF Has
<1>2a. lastId \in Nat
  BY AccountsAssumption DEF AccTypeOK
<1>2b. lastId + 1 \notin Ids /\ Ids' = Ids \cup {lastId + 1}
  BY <1>2a DEF Ids
<1>3. I \cup {lastId + 1} \in SUBSET Ids'
  BY <1>2b
<1>4. With(d.users, lastId + 1, a) \in [I \cup {lastId + 1} -> Account]
  BY <1>1 DEF With
<1>5. \A i \in Has(d) : i # lastId + 1
  BY <1>2, <1>2b
<1> QED  BY <1>1, <1>2, <1>3, <1>4, <1>5 DEF With, Has

(* The accounts' part of the type, and the requests'.                      *)
Cookies == [id : Ids \cup {NoUser}, role : {"none", "admin", "member"}]

(* More ids: what was of the type still is.                                *)
LEMMA Grown ==
    ASSUME lastId \in Nat, lastId' \in Nat, lastId <= lastId'
    PROVE  Ids \subseteq Ids' /\ Db \subseteq Db' /\ Request \subseteq Request'
           /\ [Browsers -> Cookies] \subseteq [Browsers -> Cookies']
           /\ [Browsers -> Request] \subseteq [Browsers -> Request']
<1>1. Ids \subseteq Ids'
  BY DEF Ids
<1>2. UNION {[I -> Account] : I \in SUBSET Ids} \subseteq UNION {[I -> Account] : I \in SUBSET Ids'}
  BY <1>1
<1>3. Cookies \subseteq Cookies' /\ Request \subseteq Request'
  BY <1>1 DEF Cookies, Request
<1> QED  BY <1>1, <1>2, <1>3 DEF Db

(* The same ids: the same types.                                           *)
LEMMA SameTypes ==
    ASSUME UNCHANGED lastId PROVE Ids' = Ids /\ Db' = Db /\ Request' = Request
  BY DEF Ids, Db, Request

(* An account's row written over stays a database.                         *)
LEMMA Updated ==
    ASSUME db \in Db, NEW i \in Has(db), NEW a \in Account
    PROVE  [db EXCEPT !.users[i] = a] \in Db
<1>1. PICK I \in SUBSET Ids : db.users \in [I -> Account]
  BY DEF Db
<1>2. [db.users EXCEPT ![i] = a] \in [I -> Account]
  BY <1>1 DEF Has
<1> QED  BY <1>1, <1>2 DEF Db

LEMMA RowOf ==
    ASSUME NEW d \in Db
    PROVE  Has(d) \subseteq Ids /\ \A i \in Has(d) : d.users[i] \in Account
<1>1. PICK I \in SUBSET Ids : d.users \in [I -> Account]
  BY DEF Db
<1> QED  BY <1>1 DEF Has

(* A password is written into the row, when there is one.                  *)
LEMMA HashWritten ==
    ASSUME db \in Db, NEW i, NEW h \in Passwords,
           db' = [db EXCEPT !.users[i].hash = h]
    PROVE  /\ db' \in Db /\ DOMAIN db'.users = Has(db) /\ db'.local = db.local
           /\ \A j \in Has(db) : /\ db'.users[j].name = db.users[j].name
                                 /\ db'.users[j].role = db.users[j].role
<1>1. PICK I \in SUBSET Ids : db.users \in [I -> Account]
  BY DEF Db
<1>2. db'.users = [db.users EXCEPT ![i].hash = h] /\ db'.local = db.local
      /\ db' = [users |-> db'.users, local |-> db.local]
  BY DEF Db
<1>3. \A j \in I : db'.users[j] = IF j = i THEN [db.users[j] EXCEPT !.hash = h] ELSE db.users[j]
  BY <1>1, <1>2
<1>4. \A j \in I : [db.users[j] EXCEPT !.hash = h] \in Account
  BY <1>1 DEF Account
<1>5. db'.users \in [I -> Account]
  BY <1>1, <1>2, <1>3, <1>4
<1>6. db' \in Db
  BY <1>2, <1>5 DEF Db
<1> QED  BY <1>1, <1>2, <1>3, <1>6 DEF Has, Account

(* Failures are counted.                                                   *)
LEMMA Counted ==
    ASSUME attempts \in [count : Nat, age : 0 .. Window + 1], RecordFailedAttempt
    PROVE  attempts' \in [count : Nat, age : 0 .. Window + 1]
  BY AccountsAssumption DEF RecordFailedAttempt

LEMMA BootType == ASSUME AccTypeOK, Boot PROVE AccTypeOK'
<1>1. PICK auth \in BOOLEAN, password \in Passwords :
         BootstrapAuth(disk, auth, password) /\ server' = [up |-> TRUE, auth |-> auth]
  BY DEF Boot
<1>2. lastId \in Nat /\ MaxAccounts \in Nat /\ disk \in Db
  BY AccountsAssumption DEF AccTypeOK
<1>3. lastId' \in 0 .. MaxAccounts /\ lastId <= lastId' /\ db' \in Db'
  <2>1. CASE ~auth \/ Has(disk) # {}
    <3>1. db' = disk /\ lastId' = lastId
      BY <1>1, <2>1 DEF BootstrapAuth
    <3> QED  BY <1>2, <3>1, SameTypes DEF AccTypeOK
  <2>2. CASE ~(~auth \/ Has(disk) # {})
    <3> DEFINE a == [name |-> AdminName, hash |-> password, role |-> "admin"]
    <3>1. lastId' = lastId + 1 /\ lastId < MaxAccounts
          /\ db' = [users |-> With(disk.users, lastId + 1, a), local |-> FALSE]
      BY <1>1, <2>2 DEF BootstrapAuth
    <3>2. a \in Account /\ disk \in Db
      BY AccountsAssumption DEF Account, AccTypeOK
    <3>3. With(disk.users, lastId + 1, a) \in UNION {[I -> Account] : I \in SUBSET Ids'}
      BY <3>1, <3>2, WithAccount
    <3> QED  BY <1>2, <3>1, <3>3 DEF Db
  <2> QED  BY <2>1, <2>2
<1>4. /\ Ids \subseteq Ids' /\ Db \subseteq Db'
      /\ [Browsers -> Cookies] \subseteq [Browsers -> Cookies']
      /\ [Browsers -> Request] \subseteq [Browsers -> Request']
  BY <1>2, <1>3, Grown
<1>5. cookie' \in [Browsers -> Cookies'] /\ req' \in [Browsers -> Request'] /\ disk' \in Db'
  BY <1>2, <1>4 DEF Boot, AccTypeOK, NoCookie, Cookies
<1>6. attempts' \in [count : Nat, age : 0 .. Window + 1]
  BY AccountsAssumption DEF Boot, NoAttempts
<1> QED  BY <1>1, <1>3, <1>5, <1>6 DEF Boot, AccTypeOK, Cookies

LEMMA SignupType == ASSUME AccTypeOK, NEW b \in Browsers, SignupAnswered(b) PROVE AccTypeOK'
<1>1. lastId \in Nat /\ MaxAccounts \in Nat
  BY AccountsAssumption DEF AccTypeOK
<1>2. req' \in [Browsers -> Request]
  BY DEF SignupAnswered, AccTypeOK, Ask, NoReq, Request
<1>3. CASE Taken(req[b].name)
  <2>1. UNCHANGED <<db, disk, lastId, server, attempts, cookie, shown, strayed, stops>>
    BY <1>3 DEF SignupAnswered
  <2> QED  BY <1>2, <2>1, SameTypes DEF AccTypeOK
<1>4. CASE ~Taken(req[b].name)
  <2> DEFINE a == [name |-> req[b].name, hash |-> req[b].hash, role |-> "member"]
  <2>1. /\ lastId' = lastId + 1 /\ lastId < MaxAccounts
        /\ db' = [db EXCEPT !.users = With(@, lastId + 1, a)]
        /\ cookie' = [cookie EXCEPT ![b] = [id |-> lastId + 1, role |-> "member"]]
    BY <1>4 DEF SignupAnswered, SetCookie
  <2>2. a \in Account
    BY DEF SignupAnswered, AccTypeOK, Request, Account
  <2>3. With(db.users, lastId + 1, a) \in UNION {[I -> Account] : I \in SUBSET Ids'}
    BY <2>1, <2>2, WithAccount DEF AccTypeOK
  <2>4. lastId' \in 0 .. MaxAccounts /\ lastId <= lastId' /\ lastId + 1 \in Ids'
    BY <1>1, <2>1 DEF Ids
  <2>5. /\ Ids \subseteq Ids' /\ Db \subseteq Db'
        /\ [Browsers -> Cookies] \subseteq [Browsers -> Cookies']
        /\ [Browsers -> Request] \subseteq [Browsers -> Request']
    BY <1>1, <2>4, Grown
  <2>6. db' \in Db' /\ disk \in Db'
    BY <2>1, <2>3, <2>5 DEF AccTypeOK, Db
  <2>7. [id |-> lastId + 1, role |-> "member"] \in Cookies' /\ cookie \in [Browsers -> Cookies']
    BY <2>4, <2>5 DEF Cookies, AccTypeOK
  <2>8. cookie' \in [Browsers -> Cookies']
    BY <2>1, <2>7
  <2>9. req' \in [Browsers -> Request']
    BY <1>2, <2>5
  <2> QED
    <3>1. shown' = [shown EXCEPT ![b] = [required |-> TRUE, in |-> TRUE, admin |-> FALSE]]
      BY <1>4 DEF SignupAnswered, Show
    <3>2. shown' \in [Browsers -> [required : BOOLEAN, in : BOOLEAN, admin : BOOLEAN]]
      BY <3>1 DEF AccTypeOK
    <3>3. UNCHANGED <<disk, server, attempts, strayed, stops>>
      BY DEF SignupAnswered
    <3> QED  BY <2>4, <2>6, <2>8, <2>9, <3>2, <3>3 DEF AccTypeOK, Cookies
<1> QED  BY <1>3, <1>4

(* The state keeps its type.                                               *)
LEMMA TypeStep == ASSUME AccTypeOK, [Next]_vars PROVE AccTypeOK'
<1> USE SameTypes DEF Idle, Show, Ask
<1>0. NoReq \in Request  BY DEF NoReq, Request
<1>1. CASE Boot  BY <1>1, BootType
<1>2. CASE Flush  BY <1>2 DEF Flush, AccTypeOK
<1>3. CASE GoDown
  <2>1. stops' \in 0 .. MaxStops  BY <1>3, AccountsAssumption DEF GoDown, AccTypeOK
  <2>2. server' \in [up : BOOLEAN, auth : BOOLEAN]  BY <1>3 DEF GoDown, AccTypeOK
  <2> QED  BY <1>0, <1>3, <2>1, <2>2 DEF GoDown, AccTypeOK
<1>4. CASE Tick
  <2>1. attempts' \in [count : Nat, age : 0 .. Window + 1]
    BY <1>4, AccountsAssumption DEF Tick, AccTypeOK
  <2> QED  BY <1>4, <2>1 DEF Tick, AccTypeOK
<1>5. ASSUME NEW b \in Browsers, Browser(b) PROVE AccTypeOK'
  <2>0. \A i \in Has(db) : i \in Ids /\ db.users[i] \in Account
    BY RowOf DEF AccTypeOK
  <2>1. CASE Load(b)  BY <2>1 DEF Load, AccTypeOK, SessionStatus, LoggedOut
  <2>2. CASE PostLogin(b)
    <3>1. attempts' \in [count : Nat, age : 0 .. Window + 1]
      BY <2>2, Counted DEF PostLogin, AccTypeOK
    <3>2. \A i \in Has(db) : \A p : [op |-> "login", id |-> i, row |-> db.users[i],
                                       matches |-> db.users[i].hash = p] \in Request
      BY <2>0 DEF Request
    <3>3. UNCHANGED req \/ \E r \in Request : req' = [req EXCEPT ![b] = r]
      BY <2>2, <3>2, Zenon DEF PostLogin
    <3>3a. req' \in [Browsers -> Request]
      BY <3>3 DEF AccTypeOK
    <3> QED  BY <2>2, <3>1, <3>3a DEF PostLogin, AccTypeOK
  <2>3. CASE LoginAnswered(b)
    <3>1. req[b].op = "login" /\ req[b] \in Request  BY <2>3 DEF LoginAnswered, AccTypeOK
    <3>2. req[b].id \in Ids /\ req[b].row \in Account  BY <3>1 DEF Request
    <3>3. attempts' \in [count : Nat, age : 0 .. Window + 1]
      BY <2>3, Counted DEF LoginAnswered, AccTypeOK
    <3>4. cookie' \in [Browsers -> Cookies]
      BY <2>3, <3>2 DEF LoginAnswered, AccTypeOK, SetCookie, Cookies, Account
    <3>5. shown' \in [Browsers -> [required : BOOLEAN, in : BOOLEAN, admin : BOOLEAN]]
      <4>1. CASE req[b].matches
        <5>1. \E a \in BOOLEAN :
                 shown' = [shown EXCEPT ![b] = [required |-> TRUE, in |-> TRUE, admin |-> a]]
          BY <2>3, <4>1, Zenon DEF LoginAnswered
        <5> QED  BY <5>1 DEF AccTypeOK
      <4>2. CASE ~req[b].matches
        BY <2>3, <4>2 DEF LoginAnswered, AccTypeOK
      <4> QED  BY <4>1, <4>2
    <3> QED  BY <1>0, <2>3, <3>3, <3>4, <3>5 DEF LoginAnswered, AccTypeOK, Cookies
  <2>4. CASE PostSignup(b)
    <3>1. \A n \in Names, p \in Passwords : [op |-> "signup", name |-> n, hash |-> p] \in Request
      BY DEF Request
    <3> QED  BY <2>4, <3>1 DEF PostSignup, AccTypeOK
  <2>5. CASE SignupAnswered(b)  BY <2>5, SignupType
  <2>6. CASE Logout(b)
    <3>1. cookie' \in [Browsers -> [id : Ids \cup {NoUser}, role : {"none", "admin", "member"}]]
      BY <2>6 DEF Logout, AccTypeOK, NoCookie
    <3>2. shown' \in [Browsers -> [required : BOOLEAN, in : BOOLEAN, admin : BOOLEAN]]
      BY <2>6 DEF Logout, AccTypeOK, SessionStatus, LoggedOut
    <3> QED  BY <2>6, <3>1, <3>2 DEF Logout, AccTypeOK
  <2>7. CASE Refused(b)  BY <2>7 DEF Refused, AccTypeOK, NoteUnauthorized
  <2>8. CASE MakeRow(b)
    <3>1. db' \in Db  BY <2>8 DEF MakeRow, AccTypeOK, Db
    <3>2. strayed' \in BOOLEAN  BY <2>8, Zenon DEF MakeRow, AccTypeOK
    <3> QED  BY <2>8, <3>1, <3>2 DEF MakeRow, AccTypeOK
  <2>9. CASE Promote(b)
    <3>1. PICK i \in Has(db) : db' = [db EXCEPT !.users[i].role = "admin"]
      BY <2>9 DEF Promote
    <3>2. [db.users[i] EXCEPT !.role = "admin"] \in Account
      BY <2>0 DEF Account
    <3>3. db' \in Db  BY <3>1, <3>2, Updated DEF AccTypeOK
    <3> QED  BY <2>9, <3>3 DEF Promote, AccTypeOK
  <2>10. CASE PostResetPassword(b)
    <3>1. \A i \in Ids, p \in Passwords : [op |-> "reset", id |-> i, hash |-> p] \in Request
      BY DEF Request
    <3> QED  BY <2>0, <2>10, <3>1 DEF PostResetPassword, AccTypeOK
  <2>11. CASE ResetAnswered(b)
    <3>1. req[b].op = "reset" /\ req[b] \in Request  BY <2>11 DEF ResetAnswered, AccTypeOK
    <3>2. req[b].hash \in Passwords  BY <3>1 DEF Request
    <3>3. db' \in Db  BY <2>11, <3>2, HashWritten DEF ResetAnswered, AccTypeOK
    <3> QED  BY <1>0, <2>11, <3>3 DEF ResetAnswered, AccTypeOK
  <2>12. CASE PostChangePassword(b)
    <3>1. \A i \in Ids, p \in Passwords : \A q :
             [op |-> "change", id |-> i, hash |-> p, matches |-> db.users[i].hash = q] \in Request
      BY DEF Request
    <3>2. CurrentUser(b) \in Ids  BY <2>0, <2>12 DEF PostChangePassword
    <3>3. \E r \in Request : req' = [req EXCEPT ![b] = r]
      BY <2>12, <3>1, <3>2, Zenon DEF PostChangePassword
    <3> QED  BY <2>12, <3>3 DEF PostChangePassword, AccTypeOK
  <2>13. CASE ChangeAnswered(b)
    <3>1. req[b].op = "change" /\ req[b] \in Request  BY <2>13 DEF ChangeAnswered, AccTypeOK
    <3>2. req[b].hash \in Passwords  BY <3>1 DEF Request
    <3>3. db' \in Db  BY <2>13, <3>2, HashWritten DEF ChangeAnswered, AccTypeOK
    <3>4. shown' \in [Browsers -> [required : BOOLEAN, in : BOOLEAN, admin : BOOLEAN]]
      <4>1. CASE req[b].matches
        BY <2>13, <4>1 DEF ChangeAnswered, AccTypeOK
      <4>2. CASE ~req[b].matches
        <5>1. shown' = [shown EXCEPT ![b] = NoteUnauthorized(b)]
          BY <2>13, <4>2, Zenon DEF ChangeAnswered
        <5> QED  BY <5>1 DEF AccTypeOK, NoteUnauthorized
      <4> QED  BY <4>1, <4>2
    <3> QED  BY <1>0, <2>13, <3>3, <3>4 DEF ChangeAnswered, AccTypeOK
  <2> QED
    BY <1>5, <2>1, <2>2, <2>3, <2>4, <2>5, <2>6, <2>7, <2>8, <2>9, <2>10, <2>11, <2>12,
       <2>13 DEF Browser
<1>6. CASE UNCHANGED vars  BY <1>6 DEF vars, AccTypeOK
<1> QED  BY <1>1, <1>2, <1>3, <1>4, <1>5, <1>6 DEF Next

(* An account more, with a name nobody has, breaks nothing.                *)
LEMMA Added ==
    ASSUME AccTypeOK, NEW d \in Db, NEW a \in Account, NEW l \in BOOLEAN,
           lastId' = lastId + 1, lastId < MaxAccounts,
           OneAccountPerName(d), AdminRemains(d),
           \A i \in Has(d) : d.users[i].name # a.name,
           a.role = "admin" \/ Has(d) # {}
    PROVE  LET new == [users |-> With(d.users, lastId + 1, a), local |-> l]
           IN  OneAccountPerName(new) /\ AdminRemains(new) /\ Has(new) # {}
<1> DEFINE u == With(d.users, lastId + 1, a)
           new == [users |-> u, local |-> l]
<1>1. /\ DOMAIN u = Has(d) \cup {lastId + 1} /\ u[lastId + 1] = a
      /\ \A i \in Has(d) : u[i] = d.users[i] /\ i # lastId + 1
  BY WithAccount
<1>2. Has(new) = Has(d) \cup {lastId + 1} /\ new.users = u
  BY <1>1 DEF Has
<1> HIDE DEF u, new
<1>3. OneAccountPerName(new)
  BY <1>1, <1>2 DEF OneAccountPerName
<1>4. AdminRemains(new)
  BY <1>1, <1>2 DEF AdminRemains
<1> QED  BY <1>2, <1>3, <1>4 DEF u, new

(* Neither does writing over rows, when names and administrators stay.     *)
LEMMA Rewritten ==
    ASSUME OneAccountPerName(db), AdminRemains(db), Has(db') = Has(db),
           \A i \in Has(db) : db'.users[i].name = db.users[i].name,
           \A i \in Has(db) : db.users[i].role = "admin" => db'.users[i].role = "admin"
    PROVE  OneAccountPerName(db') /\ AdminRemains(db')
  BY DEF OneAccountPerName, AdminRemains

(* The accounts and the single-user mode's rows, step by step.             *)
LEMMA AccountsStep ==
    ASSUME AccTypeOK, AccountsKept, SignupsServed, [Next]_vars PROVE AccountsKept'
<1>0. ASSUME UNCHANGED <<db, disk, server, strayed>> PROVE AccountsKept'
  BY <1>0 DEF AccountsKept
<1>1. CASE Boot
  <2>1. PICK auth \in BOOLEAN, password \in Passwords :
           BootstrapAuth(disk, auth, password) /\ server' = [up |-> TRUE, auth |-> auth]
    BY <1>1 DEF Boot
  <2>2. UNCHANGED <<disk, strayed>>
    BY <1>1 DEF Boot
  <2>3. CASE ~auth \/ Has(disk) # {}
    <3>1. db' = disk  BY <2>1, <2>3 DEF BootstrapAuth
    <3> QED  BY <2>1, <2>2, <2>3, <3>1 DEF AccountsKept
  <2>4. CASE ~(~auth \/ Has(disk) # {})
    <3> DEFINE a == [name |-> AdminName, hash |-> password, role |-> "admin"]
    <3>1. /\ lastId' = lastId + 1 /\ lastId < MaxAccounts
          /\ db' = [users |-> With(disk.users, lastId + 1, a), local |-> FALSE]
      BY <2>1, <2>4 DEF BootstrapAuth
    <3>2. a \in Account /\ disk \in Db
      BY AccountsAssumption DEF Account, AccTypeOK
    <3>3. OneAccountPerName(disk) /\ AdminRemains(disk) /\ Has(disk) = {}
      BY <2>4 DEF AccountsKept
    <3>4. OneAccountPerName(db') /\ AdminRemains(db') /\ Has(db') # {}
      BY <3>1, <3>2, <3>3, Added
    <3>5. ~db'.local  BY <3>1
    <3> QED  BY <2>2, <3>4, <3>5 DEF AccountsKept
  <2> QED  BY <2>3, <2>4
<1>2. CASE Flush  BY <1>2 DEF Flush, AccountsKept
<1>3. CASE GoDown
  <2>1. ~server'.up  BY <1>3 DEF GoDown, AccTypeOK
  <2> QED  BY <1>3, <2>1 DEF GoDown, AccountsKept
<1>4. CASE Tick  BY <1>0, <1>4 DEF Tick
<1>5. ASSUME NEW b \in Browsers, Browser(b) PROVE AccountsKept'
  <2>1. CASE SignupAnswered(b)
    <3>1. CASE Taken(req[b].name)  BY <1>0, <2>1, <3>1 DEF SignupAnswered
    <3>2. CASE ~Taken(req[b].name)
      <4> DEFINE a == [name |-> req[b].name, hash |-> req[b].hash, role |-> "member"]
      <4>1. /\ lastId' = lastId + 1 /\ lastId < MaxAccounts
            /\ db' = [db EXCEPT !.users = With(@, lastId + 1, a)]
            /\ UNCHANGED <<disk, server, strayed>>
        BY <2>1, <3>2 DEF SignupAnswered
      <4>2. a \in Account
        BY <2>1 DEF SignupAnswered, AccTypeOK, Request, Account
      <4>3. db' = [users |-> With(db.users, lastId + 1, a), local |-> db.local]
            /\ db \in Db /\ db.local \in BOOLEAN
        BY <4>1 DEF AccTypeOK, Db
      <4>4. \A i \in Has(db) : db.users[i].name # a.name
        BY <3>2 DEF Taken
      <4>5. server.up /\ server.auth /\ Has(db) # {}
        BY <2>1 DEF SignupAnswered, SignupsServed, AccountsKept
      <4>6. OneAccountPerName(db) /\ AdminRemains(db)
        BY DEF AccountsKept
      <4>7. LET new == [users |-> With(db.users, lastId + 1, a), local |-> db.local]
            IN  OneAccountPerName(new) /\ AdminRemains(new) /\ Has(new) # {}
        BY <4>1, <4>2, <4>3, <4>4, <4>5, <4>6, Added
      <4>8. OneAccountPerName(db') /\ AdminRemains(db') /\ Has(db') # {}
        BY <4>3, <4>7
      <4> QED  BY <4>1, <4>3, <4>5, <4>8 DEF AccountsKept
    <3> QED  BY <3>1, <3>2
  <2>2. CASE MakeRow(b)
    <3>1. /\ db'.users = db.users /\ Has(db') = Has(db)
          /\ UNCHANGED <<disk, server>> /\ (strayed => strayed')
      BY <2>2 DEF MakeRow, AccTypeOK, Db, Has
    <3>2. db'.local /\ Has(db) # {} => strayed'
      <4>1. db' = [db EXCEPT !.local = db.local \/ CurrentUser(b) = Local]
        BY <2>2, Zenon DEF MakeRow
      <4>2. db'.local = (db.local \/ CurrentUser(b) = Local)
        BY <4>1 DEF AccTypeOK, Db
      <4>3. strayed' = (strayed \/ (CurrentUser(b) = Local /\ Has(db) # {}))
        BY <2>2, Zenon DEF MakeRow
      <4>4. db.local /\ Has(db) # {} => strayed
        BY DEF AccountsKept
      <4> QED  BY <4>2, <4>3, <4>4, Zenon
    <3>3. OneAccountPerName(db') /\ AdminRemains(db')
      BY <3>1, Rewritten DEF AccountsKept
    <3> QED  BY <3>1, <3>2, <3>3 DEF AccountsKept
  <2>3. CASE Promote(b)
    <3>1. PICK i \in Has(db) : db' = [db EXCEPT !.users[i].role = "admin"]
      BY <2>3 DEF Promote
    <3>2. /\ Has(db') = Has(db) /\ db'.local = db.local
          /\ \A j \in Has(db) : /\ db'.users[j].name = db.users[j].name
                                /\ db.users[j].role = "admin" => db'.users[j].role = "admin"
      <4>1. /\ db'.users = [db.users EXCEPT ![i] = [db.users[i] EXCEPT !.role = "admin"]]
            /\ db'.local = db.local
        BY <3>1 DEF AccTypeOK, Db
      <4>2. \A j \in Has(db) : db.users[j] \in Account
        BY RowOf DEF AccTypeOK
      <4> QED  BY <4>1, <4>2 DEF Has, Account
    <3>3. OneAccountPerName(db') /\ AdminRemains(db')
      BY <3>2, Rewritten DEF AccountsKept
    <3> QED  BY <2>3, <3>2, <3>3 DEF Promote, AccountsKept
  <2>4. ASSUME NEW i, NEW h \in Passwords, db' = [db EXCEPT !.users[i].hash = h],
               UNCHANGED <<disk, server, strayed>>
        PROVE  AccountsKept'
    <3>1. /\ Has(db') = Has(db) /\ db'.local = db.local
          /\ \A j \in Has(db) : /\ db'.users[j].name = db.users[j].name
                                /\ db'.users[j].role = db.users[j].role
      BY <2>4, HashWritten DEF AccTypeOK, Has
    <3>2. OneAccountPerName(db') /\ AdminRemains(db')
      BY <3>1, Rewritten DEF AccountsKept
    <3> QED  BY <2>4, <3>1, <3>2 DEF AccountsKept
  <2>5. CASE ResetAnswered(b)
    <3>1. req[b].op = "reset" /\ req[b] \in Request  BY <2>5 DEF ResetAnswered, AccTypeOK
    <3>2. req[b].hash \in Passwords  BY <3>1 DEF Request
    <3> QED  BY <2>4, <2>5, <3>2 DEF ResetAnswered
  <2>6. CASE ChangeAnswered(b)
    <3>1. req[b].op = "change" /\ req[b] \in Request  BY <2>6 DEF ChangeAnswered, AccTypeOK
    <3>2. req[b].hash \in Passwords  BY <3>1 DEF Request
    <3> QED  BY <1>0, <2>4, <2>6, <3>2 DEF ChangeAnswered
  <2> QED
    BY <1>0, <1>5, <2>1, <2>2, <2>3, <2>5, <2>6 DEF Browser, Load, PostLogin, LoginAnswered,
       PostSignup, Logout, Refused, PostResetPassword, PostChangePassword
<1>6. CASE UNCHANGED vars  BY <1>0, <1>6 DEF vars
<1> QED  BY <1>1, <1>2, <1>3, <1>4, <1>5, <1>6 DEF Next

LEMMA SignupsStep == ASSUME AccTypeOK, SignupsServed, [Next]_vars PROVE SignupsServed'
<1> USE DEF AccTypeOK, SignupsServed
<1>1. CASE Boot  BY <1>1 DEF Boot
<1>2. CASE Flush  BY <1>2 DEF Flush
<1>3. CASE GoDown  BY <1>3 DEF GoDown, NoReq
<1>4. CASE Tick  BY <1>4 DEF Tick
<1>5. ASSUME NEW b \in Browsers, Browser(b) PROVE SignupsServed'
  <2>1. ASSUME NEW r, Ask(b, r), r.op # "signup", UNCHANGED server PROVE SignupsServed'
    BY <2>1 DEF Ask
  <2>2. ASSUME UNCHANGED <<req, server>> PROVE SignupsServed'
    BY <2>2
  <2>3. CASE PostLogin(b)
    <3>1. CASE UNCHANGED req  BY <2>2, <2>3, <3>1 DEF PostLogin
    <3>2. CASE ~UNCHANGED req
      <4>1. \E i, row, q : Ask(b, [op |-> "login", id |-> i, row |-> row, matches |-> q])
        BY <2>3, <3>2, Zenon DEF PostLogin
      <4> QED  BY <2>1, <2>3, <4>1 DEF PostLogin
    <3> QED  BY <3>1, <3>2
  <2>4. CASE PostSignup(b)
    <3>1. server.up /\ server.auth /\ UNCHANGED server  BY <2>4 DEF PostSignup, Idle
    <3> QED  BY <3>1
  <2>5. ASSUME Ask(b, NoReq), UNCHANGED server PROVE SignupsServed'
    BY <2>1, <2>5 DEF NoReq
  <2>6. CASE PostResetPassword(b)
    <3>1. \E r : Ask(b, r) /\ r.op # "signup"  BY <2>6 DEF PostResetPassword
    <3> QED  BY <2>1, <2>6, <3>1 DEF PostResetPassword
  <2>7. CASE PostChangePassword(b)
    <3>1. \E r : Ask(b, r) /\ r.op # "signup"  BY <2>7 DEF PostChangePassword
    <3> QED  BY <2>1, <2>7, <3>1 DEF PostChangePassword
  <2> QED
    BY <1>5, <2>2, <2>3, <2>4, <2>5, <2>6, <2>7
    DEF Browser, Load, LoginAnswered, SignupAnswered, Logout, Refused, MakeRow, Promote,
        ResetAnswered, ChangeAnswered
<1>6. CASE UNCHANGED vars  BY <1>6 DEF vars
<1> QED  BY <1>1, <1>2, <1>3, <1>4, <1>5, <1>6 DEF Next

(* The limiter: who is let in, and what is counted.                        *)
LEMMA LimiterStep == ASSUME AccTypeOK, FailuresBounded, [Next]_vars PROVE FailuresBounded'
<1> DEFINE n == Cardinality(Browsers)
<1>0. n \in Nat /\ MaxFailed \in Nat \ {0} /\ attempts.count \in Nat /\ attempts.age \in Nat
  BY PendingCount, AccountsAssumption DEF AccTypeOK
<1>1. Cardinality(Pending) \in Nat /\ Cardinality(Pending) <= n
  BY PendingCount DEF Pending
<1>2. ASSUME attempts' = attempts, Pending' \subseteq Pending PROVE FailuresBounded'
  <2>1. Cardinality(Pending') <= Cardinality(Pending) /\ Cardinality(Pending') \in Nat
    <3>1. IsFiniteSet(Pending)  BY PendingCount DEF Pending
    <3>2. IsFiniteSet(Pending')  BY <1>2, <3>1, FS_Subset
    <3> QED  BY <1>2, <3>1, <3>2, FS_Subset, FS_CardinalityType
  <2> QED  BY <1>0, <1>1, <1>2, <2>1 DEF FailuresBounded, Expired, MostFailed
<1>3. ASSUME attempts' = NoAttempts, Pending' \subseteq Pending PROVE FailuresBounded'
  <2>1. Cardinality(Pending') <= n /\ Cardinality(Pending') \in Nat
    BY <1>3, PendingCount DEF Pending
  <2> QED  BY <1>0, <1>3, <2>1 DEF FailuresBounded, NoAttempts, MostFailed
<1>4. CASE Boot
  <2>1. attempts' = NoAttempts /\ Pending' = Pending  BY <1>4 DEF Boot, Pending
  <2> QED  BY <1>3, <2>1
<1>5. CASE Flush  BY <1>2, <1>5 DEF Flush, Pending
<1>6. CASE GoDown  BY <1>2, <1>6 DEF GoDown, Pending, NoReq
<1>7. CASE Tick
  <2>1. attempts'.count = attempts.count /\ attempts'.age = attempts.age + 1 /\ Pending' = Pending
    BY <1>7 DEF Tick, Pending, AccTypeOK
  <2>2. Expired => Expired'
    BY <1>0, <2>1, AccountsAssumption DEF Expired
  <2> QED  BY <2>1, <2>2 DEF FailuresBounded, MostFailed
<1>8. ASSUME NEW b \in Browsers, Browser(b) PROVE FailuresBounded'
  <2>1. ASSUME NEW r, Ask(b, r), r.op # "login", UNCHANGED attempts PROVE FailuresBounded'
    <3>1. Pending' \subseteq Pending  BY <2>1 DEF Ask, Pending, AccTypeOK
    <3> QED  BY <1>2, <2>1, <3>1
  <2>2. ASSUME UNCHANGED <<req, attempts>> PROVE FailuresBounded'
    BY <1>2, <2>2 DEF Pending
  <2>3. ASSUME RecordFailedAttempt, NEW m \in Nat, Cardinality(Pending') = m, m < n,
               ~Expired => attempts.count + m < MostFailed
        PROVE  FailuresBounded'
    <3>1. CASE attempts.count = 0 \/ Expired
      <4>1. attempts' = [count |-> 1, age |-> 0]  BY <2>3, <3>1 DEF RecordFailedAttempt
      <4> QED  BY <1>0, <2>3, <4>1 DEF FailuresBounded, MostFailed
    <3>2. CASE ~(attempts.count = 0 \/ Expired)
      <4>1. attempts'.count = attempts.count + 1 /\ attempts'.age = attempts.age
        BY <2>3, <3>2 DEF RecordFailedAttempt, AccTypeOK
      <4> QED  BY <1>0, <2>3, <3>2, <4>1 DEF FailuresBounded, MostFailed
    <3> QED  BY <3>1, <3>2
  <2>4. CASE PostLogin(b)
    <3>1. req[b] = NoReq /\ b \notin Pending /\ ~IsRateLimited
      BY <2>4 DEF PostLogin, Idle, Pending, NoReq
    <3>2. ~Expired => attempts.count <= MaxFailed - 1
      BY <1>0, <3>1 DEF IsRateLimited
    <3>3. CASE RecordFailedAttempt /\ UNCHANGED req
      <4>1. Pending' = Pending  BY <3>3 DEF Pending
      <4>2. Cardinality(Pending) + 1 <= n  BY <3>1, PendingCount DEF Pending
      <4> QED  BY <1>0, <1>1, <2>3, <3>2, <3>3, <4>1, <4>2 DEF MostFailed
    <3>4. CASE \E r : r.op = "login" /\ Ask(b, r) /\ UNCHANGED attempts
      <4>1. Pending' = Pending \cup {b}
        BY <3>4 DEF Ask, Pending, AccTypeOK
      <4>2. Cardinality(Pending') \in Nat /\ Cardinality(Pending') <= n
        BY <3>1, <4>1, PendingCount DEF Pending
      <4> QED  BY <1>0, <3>2, <3>4, <4>2 DEF FailuresBounded, Expired, MostFailed
    <3>5. (RecordFailedAttempt /\ UNCHANGED req)
          \/ \E r : r.op = "login" /\ Ask(b, r) /\ UNCHANGED attempts
      BY <2>4 DEF PostLogin
    <3> QED  BY <3>3, <3>4, <3>5
  <2>5. CASE LoginAnswered(b)
    <3>1. b \in Pending /\ Ask(b, NoReq)
      BY <2>5 DEF LoginAnswered, Pending
    <3>2. Pending' = Pending \ {b}
      BY <3>1 DEF Ask, NoReq, Pending, AccTypeOK
    <3>3. Cardinality(Pending') = Cardinality(Pending) - 1 /\ Cardinality(Pending') \in Nat
      BY <3>1, <3>2, PendingCount DEF Pending
    <3>4. CASE UNCHANGED attempts  BY <2>1, <3>1, <3>4 DEF NoReq
    <3>5. CASE RecordFailedAttempt
      BY <1>0, <1>1, <2>3, <3>3, <3>5 DEF FailuresBounded, MostFailed
    <3>6. UNCHANGED attempts \/ RecordFailedAttempt
      BY <2>5 DEF LoginAnswered
    <3> QED  BY <3>4, <3>5, <3>6
  <2> USE DEF NoReq
  <2>6. CASE PostSignup(b)
    <3>1. \E r : Ask(b, r) /\ r.op # "login"  BY <2>6 DEF PostSignup
    <3> QED  BY <2>1, <2>6, <3>1 DEF PostSignup
  <2>7. CASE SignupAnswered(b)  BY <2>1, <2>7 DEF SignupAnswered
  <2>8. CASE PostResetPassword(b)
    <3>1. \E r : Ask(b, r) /\ r.op # "login"  BY <2>8 DEF PostResetPassword
    <3> QED  BY <2>1, <2>8, <3>1 DEF PostResetPassword
  <2>9. CASE ResetAnswered(b)  BY <2>1, <2>9 DEF ResetAnswered
  <2>10. CASE PostChangePassword(b)
    <3>1. \E r : Ask(b, r) /\ r.op # "login"  BY <2>10 DEF PostChangePassword
    <3> QED  BY <2>1, <2>10, <3>1 DEF PostChangePassword
  <2>11. CASE ChangeAnswered(b)  BY <2>1, <2>11 DEF ChangeAnswered
  <2> QED
    BY <1>8, <2>2, <2>4, <2>5, <2>6, <2>7, <2>8, <2>9, <2>10, <2>11
    DEF Browser, Load, Logout, Refused, MakeRow, Promote
<1>9. CASE UNCHANGED vars  BY <1>2, <1>9 DEF vars, Pending
<1> QED  BY <1>4, <1>5, <1>6, <1>7, <1>8, <1>9 DEF Next

(* The inductive invariant: the type, the accounts and the limiter.        *)
AccInv == AccTypeOK /\ AccountsKept /\ SignupsServed /\ FailuresBounded

THEOREM AccInvariant == Spec => []AccInv
<1>1. ASSUME Init PROVE AccInv
  <2> USE <1>1 DEF Init
  <2>1. db \in Db
    <3>1. [i \in {} |-> i] \in [{} -> Account] /\ {} \in SUBSET Ids  OBVIOUS
    <3> QED  BY <3>1 DEF Db
  <2>2. AccTypeOK
    <3>1. disk \in Db  BY <2>1
    <3>2. NoReq \in Request  BY DEF NoReq, Request
    <3>3. attempts \in [count : Nat, age : 0 .. Window + 1]
      BY AccountsAssumption DEF NoAttempts
    <3>4. lastId \in 0 .. MaxAccounts /\ stops \in 0 .. MaxStops
      BY AccountsAssumption
    <3>5. /\ cookie \in [Browsers -> [id : Ids \cup {NoUser}, role : {"none", "admin", "member"}]]
          /\ shown \in [Browsers -> [required : BOOLEAN, in : BOOLEAN, admin : BOOLEAN]]
      BY DEF NoCookie, LoggedOut
    <3> QED  BY <2>1, <3>1, <3>2, <3>3, <3>4, <3>5 DEF AccTypeOK
  <2>3. AccountsKept
    BY DEF AccountsKept, OneAccountPerName, AdminRemains, Has
  <2>4. FailuresBounded
    <3>1. Cardinality(Pending) \in Nat /\ Cardinality(Pending) <= Cardinality(Browsers)
          /\ Cardinality(Browsers) \in Nat
      BY PendingCount DEF Pending
    <3>2. attempts.count = 0  BY DEF NoAttempts
    <3> QED  BY <3>1, <3>2, AccountsAssumption DEF FailuresBounded, MostFailed
  <2>5. SignupsServed  BY DEF SignupsServed, NoReq
  <2> QED  BY <2>2, <2>3, <2>4, <2>5 DEF AccInv
<1>2. AccInv /\ [Next]_vars => AccInv'
  BY TypeStep, AccountsStep, SignupsStep, LimiterStep DEF AccInv
<1> QED  BY <1>1, <1>2, PTL DEF Spec

(* The type of the state.                                                  *)
THEOREM AccountsTyped == Spec => []AccTypeOK
<1>1. AccInv => AccTypeOK  BY DEF AccInv
<1> QED  BY <1>1, AccInvariant, PTL

(* One account per name, and an administrator among them.                  *)
THEOREM AccountsHold == Spec => []AccountsInv
<1>1. AccInv => AccountsInv  BY DEF AccInv, AccountsKept, AccountsInv
<1> QED  BY <1>1, AccInvariant, PTL

(* The rows of the single-user mode are adopted when login is turned on.   *)
THEOREM RowsAdopted == Spec => []LegacyRowsAdopted
<1>1. AccInv => LegacyRowsAdopted  BY DEF AccInv, AccountsKept, LegacyRowsAdopted
<1> QED  BY <1>1, AccInvariant, PTL

(* Failures past the limit are those of the logins let in before it.       *)
THEOREM FailuresLimited == Spec => []LimiterBounded
<1>1. ASSUME AccInv PROVE LimiterBounded
  <2>1. Cardinality(Browsers) \in Nat  BY PendingCount
  <2> QED
    BY <1>1, <2>1, AccountsAssumption
    DEF AccInv, AccTypeOK, FailuresBounded, MostFailed, LimiterBounded
<1> QED  BY <1>1, AccInvariant, PTL
=============================================================================
