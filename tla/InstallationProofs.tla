------------------------- MODULE InstallationProofs -------------------------
(* An encrypted database keeps its key, is up to date once it is open, and *)
(* no start is refused without a mishap: proved for any keychains, ports,  *)
(* accounts, databases of earlier versions, keys and starts.               *)
EXTENDS Installation, TLAPS

(* The keys where findExistingEncryptionKey looks.                         *)
Held == {EnvKey, keychain.key, keyFile}

(* A key about to be used is one that is held; one is only made while no   *)
(* database needs another; one is only deleted once no database needs it.  *)
KeyInv ==
    /\ DatabaseKeepsKey
    /\ proc.at \in {"keyed", "opened", "running"} => proc.key \in Held
    /\ At("keyless") => file.form # "encrypted"
    /\ At("cleared") => file.form # "encrypted" \/ "clearing" \in mishaps

InstInv == InstTypeOK /\ KeyInv

(* What is found is held.                                                  *)
LEMMA FoundIsHeld ==
    ASSUME NEW answered
    PROVE  FindExistingKey(answered) \in Held
BY DEF FindExistingKey, Held

(* Nothing is found, a key that cannot be read, or one that can.           *)
LEMMA FoundTyped ==
    ASSUME InstTypeOK, NEW answered
    PROVE  FindExistingKey(answered) \in Keys \cup {NoKey, Torn}
BY InstallationAssumption DEF FindExistingKey, InstTypeOK, Keys, EnvKey, NoKey

LEMMA DownTyped == Down.at = "down" /\ Down \in Processes
BY DEF Down, Processes

LEMMA AfterInit == Init => InstInv
<1> SUFFICES ASSUME Init PROVE InstInv
    OBVIOUS
<1>1. file.form \in {"absent", "plain"} /\ file.key = NoKey
    BY DEF Init, Absent
<1>2. InstTypeOK
    BY <1>1, DownTyped, InstallationAssumption DEF Init, InstTypeOK, Keys, EnvKey
<1>3. KeyInv
    BY <1>1 DEF Init, Down, KeyInv, DatabaseKeepsKey, At
<1>. QED
    BY <1>2, <1>3 DEF InstInv

-----------------------------------------------------------------------------
(* Types are kept.                                                         *)
LEMMA TypeStep == InstTypeOK /\ [Next]_vars => InstTypeOK'
<1> SUFFICES ASSUME InstTypeOK, [Next]_vars PROVE InstTypeOK'
    OBVIOUS
<1> USE DEF InstTypeOK
<1>1. CASE Start
    <2>1. proc' \in Processes
        <3>1. PICK port \in Ports \cup {NoPort}, daemon \in BOOLEAN :
                 proc' = [Down EXCEPT !.at = "started", !.asked = port, !.daemon = daemon]
            BY <1>1 DEF Start
        <3>. QED
            BY ONLY <3>1 DEF Down, Processes
    <2>2. starts' \in 0 .. MaxStarts
        BY <1>1, InstallationAssumption DEF Start
    <2>. QED
        BY <1>1, <2>1, <2>2 DEF Start
<1>2. CASE AssertKeyAvailable
    <2>1. CASE file.form # "encrypted"
        <3>1. proc \in Processes /\ proc' = [proc EXCEPT !.at = "keyless"]
            BY <1>2, <2>1 DEF AssertKeyAvailable, Goto
        <3>2. proc' \in Processes
            BY ONLY <3>1 DEF Processes
        <3>. QED
            BY <1>2, <2>1, <3>2 DEF AssertKeyAvailable
    <2>2. CASE file.form = "encrypted"
        <3>1. PICK answered \in Answers :
                 \/ proc' = Down
                 \/ /\ FindExistingKey(answered) \notin {NoKey, Torn}
                    /\ proc' = [proc EXCEPT !.at = "keyed", !.key = FindExistingKey(answered)]
            BY <1>2, <2>2 DEF AssertKeyAvailable, Refuse
        <3>a. proc \in Processes /\ FindExistingKey(answered) \in Keys \cup {NoKey, Torn}
            BY FoundTyped
        <3>2. proc' \in Processes
            BY ONLY <3>1, <3>a, DownTyped DEF Processes
        <3>. QED
            BY <1>2, <3>2 DEF AssertKeyAvailable
    <2>. QED
        BY <2>1, <2>2
<1>3. CASE ConfigureKey
    <2>1. PICK answered \in Answers :
             \/ proc' = Down /\ UNCHANGED <<keychain, keyFile, lastKey>>
             \/ /\ lastKey < MaxKeys /\ lastKey' = lastKey + 1
                /\ \/ keychain' = [keychain EXCEPT !.key = lastKey'] /\ UNCHANGED keyFile
                   \/ keyFile' = lastKey' /\ UNCHANGED keychain
                /\ proc' = [proc EXCEPT !.at = "keyed", !.key = lastKey']
             \/ /\ FindExistingKey(answered) \notin {NoKey, Torn}
                /\ proc' = [proc EXCEPT !.at = "keyed", !.key = FindExistingKey(answered)]
                /\ UNCHANGED <<keychain, keyFile, lastKey>>
        BY <1>3 DEF ConfigureKey, Refuse
    <2>2. CASE proc' = Down /\ UNCHANGED <<keychain, keyFile, lastKey>>
        BY <1>3, <2>2, DownTyped DEF ConfigureKey
    <2>3. CASE /\ lastKey < MaxKeys /\ lastKey' = lastKey + 1
               /\ \/ keychain' = [keychain EXCEPT !.key = lastKey'] /\ UNCHANGED keyFile
                  \/ keyFile' = lastKey' /\ UNCHANGED keychain
               /\ proc' = [proc EXCEPT !.at = "keyed", !.key = lastKey']
        <3>1. lastKey' \in Keys
            BY <2>3, InstallationAssumption DEF Keys, EnvKey
        <3>a. proc \in Processes /\ keychain \in [mode : Keychains, key : Keys \cup {NoKey}]
            OBVIOUS
        <3>2. proc' \in Processes
            BY ONLY <2>3, <3>1, <3>a DEF Processes
        <3>3. keychain' \in [mode : Keychains, key : Keys \cup {NoKey}]
            BY ONLY <2>3, <3>1, <3>a
        <3>. QED
            BY <1>3, <2>3, <3>1, <3>2, <3>3 DEF ConfigureKey
    <2>4. CASE /\ FindExistingKey(answered) \notin {NoKey, Torn}
               /\ proc' = [proc EXCEPT !.at = "keyed", !.key = FindExistingKey(answered)]
               /\ UNCHANGED <<keychain, keyFile, lastKey>>
        <3>a. proc \in Processes /\ FindExistingKey(answered) \in Keys \cup {NoKey, Torn}
            BY FoundTyped
        <3>1. proc' \in Processes
            BY ONLY <2>4, <3>a DEF Processes
        <3>. QED
            BY <1>3, <2>4, <3>1 DEF ConfigureKey
    <2>. QED
        BY <2>1, <2>2, <2>3, <2>4
<1>4. CASE KillTearingKey
    BY <1>4, DownTyped DEF KillTearingKey
<1>5. CASE OpenDatabase
    <2>a. /\ proc \in Processes
          /\ proc' = Down \/ proc' = [proc EXCEPT !.at = "opened"]
        BY <1>5 DEF OpenDatabase, Refuse, Goto
    <2>1. proc' \in Processes
        BY ONLY <2>a, DownTyped DEF Processes
    <2>b. file' = file \/ \E data : file' = Encrypted(proc.key, data)
        BY <1>5, Zenon DEF OpenDatabase
    <2>2. file' = file \/ (file'.form = "encrypted" /\ file'.key = proc.key)
        BY ONLY <2>b DEF Encrypted
    <2>3. proc.key \in Keys \cup {NoKey}
        BY DEF Processes
    <2>. QED
        BY <1>5, <2>1, <2>2, <2>3 DEF OpenDatabase
<1>6. CASE Listen
    <2>a. /\ proc \in Processes
          /\ \/ proc' = Down /\ UNCHANGED savedPort
             \/ \E port \in Ports : /\ proc' = [proc EXCEPT !.at = "running", !.port = port]
                                    /\ savedPort' = port
        BY <1>6 DEF Listen
    <2>1. proc' \in Processes
        BY ONLY <2>a, DownTyped DEF Processes
    <2>2. savedPort' \in Ports \cup {NoPort}
        BY <2>a
    <2>. QED
        BY <1>6, <2>1, <2>2 DEF Listen
<1>7. CASE Work
    <2>1. file'.form = "encrypted" /\ file'.key = proc.key
        BY <1>7 DEF Work, Encrypted
    <2>2. proc.key \in Keys \cup {NoKey}
        BY DEF Processes
    <2>. QED
        BY <1>7, <2>1, <2>2 DEF Work
<1>8. CASE ChangePort
    <2>1. proc' \in Processes
        <3>1. PICK port \in Ports : proc' = [Down EXCEPT !.at = "started", !.asked = port]
            BY <1>8 DEF ChangePort
        <3>. QED
            BY ONLY <3>1 DEF Down, Processes
    <2>2. starts' \in 0 .. MaxStarts
        BY <1>8, InstallationAssumption DEF ChangePort
    <2>. QED
        BY <1>8, <2>1, <2>2 DEF ChangePort
<1>9. CASE ClearDataDir
    <2>a. proc \in Processes /\ proc' = [proc EXCEPT !.at = "cleared"]
        BY <1>9 DEF ClearDataDir, Goto
    <2>1. proc' \in Processes
        BY ONLY <2>a DEF Processes
    <2>. QED
        BY <1>9, <2>1 DEF ClearDataDir, Absent
<1>10. CASE ClearHalf
    <2>1. file'.form \in {"absent", "plain", "encrypted"} /\ file'.key \in Keys \cup {NoKey}
        BY <1>10 DEF ClearHalf, Absent
    <2>. QED
        BY <1>10, <2>1, DownTyped DEF ClearHalf
<1>11. CASE DeleteKeychainKey
    BY <1>11, DownTyped DEF DeleteKeychainKey
<1>12. CASE Stop
    BY <1>12, DownTyped DEF Stop
<1>13. CASE UNCHANGED vars
    BY <1>13 DEF vars
<1>. QED
    BY <1>1, <1>2, <1>3, <1>4, <1>5, <1>6, <1>7, <1>8, <1>9, <1>10, <1>11, <1>12, <1>13
    DEF Next

(* A step that leaves the database, the keys and the mishaps to the next   *)
(* start keeps the invariant.                                              *)
LEMMA Gone ==
    ASSUME KeyInv, proc'.at \in {"down", "started"},
           UNCHANGED <<keychain, keyFile, file>>, mishaps \subseteq mishaps'
    PROVE  KeyInv'
BY DEF KeyInv, DatabaseKeepsKey, At

(* So does every other step.                                               *)
LEMMA KeyStep == InstInv /\ [Next]_vars => KeyInv'
<1> SUFFICES ASSUME InstTypeOK, KeyInv, [Next]_vars PROVE KeyInv'
    BY DEF InstInv
<1>a. /\ proc = [at |-> proc.at, key |-> proc.key, asked |-> proc.asked, port |-> proc.port,
                 daemon |-> proc.daemon]
      /\ keychain = [mode |-> keychain.mode, key |-> keychain.key]
    BY DEF InstTypeOK, Processes
<1> USE DEF KeyInv, DatabaseKeepsKey, At, Held
<1>1. CASE Start
    <2>1. proc'.at = "started" /\ mishaps \subseteq mishaps'
        BY <1>1 DEF Start, Down
    <2>. QED
        BY <1>1, <2>1, Gone DEF Start
<1>2. CASE AssertKeyAvailable
    <2>1. CASE file.form # "encrypted"
        BY <1>2, <1>a, <2>1 DEF AssertKeyAvailable, Goto
    <2>2. CASE file.form = "encrypted"
        <3>1. PICK answered \in Answers :
                 \/ proc' = Down
                 \/ proc' = [proc EXCEPT !.at = "keyed", !.key = FindExistingKey(answered)]
            BY <1>2, <2>2 DEF AssertKeyAvailable, Refuse
        <3>2. CASE proc' = Down
            BY <1>2, <3>2, DownTyped, Gone DEF AssertKeyAvailable
        <3>3. CASE proc' = [proc EXCEPT !.at = "keyed", !.key = FindExistingKey(answered)]
            BY <1>2, <1>a, <2>2, <3>3, FoundIsHeld DEF AssertKeyAvailable
        <3>. QED
            BY <3>1, <3>2, <3>3
    <2>. QED
        BY <2>1, <2>2
<1>3. CASE ConfigureKey
    (* No database needs the keys that this step may replace.              *)
    <2>1. file'.form # "encrypted"
        BY <1>3 DEF ConfigureKey
    <2>2. PICK answered \in Answers :
             \/ proc' = Down
             \/ /\ proc'.at = "keyed" /\ proc'.key = lastKey'
                /\ keychain'.key = lastKey' \/ keyFile' = lastKey'
             \/ /\ proc' = [proc EXCEPT !.at = "keyed", !.key = FindExistingKey(answered)]
                /\ UNCHANGED <<keychain, keyFile>>
        BY <1>3, <1>a DEF ConfigureKey, Refuse
    <2>3. CASE proc' = Down
        BY <2>1, <2>3, DownTyped
    <2>4. CASE /\ proc'.at = "keyed" /\ proc'.key = lastKey'
               /\ keychain'.key = lastKey' \/ keyFile' = lastKey'
        BY <2>1, <2>4
    <2>5. CASE /\ proc' = [proc EXCEPT !.at = "keyed", !.key = FindExistingKey(answered)]
               /\ UNCHANGED <<keychain, keyFile>>
        BY <1>a, <2>1, <2>5, FoundIsHeld
    <2>. QED
        BY <2>2, <2>3, <2>4, <2>5
<1>4. CASE KillTearingKey
    BY <1>4, DownTyped DEF KillTearingKey
<1>5. CASE OpenDatabase
    <2>1. CASE proc' = Down /\ UNCHANGED file
        BY <1>5, <2>1, DownTyped, Gone DEF OpenDatabase
    <2>2. CASE proc'.at = "opened" /\ proc'.key = proc.key /\ file'.key = proc.key
        BY <1>5, <2>2 DEF OpenDatabase
    <2>3. \/ proc' = Down /\ UNCHANGED file
          \/ proc'.at = "opened" /\ proc'.key = proc.key /\ file'.key = proc.key
        <3>1. \/ proc' = Down /\ UNCHANGED file
              \/ /\ proc' = [proc EXCEPT !.at = "opened"]
                 /\ \E data : file' = Encrypted(proc.key, data)
            BY <1>5, Zenon DEF OpenDatabase, Refuse, Goto
        <3>. QED
            BY ONLY <1>a, <3>1 DEF Encrypted
    <2>. QED
        BY <2>1, <2>2, <2>3
<1>6. CASE Listen
    <2>1. CASE proc' = Down
        BY <1>6, <2>1, DownTyped, Gone DEF Listen
    <2>2. CASE proc'.at = "running" /\ proc'.key = proc.key
        BY <1>6, <2>2 DEF Listen
    <2>. QED
        BY <1>6, <1>a, <2>1, <2>2 DEF Listen
<1>7. CASE Work
    BY <1>7 DEF Work, Encrypted
<1>8. CASE ChangePort
    <2>1. proc'.at = "started"
        BY <1>8 DEF ChangePort, Down
    <2>. QED
        BY <1>8, <2>1, Gone DEF ChangePort
<1>9. CASE ClearDataDir
    <2>1. proc'.at = "cleared"
        BY <1>9, <1>a DEF ClearDataDir, Goto
    <2>2. file'.form # "encrypted" \/ "clearing" \in mishaps'
        BY <1>9 DEF ClearDataDir, Absent
    <2>. QED
        BY <2>1, <2>2
<1>10. CASE ClearHalf
    <2>1. file'.form # "encrypted" \/ "clearing" \in mishaps'
        BY <1>10 DEF ClearHalf, Absent
    <2>. QED
        BY <1>10, <2>1, DownTyped DEF ClearHalf
<1>11. CASE DeleteKeychainKey
    <2>1. file'.form # "encrypted" \/ "clearing" \in mishaps'
        BY <1>11 DEF DeleteKeychainKey
    <2>. QED
        BY <1>11, <2>1, DownTyped DEF DeleteKeychainKey
<1>12. CASE Stop
    BY <1>12, DownTyped, Gone DEF Stop
<1>13. CASE UNCHANGED vars
    BY <1>13 DEF vars
<1>. QED
    BY <1>1, <1>2, <1>3, <1>4, <1>5, <1>6, <1>7, <1>8, <1>9, <1>10, <1>11, <1>12, <1>13
    DEF Next

-----------------------------------------------------------------------------
(* The inductive invariant holds throughout.                               *)
THEOREM InstInvariant == Spec => []InstInv
<1>1. InstInv /\ [Next]_vars => InstInv'
    BY TypeStep, KeyStep DEF InstInv
<1>. QED
    BY <1>1, AfterInit, PTL DEF Spec

(* An encrypted database never loses its key to a new one, whatever the    *)
(* keychain fails to answer (assertEncryptionKeyAvailableFor).             *)
THEOREM KeyKept == Spec => []DatabaseKeepsKey
<1>1. InstInv => DatabaseKeepsKey
    BY DEF InstInv, KeyInv
<1>. QED
    BY <1>1, InstInvariant, PTL
-----------------------------------------------------------------------------
(* The migrations.                                                         *)

(* The rows the current version counts on, and the databases it leaves.    *)
CurrentConnections ==
    [type : {PAT, GITHUB_APP}, user : {LocalUser} \cup Users, active : BOOLEAN, bound : 0 .. 1]
CurrentJobs == [started : BOOLEAN, created : {"made", "started", "now"}]

UpToDate(d) ==
    /\ d \in [schema : {Schema(Current)}, conns : SUBSET CurrentConnections, jobs : SUBSET CurrentJobs]
    /\ Usable(d)

LEMMA SchemaOf ==
    ASSUME NEW v \in Versions
    PROVE  /\ Schema(v) \subseteq {"content", "created_at", "user_id", "is_active", "installations"}
           /\ "is_active" \in Schema(v) <=> v >= 4
           /\ Schema(Current) = {"created_at", "user_id", "is_active", "installations"}
<1>1. DOMAIN Since = {"content", "created_at", "user_id", "is_active", "installations"}
  BY DEF Since
<1>2. /\ Since["content"] = 0 /\ Since["created_at"] = 2 /\ Since["user_id"] = 3
      /\ Since["is_active"] = 4 /\ Since["installations"] = 5
  BY DEF Since
<1>3. /\ Until["content"] = 0 /\ Until["created_at"] = 5 /\ Until["user_id"] = 5
      /\ Until["is_active"] = 5 /\ Until["installations"] = 5
  BY DEF Since, Until
<1>4. ASSUME NEW w \in Versions
      PROVE  Schema(w) = {c \in {"content", "created_at", "user_id", "is_active", "installations"} :
                            Since[c] <= w /\ w <= Until[c]}
  BY <1>1 DEF Schema
<1>5. v \in 0 .. 5 /\ Current \in Versions /\ Current = 5
  BY DEF Versions, Current
<1>6. QED
  BY <1>2, <1>3, <1>4, <1>5

(* What runMigrations does to a database's columns and rows. *)
LEMMA MigrationsOf ==
    ASSUME NEW d
    PROVE  RunMigrations(d) =
             Database((d.schema \ {"content"}) \cup {"created_at", "user_id", "is_active", "installations"},
                      Bound(IF "is_active" \in d.schema THEN Owned(d.conns) ELSE Activated(Owned(d.conns))),
                      Dated(d.jobs))
<1> DEFINE s == (d.schema \ {"content"}) \cup {"created_at", "user_id"}
           e == OwnConnections(DateJobs(DropContent(d)))
           rows == IF "is_active" \in d.schema THEN Owned(d.conns) ELSE Activated(Owned(d.conns))
<1>1. e = Database(s, Owned(d.conns), Dated(d.jobs))
  BY DEF OwnConnections, DateJobs, DropContent, Database, AddColumnIfNotExists, DropColumnIfExists
<1>2. "is_active" \in s <=> "is_active" \in d.schema
  OBVIOUS
<1>3. ActivateConnections(e) = Database(s \cup {"is_active"}, rows, Dated(d.jobs))
  <2>1. e.schema = s /\ e.conns = Owned(d.conns) /\ e.jobs = Dated(d.jobs)
    BY <1>1 DEF Database
  <2>2. CASE "is_active" \in d.schema
    <3>1. s \cup {"is_active"} = s /\ rows = Owned(d.conns)
      BY <1>2, <2>2
    <3> HIDE DEF e, s, rows
    <3>2. ActivateConnections(e) = e
      BY <1>2, <2>1, <2>2 DEF ActivateConnections
    <3>3. QED
      BY <1>1, <3>1, <3>2
  <2>3. CASE "is_active" \notin d.schema
    <3>1. rows = Activated(Owned(d.conns))
      BY <2>3
    <3> HIDE DEF e, s, rows
    <3>2. ActivateConnections(e) = Database(e.schema \cup {"is_active"}, Activated(e.conns), e.jobs)
      BY <1>2, <2>1, <2>3 DEF ActivateConnections, AddColumnIfNotExists
    <3>3. QED
      BY <2>1, <3>1, <3>2
  <2>4. QED
    BY <2>2, <2>3
<1>4. RunMigrations(d) = BindInstallations(ActivateConnections(e))
  BY DEF RunMigrations
<1>5. BindInstallations(ActivateConnections(e)) =
        Database(s \cup {"is_active"} \cup {"installations"}, Bound(rows), Dated(d.jobs))
  <2> HIDE DEF e, s, rows
  <2>1. QED
    BY <1>3 DEF BindInstallations, Database, AddColumnIfNotExists
<1>6. s \cup {"is_active"} \cup {"installations"} =
        (d.schema \ {"content"}) \cup {"created_at", "user_id", "is_active", "installations"}
  OBVIOUS
<1> HIDE DEF s, e, rows
<1>7. QED
  BY <1>4, <1>5, <1>6 DEF rows

(* Nothing is to be done to a database that is up to date. *)
LEMMA UpToDateStays == ASSUME NEW d, UpToDate(d) PROVE RunMigrations(d) = d
<1>1. d = Database(d.schema, d.conns, d.jobs)
  BY DEF UpToDate, Database
<1>2. d.schema = {"created_at", "user_id", "is_active", "installations"}
  BY SchemaOf DEF UpToDate, Versions, Current
<1>3. d.conns \subseteq CurrentConnections /\ d.jobs \subseteq CurrentJobs
  BY DEF UpToDate
<1>4. \A c \in d.conns : c.user # Null /\ ~(c.type = GITHUB_APP /\ c.bound = 0)
  BY DEF UpToDate, Usable
<1>5. Owned(d.conns) = d.conns
  BY <1>4 DEF Owned
<1>6. Bound(d.conns) = d.conns
  BY <1>4 DEF Bound
<1>7. Dated(d.jobs) = d.jobs
  BY DEF Dated, UpToDate, Usable
<1>8. RunMigrations(d) =
        Database((d.schema \ {"content"}) \cup {"created_at", "user_id", "is_active", "installations"},
                 d.conns, d.jobs)
  <2>1. "is_active" \in d.schema
    BY <1>2
  <2>2. QED
    BY <1>5, <1>6, <1>7, <2>1, MigrationsOf, Zenon
<1>9. (d.schema \ {"content"}) \cup {"created_at", "user_id", "is_active", "installations"} = d.schema
  BY <1>2
<1>10. QED
  BY <1>1, <1>8, <1>9

(* What the databases of earlier versions have in common: columns and rows *)
(* of the kinds there ever were, and connections with owners or slots of   *)
(* their own.                                                              *)
OldConnections ==
    [type : {PAT, GITHUB_APP}, user : {Null, LocalUser} \cup Users,
     active : {Null} \cup BOOLEAN, bound : 0 .. 1]
OldJobs == [started : BOOLEAN, created : {Null, "made", "started", "now"}]

Apart(d) ==
    \A c, e \in d.conns : c # e =>
        /\ c.user # Null /\ e.user # Null
        /\ c.user = e.user =>
              "is_active" \in d.schema /\ c.type # e.type /\ ~(c.active /\ e.active)

Sound(d) ==
    /\ d.schema \subseteq {"content", "created_at", "user_id", "is_active", "installations"}
    /\ d.conns \subseteq OldConnections
    /\ d.jobs \subseteq OldJobs
    /\ "is_active" \in d.schema => \A c \in d.conns : c.active \in BOOLEAN
    /\ Apart(d)

LEMMA FreshIsSound == Sound(Fresh)
  BY DEF Sound, Apart, Fresh, Database

LEMMA LeftIsSound ==
    ASSUME NEW v \in Versions, NEW d \in LeftBy(v)
    PROVE  Sound(d)
<1>0. v \in 0 .. 5
  BY DEF Versions
<1>1. /\ d.schema = Schema(v) /\ d.conns \subseteq Connection(v) /\ d.jobs \subseteq Job(v)
      /\ v < 3 => \A c, e \in d.conns : c = e
      /\ v = 3 => \A c, e \in d.conns : c.user = e.user => c = e
      /\ v \in 4 .. 5 => OnePerSlot(d.conns)
  BY DEF LeftBy
<1>2. ASSUME NEW c \in Connection(v)
      PROVE  /\ c \in OldConnections
             /\ v >= 3 => c.user # Null
             /\ v >= 4 => c.active \in BOOLEAN
  <2>1. /\ c \in [type : {PAT, GITHUB_APP}, user : IF v < 3 THEN {Null} ELSE {LocalUser} \cup Users,
                  active : IF v < 4 THEN {Null} ELSE BOOLEAN, bound : 0 .. 1]
    BY DEF Connection
  <2>2. c \in OldConnections
    BY <2>1 DEF OldConnections
  <2>3. v >= 3 => c.user # Null
    BY <1>0, <2>1, MigrationsAssumption DEF Null, LocalUser
  <2>4. v >= 4 => c.active \in BOOLEAN
    BY <1>0, <2>1
  <2>5. QED
    BY <2>2, <2>3, <2>4
<1>3. Job(v) \subseteq OldJobs
  BY DEF Job, OldJobs
<1>4. "is_active" \in d.schema <=> v >= 4
  BY <1>1, SchemaOf
<1>5. Apart(d)
  <2> SUFFICES ASSUME NEW c \in d.conns, NEW e \in d.conns, c # e
               PROVE  /\ c.user # Null /\ e.user # Null
                      /\ c.user = e.user =>
                            "is_active" \in d.schema /\ c.type # e.type /\ ~(c.active /\ e.active)
    BY DEF Apart
  <2>1. v >= 3
    BY <1>0, <1>1
  <2>2. c.user # Null /\ e.user # Null
    BY <1>1, <1>2, <2>1
  <2>3. CASE v = 3
    BY <1>1, <2>2, <2>3
  <2>4. CASE v \in 4 .. 5
    BY <1>1, <1>4, <2>2, <2>4 DEF OnePerSlot
  <2>5. QED
    BY <1>0, <2>1, <2>3, <2>4
<1>6. d.schema \subseteq {"content", "created_at", "user_id", "is_active", "installations"}
  BY <1>1, SchemaOf
<1>7. QED
  BY <1>1, <1>2, <1>3, <1>4, <1>5, <1>6 DEF Sound

(* Every connection of the migrated database is one there was, with an     *)
(* owner, active if nothing said it was not, bound if it is an App's.      *)
LEMMA RowsMigrated ==
    ASSUME NEW d, Sound(d),
           NEW x \in Bound(IF "is_active" \in d.schema THEN Owned(d.conns) ELSE Activated(Owned(d.conns)))
    PROVE  \E c \in d.conns :
              /\ x \in CurrentConnections
              /\ x.type = c.type
              /\ x.user = IF c.user # Null THEN c.user ELSE LocalUser
              /\ "is_active" \in d.schema => x.active = c.active
              /\ x.type = GITHUB_APP => x.bound > 0
              /\ x = [type |-> c.type, user |-> IF c.user # Null THEN c.user ELSE LocalUser,
                      active |-> IF "is_active" \in d.schema THEN c.active ELSE TRUE,
                      bound |-> IF c.type = GITHUB_APP /\ c.bound = 0 THEN 1 ELSE c.bound]
<1> DEFINE rows == IF "is_active" \in d.schema THEN Owned(d.conns) ELSE Activated(Owned(d.conns))
<1>1. PICK y \in rows : x = IF y.type = GITHUB_APP /\ y.bound = 0 THEN [y EXCEPT !.bound = 1] ELSE y
  <2> HIDE DEF rows
  <2>1. x \in Bound(rows)
    BY DEF rows
  <2>2. QED
    BY <2>1 DEF Bound
<1>2. PICK z \in Owned(d.conns) : y = IF "is_active" \in d.schema THEN z ELSE [z EXCEPT !.active = TRUE]
  <2>1. CASE "is_active" \in d.schema
    BY <2>1
  <2>2. CASE "is_active" \notin d.schema
    <3>1. y \in Activated(Owned(d.conns))
      BY <2>2
    <3>2. PICK z \in Owned(d.conns) : y = [z EXCEPT !.active = TRUE]
      BY <3>1 DEF Activated
    <3>3. QED
      BY <2>2, <3>2
  <2>3. QED
    BY <2>1, <2>2
<1>3. PICK c \in d.conns : z = IF c.user # Null THEN c ELSE [c EXCEPT !.user = LocalUser]
  BY DEF Owned
<1>4. c \in OldConnections /\ ("is_active" \in d.schema => c.active \in BOOLEAN)
  BY DEF Sound
<1>5. z = [type |-> c.type, user |-> IF c.user # Null THEN c.user ELSE LocalUser,
           active |-> c.active, bound |-> c.bound]
  BY <1>3, <1>4 DEF OldConnections
<1>6. y = [type |-> c.type, user |-> IF c.user # Null THEN c.user ELSE LocalUser,
           active |-> IF "is_active" \in d.schema THEN c.active ELSE TRUE, bound |-> c.bound]
  BY <1>2, <1>5
<1>7. x = [type |-> c.type, user |-> IF c.user # Null THEN c.user ELSE LocalUser,
           active |-> IF "is_active" \in d.schema THEN c.active ELSE TRUE,
           bound |-> IF c.type = GITHUB_APP /\ c.bound = 0 THEN 1 ELSE c.bound]
  BY <1>1, <1>6
<1>8. x \in CurrentConnections /\ (x.type = GITHUB_APP => x.bound > 0)
  <2> DEFINE user == IF c.user # Null THEN c.user ELSE LocalUser
             active == IF "is_active" \in d.schema THEN c.active ELSE TRUE
             bound == IF c.type = GITHUB_APP /\ c.bound = 0 THEN 1 ELSE c.bound
  <2>1. c.type \in {PAT, GITHUB_APP} /\ user \in {LocalUser} \cup Users
    BY <1>4 DEF OldConnections
  <2>2. active \in BOOLEAN
    BY <1>4
  <2>3. bound \in 0 .. 1 /\ (c.type = GITHUB_APP => bound > 0)
    BY <1>4 DEF OldConnections
  <2>4. x = [type |-> c.type, user |-> user, active |-> active, bound |-> bound]
    BY <1>7
  <2> HIDE DEF user, active, bound
  <2>5. QED
    BY <2>1, <2>2, <2>3, <2>4 DEF CurrentConnections
<1>9. QED
  BY <1>4, <1>7, <1>8

(* Whatever version left it, a database is up to date once migrated.       *)
LEMMA MigratesSound ==
    ASSUME NEW d, Sound(d)
    PROVE  UpToDate(RunMigrations(d))
<1> DEFINE s == (d.schema \ {"content"}) \cup {"created_at", "user_id", "is_active", "installations"}
           conns == Bound(IF "is_active" \in d.schema THEN Owned(d.conns) ELSE Activated(Owned(d.conns)))
           jobs == Dated(d.jobs)
           m == Database(s, conns, jobs)
<1>1. RunMigrations(d) = m
  BY MigrationsOf
<1>2. s = Schema(Current)
  <2>1. Current \in Versions
    BY DEF Current, Versions
  <2>2. QED
    BY <2>1, SchemaOf DEF Sound
<1>3. ASSUME NEW x \in conns
      PROVE  x \in CurrentConnections /\ x.user # Null /\ (x.type = GITHUB_APP => x.bound > 0)
  <2>1. x \in CurrentConnections /\ (x.type = GITHUB_APP => x.bound > 0)
    BY RowsMigrated
  <2>2. x.user # Null
    BY <2>1, MigrationsAssumption DEF CurrentConnections, Null, LocalUser
  <2>3. QED
    BY <2>1, <2>2
<1>4. ASSUME NEW x \in jobs PROVE x \in CurrentJobs /\ x.created # Null
  <2>1. PICK j \in d.jobs : x = IF j.created # Null THEN j
                                ELSE IF j.started THEN [j EXCEPT !.created = "started"]
                                ELSE [j EXCEPT !.created = "now"]
    BY DEF Dated
  <2>2. j \in OldJobs
    BY DEF Sound
  <2>3. QED
    BY <2>1, <2>2 DEF OldJobs, CurrentJobs, Null
<1>5. OnePerSlot(conns)
  <2> SUFFICES ASSUME NEW x \in conns, NEW y \in conns, x.user = y.user,
                      x.type = y.type \/ (x.active /\ y.active)
               PROVE  x = y
    BY DEF OnePerSlot
  <2> DEFINE Row(c) == [type |-> c.type, user |-> IF c.user # Null THEN c.user ELSE LocalUser,
                        active |-> IF "is_active" \in d.schema THEN c.active ELSE TRUE,
                        bound |-> IF c.type = GITHUB_APP /\ c.bound = 0 THEN 1 ELSE c.bound]
  <2>1. PICK c \in d.conns : /\ x.type = c.type
                             /\ x.user = IF c.user # Null THEN c.user ELSE LocalUser
                             /\ "is_active" \in d.schema => x.active = c.active
                             /\ x = Row(c)
    BY RowsMigrated
  <2>2. PICK e \in d.conns : /\ y.type = e.type
                             /\ y.user = IF e.user # Null THEN e.user ELSE LocalUser
                             /\ "is_active" \in d.schema => y.active = e.active
                             /\ y = Row(e)
    BY RowsMigrated
  <2>3. c = e
    <3> SUFFICES ASSUME c # e PROVE FALSE
      OBVIOUS
    <3> HIDE DEF Row
    <3>1. c.user # Null /\ e.user # Null
      BY DEF Sound, Apart
    <3>2. "is_active" \in d.schema /\ c.type # e.type /\ ~(c.active /\ e.active)
      BY <2>1, <2>2, <3>1 DEF Sound, Apart
    <3>3. QED
      BY <2>1, <2>2, <3>2
  <2>4. QED
    BY <2>1, <2>2, <2>3
<1> HIDE DEF s, conns, jobs
<1>6. m \in [schema : {Schema(Current)}, conns : SUBSET CurrentConnections, jobs : SUBSET CurrentJobs]
  BY <1>2, <1>3, <1>4 DEF Database
<1>7. Usable(m)
  BY <1>2, <1>3, <1>4, <1>5 DEF Database, Usable
<1>8. QED
  BY <1>1, <1>6, <1>7 DEF UpToDate

(* So is one that the current version has written.                         *)
LEMMA LeftUpToDate == ASSUME NEW d \in LeftBy(Current) PROVE UpToDate(d)
<1>1. Current \in Versions /\ Current = 5
  BY DEF Current, Versions
<1>2. /\ d \in [schema : {Schema(Current)}, conns : SUBSET Connection(Current), jobs : SUBSET Job(Current)]
      /\ OnePerSlot(d.conns)
  BY <1>1 DEF LeftBy
<1>3. ASSUME NEW c \in Connection(Current)
      PROVE  c \in CurrentConnections /\ c.user # Null /\ (c.type = GITHUB_APP => c.bound > 0)
  <2>1. /\ c \in CurrentConnections
        /\ c.type = GITHUB_APP => c.bound = 1
    BY <1>1 DEF Connection, CurrentConnections
  <2>2. c.user # Null
    BY <2>1, MigrationsAssumption DEF CurrentConnections, Null, LocalUser
  <2>3. QED
    BY <2>1, <2>2
<1>4. ASSUME NEW j \in Job(Current) PROVE j \in CurrentJobs /\ j.created # Null
  BY <1>1 DEF Job, CurrentJobs, Null
<1>5. QED
  BY <1>2, <1>3, <1>4 DEF UpToDate, Usable

LEMMA UpToDateIsSound == ASSUME NEW d, UpToDate(d) PROVE Usable(d) /\ IndexesHold(d)
  BY DEF UpToDate, Usable, IndexesHold
-----------------------------------------------------------------------------
(* A database that was ever opened is up to date; any other can be made so. *)
DataInv ==
    /\ file.form = "encrypted" => UpToDate(file.data)
    /\ file.form # "encrypted" => Sound(file.data)
    /\ proc.at \in {"opened", "running"} => file.form = "encrypted"

LEMMA DataMigrates == ASSUME DataInv PROVE UpToDate(RunMigrations(file.data))
  BY UpToDateStays, MigratesSound DEF DataInv

LEMMA EncryptedFields ==
    ASSUME NEW key, NEW data
    PROVE  /\ Encrypted(key, data).form = "encrypted"
           /\ Encrypted(key, data).key = key
           /\ Encrypted(key, data).data = data
  BY DEF Encrypted

LEMMA AbsentFields == Absent.form # "encrypted" /\ Sound(Absent.data)
  BY FreshIsSound DEF Absent

LEMMA DataInit == ASSUME Init PROVE DataInv
<1>1. proc.at = "down"
  BY DEF Init, Down
<1>2. CASE file = Absent
  BY <1>1, <1>2, AbsentFields DEF DataInv
<1>3. ASSUME NEW v \in Versions, NEW d \in LeftBy(v),
             file = [form |-> "plain", key |-> NoKey, data |-> d]
      PROVE  DataInv
  <2>1. file.form = "plain" /\ file.data = d
    BY <1>3
  <2>2. QED
    BY <1>1, <2>1, LeftIsSound DEF DataInv
<1>4. QED
  BY <1>2, <1>3 DEF Init

(* A step that leaves the file, and opens nothing. *)
LEMMA FileLeft ==
    ASSUME DataInv, UNCHANGED file,
           proc'.at \in {"opened", "running"} => proc.at \in {"opened", "running"}
    PROVE  DataInv'
  BY DEF DataInv

(* A step of the process, when it does not end it. *)
LEMMA WentTo ==
    ASSUME InstTypeOK, NEW stage, NEW key,
           \/ proc' = Down \/ proc' = [proc EXCEPT !.at = stage]
           \/ proc' = [proc EXCEPT !.at = stage, !.key = key]
    PROVE  proc'.at = "down" \/ proc'.at = stage
  BY DownTyped DEF InstTypeOK, Processes

LEMMA DataStep == ASSUME InstInv, DataInv, [Next]_vars PROVE DataInv'
<1>0. InstTypeOK
  BY DEF InstInv
<1>1. CASE Start
  <2>1. proc'.at = "started"
    BY <1>1 DEF Start, Down
  <2>2. QED
    BY <1>1, <2>1, FileLeft DEF Start
<1>2. CASE AssertKeyAvailable
  <2>1. proc'.at \in {"down", "keyless", "keyed"}
    <3>1. \/ proc' = Down \/ proc' = [proc EXCEPT !.at = "keyless"]
          \/ \E key : proc' = [proc EXCEPT !.at = "keyed", !.key = key]
      BY <1>2 DEF AssertKeyAvailable, Refuse, Goto
    <3>2. QED
      BY <1>0, <3>1, WentTo
  <2>2. QED
    BY <1>2, <2>1, FileLeft DEF AssertKeyAvailable
<1>3. CASE ConfigureKey
  <2>1. proc'.at \in {"down", "keyed"}
    <3>1. \/ proc' = Down \/ \E key : proc' = [proc EXCEPT !.at = "keyed", !.key = key]
      BY <1>3 DEF ConfigureKey, Refuse
    <3>2. QED
      BY <1>0, <3>1, WentTo
  <2>2. QED
    BY <1>3, <2>1, FileLeft DEF ConfigureKey
<1>4. CASE KillTearingKey
  BY <1>4, DownTyped, FileLeft DEF KillTearingKey
<1>5. CASE OpenDatabase
  <2> DEFINE migrated == RunMigrations(file.data)
  <2>1. UpToDate(migrated)
    BY DataMigrates
  <2>2. \/ proc' = Down /\ UNCHANGED file
        \/ file' = Encrypted(proc.key, migrated)
    BY <1>5, Zenon DEF OpenDatabase, Refuse
  <2> HIDE DEF migrated
  <2>3. CASE proc' = Down /\ UNCHANGED file
    BY <2>3, DownTyped, FileLeft
  <2>4. CASE file' = Encrypted(proc.key, migrated)
    <3>1. file'.form = "encrypted" /\ file'.data = migrated
      BY <2>4, EncryptedFields
    <3>2. QED
      BY <2>1, <3>1 DEF DataInv
  <2>5. QED
    BY <2>2, <2>3, <2>4
<1>6. CASE Listen
  <2>1. proc.at = "opened"
    BY <1>6 DEF Listen, At
  <2>2. QED
    BY <1>6, <2>1, FileLeft DEF Listen
<1>7. CASE Work
  <2>1. PICK d \in LeftBy(Current) : file' = Encrypted(proc.key, d)
    BY <1>7 DEF Work
  <2>2. UpToDate(d)
    BY LeftUpToDate
  <2>3. file'.form = "encrypted" /\ file'.data = d
    BY <2>1, EncryptedFields
  <2>4. QED
    BY <2>2, <2>3 DEF DataInv
<1>8. CASE ChangePort
  <2>1. proc'.at = "started"
    BY <1>8 DEF ChangePort, Down
  <2>2. QED
    BY <1>8, <2>1, FileLeft DEF ChangePort
<1>9. CASE ClearDataDir
  <2>1. proc'.at \in {"down", "cleared"}
    BY <1>0, <1>9, WentTo DEF ClearDataDir, Goto
  <2>2. file' = Absent \/ file' = file
    BY <1>9 DEF ClearDataDir
  <2>3. QED
    BY <2>1, <2>2, AbsentFields, FileLeft DEF DataInv
<1>10. CASE ClearHalf
  <2>1. proc'.at = "down"
    BY <1>10, DownTyped DEF ClearHalf
  <2>2. file' = Absent \/ file' = file
    BY <1>10 DEF ClearHalf
  <2>3. QED
    BY <2>1, <2>2, AbsentFields, FileLeft DEF DataInv
<1>11. CASE DeleteKeychainKey
  BY <1>11, DownTyped, FileLeft DEF DeleteKeychainKey
<1>12. CASE Stop
  BY <1>12, DownTyped, FileLeft DEF Stop
<1>13. CASE UNCHANGED vars
  BY <1>13, FileLeft DEF vars
<1>14. QED
  BY <1>1, <1>2, <1>3, <1>4, <1>5, <1>6, <1>7, <1>8, <1>9, <1>10, <1>11, <1>12, <1>13
     DEF Next

THEOREM DataInvariant == Spec => []DataInv
<1>1. InstInv /\ DataInv /\ [Next]_vars => DataInv'
  BY DataStep
<1>2. Init => DataInv
  BY DataInit
<1>3. QED
  BY <1>1, <1>2, InstInvariant, PTL DEF Spec

(* An open database has all that the current version counts on, whichever  *)
(* version left it, and opening it once more changes nothing.              *)
THEOREM Migrated == Spec => []MigratedUsable
<1>1. DataInv => MigratedUsable
  BY UpToDateStays, UpToDateIsSound DEF DataInv, MigratedUsable
<1>2. QED
  BY <1>1, DataInvariant, PTL
-----------------------------------------------------------------------------
(* Nothing has gone wrong outside the program.                             *)
Calm == mishaps = {} /\ keychain.mode # "flaky"

(* What a keychain that answers always, or never, lets be found.           *)
TheKey == FindExistingKey(keychain.mode = "reliable")

(* Then the key to be found is the one the database and the process have.  *)
CalmInv ==
    Calm =>
        /\ refused = "no"
        /\ keyFile # Torn
        /\ file.form = "encrypted" => file.key = TheKey /\ file.key # NoKey
        /\ proc.at \in {"keyed", "opened", "running"} => proc.key = TheKey /\ proc.key # NoKey
        /\ At("cleared") => file.form # "encrypted"

LEMMA OneAnswer ==
    ASSUME InstTypeOK, keychain.mode # "flaky"
    PROVE  Answers = {keychain.mode = "reliable"}
<1>1. keychain.mode \in {"reliable", "absent"}
  BY InstallationAssumption DEF InstTypeOK
<1>2. QED
  BY <1>1 DEF Answers

(* What has happened stays so, and the keychain stays what it is.          *)
LEMMA MishapsStay ==
    ASSUME InstTypeOK, [Next]_vars
    PROVE  mishaps \subseteq mishaps' /\ keychain'.mode = keychain.mode
<1>1. mishaps \subseteq mishaps'
  BY DEF Next, vars, Start, AssertKeyAvailable, ConfigureKey, KillTearingKey, OpenDatabase, Listen,
     Work, ChangePort, ClearDataDir, ClearHalf, DeleteKeychainKey, Stop
<1>2. keychain' = keychain \/ \E key : keychain' = [keychain EXCEPT !.key = key]
  <2>1. CASE ConfigureKey
    BY <2>1 DEF ConfigureKey
  <2>2. CASE DeleteKeychainKey
    BY <2>2 DEF DeleteKeychainKey
  <2>3. QED
    BY <2>1, <2>2 DEF Next, vars, Start, AssertKeyAvailable, KillTearingKey, OpenDatabase, Listen,
       Work, ChangePort, ClearDataDir, ClearHalf, Stop
<1>3. QED
  BY <1>1, <1>2 DEF InstTypeOK

(* A step that touches no key and no file, refuses nothing, and leaves the *)
(* process with the key it has, before it has one, or gone.                *)
LEMMA KeysLeft ==
    ASSUME CalmInv, Calm' => Calm, UNCHANGED <<env, keychain, keyFile, file>>,
           refused' \in {refused, "no"},
           \/ proc'.at \notin {"keyed", "opened", "running", "cleared"}
           \/ /\ {proc.at, proc'.at} \subseteq {"keyed", "opened", "running"}
              /\ proc'.key = proc.key
    PROVE  CalmInv'
<1>1. TheKey' = TheKey
  BY DEF TheKey, FindExistingKey
<1>2. QED
  BY <1>1 DEF CalmInv, At

LEMMA CalmStep == ASSUME InstInv, DataInv, CalmInv, [Next]_vars PROVE CalmInv'
<1>0. InstTypeOK /\ KeyInv
  BY DEF InstInv
<1>1. Calm' => Calm
  BY <1>0, MishapsStay DEF Calm
<1>2. proc = [at |-> proc.at, key |-> proc.key, asked |-> proc.asked, port |-> proc.port,
              daemon |-> proc.daemon]
  BY <1>0 DEF InstTypeOK, Processes
<1>3. Down.at = "down"
  BY DEF Down
<1> SUFFICES ASSUME Calm, Calm' PROVE CalmInv'
  BY <1>1 DEF CalmInv
<1>4. Answers = {keychain.mode = "reliable"} /\ mishaps = {} /\ mishaps' = {}
  BY <1>0, OneAnswer DEF Calm
<1>5. CASE Start
  <2>1. proc'.at = "started"
    BY <1>5 DEF Start, Down
  <2>2. env' = env
    BY <1>4, <1>5 DEF Start
  <2>3. QED
    BY <1>1, <1>5, <2>1, <2>2, KeysLeft DEF Start
<1>6. CASE AssertKeyAvailable
  <2>1. CASE file.form # "encrypted"
    <3>1. proc'.at = "keyless"
      BY <1>2, <1>6, <2>1 DEF AssertKeyAvailable, Goto
    <3>2. UNCHANGED refused
      BY <1>6, <2>1 DEF AssertKeyAvailable
    <3>3. QED
      BY <1>1, <1>6, <3>1, <3>2, KeysLeft DEF AssertKeyAvailable
  <2>2. CASE file.form = "encrypted"
    <3>1. file.key = TheKey /\ TheKey # NoKey /\ TheKey # Torn
      <4>1. file.key = TheKey /\ file.key # NoKey
        BY <2>2 DEF CalmInv
      <4>2. file.key # Torn
        BY <1>0, InstallationAssumption DEF InstTypeOK, Keys, EnvKey, NoKey, Torn
      <4>3. QED
        BY <4>1, <4>2
    <3>2. /\ proc' = [proc EXCEPT !.at = "keyed", !.key = TheKey]
          /\ UNCHANGED refused
      BY <1>4, <1>6, <2>2, <3>1 DEF AssertKeyAvailable, TheKey
    <3>3. proc'.at = "keyed" /\ proc'.key = TheKey
      BY <1>2, <3>2
    <3>4. TheKey' = TheKey
      BY <1>6 DEF AssertKeyAvailable, TheKey, FindExistingKey
    <3>5. QED
      BY <1>6, <2>2, <3>1, <3>2, <3>3, <3>4 DEF AssertKeyAvailable, CalmInv, At
  <2>3. QED
    BY <2>1, <2>2
<1>7. CASE ConfigureKey
  <2>1. file'.form # "encrypted"
    BY <1>0, <1>7 DEF ConfigureKey, KeyInv
  <2>2. TheKey # Torn
    <3>1. keychain.key # Torn /\ EnvKey # Torn
      BY <1>0, InstallationAssumption DEF InstTypeOK, Keys, EnvKey, NoKey, Torn
    <3>2. QED
      BY <3>1 DEF TheKey, FindExistingKey, CalmInv
  <2>3. CASE TheKey = NoKey
    <3>1. /\ lastKey < MaxKeys /\ lastKey' = lastKey + 1
          /\ IF keychain.mode = "reliable"
               THEN keychain' = [keychain EXCEPT !.key = lastKey'] /\ UNCHANGED keyFile
               ELSE keyFile' = lastKey' /\ UNCHANGED keychain
          /\ proc' = [proc EXCEPT !.at = "keyed", !.key = lastKey']
          /\ UNCHANGED refused
      BY <1>4, <1>7, <2>2, <2>3 DEF ConfigureKey, TheKey
    <3>2. proc'.at = "keyed" /\ proc'.key = lastKey'
      BY <1>2, <3>1
    <3>3. lastKey' # NoKey /\ lastKey' # Torn
      BY <1>0, <3>1, InstallationAssumption DEF InstTypeOK, Keys, EnvKey, NoKey, Torn
    <3>4. ~env /\ UNCHANGED env
      <4>1. env => TheKey = EnvKey
        BY Zenon DEF TheKey, FindExistingKey
      <4>2. EnvKey # NoKey
        BY DEF EnvKey, NoKey
      <4>3. UNCHANGED env
        BY <1>7, Zenon DEF ConfigureKey
      <4>4. QED
        BY <2>3, <4>1, <4>2, <4>3, Zenon
    <3>5. TheKey' = lastKey'
      <4>1. CASE keychain.mode = "reliable"
        <5>1. keychain'.mode = "reliable" /\ keychain'.key = lastKey'
          BY <1>0, <3>1, <4>1 DEF InstTypeOK
        <5>2. QED
          BY <3>3, <3>4, <5>1 DEF TheKey, FindExistingKey
      <4>2. CASE keychain.mode # "reliable"
        BY <3>1, <3>4, <4>2 DEF TheKey, FindExistingKey
      <4>3. QED
        BY <4>1, <4>2
    <3>6. keyFile' # Torn
      BY <3>1, <3>3 DEF CalmInv
    <3>7. QED
      BY <2>1, <3>1, <3>2, <3>3, <3>5, <3>6 DEF CalmInv, At
  <2>4. CASE TheKey # NoKey
    <3>1. /\ proc' = [proc EXCEPT !.at = "keyed", !.key = TheKey]
          /\ UNCHANGED <<keychain, keyFile, refused>>
      BY <1>4, <1>7, <2>2, <2>4 DEF ConfigureKey, TheKey
    <3>2. proc'.at = "keyed" /\ proc'.key = TheKey
      BY <1>2, <3>1
    <3>3. TheKey' = TheKey
      BY <1>7, <3>1 DEF ConfigureKey, TheKey, FindExistingKey
    <3>4. QED
      BY <2>1, <2>4, <3>1, <3>2, <3>3 DEF CalmInv, At
  <2>5. QED
    BY <2>3, <2>4
<1>8. CASE KillTearingKey
  BY <1>4, <1>8 DEF KillTearingKey
<1>9. CASE OpenDatabase
  <2> DEFINE migrated == RunMigrations(file.data)
  <2>1. IndexesHold(migrated)
    BY DataMigrates, UpToDateIsSound
  <2>2. proc.key = TheKey /\ TheKey # NoKey
    BY <1>9 DEF OpenDatabase, CalmInv, At
  <2>3. file.form = "encrypted" => file.key = proc.key
    BY <2>2 DEF CalmInv
  <2>4. file' = Encrypted(proc.key, migrated) /\ Goto("opened") /\ UNCHANGED refused
    BY <1>9, <2>1, <2>3, Zenon DEF OpenDatabase
  <2> HIDE DEF migrated
  <2>5. proc'.at = "opened" /\ proc'.key = proc.key
    BY <1>2, <2>4 DEF Goto
  <2>6. file'.key = proc.key
    BY <2>4, EncryptedFields
  <2>7. TheKey' = TheKey /\ UNCHANGED keyFile
    BY <1>9 DEF OpenDatabase, TheKey, FindExistingKey
  <2>8. QED
    BY <2>2, <2>4, <2>5, <2>6, <2>7 DEF CalmInv, At
<1>10. CASE Listen
  <2>1. proc' = Down \/ \E port : proc' = [proc EXCEPT !.at = "running", !.port = port]
    BY <1>10 DEF Listen
  <2>2. proc'.at = "down" \/ (proc'.at = "running" /\ proc'.key = proc.key)
    BY <1>2, <1>3, <2>1
  <2>3. proc.at = "opened" /\ UNCHANGED <<env, keychain, keyFile, file, refused>>
    BY <1>10 DEF Listen, At
  <2>4. QED
    BY <1>1, <2>2, <2>3, KeysLeft
<1>11. CASE Work
  <2>1. PICK d \in LeftBy(Current) : file' = Encrypted(proc.key, d)
    BY <1>11 DEF Work
  <2>2. file'.key = proc.key
    BY <2>1, EncryptedFields
  <2>3. proc.at = "running" /\ UNCHANGED <<env, keychain, keyFile, proc, refused>>
    BY <1>11 DEF Work, At
  <2>4. TheKey' = TheKey
    BY <2>3 DEF TheKey, FindExistingKey
  <2>5. QED
    BY <2>2, <2>3, <2>4 DEF CalmInv, At
<1>12. CASE ChangePort
  <2>1. proc'.at = "started"
    BY <1>12 DEF ChangePort, Down
  <2>2. QED
    BY <1>1, <1>12, <2>1, KeysLeft DEF ChangePort
<1>13. CASE ClearDataDir
  <2>1. proc'.at = "cleared"
    BY <1>2, <1>13 DEF ClearDataDir, Goto
  <2>2. file' = Absent /\ keyFile' = NoKey /\ UNCHANGED refused
    BY <1>4, <1>13 DEF ClearDataDir
  <2>3. NoKey # Torn
    BY InstallationAssumption DEF NoKey, Torn
  <2>4. QED
    BY <2>1, <2>2, <2>3, AbsentFields DEF CalmInv, At
<1>14. CASE ClearHalf
  <2>1. proc'.at = "down"
    BY <1>3, <1>14 DEF ClearHalf
  <2>2. file' = Absent /\ keyFile' \in {keyFile, NoKey} /\ UNCHANGED refused
    BY <1>4, <1>14 DEF ClearHalf
  <2>3. NoKey # Torn
    BY InstallationAssumption DEF NoKey, Torn
  <2>4. QED
    BY <2>1, <2>2, <2>3, AbsentFields DEF CalmInv, At
<1>15. CASE DeleteKeychainKey
  <2>1. proc'.at = "down"
    BY <1>3, <1>15 DEF DeleteKeychainKey
  <2>2. file'.form # "encrypted" /\ UNCHANGED <<keyFile, refused>>
    BY <1>15 DEF DeleteKeychainKey, CalmInv
  <2>3. QED
    BY <2>1, <2>2 DEF CalmInv, At
<1>16. CASE Stop
  BY <1>1, <1>3, <1>16, KeysLeft DEF Stop
<1>17. CASE UNCHANGED vars
  <2>1. UNCHANGED <<env, keychain, keyFile, file, refused, proc, mishaps>>
    BY <1>17 DEF vars
  <2>2. TheKey' = TheKey
    BY <2>1 DEF TheKey, FindExistingKey
  <2>3. QED
    BY <2>1, <2>2 DEF CalmInv, At
<1>18. QED
  BY <1>5, <1>6, <1>7, <1>8, <1>9, <1>10, <1>11, <1>12, <1>13, <1>14, <1>15, <1>16, <1>17
     DEF Next

THEOREM CalmInvariant == Spec => []CalmInv
<1>1. InstInv /\ DataInv /\ CalmInv /\ [Next]_vars => CalmInv'
  BY CalmStep
<1>2. ASSUME Init PROVE CalmInv
  <2>1. file.form # "encrypted"
    BY <1>2 DEF Init, Absent
  <2>2. NoKey # Torn
    BY InstallationAssumption DEF NoKey, Torn
  <2>3. QED
    BY <1>2, <2>1, <2>2 DEF Init, CalmInv, At, Down
<1>3. QED
  BY <1>1, <1>2, InstInvariant, DataInvariant, PTL DEF Spec

(* Without a mishap outside the program no start is ever refused, whatever *)
(* starts, port changes and clearings came before.                         *)
THEOREM NotRefused == Spec => []StartsUnlessMishap
<1>1. CalmInv => StartsUnlessMishap
  BY DEF CalmInv, Calm, StartsUnlessMishap
<1>2. QED
  BY <1>1, CalmInvariant, PTL
=============================================================================
