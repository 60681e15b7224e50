---------------------------- MODULE Installation ----------------------------
(***************************************************************************)
(* One installation of the program from start to start: the command line   *)
(* (cli/args.ts, cli/port.ts), the encryption key found or made            *)
(* (crypto.ts, secrets.ts, keychain.ts), the database opened and brought up*)
(* to date (db.ts, through Migrations), the port (cli/cliConfig.ts) and the*)
(* terminal's menu with its restart, its clearing of all data and its exit *)
(* (index.ts, cli/interactiveCli.ts, cli/menuSelect.ts).                   *)
(*                                                                         *)
(* The keychain answers nothing when it cannot be asked; the environment   *)
(* may hold ENCRYPTION_KEY at one start and not at the next; the process   *)
(* may be killed anywhere.  A file is written as EncryptedStore says: its  *)
(* replacement is one step here.                                           *)
(***************************************************************************)
EXTENDS Migrations

CONSTANTS
    Keychains,      \* "reliable", "absent" (headless), "flaky"
    Places,         \* of the database: "inside" or "outside" the data directory
    Ports,
    MaxKeys,        \* how many keys are ever generated (a bound)
    MaxStarts       \* how often the program is started (a bound)

ASSUME InstallationAssumption ==
    /\ Keychains \subseteq {"reliable", "absent", "flaky"}
    /\ MaxKeys \in Nat \ {0} /\ MaxStarts \in Nat

NoKey == 0
Torn == MaxKeys + 1     \* of a key file: cut off by a kill
EnvKey == 1             \* what ENCRYPTION_KEY holds when it is set
NoPort == 0

VARIABLES
    place,      \* where DATABASE_PATH points
    env,        \* whether ENCRYPTION_KEY is set
    keychain,   \* what it is like, and the key it holds
    keyFile,    \* encryption.key in the data directory
    file,       \* the database file
    savedPort,  \* cli-config.json
    proc,       \* the process: where it is, the key it has cached, its ports
    lastKey,    \* keys generated
    starts,     \* how often it was started (history, for the bound)
    mishaps,    \* what went wrong outside the program (history)
    refused     \* why the last start did not get past the key and the database

vars == <<place, env, keychain, keyFile, file, savedPort, proc, lastKey, starts,
          mishaps, refused>>

Absent == [form |-> "absent", key |-> NoKey, data |-> Fresh]
Encrypted(key, data) == [form |-> "encrypted", key |-> key, data |-> data]

Down == [at |-> "down", key |-> NoKey, asked |-> NoPort, port |-> NoPort, daemon |-> FALSE]
At(stage) == proc.at = stage
Goto(stage) == proc' = [proc EXCEPT !.at = stage]

(* A start refused: the error is printed, and the process exits.           *)
Refuse(why) == proc' = Down /\ refused' = why
-----------------------------------------------------------------------------
(* getFromKeychain, setInKeychain and deleteFromKeychain: the tool may be  *)
(* missing, and at times fail where it is not.                             *)
Answers == CASE keychain.mode = "reliable" -> {TRUE}
             [] keychain.mode = "absent" -> {FALSE}
             [] OTHER -> BOOLEAN

(* findExistingEncryptionKey. *)
FindExistingKey(answered) ==
    IF env THEN EnvKey
    ELSE IF answered /\ keychain.key # NoKey THEN keychain.key
    ELSE keyFile

(* One legacy database or none: encrypted ones come about by running.      *)
Init ==
    /\ place \in Places /\ env \in BOOLEAN
    /\ keychain \in [mode : Keychains, key : {NoKey}]
    /\ keyFile = NoKey
    /\ \/ file = Absent
       \/ \E v \in Versions : \E d \in LeftBy(v) :
             file = [form |-> "plain", key |-> NoKey, data |-> d]
    /\ savedPort = NoPort /\ proc = Down
    /\ lastKey = EnvKey /\ starts = 0 /\ mishaps = {} /\ refused = "no"

(* By hand, with a port or without, in a terminal or with --daemon; what   *)
(* the environment holds may have changed.                                 *)
Start ==
    /\ At("down") /\ starts < MaxStarts
    /\ starts' = starts + 1
    /\ \E port \in Ports \cup {NoPort}, daemon \in BOOLEAN :
          proc' = [Down EXCEPT !.at = "started", !.asked = port, !.daemon = daemon]
    /\ env' \in BOOLEAN
    /\ mishaps' = IF env' = env THEN mishaps ELSE mishaps \cup {"environment"}
    /\ refused' = "no"
    /\ UNCHANGED <<place, keychain, keyFile, file, savedPort, lastKey>>

(* Mutant: it is left to the key's resolution. *)
AssertKeyAvailableNot ==
    /\ At("started") /\ Goto("keyless")
    /\ UNCHANGED <<place, env, keychain, keyFile, file, savedPort, lastKey, starts, mishaps,
                   refused>>

(* assertEncryptionKeyAvailableFor: an encrypted database has its key      *)
(* looked for before anything can make a new one.                          *)
AssertKeyAvailable ==
    /\ At("started")
    /\ IF file.form # "encrypted"
         THEN Goto("keyless") /\ UNCHANGED refused
         ELSE \E answered \in Answers :
                 LET key == FindExistingKey(answered)
                 IN  CASE key = Torn -> Refuse("bad key")
                       [] key = NoKey -> Refuse("no key")
                       [] OTHER -> /\ proc' = [proc EXCEPT !.at = "keyed", !.key = key]
                                   /\ UNCHANGED refused
    /\ UNCHANGED <<place, env, keychain, keyFile, file, savedPort, lastKey, starts, mishaps>>

(* resolveEncryptionKey, from assertEncryptionKeyConfigured: the key that  *)
(* is found, or a new one, kept in the keychain if that takes it.          *)
ConfigureKey ==
    /\ At("keyless")
    /\ \E answered, stored \in Answers :
          LET key == FindExistingKey(answered)
          IN  CASE key = Torn ->
                     Refuse("bad key") /\ UNCHANGED <<keychain, keyFile, lastKey>>
                [] key = NoKey ->
                     /\ lastKey < MaxKeys /\ lastKey' = lastKey + 1
                     /\ IF stored
                          THEN keychain' = [keychain EXCEPT !.key = lastKey'] /\ UNCHANGED keyFile
                          ELSE keyFile' = lastKey' /\ UNCHANGED keychain
                     /\ proc' = [proc EXCEPT !.at = "keyed", !.key = lastKey']
                     /\ UNCHANGED refused
                [] OTHER ->
                     /\ proc' = [proc EXCEPT !.at = "keyed", !.key = key]
                     /\ UNCHANGED <<keychain, keyFile, lastKey, refused>>
    /\ mishaps' = IF keychain.mode = "flaky" THEN mishaps \cup {"keychain"} ELSE mishaps
    /\ UNCHANGED <<place, env, file, savedPort, starts>>

(* Killed while the new key's file is written.                             *)
KillTearingKey ==
    /\ At("keyless") /\ lastKey < MaxKeys
    /\ FALSE \in Answers /\ FindExistingKey(FALSE) = NoKey
    /\ keyFile' = Torn /\ proc' = Down
    /\ mishaps' = mishaps \cup {"torn"}
    /\ UNCHANGED <<place, env, keychain, file, savedPort, lastKey, starts, refused>>

(* openDatabase: read it, run the migrations, write it back.               *)
OpenDatabase ==
    /\ At("keyed")
    /\ IF file.form = "encrypted" /\ file.key # proc.key
         THEN Refuse("wrong key") /\ UNCHANGED file
         ELSE LET migrated == RunMigrations(file.data)
              IN  IF IndexesHold(migrated)
                    THEN /\ file' = Encrypted(proc.key, migrated)
                         /\ Goto("opened") /\ UNCHANGED refused
                    ELSE Refuse("index") /\ UNCHANGED file
    /\ UNCHANGED <<place, env, keychain, keyFile, savedPort, lastKey, starts, mishaps>>

(* The port: the one asked for, the one used last or the default.  A taken *)
(* one ends a daemon; a terminal is asked for another, until one is free.  *)
Offered == IF proc.asked # NoPort THEN proc.asked
           ELSE IF savedPort # NoPort THEN savedPort ELSE CHOOSE p \in Ports : TRUE

Listen ==
    /\ At("opened")
    /\ \/ \E port \in Ports :
             /\ proc.daemon => port = Offered
             /\ proc' = [proc EXCEPT !.at = "running", !.port = port]
             /\ savedPort' = port
       \/ proc.daemon /\ proc' = Down /\ UNCHANGED savedPort
    /\ UNCHANGED <<place, env, keychain, keyFile, file, lastKey, starts, mishaps, refused>>

(* The running program writes rows as the current version does.            *)
Work ==
    /\ At("running")
    /\ \E d \in LeftBy(Current) : file' = Encrypted(proc.key, d)
    /\ UNCHANGED <<place, env, keychain, keyFile, savedPort, proc, lastKey, starts, mishaps,
                   refused>>

Terminal == At("running") /\ ~proc.daemon

(* "Change port": flush, close, and a process of its own that is given the *)
(* port; it starts as by hand, in the same environment.                    *)
ChangePort ==
    /\ Terminal /\ starts < MaxStarts
    /\ \E port \in Ports \ {proc.port} :
          proc' = [Down EXCEPT !.at = "started", !.asked = port]
    /\ starts' = starts + 1
    /\ UNCHANGED <<place, env, keychain, keyFile, file, savedPort, lastKey, mishaps, refused>>

(* Mutant: the key's file and the preferences go, the database stays.      *)
ClearDataDirNotDatabase ==
    /\ Terminal
    /\ keyFile' = NoKey /\ savedPort' = NoPort
    /\ Goto("cleared")
    /\ mishaps' = IF place = "inside" THEN mishaps ELSE mishaps \cup {"clearing"}
    /\ UNCHANGED <<place, env, keychain, file, lastKey, starts, refused>>

(* "Clear app data", once DELETE was typed: the data directory goes, then  *)
(* the keychain's key.  Directory entries go one by one: the removal may   *)
(* fail half way, which ends the program, or be cut short by a kill.       *)
ClearDataDir ==
    /\ Terminal
    /\ keyFile' = NoKey /\ savedPort' = NoPort
    /\ file' = IF place = "inside" THEN Absent ELSE file
    /\ Goto("cleared")
    /\ mishaps' = IF place = "inside" THEN mishaps ELSE mishaps \cup {"clearing"}
    /\ UNCHANGED <<place, env, keychain, lastKey, starts, refused>>

ClearHalf ==
    /\ Terminal
    /\ keyFile' \in {keyFile, NoKey} /\ savedPort' \in {savedPort, NoPort}
    /\ file' \in {file} \cup {f \in {Absent} : place = "inside"}
    /\ proc' = Down
    /\ mishaps' = IF file' = Absent THEN mishaps ELSE mishaps \cup {"clearing"}
    /\ UNCHANGED <<place, env, keychain, lastKey, starts, refused>>

DeleteKeychainKey ==
    /\ At("cleared")
    /\ \E answered \in Answers :
          /\ keychain' = IF answered THEN [keychain EXCEPT !.key = NoKey] ELSE keychain
          /\ mishaps' = IF keychain.mode = "flaky" THEN mishaps \cup {"keychain"} ELSE mishaps
    /\ proc' = Down
    /\ UNCHANGED <<place, env, keyFile, file, savedPort, lastKey, starts, refused>>

(* Exit, a signal, or a kill.                                              *)
Stop ==
    /\ ~At("down") /\ proc' = Down
    /\ UNCHANGED <<place, env, keychain, keyFile, file, savedPort, lastKey, starts, mishaps,
                   refused>>

Next ==
    \/ Start \/ AssertKeyAvailable \/ ConfigureKey \/ KillTearingKey
    \/ OpenDatabase \/ Listen \/ Work
    \/ ChangePort \/ ClearDataDir \/ ClearHalf \/ DeleteKeychainKey \/ Stop

Spec == Init /\ [][Next]_vars
-----------------------------------------------------------------------------
Keys == EnvKey .. MaxKeys

Processes ==
    [at : {"down", "started", "keyless", "keyed", "opened", "running", "cleared"},
     key : Keys \cup {NoKey}, asked : Ports \cup {NoPort},
     port : Ports \cup {NoPort}, daemon : BOOLEAN]

(* The type of the state. *)
InstTypeOK ==
    /\ place \in Places /\ env \in BOOLEAN
    /\ keychain \in [mode : Keychains, key : Keys \cup {NoKey}]
    /\ keyFile \in Keys \cup {NoKey, Torn}
    /\ file.form \in {"absent", "plain", "encrypted"} /\ file.key \in Keys \cup {NoKey}
    /\ savedPort \in Ports \cup {NoPort}
    /\ proc \in Processes
    /\ lastKey \in Keys /\ starts \in 0 .. MaxStarts

(* An encrypted database never loses its key to a new one, whatever the    *)
(* keychain fails to answer: the key stays in the environment, the keychain*)
(* or its file unless the user had the data cleared                        *)
(* (assertEncryptionKeyAvailableFor).                                      *)
DatabaseKeepsKey ==
    file.form = "encrypted" /\ "clearing" \notin mishaps
        => file.key \in {EnvKey, keychain.key, keyFile}

(* With a keychain that answers always or never, the same environment at   *)
(* every start, no kill in the middle of writing the key and no clearing   *)
(* cut short or of a database kept elsewhere, no start is ever refused,    *)
(* after any number of starts, port changes and clearings.                 *)
StartsUnlessMishap ==
    mishaps = {} /\ keychain.mode # "flaky" => refused = "no"

(* Whatever version left the database, and wherever its opening was cut    *)
(* short: once open it has all the current version counts on, and opening  *)
(* it again changes nothing (runMigrations).                               *)
MigratedUsable ==
    /\ proc.at \in {"opened", "running"} => file.form = "encrypted" /\ Usable(file.data)
    /\ file.form = "encrypted" => RunMigrations(file.data) = file.data

(* What the menu says after clearing: "App data cleared. Run the app again *)
(* to start fresh."                                                        *)
StartsFresh ==
    [][At("cleared") /\ DeleteKeychainKey => file.form = "absent"]_vars
=============================================================================
