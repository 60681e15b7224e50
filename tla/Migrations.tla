----------------------------- MODULE Migrations -----------------------------
(* The schema steps every opening of the database runs (db.ts,             *)
(* runMigrations): what they do to the columns, connections and jobs of a  *)
(* database that some earlier version made.  Each step guards itself.      *)
EXTENDS Naturals

CONSTANT Users          \* accounts

PAT == "PAT"
GITHUB_APP == "GITHUB_APP"
Null == "null"
LocalUser == "local"

ASSUME MigrationsAssumption == Null \notin Users

(* What each version added to the one before, and what it dropped.         *)
Versions == 0 .. 5
Since ==
    [content |-> 0,         \* change_sets.content and its neighbours, repo_runs.diff_summary
     created_at |-> 2,      \* jobs.created_at
     user_id |-> 3,         \* connections.user_id and .host
     is_active |-> 4,       \* connections.is_active, with the two indexes
     installations |-> 5]   \* the table connection_installations
Until == [Since EXCEPT !.content = 0, !.created_at = 5, !.user_id = 5, !.is_active = 5]
Schema(v) == {c \in DOMAIN Since : Since[c] <= v /\ v <= Until[c]}
Current == 5

(* Connections; bound is how many orgs an App's has in the table for them. *)
Connection(v) ==
    {c \in [type : {PAT, GITHUB_APP},
            user : IF v < 3 THEN {Null} ELSE {LocalUser} \cup Users,
            active : IF v < 4 THEN {Null} ELSE BOOLEAN,
            bound : 0 .. 1] : c.bound = 1 <=> v >= 5 /\ c.type = GITHUB_APP}
Job(v) == [started : BOOLEAN, created : IF v < 2 THEN {Null} ELSE {"made"}]

OnePerSlot(conns) ==
    \A c, e \in conns : c.user = e.user /\ (c.type = e.type \/ (c.active /\ e.active)) => c = e

(* What an earlier version left: one connection at all before there were   *)
(* owners, then one per owner, then one of each type with one active.      *)
LeftBy(v) ==
    {d \in [schema : {Schema(v)}, conns : SUBSET Connection(v), jobs : SUBSET Job(v)] :
        /\ v < 3 => \A c, e \in d.conns : c = e
        /\ v = 3 => \A c, e \in d.conns : c.user = e.user => c = e
        /\ v \in 4 .. 5 => OnePerSlot(d.conns)}

Database(schema, conns, jobs) == [schema |-> schema, conns |-> conns, jobs |-> jobs]
Fresh == Database({}, {}, {})
-----------------------------------------------------------------------------
DropColumnIfExists(schema, column) == schema \ {column}
AddColumnIfNotExists(schema, column) == schema \cup {column}

DropContent(d) == Database(DropColumnIfExists(d.schema, "content"), d.conns, d.jobs)

(* jobs.created_at, from started_at where there is one.                    *)
Dated(jobs) ==
    {IF j.created # Null THEN j
     ELSE IF j.started THEN [j EXCEPT !.created = "started"]
     ELSE [j EXCEPT !.created = "now"] : j \in jobs}
DateJobs(d) ==
    Database(AddColumnIfNotExists(d.schema, "created_at"), d.conns, Dated(d.jobs))

(* connections.user_id: rows without an owner are "local".                 *)
Owned(conns) == {IF c.user # Null THEN c ELSE [c EXCEPT !.user = LocalUser] : c \in conns}
OwnConnections(d) ==
    Database(AddColumnIfNotExists(d.schema, "user_id"), Owned(d.conns), d.jobs)

(* connections.is_active, which rows that lack it get as 1.                *)
Activated(conns) == {[c EXCEPT !.active = TRUE] : c \in conns}
ActivateConnections(d) ==
    IF "is_active" \in d.schema THEN d
    ELSE Database(AddColumnIfNotExists(d.schema, "is_active"), Activated(d.conns), d.jobs)

(* Mutant: the rows of versions without the table are left unbound.        *)
BindInstallationsNotAtAll(d) ==
    Database(AddColumnIfNotExists(d.schema, "installations"), d.conns, d.jobs)

(* connection_installations, and a row in it for each App's connection that*)
(* has none. (It must have an installation_id, which every version has set *)
(* in every App's connection it inserted.)                                 *)
Bound(conns) ==
    {IF c.type = GITHUB_APP /\ c.bound = 0 THEN [c EXCEPT !.bound = 1] ELSE c : c \in conns}
BindInstallations(d) ==
    Database(AddColumnIfNotExists(d.schema, "installations"), Bound(d.conns), d.jobs)

(* CREATE UNIQUE INDEX, which fails on rows that break it.                 *)
IndexesHold(d) == OnePerSlot(d.conns)

RunMigrations(d) ==
    BindInstallations(ActivateConnections(OwnConnections(
        DateJobs(DropContent(d)))))

(* What the current version counts on: the connections' slots, an owner for*)
(* each, an org for each App's to list, a date for each job.               *)
Usable(d) ==
    /\ d.schema = Schema(Current)
    /\ OnePerSlot(d.conns)
    /\ \A c \in d.conns : c.user # Null /\ (c.type = GITHUB_APP => c.bound > 0)
    /\ \A j \in d.jobs : j.created # Null
=============================================================================
