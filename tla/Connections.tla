---------------------------- MODULE Connections ----------------------------
(***************************************************************************)
(* One user's saved GitHub connections, from the Connect page              *)
(* (ConnectPage.tsx) over the routes that verify a credential on GitHub    *)
(* before they store it (routes/connections.ts) and the rows they are kept *)
(* in (connectionsRepository.ts) to the clients a job's preview and its    *)
(* execution are given (loadConnection.ts, client.ts, appAuth.ts).         *)
(*                                                                         *)
(* Every query is filtered by the user's id, so users do not interact: the *)
(* tabs are browser tabs of one user, and the job is one of that user's.   *)
(* An id is the position of a connection in the order they were made (a    *)
(* random UUID in the code, never used twice).                             *)
(***************************************************************************)
EXTENDS Integers, Sequences, FiniteSets

CONSTANTS
    Tabs,              \* the user's browser tabs
    Apps,              \* GitHub Apps, each an App ID with its private key
    Orgs,              \* accounts an App may be installed on
    Installed,         \* every installation there may be: pairs of an App and an account
    JobOrgs,           \* the accounts whose repositories the job is about
    Hosts,             \* the forms in which a host is typed
    MaxConnections     \* how many connections are ever saved (a bound)

PAT == "PAT"
GITHUB_APP == "GITHUB_APP"
NoId == 0              \* no connection; of a resolver, that it threw
Unresolved == -1

VARIABLES
    made,       \* every connection ever inserted, in order
    saved,      \* the ids that have a row in connections
    active,     \* those with is_active = 1
    bound,      \* connection_installations: pairs of an id and an installation
    page,       \* what each tab shows and holds
    req,        \* the request each tab has in flight
    job         \* the user's job and its two resolvers

rows == <<made, saved, active, bound>>
vars == <<rows, page, req, job>>

Ids == 1 .. Len(made)
TypeOf(id) == made[id].type

(***************************************************************************)
(* The forms in which one host may be typed: with a scheme, with the API   *)
(* path, with slashes at the end.  Hosts, a constant, are those typed.     *)
(***************************************************************************)
HostForms == [scheme : BOOLEAN, path : BOOLEAN, slashes : Nat]
BareHost == [scheme |-> FALSE, path |-> FALSE, slashes |-> 0]

NormalizeGheHost(h) ==
    [ scheme  |-> FALSE,
      path    |-> h.path /\ h.slashes > 1,     \* the pattern allows one slash
      slashes |-> 0 ]

ASSUME ConnectionsAssumption ==
    /\ Installed \subseteq Apps \X Orgs
    /\ JobOrgs \subseteq Orgs
    /\ Hosts \subseteq HostForms
    /\ MaxConnections \in Nat
    /\ PAT \notin Apps
-----------------------------------------------------------------------------
(* Rows.  Each operator is one transaction of connectionsRepository.ts.    *)

ReplaceWithPatConnection(host) ==
    LET gone == {id \in saved : TypeOf(id) = PAT}
        new  == Len(made) + 1
    IN  /\ made' = Append(made, [type |-> PAT, credential |-> PAT,
                                 installations |-> {}, host |-> host])
        /\ saved' = (saved \ gone) \cup {new}
        /\ active' = {new}
        /\ UNCHANGED bound

ReplaceWithGithubAppConnection(app, matched, host) ==
    LET gone == {id \in saved : TypeOf(id) = GITHUB_APP}
        new  == Len(made) + 1
    IN  /\ made' = Append(made, [type |-> GITHUB_APP, credential |-> app,
                                 installations |-> matched, host |-> host])
        /\ saved' = (saved \ gone) \cup {new}
        /\ active' = {new}
        /\ bound' = {b \in bound : b[1] \notin gone} \cup ({new} \X matched)

(* Throws ConnectionNotFoundError, a 404, for an id without a row.         *)
ActivateConnection(id) ==
    /\ active' = IF id \in saved THEN {id} ELSE active
    /\ UNCHANGED <<made, saved, bound>>

(* A mutant: nothing takes over from the active connection.                *)
DeleteConnectionOnly(id) ==
    /\ saved' = saved \ {id}
    /\ active' = active \ {id}
    /\ bound' = {b \in bound : b[1] # id}
    /\ UNCHANGED made

(* A no-op for an id without a row; otherwise whichever slot remains takes *)
(* over from an active connection.                                         *)
DeleteConnection(id) ==
    IF id \notin saved
      THEN UNCHANGED rows
      ELSE /\ saved' = saved \ {id}
           /\ bound' = {b \in bound : b[1] # id}
           /\ active' = IF id \in active
                          THEN IF saved \ {id} = {} THEN {}
                               ELSE {CHOOSE other \in saved \ {id} : TRUE}
                          ELSE active
           /\ UNCHANGED made

(* getCurrentConnectionRow: LIMIT 1 of the user's active rows.             *)
Current == IF active = {} THEN NoId ELSE CHOOSE id \in active : TRUE

(* A mutant: the connection's first installation serves every account.     *)
ServedByFirst(org) == Current

Covers(id, org) ==
    TypeOf(id) = PAT \/ \E i \in made[id].installations : i[2] = org

(* loadOctokitForOrg: whose client serves an account.  NoConnectionError   *)
(* and OrgNotInstalledError fail the repository's row in the same way.     *)
ServedBy(org) ==
    IF Current # NoId /\ ( \/ TypeOf(Current) = PAT
                          \/ \E b \in bound : b[1] = Current /\ b[2][2] = org )
      THEN Current ELSE NoId
-----------------------------------------------------------------------------
Installations == Apps \X Orgs
NoReq == [op |-> "none"]
Changed == [op |-> "changed"]        \* answered: a mutation of the rows succeeded

Request ==
    [op : {"none", "changed"}]
      \cup [op : {"activate", "delete"}, id : Nat]
      \cup [op : {"pat"}, host : HostForms]
      \cup [op : {"app"}, app : Apps, host : HostForms, chosen : SUBSET Installations]

(* A page that has just mounted, its list fetched.                         *)
Mounted(list, inUse) ==
    [list |-> list, inUse |-> inUse, listed |-> {}]

Init ==
    /\ made = <<>> /\ saved = {} /\ active = {} /\ bound = {}
    /\ page = [t \in Tabs |-> Mounted({}, {})]
    /\ req = [t \in Tabs |-> NoReq]
    /\ job = [stage |-> "none", preview |-> [o \in JobOrgs |-> Unresolved],
              run |-> [o \in JobOrgs |-> Unresolved]]
-----------------------------------------------------------------------------
(* The page.  Its form comes instead of the cards when there are none or   *)
(* the user asks for it, and goes when he asks again: a click that changes *)
(* nothing else, so each is taken to be at hand whenever it may be.        *)

Send(t, r) == req[t] = NoReq /\ req' = [req EXCEPT ![t] = r]

(* A tab is opened or reloaded: the component starts from its initial      *)
(* state once the list is there.                                           *)
OpenPage(t) ==
    /\ req[t] = NoReq
    /\ page' = [page EXCEPT ![t] = Mounted(saved, active)]
    /\ UNCHANGED <<rows, req, job>>

TapCard(t) ==
    /\ \E id \in page[t].list \ page[t].inUse :
          Send(t, [op |-> "activate", id |-> id])
    /\ UNCHANGED <<rows, page, job>>

(* The bin on a card and the confirmation it asks for, which is only there *)
(* while the list still has the connection.                                *)
ConfirmRemove(t) ==
    /\ \E id \in page[t].list : Send(t, [op |-> "delete", id |-> id])
    /\ UNCHANGED <<rows, page, job>>

SubmitPat(t) ==
    /\ \E h \in Hosts : Send(t, [op |-> "pat", host |-> h])
    /\ UNCHANGED <<rows, page, job>>

(* listAppInstallations: what GitHub may answer to an App ID and its key,  *)
(* as accounts install the App and uninstall it.                           *)
ListAppInstallations(app) == SUBSET {i \in Installed : i[1] = app}

(* The listing is replaced by an answer or lost to an error.  The handler  *)
(* only reads, and later steps may overtake what the tab then holds, so the*)
(* request and its answer are one step.                                    *)
ListInstallations(t) ==
    /\ \E a \in Apps : \E listing \in ListAppInstallations(a) \cup {{}} :
          page' = [page EXCEPT ![t].listed = listing]
    /\ UNCHANGED <<rows, req, job>>

(* The user chooses from the list, and connects what he chose.  The App ID *)
(* and the key are sent as the fields have them now, and those may have    *)
(* been edited since the installations were listed.                        *)
ConnectSelected(t) ==
    /\ \E a \in Apps, h \in Hosts, chosen \in (SUBSET page[t].listed) \ {{}} :
          Send(t, [op |-> "app", app |-> a, host |-> h, chosen |-> chosen])
    /\ UNCHANGED <<rows, page, job>>
-----------------------------------------------------------------------------
(* The server.  A handler that asks GitHub first does the rest, after the  *)
(* await, in one go.                                                       *)

(* An error changes nothing at the page but its message.                   *)
Reply(t, r) == req' = [req EXCEPT ![t] = r]

PostConnection(t) ==
    /\ req[t].op = "pat"
    /\ \/ Len(made) < MaxConnections          \* getAuthenticated accepts the token
          /\ ReplaceWithPatConnection(NormalizeGheHost(req[t].host))
          /\ Reply(t, Changed)
       \/ Reply(t, NoReq) /\ UNCHANGED rows
    /\ UNCHANGED <<page, job>>

(* A mutant: the ids the client sent are taken as they come.               *)
MatchTrusting(listing, chosen) == chosen

(* An id the App does not list is a 400, never a partial connection.       *)
Match(listing, chosen) == IF chosen \subseteq listing THEN chosen ELSE {}

PostGithubApp(t) ==
    /\ req[t].op = "app"
    /\ \/ /\ Len(made) < MaxConnections
          /\ \E listing \in ListAppInstallations(req[t].app) :
                LET matched == Match(listing, req[t].chosen)
                IN  /\ matched # {}
                    /\ ReplaceWithGithubAppConnection(req[t].app, matched,
                                                      NormalizeGheHost(req[t].host))
          /\ Reply(t, Changed)
       \/ Reply(t, NoReq) /\ UNCHANGED rows
    /\ UNCHANGED <<page, job>>

PostActivate(t) ==
    /\ req[t].op = "activate"
    /\ ActivateConnection(req[t].id)
    /\ Reply(t, IF req[t].id \in saved THEN Changed ELSE NoReq)
    /\ UNCHANGED <<page, job>>

DeleteRoute(t) ==
    /\ req[t].op = "delete"
    /\ DeleteConnection(req[t].id)
    /\ Reply(t, Changed)
    /\ UNCHANGED <<page, job>>

(* The answer reaches the tab: onSuccess of the four mutations starts the  *)
(* refetch of what invalidateQueries names.                                *)
Receive(t) ==
    /\ req[t] = Changed
    /\ page' = [page EXCEPT ![t].list = saved, ![t].inUse = active]
    /\ Reply(t, NoReq)
    /\ UNCHANGED <<rows, job>>

-----------------------------------------------------------------------------
(* The job: the preview and the execution each make a resolver, which asks *)
(* for an account's client once and keeps the promise.  Its repositories   *)
(* come to their turn one after the other, awaits in between.              *)

Preview ==
    /\ job.stage = "none" /\ Current # NoId       \* 400 without a connection
    /\ job' = [job EXCEPT !.stage = "previewing"]
    /\ UNCHANGED <<rows, page, req>>

ResolvePreview ==
    /\ job.stage = "previewing"
    /\ \E o \in JobOrgs :
          /\ job.preview[o] = Unresolved
          /\ job' = [job EXCEPT !.preview[o] = ServedBy(o)]
    /\ UNCHANGED <<rows, page, req>>

Execute ==
    /\ job.stage = "previewing" /\ \A o \in JobOrgs : job.preview[o] # Unresolved
    /\ Current # NoId
    /\ job' = [job EXCEPT !.stage = "running"]
    /\ UNCHANGED <<rows, page, req>>

ResolveRun ==
    /\ job.stage = "running"
    /\ \E o \in JobOrgs :
          /\ job.run[o] = Unresolved
          /\ job' = [job EXCEPT !.run[o] = ServedBy(o)]
    /\ UNCHANGED <<rows, page, req>>

Page(t) ==
    \/ OpenPage(t) \/ TapCard(t) \/ ConfirmRemove(t)
    \/ SubmitPat(t) \/ ListInstallations(t) \/ ConnectSelected(t)
    \/ Receive(t)

Server(t) ==
    \/ PostConnection(t) \/ PostGithubApp(t)
    \/ PostActivate(t) \/ DeleteRoute(t)

Next ==
    \/ \E t \in Tabs : Page(t) \/ Server(t)
    \/ Preview \/ ResolvePreview \/ Execute \/ ResolveRun

Spec == Init /\ [][Next]_vars
-----------------------------------------------------------------------------
Resolved == [JobOrgs -> {Unresolved} \cup Nat]

(* The type of the state.                                                  *)
ConnTypeOK ==
    /\ made \in Seq([type : {PAT, GITHUB_APP}, credential : {PAT} \cup Apps,
                     installations : SUBSET Installations, host : HostForms])
    /\ saved \subseteq Ids /\ active \subseteq saved
    /\ bound \subseteq saved \X Installations
    /\ page \in [Tabs -> [list : SUBSET Nat, inUse : SUBSET Nat,
                          listed : SUBSET Installations]]
    /\ req \in [Tabs -> Request]
    /\ job \in [stage : {"none", "previewing", "running"},
                preview : Resolved, run : Resolved]

OnePerType == \A a, b \in saved : TypeOf(a) = TypeOf(b) => a = b

OneActive == saved # {} => \E id \in saved : active = {id}

BoundToOwnApp ==
    /\ \A id \in saved, i \in Installations :
          <<id, i>> \in bound <=> i \in made[id].installations
    /\ \A id \in Ids :
          /\ TypeOf(id) = PAT => made[id].installations = {}
          /\ TypeOf(id) = GITHUB_APP => /\ made[id].installations # {}
                                       /\ made[id].installations \subseteq Installed
          /\ \A i \in made[id].installations : i[1] = made[id].credential

(* What is stored has no scheme and no slash at its end, so that           *)
(* buildGheBaseUrl, which strips again, makes the one base URL of it.      *)
HostUsable ==
    \A id \in Ids :
        /\ ~made[id].host.scheme
        /\ made[id].host.slashes = 0
        /\ NormalizeGheHost(made[id].host) = BareHost

(* The canonical stored form is the bare hostname (host.ts:8-10), which    *)
(* the commit links and the allow-list take as it is.  It does not hold of *)
(* a host typed with the API path and two slashes after it, of which the   *)
(* path is stored too; what the comment lists is one slash.                *)
HostsStoredBare == \A id \in Ids : made[id].host = BareHost

(* Whatever tabs interleave (a replacement verified on GitHub while the    *)
(* other slot is switched, a removal of a card that is no longer current), *)
(* there is at most one connection of a type, exactly one is active as soon*)
(* as there is any, an App connection is bound to installations the App it *)
(* authenticates as did list, all of those chosen, and none without its    *)
(* connection; and the base URL its clients get is the host's in whatever  *)
(* form it was typed (replaceWith*, activateConnection, deleteConnection,  *)
(* normalizeGheHost, buildGheBaseUrl).                                     *)
SlotsInv == OnePerType /\ OneActive /\ BoundToOwnApp /\ HostUsable

(* A page that lists connections always offers to continue with exactly one*)
(* of them: the user is never "connected but nothing active" (Connect page,*)
(* deleteConnection), however stale its list.                              *)
ContinueOffered ==
    \A t \in Tabs : page[t].list # {} => \E id \in page[t].list : page[t].inUse = {id}

(* No client a resolver handed out acts on an account its connection has no*)
(* installation for, whatever was connected, switched or removed while the *)
(* preview or the run went on (loadOctokitForOrg).                         *)
ClientsCoverTheirOrg ==
    \A o \in JobOrgs : \A id \in {job.preview[o], job.run[o]} :
        id \notin {Unresolved, NoId} => id \in Ids /\ Covers(id, o)

(* What jobQueue.ts and loadConnection.ts say of a run: "a run always      *)
(* executes under the credential that actually previewed it".              *)
PreviewedCredential ==
    \A o \in JobOrgs :
        {job.preview[o], job.run[o]} \subseteq Ids
          => made[job.run[o]].credential = made[job.preview[o]].credential
=============================================================================
