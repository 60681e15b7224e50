-------------------------- MODULE ConnectionsProofs --------------------------
(* The slots of a user's connections and the clients made from them, for   *)
(* any tabs, Apps, accounts and number of connections.                     *)
EXTENDS Connections, TLAPS

(* What is inductive: the state's type, the slots, the pages' lists and    *)
(* the clients handed out.                                                 *)
ConnInv == ConnTypeOK /\ SlotsInv /\ ContinueOffered /\ ClientsCoverTheirOrg

USE DEF PAT, GITHUB_APP, NoId, Unresolved

(* A host typed in a form host.ts lists (with or without the scheme, the   *)
(* API path and one slash at the end) is stored bare.                      *)
LEMMA NormalizedIsBare ==
    ASSUME NEW h \in HostForms, h.slashes \in 0 .. 1
    PROVE  NormalizeGheHost(h) = BareHost
<1>1. ~(h.slashes > 1)  OBVIOUS
<1>2. (h.path /\ h.slashes > 1) = FALSE  BY <1>1
<1> QED  BY <1>2, Zenon DEF NormalizeGheHost, BareHost

(* In any form, it is stored without scheme and slash, and stripping it    *)
(* again, as buildGheBaseUrl does, leaves the bare host.                   *)
LEMMA NormalizedTwice ==
    ASSUME NEW h \in HostForms
    PROVE  /\ NormalizeGheHost(h) \in HostForms
           /\ NormalizeGheHost(h).scheme = FALSE
           /\ NormalizeGheHost(h).slashes = 0
           /\ NormalizeGheHost(NormalizeGheHost(h)) = BareHost
<1> DEFINE stored == NormalizeGheHost(h)
<1>1. /\ stored.scheme = FALSE /\ stored.slashes = 0
      /\ (h.path /\ h.slashes > 1) \in BOOLEAN
  BY DEF NormalizeGheHost
<1>2. stored \in HostForms
  BY <1>1 DEF HostForms, NormalizeGheHost
<1> HIDE DEF stored
<1>3. stored.slashes \in 0 .. 1  BY <1>1
<1>4. NormalizeGheHost(stored) = BareHost  BY <1>2, <1>3, NormalizedIsBare
<1> QED  BY <1>1, <1>2, <1>4 DEF stored

(* What a connection is made of.                                           *)
Row == [type : {PAT, GITHUB_APP}, credential : {PAT} \cup Apps,
        installations : SUBSET Installations, host : HostForms]

(* A new connection keeps the earlier ones as they were.                   *)
LEMMA Appended ==
    ASSUME made \in Seq(Row), NEW r \in Row, made' = Append(made, r)
    PROVE  /\ made' \in Seq(Row)
           /\ Len(made') = Len(made) + 1
           /\ made'[Len(made) + 1] = r
           /\ \A id \in Ids : made'[id] = made[id]
           /\ Ids' = Ids \cup {Len(made) + 1}
           /\ Ids \subseteq Ids' /\ Len(made) + 1 \notin Ids /\ Ids' \subseteq Nat
  BY DEF Ids

(* Clients made before stay covered: a connection never changes.           *)
LEMMA ClientsKept ==
    ASSUME ConnInv, UNCHANGED job, Ids \subseteq Ids', \A id \in Ids : made'[id] = made[id]
    PROVE  ClientsCoverTheirOrg'
  BY DEF ConnInv, ClientsCoverTheirOrg, Covers, TypeOf

(* Replacing the PAT leaves one active connection of each type.            *)
LEMMA PatStep ==
    ASSUME ConnInv, NEW h \in HostForms, ReplaceWithPatConnection(NormalizeGheHost(h)),
           UNCHANGED <<page, job>>, req' \in [Tabs -> Request]
    PROVE  ConnInv'
<1> DEFINE new == Len(made) + 1
           r == [type |-> PAT, credential |-> PAT, installations |-> {},
                 host |-> NormalizeGheHost(h)]
<1>1. /\ NormalizeGheHost(h) \in HostForms /\ ~NormalizeGheHost(h).scheme
      /\ NormalizeGheHost(h).slashes = 0
      /\ NormalizeGheHost(NormalizeGheHost(h)) = BareHost
  BY NormalizedTwice
<1>2. r \in Row /\ made' = Append(made, r) /\ made \in Seq(Row)
  BY <1>1 DEF ReplaceWithPatConnection, Row, ConnInv, ConnTypeOK
<1>3. /\ made' \in Seq(Row) /\ Len(made') = new /\ made'[new] = r
      /\ \A id \in Ids : made'[id] = made[id]
      /\ Ids' = Ids \cup {new} /\ Ids \subseteq Ids' /\ new \notin Ids /\ Ids' \subseteq Nat
  BY <1>2, Appended
<1>4. /\ saved' = {id \in saved : made[id].type # PAT} \cup {new}
      /\ active' = {new} /\ bound' = bound /\ saved \subseteq Ids
  BY DEF ReplaceWithPatConnection, ConnInv, ConnTypeOK, TypeOf
<1>5. bound \subseteq {id \in saved : made[id].type # PAT} \X Installations
  BY DEF ConnInv, ConnTypeOK, SlotsInv, BoundToOwnApp, TypeOf
<1>6. ConnTypeOK'
  BY <1>3, <1>4, <1>5 DEF ConnInv, ConnTypeOK, Row, Installations, Resolved
<1>7. OnePerType' /\ OneActive'
  BY <1>3, <1>4 DEF ConnInv, SlotsInv, OnePerType, OneActive, TypeOf
<1>8. BoundToOwnApp' /\ HostUsable'
  <2>1. \A i \in Installations : <<new, i>> \notin bound
    BY <1>3, <1>4 DEF ConnInv, ConnTypeOK
  <2> QED  BY <2>1, <1>1, <1>3, <1>4 DEF ConnInv, SlotsInv, BoundToOwnApp, HostUsable, TypeOf, Installations
<1>9. ContinueOffered'  BY DEF ConnInv, ContinueOffered
<1> QED  BY <1>3, <1>6, <1>7, <1>8, <1>9, ClientsKept DEF ConnInv, SlotsInv

(* So does replacing the GitHub App, whose installations are its own.      *)
LEMMA AppStep ==
    ASSUME ConnInv, NEW h \in HostForms, NEW app \in Apps, NEW matched \in SUBSET Installed,
           matched # {}, \A i \in matched : i[1] = app,
           ReplaceWithGithubAppConnection(app, matched, NormalizeGheHost(h)),
           UNCHANGED <<page, job>>, req' \in [Tabs -> Request]
    PROVE  ConnInv'
<1> DEFINE new == Len(made) + 1
           r == [type |-> GITHUB_APP, credential |-> app, installations |-> matched,
                 host |-> NormalizeGheHost(h)]
           kept == {id \in saved : made[id].type # GITHUB_APP}
<1>1. /\ NormalizeGheHost(h) \in HostForms /\ ~NormalizeGheHost(h).scheme
      /\ NormalizeGheHost(h).slashes = 0
      /\ NormalizeGheHost(NormalizeGheHost(h)) = BareHost
  BY NormalizedTwice
<1>2. r \in Row /\ made' = Append(made, r) /\ made \in Seq(Row)
  BY <1>1, ConnectionsAssumption
  DEF ReplaceWithGithubAppConnection, Row, ConnInv, ConnTypeOK, Installations
<1>3. /\ made' \in Seq(Row) /\ Len(made') = new /\ made'[new] = r
      /\ \A id \in Ids : made'[id] = made[id]
      /\ Ids' = Ids \cup {new} /\ Ids \subseteq Ids' /\ new \notin Ids /\ Ids' \subseteq Nat
  BY <1>2, Appended
<1>4. /\ saved' = kept \cup {new} /\ active' = {new} /\ saved \subseteq Ids
      /\ bound \subseteq saved \X Installations
      /\ bound' = {b \in bound : b[1] \in kept} \cup ({new} \X matched)
  <2>1. bound \subseteq saved \X Installations /\ saved \subseteq Ids  BY DEF ConnInv, ConnTypeOK
  <2>2. \A b \in bound : b[1] \in saved  BY <2>1
  <2> QED  BY <2>1, <2>2 DEF ReplaceWithGithubAppConnection, TypeOf
<1>5. matched \subseteq Installations  BY ConnectionsAssumption DEF Installations
<1>6. ConnTypeOK'
  <2>1. bound' \subseteq saved' \X Installations  BY <1>4, <1>5
  <2>2. saved' \subseteq Ids' /\ active' \subseteq saved'  BY <1>3, <1>4
  <2> QED  BY <1>3, <2>1, <2>2 DEF ConnInv, ConnTypeOK, Row, Installations, Resolved
<1>7. OnePerType' /\ OneActive'
  BY <1>3, <1>4 DEF ConnInv, SlotsInv, OnePerType, OneActive, TypeOf
<1>8. BoundToOwnApp'
  <2>1. ASSUME NEW id \in saved', NEW i \in Installations
        PROVE  <<id, i>> \in bound' <=> i \in made'[id].installations
    <3>1. CASE id = new
      <4>1. <<new, i>> \notin bound  BY <1>3, <1>4
      <4> QED  BY <3>1, <4>1, <1>3, <1>4
    <3>2. CASE id \in kept
      <4>1. id # new /\ made'[id] = made[id]  BY <3>2, <1>3, <1>4
      <4> QED  BY <3>2, <4>1, <1>4 DEF ConnInv, SlotsInv, BoundToOwnApp
    <3> QED  BY <3>1, <3>2, <1>4
  <2>2. \A id \in Ids' :
           /\ TypeOf(id)' = PAT => made'[id].installations = {}
           /\ TypeOf(id)' = GITHUB_APP => /\ made'[id].installations # {}
                                          /\ made'[id].installations \subseteq Installed
           /\ \A i \in made'[id].installations : i[1] = made'[id].credential
    BY <1>3 DEF ConnInv, SlotsInv, BoundToOwnApp, TypeOf
  <2> QED  BY <2>1, <2>2 DEF BoundToOwnApp, Installations
<1>9. HostUsable'  BY <1>1, <1>3 DEF ConnInv, SlotsInv, HostUsable
<1>10. ContinueOffered'  BY DEF ConnInv, ContinueOffered
<1> QED  BY <1>3, <1>6, <1>7, <1>8, <1>9, <1>10, ClientsKept DEF ConnInv, SlotsInv

(* A step of the rows that makes no connection: its slots are to be shown. *)
LEMMA SameMade ==
    ASSUME ConnInv, UNCHANGED <<made, page, job>>, req' \in [Tabs -> Request],
           saved' \subseteq saved, OneActive', active' \subseteq saved',
           bound' = {b \in bound : b[1] \in saved'}
    PROVE  ConnInv'
<1>1. ConnTypeOK'
  BY DEF ConnInv, ConnTypeOK, Ids, Installations, Resolved
<1>2. OnePerType' /\ HostUsable'
  BY DEF ConnInv, SlotsInv, OnePerType, HostUsable, Ids, TypeOf
<1>3. BoundToOwnApp'
  BY DEF ConnInv, SlotsInv, BoundToOwnApp, Ids, TypeOf, Installations
<1>4. ContinueOffered' /\ ClientsCoverTheirOrg'
  BY DEF ConnInv, ContinueOffered, ClientsCoverTheirOrg, Covers, TypeOf, Ids
<1> QED  BY <1>1, <1>2, <1>3, <1>4 DEF ConnInv, SlotsInv

(* A step of a page leaves the rows alone.                                 *)
LEMMA PageStep ==
    ASSUME ConnInv, UNCHANGED <<rows, job>>, req' \in [Tabs -> Request],
           NEW t \in Tabs, NEW p \in [list : SUBSET Nat, inUse : SUBSET Nat,
                                      listed : SUBSET Installations],
           page' = [page EXCEPT ![t] = p],
           p.list # {} => \E id \in p.list : p.inUse = {id}
    PROVE  ConnInv'
<1>1. ConnTypeOK'
  BY DEF ConnInv, ConnTypeOK, Ids, Installations, Resolved, rows
<1>2. SlotsInv' /\ ClientsCoverTheirOrg'
  BY DEF ConnInv, SlotsInv, OnePerType, OneActive, BoundToOwnApp, HostUsable,
         ClientsCoverTheirOrg, Covers, TypeOf, Ids, rows, Installations
<1>3. ContinueOffered'
  BY DEF ConnInv, ConnTypeOK, ContinueOffered
<1> QED  BY <1>1, <1>2, <1>3 DEF ConnInv

(* A client is the current connection's, and the account is one of its own.*)
LEMMA Served ==
    ASSUME ConnInv, NEW o \in Orgs
    PROVE  /\ ServedBy(o) \in {NoId} \cup Ids
           /\ ServedBy(o) # NoId => Covers(ServedBy(o), o)
<1>1. Current \in {NoId} \cup Ids /\ (Current # NoId => Current \in saved)
  BY DEF Current, ConnInv, ConnTypeOK
<1>2. CASE Current = NoId  BY <1>2, <1>1 DEF ServedBy
<1>3. CASE Current # NoId
  <2>1. Current \in saved /\ Current \in Ids  BY <1>1, <1>3
  <2>2. ASSUME NEW b \in bound, b[1] = Current, b[2][2] = o PROVE Covers(Current, o)
    <3>0. bound \subseteq saved \X Installations  BY DEF ConnInv, ConnTypeOK
    <3>1. b[2] \in Installations /\ <<Current, b[2]>> \in bound
      <4>1. PICK x \in saved, y \in Installations : b = <<x, y>>  BY <3>0
      <4> QED  BY <4>1, <2>2
    <3> QED  BY <3>1, <2>1, <2>2 DEF ConnInv, SlotsInv, BoundToOwnApp, Covers
  <2>3. TypeOf(Current) = PAT => Covers(Current, o)  BY DEF Covers
  <2> QED  BY <2>1, <2>2, <2>3 DEF ServedBy
<1> QED  BY <1>2, <1>3

(* A step of the job leaves everything else alone.                         *)
LEMMA JobStep ==
    ASSUME ConnInv, UNCHANGED <<rows, page, req>>,
           job' \in [stage : {"none", "previewing", "running"}, preview : Resolved, run : Resolved],
           ClientsCoverTheirOrg'
    PROVE  ConnInv'
<1>1. ConnTypeOK'
  BY DEF ConnInv, ConnTypeOK, Ids, Installations, Resolved, rows
<1>2. SlotsInv' /\ ContinueOffered'
  BY DEF ConnInv, SlotsInv, OnePerType, OneActive, BoundToOwnApp, HostUsable,
         ContinueOffered, TypeOf, Ids, rows, Installations
<1> QED  BY <1>1, <1>2 DEF ConnInv

(* The slots, the pages and the clients, in every state, for any tabs,     *)
(* Apps, accounts and number of connections (connectionsRepository.ts,     *)
(* routes/connections.ts, loadConnection.ts).                              *)
THEOREM ConnInvariant == Spec => []ConnInv
<1>1. Init => ConnInv
  <2> SUFFICES ASSUME Init PROVE ConnInv  OBVIOUS
  <2>1. made = <<>> /\ Len(made) = 0 /\ Ids = {}  BY DEF Init, Ids
  <2>2. ConnTypeOK  BY <2>1, ConnectionsAssumption DEF Init, ConnTypeOK, Mounted, NoReq, Request, Resolved
  <2>3. SlotsInv  BY <2>1 DEF Init, SlotsInv, OnePerType, OneActive, BoundToOwnApp, HostUsable
  <2>4. ContinueOffered /\ ClientsCoverTheirOrg
    BY <2>1 DEF Init, ContinueOffered, ClientsCoverTheirOrg, Mounted
  <2> QED  BY <2>2, <2>3, <2>4 DEF ConnInv
<1>2. ConnInv /\ [Next]_vars => ConnInv'
  <2> SUFFICES ASSUME ConnInv, [Next]_vars PROVE ConnInv'  OBVIOUS
  <2> USE DEF Reply, Send
  <2>0. /\ req \in [Tabs -> Request] /\ NoReq \in Request /\ Changed \in Request
        /\ saved \subseteq Nat /\ active \subseteq saved
        /\ (saved # {} => \E id \in saved : active = {id})
    BY DEF ConnInv, ConnTypeOK, SlotsInv, OneActive, NoReq, Changed, Request, Ids
  <2>1. ASSUME NEW t \in Tabs, OpenPage(t) PROVE ConnInv'
    <3> DEFINE p == Mounted(saved, active)
    <3>1. p \in [list : SUBSET Nat, inUse : SUBSET Nat, listed : SUBSET Installations]
      BY <2>0 DEF Mounted
    <3> HIDE DEF p
    <3>2. page' = [page EXCEPT ![t] = p] /\ UNCHANGED <<rows, job>> /\ req' = req
      BY <2>1 DEF OpenPage, p
    <3>3. p.list # {} => \E id \in p.list : p.inUse = {id}  BY <2>0 DEF p, Mounted
    <3> QED  BY <3>1, <3>2, <3>3, <2>0, PageStep
  <2>2. ASSUME NEW t \in Tabs, TapCard(t) \/ ConfirmRemove(t) \/ SubmitPat(t) \/ ConnectSelected(t)
        PROVE  ConnInv'
    <3>1. UNCHANGED <<rows, page, job>>  BY <2>2 DEF TapCard, ConfirmRemove, SubmitPat, ConnectSelected
    <3>2. page[t] \in [list : SUBSET Nat, inUse : SUBSET Nat, listed : SUBSET Installations]
      BY DEF ConnInv, ConnTypeOK
    <3>3. req' \in [Tabs -> Request]
      <4>1. CASE TapCard(t)  BY <4>1, <2>0, <3>2 DEF TapCard, Request
      <4>2. CASE ConfirmRemove(t)  BY <4>2, <2>0, <3>2 DEF ConfirmRemove, Request
      <4>3. CASE SubmitPat(t)  BY <4>3, <2>0, ConnectionsAssumption DEF SubmitPat, Request
      <4>4. CASE ConnectSelected(t)
        BY <4>4, <2>0, <3>2, ConnectionsAssumption DEF ConnectSelected, Request
      <4> QED  BY <2>2, <4>1, <4>2, <4>3, <4>4
    <3>4. page' = [page EXCEPT ![t] = page[t]]  BY <3>1 DEF ConnInv, ConnTypeOK
    <3>5. page[t].list # {} => \E id \in page[t].list : page[t].inUse = {id}
      BY DEF ConnInv, ContinueOffered
    <3> QED  BY <3>1, <3>2, <3>3, <3>4, <3>5, PageStep
  <2>3. ASSUME NEW t \in Tabs, ListInstallations(t) PROVE ConnInv'
    <3>1. PICK l \in SUBSET Installations : page' = [page EXCEPT ![t].listed = l]
      BY <2>3, ConnectionsAssumption DEF ListInstallations, ListAppInstallations, Installations
    <3> DEFINE p == [page[t] EXCEPT !.listed = l]
    <3>2. page[t] \in [list : SUBSET Nat, inUse : SUBSET Nat, listed : SUBSET Installations]
      BY DEF ConnInv, ConnTypeOK
    <3>3. /\ p \in [list : SUBSET Nat, inUse : SUBSET Nat, listed : SUBSET Installations]
          /\ p.list = page[t].list /\ p.inUse = page[t].inUse
      BY <3>2
    <3>4. page' = [page EXCEPT ![t] = p] /\ UNCHANGED <<rows, job>> /\ req' = req
      BY <3>1, <2>3 DEF ListInstallations
    <3>5. p.list # {} => \E id \in p.list : p.inUse = {id}
      BY <3>3 DEF ConnInv, ContinueOffered
    <3> HIDE DEF p
    <3> QED  BY <3>3, <3>4, <3>5, <2>0, PageStep
  <2>4. ASSUME NEW t \in Tabs, Receive(t) PROVE ConnInv'
    <3> DEFINE p == [page[t] EXCEPT !.list = saved, !.inUse = active]
    <3>1. page[t] \in [list : SUBSET Nat, inUse : SUBSET Nat, listed : SUBSET Installations]
      BY DEF ConnInv, ConnTypeOK
    <3>2. /\ p \in [list : SUBSET Nat, inUse : SUBSET Nat, listed : SUBSET Installations]
          /\ p.list = saved /\ p.inUse = active
      BY <3>1, <2>0
    <3>3. page' = [page EXCEPT ![t] = p] /\ UNCHANGED <<rows, job>> /\ req' \in [Tabs -> Request]
      BY <2>4, <2>0, <3>1 DEF Receive, ConnInv, ConnTypeOK
    <3>4. p.list # {} => \E id \in p.list : p.inUse = {id}  BY <3>2, <2>0
    <3> HIDE DEF p
    <3> QED  BY <3>2, <3>3, <3>4, PageStep
  <2>5. ASSUME NEW t \in Tabs, PostConnection(t) PROVE ConnInv'
    <3>1. req[t].host \in HostForms  BY <2>5, <2>0 DEF PostConnection, Request
    <3>2. req' \in [Tabs -> Request]  BY <2>5, <2>0 DEF PostConnection
    <3>3. CASE ReplaceWithPatConnection(NormalizeGheHost(req[t].host))
      BY <3>1, <3>2, <3>3, <2>5, PatStep DEF PostConnection
    <3>4. CASE UNCHANGED rows
      BY <3>2, <3>4, <2>5, <2>0, SameMade DEF PostConnection, rows, ConnInv, ConnTypeOK, SlotsInv, OneActive
    <3> QED  BY <3>3, <3>4, <2>5 DEF PostConnection
  <2>6. ASSUME NEW t \in Tabs, PostGithubApp(t) PROVE ConnInv'
    <3>1. req[t].host \in HostForms /\ req[t].app \in Apps  BY <2>6, <2>0 DEF PostGithubApp, Request
    <3>2. req' \in [Tabs -> Request]  BY <2>6, <2>0 DEF PostGithubApp
    <3>3. ASSUME NEW listing \in ListAppInstallations(req[t].app), Match(listing, req[t].chosen) # {},
                 ReplaceWithGithubAppConnection(req[t].app, Match(listing, req[t].chosen),
                                                NormalizeGheHost(req[t].host))
          PROVE  ConnInv'
      <4>1. /\ Match(listing, req[t].chosen) \in SUBSET Installed
            /\ \A i \in Match(listing, req[t].chosen) : i[1] = req[t].app
        BY <3>3 DEF Match, ListAppInstallations
      <4> QED  BY <3>1, <3>2, <3>3, <4>1, <2>6, AppStep DEF PostGithubApp
    <3>4. CASE UNCHANGED rows
      BY <3>2, <3>4, <2>6, <2>0, SameMade DEF PostGithubApp, rows, ConnInv, ConnTypeOK, SlotsInv, OneActive
    <3> QED  BY <3>3, <3>4, <2>6 DEF PostGithubApp
  <2>7. ASSUME NEW t \in Tabs, PostActivate(t) PROVE ConnInv'
    <3>1. req' \in [Tabs -> Request] /\ UNCHANGED <<page, job>>  BY <2>7, <2>0 DEF PostActivate
    <3>2. /\ UNCHANGED <<made, saved, bound>>
          /\ active' = IF req[t].id \in saved THEN {req[t].id} ELSE active
      BY <2>7 DEF PostActivate, ActivateConnection
    <3>3. active' \subseteq saved' /\ OneActive'  BY <3>2, <2>0 DEF OneActive
    <3>4. bound' = {b \in bound : b[1] \in saved'}  BY <3>2 DEF ConnInv, ConnTypeOK
    <3> QED  BY <3>1, <3>2, <3>3, <3>4, SameMade
  <2>8. ASSUME NEW t \in Tabs, DeleteRoute(t) PROVE ConnInv'
    <3> DEFINE id == req[t].id
    <3>1. req' \in [Tabs -> Request] /\ UNCHANGED <<page, job>>  BY <2>8, <2>0 DEF DeleteRoute
    <3>2. DeleteConnection(id)  BY <2>8 DEF DeleteRoute
    <3>3. CASE id \notin saved
      <4>1. UNCHANGED rows  BY <3>2, <3>3 DEF DeleteConnection
      <4> QED  BY <4>1, <3>1, <2>0, SameMade DEF rows, ConnInv, ConnTypeOK, SlotsInv, OneActive
    <3>4. CASE id \in saved
      <4>1. /\ UNCHANGED made /\ saved' = saved \ {id} /\ bound' = {b \in bound : b[1] # id}
            /\ active' = IF id \in active
                           THEN IF saved \ {id} = {} THEN {}
                                ELSE {CHOOSE other \in saved \ {id} : TRUE}
                           ELSE active
        BY <3>2, <3>4 DEF DeleteConnection
      <4>2. active' \subseteq saved' /\ (saved' # {} => \E k \in saved' : active' = {k})
        BY <4>1, <2>0
      <4>3. bound' = {b \in bound : b[1] \in saved'}  BY <4>1 DEF ConnInv, ConnTypeOK
      <4> QED  BY <4>1, <4>2, <4>3, <3>1, SameMade DEF OneActive
    <3> QED  BY <3>3, <3>4
  <2>9. CASE Preview \/ Execute
    <3>1. UNCHANGED <<rows, page, req>>  BY <2>9 DEF Preview, Execute
    <3>2. /\ job' \in [stage : {"none", "previewing", "running"}, preview : Resolved, run : Resolved]
          /\ job'.preview = job.preview /\ job'.run = job.run
      BY <2>9 DEF Preview, Execute, ConnInv, ConnTypeOK
    <3>3. ClientsCoverTheirOrg'
      BY <3>1, <3>2 DEF ConnInv, ClientsCoverTheirOrg, Covers, TypeOf, Ids, rows
    <3> QED  BY <3>1, <3>2, <3>3, JobStep
  <2>10. ASSUME NEW o \in JobOrgs, UNCHANGED <<rows, page, req>>,
                \/ job' = [job EXCEPT !.preview[o] = ServedBy(o)]
                \/ job' = [job EXCEPT !.run[o] = ServedBy(o)]
         PROVE  ConnInv'
    <3>1. o \in Orgs  BY ConnectionsAssumption
    <3>2. ServedBy(o) \in {NoId} \cup Ids /\ (ServedBy(o) # NoId => Covers(ServedBy(o), o))
      BY <3>1, Served
    <3>3. job \in [stage : {"none", "previewing", "running"}, preview : Resolved, run : Resolved]
      BY DEF ConnInv, ConnTypeOK
    <3>4. ServedBy(o) \in Nat  BY <3>2 DEF Ids
    <3>5. job' \in [stage : {"none", "previewing", "running"}, preview : Resolved, run : Resolved]
      BY <2>10, <3>3, <3>4 DEF Resolved
    <3>6. \A k \in JobOrgs : {job'.preview[k], job'.run[k]}
                               \subseteq {job.preview[k], job.run[k]} \cup {x \in {ServedBy(o)} : k = o}
      BY <2>10, <3>3 DEF Resolved
    <3>7. Ids' = Ids /\ \A id \in Ids, k \in Orgs : Covers(id, k)' <=> Covers(id, k)
      BY <2>10 DEF rows, Ids, Covers, TypeOf
    <3>8. ClientsCoverTheirOrg'
      BY <3>2, <3>6, <3>7, ConnectionsAssumption DEF ConnInv, ClientsCoverTheirOrg
    <3> QED  BY <2>10, <3>5, <3>8, JobStep
  <2>11. CASE ResolvePreview  BY <2>11, <2>10 DEF ResolvePreview
  <2>12. CASE ResolveRun  BY <2>12, <2>10 DEF ResolveRun
  <2>13. CASE UNCHANGED vars
    BY <2>13, <2>0, SameMade DEF vars, rows, ConnInv, ConnTypeOK, SlotsInv, OneActive
  <2> QED
    BY <2>1, <2>2, <2>3, <2>4, <2>5, <2>6, <2>7, <2>8, <2>9, <2>11, <2>12, <2>13 DEF Next, Page, Server
<1> QED  BY <1>1, <1>2, PTL DEF Spec

(* At most one connection of a type, exactly one active if there is any,   *)
(* bound to installations of its own App, and the base URL built from its  *)
(* host is that of the host typed, in whatever form.                       *)
THEOREM SlotsHold == Spec => []SlotsInv
  BY ConnInvariant, PTL DEF ConnInv

(* A page that lists connections offers exactly one to continue with.      *)
THEOREM AlwaysContinues == Spec => []ContinueOffered
  BY ConnInvariant, PTL DEF ConnInv

(* No client acts on an account its connection has no installation for.    *)
THEOREM ClientsCover == Spec => []ClientsCoverTheirOrg
  BY ConnInvariant, PTL DEF ConnInv
=============================================================================
