---------------------------- MODULE JobProgress ----------------------------
(***************************************************************************)
(* Live progress of a job the wizard drives, whose user waits for each     *)
(* answer (Waited): what runJobExecution publishes (jobQueue.ts,           *)
(* jobEventBus.ts), the SSE stream of GET /jobs/:id/events and the Execute *)
(* page that listens to it.                                                *)
(*                                                                         *)
(* Publishing, like the handler that sends the snapshot and subscribes,    *)
(* has no await in it.  A stream keeps its order; a dropped connection     *)
(* loses what is on the way, and the browser's EventSource connects again. *)
(***************************************************************************)
EXTENDS JobEngineWizard, Sequences

CONSTANTS
    Pages,      \* Execute pages that watch the job
    MaxDrops    \* how often connections are dropped (a bound)

ASSUME ProgressAssumption == MaxDrops \in Nat

VARIABLES
    page,         \* "away", and what its EventSource is doing
    listening,    \* pages with a listener on the job's emitter
    wire,         \* events written to a page's stream, not yet handled
    view,         \* job and repoRuns as the page shows them
    drops         \* connections dropped so far

progress == <<page, listening, wire, view, drops>>
progressVars == <<vars, progress>>

Blank == [job |-> "none", rows |-> [r \in Rows |-> "NONE"]]
Now == [job |-> job, rows |-> status]

JobUpdate(s)    == [type |-> "job_update", job |-> s]
RowUpdate(r, s) == [type |-> "repo_run_update", row |-> r, status |-> s]
Snapshot        == [type |-> "snapshot", state |-> Now]

Ends(e) == e.type = "job_update" /\ e.job \in Terminal
-----------------------------------------------------------------------------
ProgressInit ==
    /\ Init
    /\ page = [p \in Pages |-> "away"]
    /\ listening = {}
    /\ wire = [p \in Pages |-> <<>>]
    /\ view = [p \in Pages |-> Blank]
    /\ drops = 0

(* Mutant: a verdict is written before what is still on the way. *)
PublishAhead(e) ==
    /\ wire' = [p \in Pages |-> IF p \notin listening THEN wire[p]
                               ELSE IF Ends(e) THEN <<e>> \o wire[p] ELSE Append(wire[p], e)]
    /\ listening' = IF Ends(e) THEN {} ELSE listening
    /\ UNCHANGED <<page, view, drops>>

(* publishJobEvent: every listener writes the event to its stream, and     *)
(* ends the stream and unsubscribes when it is the job's verdict.          *)
Publish(e) ==
    /\ wire' = [p \in Pages |-> IF p \in listening THEN Append(wire[p], e) ELSE wire[p]]
    /\ listening' = IF Ends(e) THEN {} ELSE listening
    /\ UNCHANGED <<page, view, drops>>

(* The engine's steps, with what each of them publishes. *)
RunTold(c) ==
    \/ (Refuse(c) \/ \E r \in Rows : StartTask(c, r) \/ Commit(c, r)) /\ UNCHANGED progress
    \/ (StartRun(c) \/ FinishRun(c)) /\ Publish(JobUpdate(job'))
    \/ \E r \in Rows :
          (Succeed(c, r) \/ Skip(c, r) \/ Fail(c, r)) /\ Publish(RowUpdate(r, status'[r]))

PreviewTold == Preview /\ UNCHANGED progress

Engine ==
    \/ PreviewTold
    \/ \E c \in Calls : loop = "over" /\ Waited /\ Click(c) /\ UNCHANGED progress
    \/ \E c \in Calls : RunTold(c)

(* The page is opened: nothing is shown, and a connection is asked for.    *)
(* The wizard gets to it from Confirm, so the preview is over; the preview *)
(* publishes nothing.                                                      *)
Visit(p) ==
    /\ loop = "over"
    /\ page[p] = "away"
    /\ page' = [page EXCEPT ![p] = "connecting"]
    /\ view' = [view EXCEPT ![p] = Blank]
    /\ UNCHANGED <<vars, listening, wire, drops>>

(* The connection is gone, with all that was on the way. *)
Hangup(p) ==
    /\ listening' = listening \ {p}
    /\ wire' = [wire EXCEPT ![p] = <<>>]

Leave(p) ==
    /\ page[p] # "away"
    /\ page' = [page EXCEPT ![p] = "away"]
    /\ Hangup(p)
    /\ UNCHANGED <<vars, view, drops>>

(* Mutant: a client that connects gets no snapshot. *)
ConnectBlind(p) ==
    /\ page[p] = "connecting"
    /\ page' = [page EXCEPT ![p] = "open"]
    /\ listening' = listening \cup {p}
    /\ UNCHANGED <<vars, wire, view, drops>>

(* GET /jobs/:id/events: the state as it is, and a listener. *)
Connect(p) ==
    /\ page[p] = "connecting"
    /\ page' = [page EXCEPT ![p] = "open"]
    /\ wire' = [wire EXCEPT ![p] = <<Snapshot>>]
    /\ listening' = listening \cup {p}
    /\ UNCHANGED <<vars, view, drops>>

(* The network fails: EventSource connects again, or gives up.  *)
Drop(p) ==
    /\ page[p] \in {"connecting", "open"}
    /\ drops < MaxDrops
    /\ drops' = drops + 1
    /\ \E s \in {"connecting", "lost"} : page' = [page EXCEPT ![p] = s]
    /\ Hangup(p)
    /\ UNCHANGED <<vars, view>>

Applied(v, e) ==
    CASE e.type = "snapshot" -> e.state
      [] e.type = "job_update" -> [v EXCEPT !.job = e.job]
      [] OTHER -> [v EXCEPT !.rows[e.row] = e.status]

(* Mutant: the page closes its stream when nothing is left to do. *)
HandleEager(p) ==
    /\ page[p] = "open"
    /\ wire[p] # <<>>
    /\ view' = [view EXCEPT ![p] = Applied(@, Head(wire[p]))]
    /\ IF \A r \in Rows : view'[p].rows[r] # "DIFF_COMPUTED"
       THEN page' = [page EXCEPT ![p] = "closed"] /\ Hangup(p)
       ELSE wire' = [wire EXCEPT ![p] = Tail(@)] /\ UNCHANGED <<page, listening>>
    /\ UNCHANGED <<vars, drops>>

(* source.onmessage: the page closes the stream at the job's verdict. *)
Handle(p) ==
    /\ page[p] = "open"
    /\ wire[p] # <<>>
    /\ view' = [view EXCEPT ![p] = Applied(@, Head(wire[p]))]
    /\ IF Ends(Head(wire[p]))
       THEN page' = [page EXCEPT ![p] = "closed"] /\ Hangup(p)
       ELSE wire' = [wire EXCEPT ![p] = Tail(@)] /\ UNCHANGED <<page, listening>>
    /\ UNCHANGED <<vars, drops>>

Browser == \E p \in Pages : Visit(p) \/ Leave(p) \/ Connect(p) \/ Drop(p) \/ Handle(p)

ProgressNext == Engine \/ Browser

ProgressSpec == ProgressInit /\ [][ProgressNext]_progressVars

(* Requests get through (JobEngine's Fairness); the network carries what   *)
(* is sent and an EventSource goes on trying.  Nobody has to open a page.  *)
ProgressFairness ==
    /\ WF_progressVars(PreviewTold)
    /\ \A c \in Calls : WF_progressVars(RunTold(c))
    /\ \A p \in Pages : WF_progressVars(Connect(p)) /\ WF_progressVars(Handle(p))

ProgressFairSpec == ProgressSpec /\ ProgressFairness
-----------------------------------------------------------------------------
Views == [job : JobStatus \cup {"none"}, rows : [Rows -> RowStatus]]

Events ==
    {JobUpdate(s) : s \in JobStatus} \cup {RowUpdate(r, s) : r \in Rows, s \in RowStatus}
        \cup [type : {"snapshot"}, state : Views]

(* Every variable has its type, and only an open stream has a listener or  *)
(* something on the way.                                                   *)
ProgressTypeOK ==
    /\ page \in [Pages -> {"away", "connecting", "open", "closed", "lost"}]
    /\ listening \subseteq Pages
    /\ wire \in [Pages -> Seq(Events)]
    /\ view \in [Pages -> Views]
    /\ \A p \in Pages : p \in listening \/ wire[p] # <<>> => page[p] = "open"
    /\ drops \in 0 .. MaxDrops

(* A page that shows a verdict shows the rows it is the verdict of: no     *)
(* update is overtaken, lost or applied to an older snapshot.              *)
VerdictFitsRows ==
    \A p \in Pages : view[p].job \in Terminal => view[p].job = FinalStatus(view[p].rows)

(* What a page that shows v comes to show, event by event of w. *)
Seen(v, w) ==
    LET shown[n \in 0 .. Len(w)] == IF n = 0 THEN v ELSE Applied(shown[n - 1], w[n])
    IN  shown

(* What the page shows, after all that is on the way, is what is saved:    *)
(* from its snapshot on a listener misses nothing of a run.                *)
NothingMissed ==
    \A p \in listening : Seen(view[p], wire[p])[Len(wire[p])] = Now

(* A page that watches a running job comes to show its verdict, whatever   *)
(* connections are dropped, unless it is left or the browser gives up.     *)
VerdictShown ==
    \A p \in Pages : job = "RUNNING" /\ page[p] = "open" ~>
        page[p] \in {"away", "lost"} \/ view[p].job \in Terminal

(* A stream closes once the job is over (routes/jobs.ts:16-17: "Closes     *)
(* itself once the job reaches a terminal status").  It does not hold: one *)
(* opened on a job that is over is sent no verdict that would end it.      *)
StreamCloses ==
    \A p \in Pages : p \in listening /\ job \in Terminal ~>
        p \notin listening \/ job \notin Terminal
=============================================================================
