----------------------------- MODULE ChangeForm -----------------------------
(***************************************************************************)
(* From the choice of repositories to the job: the Select page, the        *)
(* selection and the form that outlive the pages (SelectionContext,        *)
(* DefineFormContext), the Define page with its files, the content they may*)
(* be fetched from, and its two requests, the routes that save the change  *)
(* set and make the job, and the Confirm page that ends the editing.       *)
(*                                                                         *)
(* One tab, loaded once.  A text is there or not, a content is empty or has*)
(* variables.  Any request may fail, and the session may be lost (a 401, a *)
(* failed refetch of it, a logout): the app then shows the login form, and *)
(* mounts its contexts and pages anew after it.  What a job does once made *)
(* is JobEngine's.                                                         *)
(***************************************************************************)
EXTENDS Naturals, Sequences, FiniteSets

CONSTANTS
    Orgs,           \* the orgs, each the set of its repositories
    Vars,           \* template variables
    MaxFiles,       \* rows of the Define page (a bound)
    MaxEdits,       \* edits of the form (a bound)
    MaxSubmits,     \* submissions (a bound)
    MaxRuns,        \* requests to run a job under way at a time (a bound)
    MaxMounts       \* how often the session is lost (a bound)

ASSUME ChangeFormAssumption ==
    /\ MaxFiles \in Nat \ {0} /\ MaxEdits \in Nat /\ MaxSubmits \in Nat
    /\ MaxRuns \in Nat /\ MaxMounts \in Nat

Repos == UNION Orgs

VARIABLES
    page,       \* "select", which any page without a part here is as, "define", or "job"
    viewed,     \* the job of the job pages
    shown,      \* the repositories the Select page lists
    selected,   \* selectedRepos
    form,       \* the fields of DefineFormContext
    fetching,   \* the request of a row's Fetch button
    submits,    \* the requests of the Define and the Confirm page under way
    jobs,       \* the jobs made, with the files of their change sets
    mount,      \* how often the session has been lost
    asked,      \* what was on the screen at each submission (history)
    edits       \* how many edits (for the bound)

location == <<page, viewed, shown>>
vars == <<location, selected, form, fetching, submits, jobs, mount, asked, edits>>

Contents == {[text |-> FALSE, vars |-> {}]} \cup [text : {TRUE}, vars : SUBSET Vars]
Empty == [text |-> FALSE, vars |-> {}]

(* The fields of the form that are not its files': the name, and the rest, *)
(* a commit message, how the change lands, and a title if as a pull request.*)
Fields == {"name", "rest"}

(* A row of the form; id is which file it is, wherever it moves (history). *)
Files(id) == [id : {id}, path : BOOLEAN, content : Contents]
EmptyFile(id) == [id |-> id, path |-> FALSE, content |-> Empty]
Blank == [filled |-> {}, files |-> <<EmptyFile(1)>>, values |-> {}]

NoFetch == [row |-> 0, id |-> 0, live |-> FALSE, seen |-> EmptyFile(0), undisturbed |-> FALSE]
NoJob == 0

VariablesOf(files) == UNION {files[i].content.vars : i \in DOMAIN files}

FilesComplete(f) ==
    /\ f.files # <<>>
    /\ \A i \in DOMAIN f.files : f.files[i].path /\ f.files[i].content.text

(* Mutant: the variables are those of the first file.                      *)
CompleteFirstFile(f, targets) ==
    /\ f.filled = Fields
    /\ FilesComplete(f)
    /\ targets \X f.files[1].content.vars \subseteq f.values

(* missingFields: what keeps the Define page's button disabled.            *)
Complete(f, targets) ==
    /\ f.filled = Fields
    /\ FilesComplete(f)
    /\ targets \X VariablesOf(f.files) \subseteq f.values

(* What the two routes accept (createChangeSetBodySchema).                 *)
Accepts(f) ==
    /\ "name" \in f.filled
    /\ f.files # <<>>
    /\ \A i \in DOMAIN f.files : f.files[i].path

Init ==
    /\ page = "select" /\ viewed = NoJob /\ shown = {} /\ selected = {}
    /\ form = Blank /\ fetching = NoFetch /\ submits = {} /\ jobs = <<>>
    /\ mount = 0 /\ asked = <<>> /\ edits = 0
-----------------------------------------------------------------------------
(* A row's editor is gone, with the page or with the last row: what its    *)
(* request will come back to is what it saw last.                          *)
Unmounted(fetch) ==
    IF fetch.live
      THEN [fetch EXCEPT !.live = FALSE, !.seen = form.files[fetch.row], !.undisturbed = FALSE]
      ELSE fetch

(* Leaving the Define page ends its hold on requests, not the requests.    *)
LeaveTo(next, job) ==
    /\ page' = next /\ viewed' = job /\ shown' = {}
    /\ fetching' = IF next = "define" THEN fetching ELSE Unmounted(fetching)

(* A request of the Define or the Confirm page, for the of-th submission or*)
(* as one of the runs asked for; here is whether the page that shows it as *)
(* pending is still on screen.                                             *)
Sent(stage, of, f, targets, job) ==
    [stage |-> stage, of |-> of, form |-> f, targets |-> targets, job |-> job,
     here |-> TRUE, mount |-> mount]

Unheld(requests) == {[s EXCEPT !.here = FALSE] : s \in requests}

Go ==
    /\ \/ \E next \in {"select", "define"} \ {page} : LeaveTo(next, NoJob)
       \/ \E n \in DOMAIN jobs : page # "job" /\ LeaveTo("job", n)
    /\ submits' = Unheld(submits)
    /\ UNCHANGED <<selected, form, jobs, mount, asked, edits>>

(* An org is picked, filters are typed, the list arrives.                  *)
Browse ==
    /\ page = "select"
    /\ \E org \in Orgs : shown' \in SUBSET org
    /\ UNCHANGED <<page, viewed, selected, form, fetching, submits, jobs, mount, asked, edits>>

(* A check box, or the cross of a chip.                                    *)
ToggleRepo(r) ==
    /\ page = "select" /\ r \in shown \cup selected
    /\ selected' = IF r \in selected THEN selected \ {r} ELSE selected \cup {r}
    /\ UNCHANGED <<location, form, fetching, submits, jobs, mount, asked, edits>>

(* Mutant: deselecting all is of all orgs.                                 *)
ToggleSelectAllVisibleAnywhere ==
    /\ page = "select" /\ shown # {}
    /\ selected' = IF shown \subseteq selected THEN {} ELSE selected \cup shown
    /\ UNCHANGED <<location, form, fetching, submits, jobs, mount, asked, edits>>

ToggleSelectAllVisible ==
    /\ page = "select" /\ shown # {}
    /\ selected' = IF shown \subseteq selected THEN selected \ shown ELSE selected \cup shown
    /\ UNCHANGED <<location, form, fetching, submits, jobs, mount, asked, edits>>
-----------------------------------------------------------------------------
(* The form is on the page once something is selected.                     *)
Editing == page = "define" /\ selected # {}

Edit(f) ==
    /\ Editing /\ edits < MaxEdits /\ edits' = edits + 1
    /\ form' = f /\ f # form
    /\ UNCHANGED <<location, selected, submits, jobs, mount, asked>>

(* The fields that are not the files', several of them at once.            *)
FillFields ==
    \E filled \in SUBSET Fields : Edit([form EXCEPT !.filled = filled]) /\ UNCHANGED fetching

(* setTemplateValue, of one variable in one repository.                    *)
TypeValue ==
    \E cell \in selected \X VariablesOf(form.files) :
        /\ \/ Edit([form EXCEPT !.values = @ \cup {cell}])
           \/ Edit([form EXCEPT !.values = @ \ {cell}])
        /\ UNCHANGED fetching

(* updateFile, from the path's field and the content's editor.             *)
UpdateFile ==
    \E i \in DOMAIN form.files :
        /\ \E file \in Files(form.files[i].id) : Edit([form EXCEPT !.files[i] = file])
        /\ UNCHANGED fetching

AddFile ==
    /\ Len(form.files) < MaxFiles
    /\ LET fresh == CHOOSE n \in 1 .. MaxFiles :
                        \A i \in DOMAIN form.files : form.files[i].id # n
       IN  Edit([form EXCEPT !.files = Append(@, EmptyFile(fresh))])
    /\ UNCHANGED fetching

RemoveFile ==
    /\ Len(form.files) > 1
    /\ \E i \in DOMAIN form.files :
          Edit([form EXCEPT !.files = SubSeq(@, 1, i - 1) \o SubSeq(@, i + 1, Len(@))])
    /\ fetching' = IF fetching.live /\ fetching.row = Len(form.files) THEN Unmounted(fetching)
                   ELSE [fetching EXCEPT !.undisturbed = FALSE]

(* moveFileUp of row i, moveFileDown of the one before it.                 *)
MoveFile ==
    /\ \E i \in DOMAIN form.files \ {1} :
          Edit([form EXCEPT !.files[i - 1] = form.files[i], !.files[i] = form.files[i - 1]])
    /\ fetching' = [fetching EXCEPT !.undisturbed = FALSE]

(* The Fetch button of a row (one request at a time, a bound).             *)
Fetch ==
    /\ Editing /\ fetching = NoFetch
    /\ \E i \in DOMAIN form.files :
          fetching' = [row |-> i, id |-> form.files[i].id, live |-> TRUE,
                       seen |-> EmptyFile(0), undisturbed |-> TRUE]
    /\ UNCHANGED <<location, selected, form, submits, jobs, mount, asked, edits>>

(* Mutant: what is not fetched is as it was before the form was edited.    *)
LatestForgetful == IF fetching.live THEN EmptyFile(fetching.id) ELSE fetching.seen

(* The value that the answer's handler holds: while its editor is there,   *)
(* that of the last rendering of its row.                                  *)
Latest == IF fetching.live THEN form.files[fetching.row] ELSE fetching.seen

FetchAnswered ==
    /\ fetching # NoFetch
    /\ form' \in {form} \cup
                 {[form EXCEPT !.files[fetching.row] = [Latest EXCEPT !.content = c]] :
                     c \in {c \in Contents : fetching.row \in DOMAIN form.files}}
    /\ fetching' = NoFetch
    /\ UNCHANGED <<location, selected, submits, jobs, mount, asked, edits>>
-----------------------------------------------------------------------------
(* createMutation: the form and the selection as they were rendered go with *)
(* it through both requests.                                               *)
Submit ==
    /\ Editing /\ Complete(form, selected)
    /\ \A s \in submits : ~s.here
    /\ Len(asked) < MaxSubmits
    /\ asked' = Append(asked, [form |-> form, targets |-> selected])
    /\ submits' = submits \cup {Sent("changeset", Len(asked'), form, selected, NoJob)}
    /\ UNCHANGED <<location, selected, form, fetching, jobs, mount, edits>>

(* POST /changesets: the change set with all its files, or nothing.        *)
PostChangeSet(s) ==
    /\ s.stage = "changeset" /\ Accepts(s.form)
    /\ submits' = (submits \ {s}) \cup {[s EXCEPT !.stage = "job"]}
    /\ UNCHANGED <<location, selected, form, fetching, jobs, mount, asked, edits>>

Job(s, targets, values) ==
    [of |-> s.of, files |-> s.form.files, targets |-> targets, values |-> values, run |-> FALSE]

(* Mutant: the second request is made from the form as it is by then.      *)
PostJobLate(s) ==
    /\ s.stage = "job"
    /\ jobs' = Append(jobs, Job(s, selected, form.values))
    /\ submits' = (submits \ {s}) \cup {[s EXCEPT !.stage = "preview", !.job = Len(jobs')]}
    /\ UNCHANGED <<location, selected, form, fetching, mount, asked, edits>>

(* POST /changesets/:id/jobs: a row for each target, its files rendered    *)
(* with its values, which are only sent if a file has variables.           *)
PostJob(s) ==
    /\ s.stage = "job"
    /\ LET values == IF VariablesOf(s.form.files) = {} THEN {} ELSE s.form.values
       IN  jobs' = Append(jobs, Job(s, s.targets, values))
    /\ submits' = (submits \ {s}) \cup {[s EXCEPT !.stage = "preview", !.job = Len(jobs')]}
    /\ UNCHANGED <<location, selected, form, fetching, mount, asked, edits>>

(* The job is there: on to its preview, from whatever page it is by now.   *)
Previewed(s) ==
    /\ s.stage = "preview"
    /\ LeaveTo("job", s.job)
    /\ submits' = Unheld(submits \ {s})
    /\ UNCHANGED <<selected, form, jobs, mount, asked, edits>>

(* "Confirm & run", of a job that has not been run; asked again if it fails,*)
(* or from the page as it is mounted anew.                                 *)
ConfirmAndRun ==
    /\ page = "job" /\ ~jobs[viewed].run
    /\ \A s \in submits : ~s.here
    /\ \E n \in 1 .. MaxRuns :
          /\ \A s \in submits : s.stage \in {"execute", "run"} => s.of # n
          /\ submits' = submits \cup {Sent("execute", n, Blank, {}, viewed)}
    /\ UNCHANGED <<location, selected, form, fetching, jobs, mount, asked, edits>>

(* POST /jobs/:id/execute starts the run, once or, of two requests under   *)
(* way, twice.                                                             *)
PostExecute(s) ==
    /\ s.stage = "execute"
    /\ jobs' = [jobs EXCEPT ![s.job].run = TRUE]
    /\ submits' = (submits \ {s}) \cup {[s EXCEPT !.stage = "run"]}
    /\ UNCHANGED <<location, selected, form, fetching, mount, asked, edits>>

(* The job runs: the editing is over, whatever is edited by now.  Only the *)
(* selection and the form of its own mounting are reached.                 *)
Confirmed(s) ==
    /\ s.stage = "run"
    /\ IF s.mount = mount THEN selected' = {} /\ form' = Blank ELSE UNCHANGED <<selected, form>>
    /\ page' = "job" /\ viewed' = s.job /\ shown' = {}
    /\ fetching' = Unmounted(fetching)
    /\ submits' = Unheld(submits \ {s})
    /\ UNCHANGED <<jobs, mount, asked, edits>>
-----------------------------------------------------------------------------
(* The contexts and the page are mounted anew, at the same address; answers*)
(* still under way reach nothing but the address.                          *)
Remount ==
    /\ mount < MaxMounts /\ mount' = mount + 1
    /\ selected' = {} /\ form' = Blank /\ shown' = {} /\ fetching' = NoFetch
    /\ UNCHANGED <<page, viewed, jobs, asked, edits>>

(* A 401 to any other request, a refetch of the session that fails or a    *)
(* logout: the login form, or an error, stands in for the whole app.       *)
LoseSession == Remount /\ submits' = Unheld(submits)

(* The answer is an error, or does not come; a 401 is the session's end.   *)
SubmitFails(s) ==
    \/ /\ submits' = submits \ {s}
       /\ UNCHANGED <<location, selected, form, fetching, jobs, mount, asked, edits>>
    \/ Remount /\ submits' = Unheld(submits \ {s})

Next ==
    \/ Go \/ Browse \/ (\E r \in Repos : ToggleRepo(r)) \/ ToggleSelectAllVisible
    \/ FillFields \/ TypeValue \/ UpdateFile \/ AddFile \/ RemoveFile \/ MoveFile
    \/ Fetch \/ FetchAnswered
    \/ Submit \/ ConfirmAndRun \/ LoseSession
    \/ \E s \in submits : PostChangeSet(s) \/ PostJob(s) \/ Previewed(s)
                       \/ PostExecute(s) \/ Confirmed(s) \/ SubmitFails(s)

Spec == Init /\ [][Next]_vars
-----------------------------------------------------------------------------
(* What the Define page lets through is accepted, and every row of every   *)
(* job has something to be rendered and a value for each of the variables  *)
(* in its files: the page and the routes read the same contents.           *)
SubmittedIsComplete ==
    /\ \A s \in submits :
          s.stage \notin {"execute", "run"} => s.targets # {} /\ Accepts(s.form)
    /\ \A n \in DOMAIN jobs :
          /\ jobs[n].targets \X VariablesOf(jobs[n].files) \subseteq jobs[n].values
          /\ \A i \in DOMAIN jobs[n].files : jobs[n].files[i].content.text

(* A job is made of one state of the form and the selection, that of the   *)
(* click that asked for it, whatever is edited, picked, lost or submitted  *)
(* between its two requests (createMutation).                              *)
JobAsSubmitted ==
    \A n \in DOMAIN jobs :
        LET screen == asked[jobs[n].of]
        IN  /\ jobs[n].targets = screen.targets
            /\ jobs[n].files = screen.form.files
            /\ VariablesOf(jobs[n].files) # {} => jobs[n].values = screen.form.values

(* As long as the session lasts, a repository stays selected, through      *)
(* pages, orgs, filters and failed requests, until it is taken out where it*)
(* can be seen or a run that was asked for in this session is accepted; one*)
(* asked for before the session was lost takes nothing from the next one   *)
(* (SelectionContext, App.tsx).                                            *)
SelectionKept ==
    [][\A r \in selected \ selected' :
            \/ mount' # mount
            \/ selected \ selected' = {r} /\ page = "select"
            \/ r \in shown
            \/ \E s \in submits \ submits' :
                  s.stage = "run" /\ s.mount = mount /\ jobs[s.job].run]_vars

(* What is fetched while the rows stay where they are goes to the file it  *)
(* was asked for, and leaves what was typed meanwhile (fetchContentMutation).*)
FetchKeepsTyping ==
    [][fetching.undisturbed /\ fetching' = NoFetch /\ mount' = mount =>
          \A i \in DOMAIN form.files :
              \/ form'.files[i] = form.files[i]
              \/ /\ form.files[i].id = fetching.id
                 /\ [form'.files[i] EXCEPT !.content = form.files[i].content] = form.files[i]]_vars

(* "The fetch-from-URL row is per-file too": so it would be if rows could  *)
(* not move.                                                               *)
FetchedIntoItsFile ==
    [][fetching # NoFetch /\ fetching' = NoFetch /\ mount' = mount =>
          \A i \in DOMAIN form.files :
              form'.files[i] # form.files[i] => form.files[i].id = fetching.id]_vars

(* "Called once a job this form produced actually starts running": any job *)
(* that History leads to does it.                                          *)
FormKeptForItsJob ==
    [][\A s \in submits \ submits' :
          s.stage = "run" /\ form # Blank /\ form' = Blank => asked[jobs[s.job].of].form = form]_vars
=============================================================================
