-------------------------- MODULE ChangeFormProofs --------------------------
(***************************************************************************)
(* The way from the selection to the job, for any orgs, variables, number  *)
(* of files, edits and submissions: what the page lets through arrives     *)
(* whole, and nothing that is typed or selected is lost on the way.        *)
(***************************************************************************)
EXTENDS ChangeForm, FiniteSetTheorems, TLAPS

FormFiles == [id : 0 .. MaxFiles, path : BOOLEAN, content : Contents]
Forms == [filled : SUBSET Fields, files : Seq(FormFiles), values : SUBSET (Repos \X Vars)]
Fetches == [row : Nat, id : 0 .. MaxFiles, live : BOOLEAN, seen : FormFiles, undisturbed : BOOLEAN]
Screens == [form : Forms, targets : SUBSET Repos]
Requests == [stage : {"changeset", "job", "preview", "execute", "run"}, of : Nat, form : Forms,
             targets : SUBSET Repos, job : Nat, here : BOOLEAN, mount : Nat]
Jobs == [of : Nat, files : Seq(FormFiles), targets : SUBSET Repos, values : SUBSET (Repos \X Vars), run : BOOLEAN]

(* The type of the state. *)
FormTypeOK ==
    /\ page \in {"select", "define", "job"} /\ viewed \in Nat
    /\ shown \subseteq Repos /\ selected \subseteq Repos
    /\ form \in Forms /\ fetching \in Fetches
    /\ submits \subseteq Requests /\ jobs \in Seq(Jobs)
    /\ mount \in Nat /\ asked \in Seq(Screens) /\ edits \in Nat

Runs == {"execute", "run"}

(* A request in flight holds what was on the screen when it was sent, which*)
(* was complete; those of the job's pages are about a job that was made.   *)
Asked(s) ==
    /\ s.stage \notin Runs =>
          /\ s.of \in DOMAIN asked
          /\ s.form = asked[s.of].form /\ s.targets = asked[s.of].targets
          /\ s.targets # {} /\ Complete(s.form, s.targets)
    /\ s.stage \in {"preview", "execute", "run"} => s.job \in DOMAIN jobs
    /\ s.stage = "run" => jobs[s.job].run

(* A job is what was on the screen then.                                   *)
MadeOf(screens, j) ==
    /\ j.of \in DOMAIN screens
    /\ Complete(screens[j.of].form, screens[j.of].targets)
    /\ j.files = screens[j.of].form.files /\ j.targets = screens[j.of].targets
    /\ j.values = IF VariablesOf(j.files) = {} THEN {} ELSE screens[j.of].form.values

Made(j) == MadeOf(asked, j)

(* Requests to run a job are told apart.                                   *)
RunsApart == \A s, t \in submits : s.stage \in Runs /\ t.stage \in Runs /\ s.of = t.of => s = t

(* Where the answer of a Fetch will go.                                    *)
Aimed ==
    /\ fetching.live => fetching.row \in DOMAIN form.files
    /\ fetching.undisturbed => fetching.live /\ form.files[fetching.row].id = fetching.id

FormInv ==
    /\ FormTypeOK /\ Aimed /\ RunsApart
    /\ page = "job" => viewed \in DOMAIN jobs
    /\ \A s \in submits : Asked(s)
    /\ \A n \in DOMAIN jobs : Made(jobs[n])
-----------------------------------------------------------------------------
LEMMA EmptyTyped ==
    /\ Empty \in Contents /\ Contents \subseteq [text : BOOLEAN, vars : SUBSET Vars]
    /\ \A id \in 0 .. MaxFiles : EmptyFile(id) \in FormFiles
    /\ Blank \in Forms /\ Blank.files[1].id = 1 /\ 1 \in DOMAIN Blank.files
    /\ NoFetch \in Fetches
<1>1. Empty \in Contents /\ Contents \subseteq [text : BOOLEAN, vars : SUBSET Vars]
  <2>1. [text |-> FALSE, vars |-> {}] \in [text : BOOLEAN, vars : SUBSET Vars]
    OBVIOUS
  <2>2. [text : {TRUE}, vars : SUBSET Vars] \subseteq [text : BOOLEAN, vars : SUBSET Vars]
    OBVIOUS
  <2>3. QED
    BY <2>1, <2>2 DEF Empty, Contents
<1>2. ASSUME NEW id \in 0 .. MaxFiles PROVE EmptyFile(id) \in FormFiles
  BY <1>1 DEF EmptyFile, FormFiles
<1>3. 0 \in 0 .. MaxFiles /\ 1 \in 0 .. MaxFiles
  BY ChangeFormAssumption
<1>4. Blank \in Forms /\ Blank.files[1].id = 1 /\ 1 \in DOMAIN Blank.files
  <2>1. <<EmptyFile(1)>> \in Seq(FormFiles)
    BY <1>2, <1>3
  <2>2. EmptyFile(1).id = 1
    BY DEF EmptyFile
  <2>3. QED
    BY <2>1, <2>2 DEF Blank, Forms
<1>5. NoFetch \in Fetches
  BY <1>2, <1>3 DEF NoFetch, Fetches
<1>6. QED
  BY <1>1, <1>2, <1>4, <1>5

(* While a file can be added there is a number that none has.              *)
LEMMA FreshId ==
    ASSUME form \in Forms, Len(form.files) < MaxFiles
    PROVE  \E n \in 1 .. MaxFiles : \A i \in DOMAIN form.files : form.files[i].id # n
<1> DEFINE len == Len(form.files)
           used == {form.files[i].id : i \in 1 .. len}
<1>1. len \in Nat /\ MaxFiles \in Nat /\ DOMAIN form.files = 1 .. len
  BY ChangeFormAssumption DEF Forms
<1>2. IsFiniteSet(1 .. len) /\ Cardinality(1 .. len) = len
  BY <1>1, FS_Interval
<1>3. Cardinality(1 .. MaxFiles) = MaxFiles
  BY <1>1, FS_Interval
<1>4. IsFiniteSet(used) /\ Cardinality(used) <= len
  <2> DEFINE F == [i \in 1 .. len |-> form.files[i].id]
  <2>1. F \in [1 .. len -> used] /\ used \subseteq used
    OBVIOUS
  <2>2. F \in Surjection(1 .. len, used)
    BY DEF Surjection
  <2>3. QED
    BY <1>2, <2>2, FS_Surjection
<1>5. SUFFICES ASSUME 1 .. MaxFiles \subseteq used PROVE FALSE
  BY <1>1
<1>6. Cardinality(1 .. MaxFiles) <= Cardinality(used)
  BY <1>4, <1>5, FS_Subset
<1>7. QED
  <2>1. Cardinality(used) \in Nat
    BY <1>4, FS_CardinalityType
  <2>2. QED
    BY <1>1, <1>3, <1>4, <1>6, <2>1

LEMMA VariablesTyped ==
    ASSUME NEW files \in Seq(FormFiles)
    PROVE  VariablesOf(files) \subseteq Vars
<1>1. ASSUME NEW i \in DOMAIN files PROVE files[i].content.vars \subseteq Vars
  <2>1. files[i] \in FormFiles
    OBVIOUS
  <2>2. files[i].content \in Contents
    BY <2>1 DEF FormFiles
  <2>3. QED
    BY <2>2, EmptyTyped
<1>2. QED
  BY <1>1 DEF VariablesOf

(* What a request is left with when its editor goes.                       *)
LEMMA UnmountedTyped ==
    ASSUME form \in Forms, fetching \in Fetches, Aimed
    PROVE  /\ Unmounted(fetching) \in Fetches
           /\ ~Unmounted(fetching).live /\ ~Unmounted(fetching).undisturbed
<1>1. CASE fetching.live
  <2>1. form.files[fetching.row] \in FormFiles
    BY <1>1 DEF Forms, Aimed
  <2>2. Unmounted(fetching) =
          [fetching EXCEPT !.live = FALSE, !.seen = form.files[fetching.row], !.undisturbed = FALSE]
    BY <1>1 DEF Unmounted
  <2>3. QED
    BY <2>1, <2>2 DEF Fetches
<1>2. CASE ~fetching.live
  BY <1>2 DEF Unmounted, Aimed, Fetches
<1>3. QED
  BY <1>1, <1>2

(* The form with its files replaced.                                       *)
LEMMA FilesReplaced ==
    ASSUME form \in Forms, NEW files \in Seq(FormFiles)
    PROVE  /\ [form EXCEPT !.files = files] \in Forms
           /\ [form EXCEPT !.files = files].files = files
  BY DEF Forms

-----------------------------------------------------------------------------
(* What each change of the form does to it and to the Fetch under way.     *)
FormKept == form' \in Forms /\ fetching' \in Fetches /\ Aimed'

LEMMA FieldsStep ==
    ASSUME FormInv, FillFields \/ TypeValue PROVE FormKept
<1>1. form \in Forms /\ fetching \in Fetches /\ Aimed /\ selected \subseteq Repos
  BY DEF FormInv, FormTypeOK
<1>2. UNCHANGED fetching
  BY DEF FillFields, TypeValue
<1>3. form' \in Forms /\ form'.files = form.files
  <2>1. CASE FillFields
    <3>1. PICK filled \in SUBSET Fields : form' = [form EXCEPT !.filled = filled]
      BY <2>1 DEF FillFields, Edit
    <3>2. QED
      BY <1>1, <3>1 DEF Forms
  <2>2. CASE TypeValue
    <3>1. PICK cell \in selected \X VariablesOf(form.files) :
             \/ form' = [form EXCEPT !.values = @ \cup {cell}]
             \/ form' = [form EXCEPT !.values = @ \ {cell}]
      BY <2>2 DEF TypeValue, Edit
    <3>2. VariablesOf(form.files) \subseteq Vars
      BY <1>1, VariablesTyped DEF Forms
    <3>3. cell \in Repos \X Vars
      BY <1>1, <3>1, <3>2
    <3>4. QED
      BY <1>1, <3>1, <3>3 DEF Forms
  <2>3. QED
    BY <2>1, <2>2
<1>4. QED
  BY <1>1, <1>2, <1>3 DEF FormKept, Aimed

LEMMA UpdateFileStep == ASSUME FormInv, UpdateFile PROVE FormKept
<1>1. form \in Forms /\ fetching \in Fetches /\ Aimed
  BY DEF FormInv, FormTypeOK
<1>2. PICK i \in DOMAIN form.files : \E f \in Files(form.files[i].id) :
        form' = [form EXCEPT !.files[i] = f] /\ UNCHANGED fetching
  BY DEF UpdateFile, Edit
<1>3. PICK file \in Files(form.files[i].id) :
        form' = [form EXCEPT !.files[i] = file] /\ UNCHANGED fetching
  BY <1>2
<1>4. form.files \in Seq(FormFiles) /\ form.files[i] \in FormFiles
  BY <1>1 DEF Forms
<1>5. file \in FormFiles /\ file.id = form.files[i].id
  BY <1>3, <1>4 DEF Files, FormFiles
<1>6. [form.files EXCEPT ![i] = file] \in Seq(FormFiles)
  BY <1>2, <1>4, <1>5
<1>7. form' = [form EXCEPT !.files = [form.files EXCEPT ![i] = file]]
  BY <1>1, <1>2, <1>3 DEF Forms
<1>8. form' \in Forms /\ form'.files = [form.files EXCEPT ![i] = file]
  BY <1>1, <1>6, <1>7, FilesReplaced
<1>9. QED
  BY <1>1, <1>2, <1>4, <1>5, <1>8 DEF FormKept, Aimed

LEMMA AddFileStep == ASSUME FormInv, AddFile PROVE FormKept
<1>1. form \in Forms /\ fetching \in Fetches /\ Aimed
  BY DEF FormInv, FormTypeOK
<1> DEFINE fresh == CHOOSE n \in 1 .. MaxFiles : \A i \in DOMAIN form.files : form.files[i].id # n
<1>2. fresh \in 1 .. MaxFiles
  BY <1>1, FreshId DEF AddFile
<1>3. form' = [form EXCEPT !.files = Append(@, EmptyFile(fresh))] /\ UNCHANGED fetching
  BY DEF AddFile, Edit
<1> HIDE DEF fresh
<1>4. EmptyFile(fresh) \in FormFiles /\ form.files \in Seq(FormFiles)
  BY <1>1, <1>2, EmptyTyped, ChangeFormAssumption DEF Forms
<1>5. form' \in Forms /\ form'.files = Append(form.files, EmptyFile(fresh))
  <2>1. Append(form.files, EmptyFile(fresh)) \in Seq(FormFiles)
    BY <1>4
  <2>2. form' = [form EXCEPT !.files = Append(form.files, EmptyFile(fresh))]
    BY <1>3
  <2>3. QED
    BY <1>1, <2>1, <2>2, FilesReplaced
<1>6. QED
  BY <1>1, <1>3, <1>4, <1>5 DEF FormKept, Aimed

LEMMA RemoveFileStep == ASSUME FormInv, RemoveFile PROVE FormKept
<1>1. form \in Forms /\ fetching \in Fetches /\ Aimed /\ form.files \in Seq(FormFiles)
  BY DEF FormInv, FormTypeOK, Forms
<1> DEFINE len == Len(form.files)
           rest(i) == SubSeq(form.files, 1, i - 1) \o SubSeq(form.files, i + 1, len)
<1>2. PICK i \in DOMAIN form.files :
        form' = [form EXCEPT !.files = SubSeq(@, 1, i - 1) \o SubSeq(@, i + 1, Len(@))]
  BY DEF RemoveFile, Edit
<1>3. form' = [form EXCEPT !.files = rest(i)] /\ i \in 1 .. len /\ len \in Nat
  BY <1>1, <1>2
<1>4. /\ SubSeq(form.files, 1, i - 1) \in Seq(FormFiles)
      /\ Len(SubSeq(form.files, 1, i - 1)) = i - 1
  BY <1>1, <1>3
<1>5. /\ SubSeq(form.files, i + 1, len) \in Seq(FormFiles)
      /\ Len(SubSeq(form.files, i + 1, len)) = len - i
  BY <1>1, <1>3
<1>6. rest(i) \in Seq(FormFiles) /\ Len(rest(i)) = len - 1
  <2>1. ASSUME NEW front \in Seq(FormFiles), NEW back \in Seq(FormFiles)
        PROVE  front \o back \in Seq(FormFiles) /\ Len(front \o back) = Len(front) + Len(back)
    OBVIOUS
  <2>2. (i - 1) + (len - i) = len - 1
    BY <1>3
  <2>3. QED
    BY <1>4, <1>5, <2>1, <2>2
<1> HIDE DEF rest
<1>7. form' \in Forms /\ form'.files \in Seq(FormFiles) /\ Len(form'.files) = len - 1
  BY <1>1, <1>3, <1>6, FilesReplaced
<1>8. CASE fetching.live /\ fetching.row = len
  BY <1>1, <1>7, <1>8, UnmountedTyped DEF RemoveFile, FormKept, Aimed
<1>9. CASE ~(fetching.live /\ fetching.row = len)
  <2>1. fetching' = [fetching EXCEPT !.undisturbed = FALSE]
    BY <1>9 DEF RemoveFile
  <2>2. /\ fetching' \in Fetches /\ ~fetching'.undisturbed
        /\ fetching'.live = fetching.live /\ fetching'.row = fetching.row
    BY <1>1, <2>1 DEF Fetches
  <2>3. ASSUME fetching.live PROVE fetching.row \in DOMAIN form'.files
    BY <1>1, <1>3, <1>7, <1>9, <2>3 DEF Aimed
  <2>4. QED
    BY <1>7, <2>2, <2>3 DEF FormKept, Aimed
<1>10. QED
  BY <1>8, <1>9

LEMMA MoveFileStep == ASSUME FormInv, MoveFile PROVE FormKept
<1>1. form \in Forms /\ fetching \in Fetches /\ Aimed /\ form.files \in Seq(FormFiles)
  BY DEF FormInv, FormTypeOK, Forms
<1>2. PICK i \in DOMAIN form.files \ {1} :
        form' = [form EXCEPT !.files[i - 1] = form.files[i], !.files[i] = form.files[i - 1]]
  BY DEF MoveFile, Edit
<1> DEFINE files == [form.files EXCEPT ![i - 1] = form.files[i], ![i] = form.files[i - 1]]
<1>3. i - 1 \in DOMAIN form.files /\ form.files[i] \in FormFiles /\ form.files[i - 1] \in FormFiles
  BY <1>1
<1>4. files \in Seq(FormFiles) /\ DOMAIN files = DOMAIN form.files
  BY <1>1, <1>3
<1>5. form' = [form EXCEPT !.files = files]
  BY <1>1, <1>2 DEF Forms
<1>6. form' \in Forms /\ form'.files = files
  BY <1>1, <1>4, <1>5, FilesReplaced
<1>7. fetching' = [fetching EXCEPT !.undisturbed = FALSE]
  BY DEF MoveFile
<1>8. QED
  BY <1>1, <1>4, <1>6, <1>7 DEF FormKept, Aimed, Fetches

LEMMA FetchStep == ASSUME FormInv, Fetch PROVE FormKept
<1>1. form \in Forms /\ form.files \in Seq(FormFiles) /\ UNCHANGED form
  BY DEF FormInv, FormTypeOK, Forms, Fetch
<1>2. PICK i \in DOMAIN form.files :
        fetching' = [row |-> i, id |-> form.files[i].id, live |-> TRUE,
                     seen |-> EmptyFile(0), undisturbed |-> TRUE]
  BY DEF Fetch
<1>3. form.files[i].id \in 0 .. MaxFiles /\ i \in Nat /\ EmptyFile(0) \in FormFiles
  <2>1. form.files[i] \in FormFiles /\ i \in Nat
    BY <1>1
  <2>2. 0 \in 0 .. MaxFiles
    BY ChangeFormAssumption
  <2>3. EmptyFile(0) \in FormFiles
    BY <2>2, EmptyTyped
  <2>4. QED
    BY <2>1, <2>3 DEF FormFiles
<1>4. QED
  BY <1>1, <1>2, <1>3 DEF FormKept, Aimed, Fetches

(* The answer is put into the row it was asked for.                        *)
LEMMA Answer ==
    ASSUME FormInv, FetchAnswered
    PROVE  \/ UNCHANGED form
           \/ \E c \in Contents :
                 /\ fetching.row \in DOMAIN form.files /\ Latest \in FormFiles
                 /\ form' = [form EXCEPT !.files = [form.files EXCEPT ![fetching.row] =
                                                      [Latest EXCEPT !.content = c]]]
<1>1. form \in Forms /\ fetching \in Fetches
  BY DEF FormInv, FormTypeOK
<1>2. SUFFICES ASSUME NEW c \in Contents, fetching.row \in DOMAIN form.files,
                      form' = [form EXCEPT !.files[fetching.row] = [Latest EXCEPT !.content = c]]
               PROVE  /\ Latest \in FormFiles
                      /\ form' = [form EXCEPT !.files = [form.files EXCEPT ![fetching.row] =
                                                           [Latest EXCEPT !.content = c]]]
  BY DEF FetchAnswered
<1>3. Latest \in FormFiles
  <2>1. form.files[fetching.row] \in FormFiles /\ fetching.seen \in FormFiles
    BY <1>1, <1>2 DEF Forms, Fetches
  <2>2. QED
    BY <2>1 DEF Latest
<1>4. QED
  BY <1>1, <1>2, <1>3 DEF Forms

LEMMA FetchAnsweredStep == ASSUME FormInv, FetchAnswered PROVE FormKept
<1>1. form \in Forms /\ form.files \in Seq(FormFiles)
  BY DEF FormInv, FormTypeOK, Forms
<1>2. form' \in Forms
  <2>1. ASSUME NEW c \in Contents, fetching.row \in DOMAIN form.files, Latest \in FormFiles,
               form' = [form EXCEPT !.files = [form.files EXCEPT ![fetching.row] =
                                                 [Latest EXCEPT !.content = c]]]
        PROVE  form' \in Forms
    <3>1. [Latest EXCEPT !.content = c] \in FormFiles
      BY <2>1 DEF FormFiles
    <3>2. [form.files EXCEPT ![fetching.row] = [Latest EXCEPT !.content = c]] \in Seq(FormFiles)
      BY <1>1, <2>1, <3>1
    <3>3. QED
      BY <1>1, <2>1, <3>2, FilesReplaced
  <2>2. QED
    BY <1>1, <2>1, Answer
<1>3. fetching' = NoFetch
  BY DEF FetchAnswered
<1>4. ~NoFetch.live /\ ~NoFetch.undisturbed
  BY DEF NoFetch
<1>5. QED
  BY <1>2, <1>3, <1>4, EmptyTyped DEF FormKept, Aimed

LEMMA FormStep == ASSUME FormInv, [Next]_vars PROVE FormKept
<1>1. form \in Forms /\ fetching \in Fetches /\ Aimed
  BY DEF FormInv, FormTypeOK
<1>2. CASE UNCHANGED form /\ (UNCHANGED fetching \/ fetching' = Unmounted(fetching))
  BY <1>1, <1>2, UnmountedTyped DEF FormKept, Aimed
<1>3. CASE FillFields \/ TypeValue \/ UpdateFile \/ AddFile \/ RemoveFile \/ MoveFile
  BY <1>3, FieldsStep, UpdateFileStep, AddFileStep, RemoveFileStep, MoveFileStep
<1>4. CASE Fetch \/ FetchAnswered
  BY <1>4, FetchStep, FetchAnsweredStep
<1>5. ASSUME NEW s \in submits, Confirmed(s) PROVE FormKept
  BY <1>1, <1>5, UnmountedTyped, EmptyTyped DEF Confirmed, FormKept, Aimed
<1>6. CASE Remount
  <2>1. ~NoFetch.live /\ ~NoFetch.undisturbed
    BY DEF NoFetch
  <2>2. QED
    BY <1>6, <2>1, EmptyTyped DEF Remount, FormKept, Aimed
<1>7. QED
  BY <1>2, <1>3, <1>4, <1>5, <1>6 DEF Next, vars, Go, LeaveTo, Browse, ToggleRepo,
     ToggleSelectAllVisible, Submit, ConfirmAndRun, PostChangeSet, PostJob, PostExecute, Previewed,
     LoseSession, SubmitFails

-----------------------------------------------------------------------------
(* Jobs stay, and one that was run stays so; what was asked for stays.     *)
JobsKept ==
    /\ DOMAIN jobs \subseteq DOMAIN jobs'
    /\ \A n \in DOMAIN jobs : jobs[n].run => jobs'[n].run
    /\ DOMAIN asked \subseteq DOMAIN asked'
    /\ \A n \in DOMAIN asked : asked'[n] = asked[n]

LEMMA AskedStep ==
    ASSUME FormInv, [Next]_vars
    PROVE  /\ asked' \in Seq(Screens) /\ DOMAIN asked \subseteq DOMAIN asked'
           /\ \A n \in DOMAIN asked : asked'[n] = asked[n]
<1>1. asked \in Seq(Screens) /\ form \in Forms /\ selected \subseteq Repos
  BY DEF FormInv, FormTypeOK
<1>2. CASE UNCHANGED asked
  BY <1>1, <1>2
<1>3. CASE Submit
  <2>1. asked' = Append(asked, [form |-> form, targets |-> selected])
    BY <1>3 DEF Submit
  <2>2. [form |-> form, targets |-> selected] \in Screens
    BY <1>1 DEF Screens
  <2>3. QED
    BY <1>1, <2>1, <2>2
<1>4. QED
  BY <1>2, <1>3 DEF Next, vars, Go, Browse, ToggleRepo, ToggleSelectAllVisible, FillFields,
     TypeValue, UpdateFile, AddFile, RemoveFile, MoveFile, Edit, Fetch, FetchAnswered,
     ConfirmAndRun, PostChangeSet, PostJob, PostExecute, Previewed, Confirmed, Remount,
     LoseSession, SubmitFails

(* What a job is, it stays.                                                *)
LEMMA MadeKept ==
    ASSUME NEW before, NEW after, NEW j, MadeOf(before, j), DOMAIN before \subseteq DOMAIN after,
           \A n \in DOMAIN before : after[n] = before[n]
    PROVE  MadeOf(after, j)
BY DEF MadeOf

(* The request that makes a job is a complete one.                         *)
LEMMA PostedJob ==
    ASSUME FormInv, NEW s \in submits, PostJob(s)
    PROVE  \E j \in Jobs : MadeOf(asked, j) /\ jobs' = Append(jobs, j) /\ UNCHANGED asked
<1> DEFINE values == IF VariablesOf(s.form.files) = {} THEN {} ELSE s.form.values
           j == Job(s, s.targets, values)
<1>1. /\ s \in Requests /\ Complete(s.form, s.targets) /\ s.of \in DOMAIN asked
      /\ s.form = asked[s.of].form /\ s.targets = asked[s.of].targets
  BY DEF FormInv, FormTypeOK, Asked, Runs, PostJob
<1>2. values \subseteq Repos \X Vars
  BY <1>1 DEF Requests, Forms
<1>3. j \in Jobs
  BY <1>1, <1>2 DEF Jobs, Job, Requests, Forms
<1>4. MadeOf(asked, j)
  BY <1>1 DEF MadeOf, Job
<1>5. jobs' = Append(jobs, j) /\ UNCHANGED asked
  BY DEF PostJob
<1>6. QED
  BY <1>3, <1>4, <1>5

(* A run that is accepted leaves its mark on the job, and nothing else.    *)
LEMMA RunAccepted ==
    ASSUME FormInv, NEW s \in submits, PostExecute(s)
    PROVE  /\ jobs' \in Seq(Jobs) /\ DOMAIN jobs' = DOMAIN jobs /\ UNCHANGED asked
           /\ s.job \in DOMAIN jobs /\ jobs'[s.job].run
           /\ \A n \in DOMAIN jobs : (jobs[n].run => jobs'[n].run) /\ MadeOf(asked, jobs'[n])
<1>1. jobs \in Seq(Jobs) /\ \A n \in DOMAIN jobs : MadeOf(asked, jobs[n])
  BY DEF FormInv, FormTypeOK, Made
<1>2. jobs' = [jobs EXCEPT ![s.job].run = TRUE] /\ s.job \in DOMAIN jobs /\ UNCHANGED asked
  BY DEF PostExecute, FormInv, Asked
<1> DEFINE j == [jobs[s.job] EXCEPT !.run = TRUE]
<1>3. jobs[s.job] \in Jobs
  BY <1>1, <1>2
<1>4. j \in Jobs /\ j.run
  BY <1>3 DEF Jobs
<1>5. MadeOf(asked, j)
  BY <1>1, <1>2, <1>3 DEF MadeOf, Jobs
<1>6. jobs' = [jobs EXCEPT ![s.job] = j]
  BY <1>2
<1> HIDE DEF j
<1>7. jobs' \in Seq(Jobs) /\ DOMAIN jobs' = DOMAIN jobs
  BY <1>1, <1>2, <1>4, <1>6
<1>8. \A n \in DOMAIN jobs : jobs'[n] = IF n = s.job THEN j ELSE jobs[n]
  BY <1>1, <1>2, <1>6
<1>9. QED
  BY <1>1, <1>2, <1>4, <1>5, <1>7, <1>8

LEMMA JobsStep ==
    ASSUME FormInv, [Next]_vars
    PROVE  jobs' \in Seq(Jobs) /\ JobsKept /\ \A n \in DOMAIN jobs' : MadeOf(asked', jobs'[n])
<1>1. jobs \in Seq(Jobs) /\ \A n \in DOMAIN jobs : MadeOf(asked, jobs[n])
  BY DEF FormInv, FormTypeOK, Made
<1>2. DOMAIN asked \subseteq DOMAIN asked' /\ \A n \in DOMAIN asked : asked'[n] = asked[n]
  BY AskedStep
<1>3. CASE UNCHANGED jobs
  BY <1>1, <1>2, <1>3, MadeKept DEF JobsKept
<1>4. ASSUME NEW s \in submits, PostJob(s)
      PROVE  jobs' \in Seq(Jobs) /\ JobsKept /\ \A n \in DOMAIN jobs' : MadeOf(asked', jobs'[n])
  <2>1. PICK j \in Jobs : MadeOf(asked, j) /\ jobs' = Append(jobs, j)
    BY <1>4, PostedJob
  <2>2. /\ jobs' \in Seq(Jobs) /\ DOMAIN jobs' = DOMAIN jobs \cup {Len(jobs) + 1}
        /\ \A n \in DOMAIN jobs : jobs'[n] = jobs[n]
        /\ jobs'[Len(jobs) + 1] = j
    BY <1>1, <2>1
  <2>3. \A n \in DOMAIN jobs' : MadeOf(asked, jobs'[n])
    BY <1>1, <2>1, <2>2
  <2>4. QED
    BY <1>2, <2>2, <2>3, MadeKept DEF JobsKept
<1>5. ASSUME NEW s \in submits, PostExecute(s)
      PROVE  jobs' \in Seq(Jobs) /\ JobsKept /\ \A n \in DOMAIN jobs' : MadeOf(asked', jobs'[n])
  BY <1>2, <1>5, RunAccepted, MadeKept DEF JobsKept
<1>6. QED
  BY <1>3, <1>4, <1>5 DEF Next, vars, Go, Browse, ToggleRepo, ToggleSelectAllVisible, FillFields,
     TypeValue, UpdateFile, AddFile, RemoveFile, MoveFile, Edit, Fetch, FetchAnswered, Submit,
     ConfirmAndRun, PostChangeSet, Previewed, Confirmed, Remount, LoseSession, SubmitFails

-----------------------------------------------------------------------------
(* A request goes on as it was, whatever happens to the jobs.              *)
LEMMA AskedKept ==
    ASSUME JobsKept, NEW s, Asked(s) PROVE Asked(s)'
BY DEF JobsKept, Asked, Complete, FilesComplete

(* Neither a request nor what it is about changes when its page goes.      *)
LEMMA UnheldTyped ==
    ASSUME NEW requests, requests \subseteq Requests
    PROVE  /\ Unheld(requests) \subseteq Requests
           /\ \A t \in Unheld(requests) : \E s \in requests :
                 /\ t.stage = s.stage /\ t.of = s.of /\ t.form = s.form /\ t.targets = s.targets
                 /\ t.job = s.job /\ t.mount = s.mount /\ ~t.here /\ t = [s EXCEPT !.here = FALSE]
<1>1. ASSUME NEW s \in Requests
      PROVE  LET t == [s EXCEPT !.here = FALSE]
             IN  /\ t \in Requests /\ ~t.here /\ t.of = s.of /\ t.mount = s.mount
                 /\ t.stage = s.stage /\ t.form = s.form /\ t.targets = s.targets /\ t.job = s.job
  BY DEF Requests
<1>2. QED
  BY <1>1 DEF Unheld

LEMMA UnheldAsked ==
    ASSUME NEW requests, requests \subseteq submits, FormInv, JobsKept, submits' = Unheld(requests)
    PROVE  submits' \subseteq Requests /\ RunsApart' /\ \A t \in submits' : Asked(t)'
<1>1. requests \subseteq Requests /\ \A s \in requests : Asked(s)
  BY DEF FormInv, FormTypeOK
<1>2. submits' \subseteq Requests
  BY <1>1, UnheldTyped
<1>3. ASSUME NEW t \in submits' PROVE Asked(t)
  <2>1. PICK s \in requests :
           /\ t.stage = s.stage /\ t.of = s.of /\ t.form = s.form /\ t.targets = s.targets
           /\ t.job = s.job
    BY <1>1, UnheldTyped
  <2>2. Asked(s)
    BY <1>1
  <2>3. QED
    BY <2>1, <2>2 DEF Asked
<1>4. RunsApart'
  <2>1. ASSUME NEW t \in submits', NEW u \in submits', t.stage \in Runs, u.stage \in Runs, t.of = u.of
        PROVE  t = u
    <3>1. PICK s \in requests : t = [s EXCEPT !.here = FALSE] /\ t.stage = s.stage /\ t.of = s.of
      BY <1>1, UnheldTyped
    <3>2. PICK r \in requests : u = [r EXCEPT !.here = FALSE] /\ u.stage = r.stage /\ u.of = r.of
      BY <1>1, UnheldTyped
    <3>3. s = r
      BY <2>1, <3>1, <3>2 DEF FormInv, RunsApart
    <3>4. QED
      BY <3>1, <3>2, <3>3
  <2>2. QED
    BY <2>1 DEF RunsApart
<1>5. QED
  BY <1>2, <1>3, <1>4, AskedKept

(* One request is added or takes another's place.                          *)
LEMMA OneAsked ==
    ASSUME FormInv, JobsKept, NEW t \in Requests, Asked(t)', submits' \subseteq submits \cup {t},
           t.stage \in Runs => \A s \in submits' \ {t} : s.stage \in Runs => s.of # t.of
    PROVE  submits' \subseteq Requests /\ RunsApart' /\ \A s \in submits' : Asked(s)'
<1>1. submits \subseteq Requests /\ RunsApart /\ \A s \in submits : Asked(s)
  BY DEF FormInv, FormTypeOK
<1>2. RunsApart'
  BY <1>1 DEF RunsApart
<1>3. QED
  BY <1>1, <1>2, AskedKept

LEMMA SubmitStep ==
    ASSUME FormInv, JobsKept, Submit
    PROVE  submits' \subseteq Requests /\ RunsApart' /\ \A s \in submits' : Asked(s)'
<1>0. PICK t : t = Sent("changeset", Len(asked'), form, selected, NoJob)
  OBVIOUS
<1>1. form \in Forms /\ selected \subseteq Repos /\ mount \in Nat /\ asked \in Seq(Screens)
  BY DEF FormInv, FormTypeOK
<1>2. /\ asked' = Append(asked, [form |-> form, targets |-> selected])
      /\ selected # {} /\ Complete(form, selected) /\ submits' = submits \cup {t}
  BY <1>0 DEF Submit, Editing
<1>3. /\ Len(asked') \in Nat /\ Len(asked') \in DOMAIN asked'
      /\ asked'[Len(asked')] = [form |-> form, targets |-> selected]
  <2>1. [form |-> form, targets |-> selected] \in Screens
    BY <1>1 DEF Screens
  <2>2. QED
    BY <1>1, <1>2, <2>1
<1>4. /\ t \in Requests /\ t.stage = "changeset" /\ t.of = Len(asked')
      /\ t.form = form /\ t.targets = selected
  BY <1>0, <1>1, <1>3 DEF Sent, Requests, NoJob
<1>5. Asked(t)'
  BY <1>2, <1>3, <1>4 DEF Asked, Runs, Complete, FilesComplete
<1>6. QED
  BY <1>2, <1>4, <1>5, OneAsked DEF Runs

LEMMA PostStep ==
    ASSUME FormInv, JobsKept, jobs' \in Seq(Jobs), NEW s \in submits,
           PostChangeSet(s) \/ PostJob(s)
    PROVE  submits' \subseteq Requests /\ RunsApart' /\ \A t \in submits' : Asked(t)'
<1>1. s \in Requests /\ s.stage \in {"changeset", "job"} /\ Asked(s) /\ Len(jobs') \in Nat
  BY DEF FormInv, FormTypeOK, PostChangeSet, PostJob
<1>2. CASE PostChangeSet(s)
  <2>0. PICK t : t = [s EXCEPT !.stage = "job"]
    OBVIOUS
  <2>1. /\ t \in Requests /\ t.stage = "job" /\ t.of = s.of
        /\ t.form = s.form /\ t.targets = s.targets
    BY <1>1, <2>0 DEF Requests
  <2>2. submits' \subseteq submits \cup {t}
    BY <1>2, <2>0 DEF PostChangeSet
  <2>3. Asked(t)
    BY <1>1, <2>1 DEF Asked, Runs
  <2>4. QED
    BY <2>1, <2>2, <2>3, AskedKept, OneAsked DEF Runs
<1>3. CASE PostJob(s)
  <2>0. PICK t : t = [s EXCEPT !.stage = "preview", !.job = Len(jobs')]
    OBVIOUS
  <2>1. /\ t \in Requests /\ t.stage = "preview" /\ t.job = Len(jobs') /\ t.of = s.of
        /\ t.form = s.form /\ t.targets = s.targets
    BY <1>1, <2>0 DEF Requests
  <2>2. submits' \subseteq submits \cup {t}
    BY <1>3, <2>0 DEF PostJob
  <2>3. Len(jobs') \in DOMAIN jobs'
    <3>1. PICK j \in Jobs : jobs' = Append(jobs, j)
      BY <1>3, PostedJob
    <3>2. jobs \in Seq(Jobs)
      BY DEF FormInv, FormTypeOK
    <3>3. QED
      BY <3>1, <3>2
  <2>4. Asked(s)'
    BY <1>1, AskedKept
  <2>5. Asked(t)'
    BY <1>1, <2>1, <2>3, <2>4 DEF Asked, Runs
  <2>6. QED
    BY <2>1, <2>2, <2>5, OneAsked DEF Runs
<1>4. QED
  BY <1>2, <1>3

LEMMA ConfirmStep ==
    ASSUME FormInv, JobsKept, ConfirmAndRun
    PROVE  submits' \subseteq Requests /\ RunsApart' /\ \A s \in submits' : Asked(s)'
<1>0. PICK n \in 1 .. MaxRuns :
         /\ \A s \in submits : s.stage \in Runs => s.of # n
         /\ submits' = submits \cup {Sent("execute", n, Blank, {}, viewed)}
  BY DEF ConfirmAndRun, Runs
<1>1. PICK t : t = Sent("execute", n, Blank, {}, viewed)
  OBVIOUS
<1>2. viewed \in DOMAIN jobs /\ viewed \in Nat /\ mount \in Nat /\ n \in Nat
  BY ChangeFormAssumption DEF FormInv, FormTypeOK, ConfirmAndRun
<1>3. t \in Requests /\ t.stage = "execute" /\ t.of = n /\ t.job = viewed
  BY <1>1, <1>2, EmptyTyped DEF Sent, Requests
<1>4. Asked(t)
  BY <1>2, <1>3 DEF Asked, Runs
<1>5. QED
  BY <1>0, <1>1, <1>3, <1>4, AskedKept, OneAsked

LEMMA ExecuteStep ==
    ASSUME FormInv, JobsKept, NEW s \in submits, PostExecute(s)
    PROVE  submits' \subseteq Requests /\ RunsApart' /\ \A t \in submits' : Asked(t)'
<1>0. PICK t : t = [s EXCEPT !.stage = "run"]
  OBVIOUS
<1>1. s \in Requests /\ s.stage = "execute"
  BY DEF FormInv, FormTypeOK, PostExecute
<1>2. t \in Requests /\ t.stage = "run" /\ t.of = s.of /\ t.job = s.job
  BY <1>0, <1>1 DEF Requests
<1>3. submits' = (submits \ {s}) \cup {t}
  BY <1>0 DEF PostExecute
<1>4. s.job \in DOMAIN jobs' /\ jobs'[s.job].run
  BY RunAccepted
<1>5. Asked(t)'
  BY <1>2, <1>4 DEF Asked, Runs
<1>6. \A r \in submits' \ {t} : r.stage \in Runs => r.of # t.of
  BY <1>1, <1>2, <1>3 DEF FormInv, RunsApart, Runs
<1>7. QED
  BY <1>2, <1>3, <1>5, <1>6, OneAsked

LEMMA RequestsStep ==
    ASSUME FormInv, [Next]_vars
    PROVE  submits' \subseteq Requests /\ RunsApart' /\ \A s \in submits' : Asked(s)'
<1>1. JobsKept /\ jobs' \in Seq(Jobs)
  BY JobsStep
<1>2. CASE submits' \subseteq submits
  <2>1. submits \subseteq Requests /\ RunsApart /\ \A s \in submits : Asked(s)
    BY DEF FormInv, FormTypeOK
  <2>2. RunsApart'
    BY <1>2, <2>1 DEF RunsApart
  <2>3. QED
    BY <1>1, <1>2, <2>1, <2>2, AskedKept
<1>3. CASE Go \/ LoseSession
  BY <1>1, <1>3, UnheldAsked DEF Go, LoseSession
<1>4. ASSUME NEW s \in submits, submits' = Unheld(submits \ {s})
      PROVE  submits' \subseteq Requests /\ RunsApart' /\ \A t \in submits' : Asked(t)'
  BY <1>1, <1>4, UnheldAsked
<1>5. ASSUME NEW s \in submits, PostChangeSet(s) \/ PostJob(s)
      PROVE  submits' \subseteq Requests /\ RunsApart' /\ \A t \in submits' : Asked(t)'
  BY <1>1, <1>5, PostStep
<1>6. ASSUME NEW s \in submits, PostExecute(s)
      PROVE  submits' \subseteq Requests /\ RunsApart' /\ \A t \in submits' : Asked(t)'
  BY <1>1, <1>6, ExecuteStep
<1>7. QED
  BY <1>1, <1>2, <1>3, <1>4, <1>5, <1>6, SubmitStep, ConfirmStep
  DEF Next, vars, Browse, ToggleRepo, ToggleSelectAllVisible, FillFields, TypeValue, UpdateFile,
      AddFile, RemoveFile, MoveFile, Edit, Fetch, FetchAnswered, Previewed, Confirmed, SubmitFails

-----------------------------------------------------------------------------
LEMMA PageStep ==
    ASSUME FormInv, [Next]_vars
    PROVE  /\ page' \in {"select", "define", "job"} /\ viewed' \in Nat
           /\ page' = "job" => viewed' \in DOMAIN jobs'
<1>1. /\ page \in {"select", "define", "job"} /\ viewed \in Nat /\ jobs \in Seq(Jobs)
      /\ page = "job" => viewed \in DOMAIN jobs
  BY DEF FormInv, FormTypeOK
<1>2. DOMAIN jobs \subseteq DOMAIN jobs'
  BY JobsStep DEF JobsKept
<1>3. CASE UNCHANGED <<page, viewed>>
  BY <1>1, <1>2, <1>3
<1>4. CASE Go
  BY <1>1, <1>2, <1>4 DEF Go, LeaveTo, NoJob
<1>5. ASSUME NEW s \in submits, Previewed(s) \/ Confirmed(s)
      PROVE  page' = "job" /\ viewed' \in DOMAIN jobs /\ viewed' \in Nat
  BY <1>5 DEF Previewed, Confirmed, LeaveTo, FormInv, FormTypeOK, Asked, Requests
<1>6. QED
  BY <1>2, <1>3, <1>4, <1>5 DEF Next, vars, Browse, ToggleRepo, ToggleSelectAllVisible, FillFields,
     TypeValue, UpdateFile, AddFile, RemoveFile, MoveFile, Edit, Fetch, FetchAnswered, Submit,
     ConfirmAndRun, PostChangeSet, PostJob, PostExecute, Remount, LoseSession, SubmitFails, location

LEMMA ListsStep ==
    ASSUME FormInv, [Next]_vars
    PROVE  shown' \subseteq Repos /\ selected' \subseteq Repos /\ edits' \in Nat /\ mount' \in Nat
<1>1. shown \subseteq Repos /\ selected \subseteq Repos /\ edits \in Nat /\ mount \in Nat
  BY DEF FormInv, FormTypeOK
<1>2. UNCHANGED edits \/ edits' = edits + 1
  BY DEF Next, vars, Go, Browse, ToggleRepo, ToggleSelectAllVisible, FillFields,
     TypeValue, UpdateFile, AddFile, RemoveFile, MoveFile, Edit, Fetch, FetchAnswered, Submit,
     ConfirmAndRun, PostChangeSet, PostJob, PostExecute, Previewed, Confirmed, Remount, LoseSession,
     SubmitFails, location
<1>3. UNCHANGED mount \/ mount' = mount + 1
  BY DEF Next, vars, Go, Browse, ToggleRepo, ToggleSelectAllVisible, FillFields,
     TypeValue, UpdateFile, AddFile, RemoveFile, MoveFile, Edit, Fetch, FetchAnswered, Submit,
     ConfirmAndRun, PostChangeSet, PostJob, PostExecute, Previewed, Confirmed, Remount, LoseSession,
     SubmitFails, location
<1>4. UNCHANGED shown \/ shown' = {} \/ Browse
  BY DEF Next, vars, Go, LeaveTo, Browse, ToggleRepo, ToggleSelectAllVisible, FillFields,
     TypeValue, UpdateFile, AddFile, RemoveFile, MoveFile, Edit, Fetch, FetchAnswered, Submit,
     ConfirmAndRun, PostChangeSet, PostJob, PostExecute, Previewed, Confirmed, Remount, LoseSession,
     SubmitFails, location
<1>5. Browse => shown' \subseteq Repos
  BY DEF Browse, Repos
<1>6. UNCHANGED selected \/ selected' = {} \/ (\E r \in Repos : ToggleRepo(r)) \/ ToggleSelectAllVisible
  BY DEF Next, vars, Go, Browse, FillFields,
     TypeValue, UpdateFile, AddFile, RemoveFile, MoveFile, Edit, Fetch, FetchAnswered, Submit,
     ConfirmAndRun, PostChangeSet, PostJob, PostExecute, Previewed, Confirmed, Remount, LoseSession,
     SubmitFails, location
<1>7. selected' \subseteq Repos
  BY <1>1, <1>6 DEF ToggleRepo, ToggleSelectAllVisible
<1>8. QED
  BY <1>1, <1>2, <1>3, <1>4, <1>5, <1>7
-----------------------------------------------------------------------------
LEMMA AfterInit == Init => FormInv
<1> SUFFICES ASSUME Init PROVE FormInv
  OBVIOUS
<1>1. ~NoFetch.live /\ ~NoFetch.undisturbed
  BY DEF NoFetch
<1>2. FormTypeOK
  BY EmptyTyped DEF Init, FormTypeOK, NoJob
<1>3. QED
  BY <1>1, <1>2 DEF Init, FormInv, Aimed, RunsApart

(* The inductive invariant of the form and its requests.                   *)
THEOREM FormInvariant == Spec => []FormInv
<1>1. FormInv /\ [Next]_vars => FormInv'
  BY FormStep, AskedStep, JobsStep, RequestsStep, PageStep, ListsStep
  DEF FormInv, FormTypeOK, FormKept, Made
<1>2. QED
  BY <1>1, AfterInit, PTL DEF Spec

(* What the Define page lets through is accepted by the routes, and every  *)
(* row of every job has something to be rendered and a value for each of   *)
(* the variables in its files.                                             *)
THEOREM ArrivesComplete == Spec => []SubmittedIsComplete
<1>1. ASSUME FormInv PROVE SubmittedIsComplete
  <2>1. ASSUME NEW s \in submits, s.stage \notin Runs PROVE s.targets # {} /\ Accepts(s.form)
    BY <1>1, <2>1 DEF FormInv, Asked, Runs, Complete, FilesComplete, Accepts, Fields
  <2>2. ASSUME NEW n \in DOMAIN jobs
        PROVE  /\ jobs[n].targets \X VariablesOf(jobs[n].files) \subseteq jobs[n].values
               /\ \A i \in DOMAIN jobs[n].files : jobs[n].files[i].content.text
    <3>1. Made(jobs[n])
      BY <1>1 DEF FormInv
    <3>2. CASE VariablesOf(jobs[n].files) = {}
      BY <3>1, <3>2 DEF Made, MadeOf, Complete, FilesComplete
    <3>3. CASE VariablesOf(jobs[n].files) # {}
      BY <3>1, <3>3 DEF Made, MadeOf, Complete, FilesComplete
    <3>4. QED
      BY <3>2, <3>3
  <2>3. QED
    BY <2>1, <2>2 DEF SubmittedIsComplete, Runs
<1>2. QED
  BY <1>1, FormInvariant, PTL

(* A job is made of one state of the form and the selection, that of the   *)
(* click that asked for it, whatever happens between its two requests.     *)
THEOREM OneState == Spec => []JobAsSubmitted
<1>1. FormInv => JobAsSubmitted
  BY DEF FormInv, Made, MadeOf, JobAsSubmitted
<1>2. QED
  BY <1>1, FormInvariant, PTL

(* As long as the session lasts, a repository stays selected until it is   *)
(* taken out where it can be seen, or a run asked for in it is accepted.   *)
THEOREM SelectionStays == Spec => SelectionKept
<1> DEFINE Kept == \A r \in selected \ selected' :
                      \/ mount' # mount
                      \/ selected \ selected' = {r} /\ page = "select"
                      \/ r \in shown
                      \/ \E s \in submits \ submits' :
                            s.stage = "run" /\ s.mount = mount /\ jobs[s.job].run
<1>1. ASSUME FormInv, [Next]_vars PROVE [Kept]_vars
  <2>1. CASE UNCHANGED selected
    BY <2>1
  <2>2. ASSUME NEW r \in Repos, ToggleRepo(r) PROVE Kept
    BY <2>2 DEF ToggleRepo
  <2>3. CASE ToggleSelectAllVisible
    BY <2>3 DEF ToggleSelectAllVisible
  <2>4. ASSUME NEW s \in submits, Confirmed(s), s.mount = mount PROVE Kept
    <3>1. s.stage = "run" /\ jobs[s.job].run /\ submits' = Unheld(submits \ {s})
      BY <1>1, <2>4 DEF Confirmed, FormInv, Asked
    <3>2. ASSUME s \in submits' PROVE FALSE
      <4>1. submits \ {s} \subseteq Requests
        BY <1>1 DEF FormInv, FormTypeOK
      <4>2. PICK t \in submits \ {s} : s.stage = t.stage /\ s.of = t.of
        BY <3>1, <3>2, <4>1, UnheldTyped
      <4>3. t = s
        BY <1>1, <3>1, <4>2 DEF FormInv, RunsApart, Runs
      <4>4. QED
        BY <4>3
    <3>3. QED
      BY <2>4, <3>1, <3>2
  <2>5. CASE Remount
    BY <1>1, <2>5 DEF Remount, FormInv, FormTypeOK
  <2>6. QED
    BY <1>1, <2>1, <2>2, <2>3, <2>4, <2>5 DEF Next, vars, Go, Browse, FillFields, TypeValue,
       UpdateFile, AddFile, RemoveFile, MoveFile, Edit, Fetch, FetchAnswered, Submit, ConfirmAndRun,
       PostChangeSet, PostJob, PostExecute, Previewed, Confirmed, LoseSession, SubmitFails
<1>2. QED
  BY <1>1, FormInvariant, PTL DEF Spec, SelectionKept

(* Rows that move, and an editor that goes, leave a trace.                 *)
LEMMA Disturbed ==
    ASSUME FormInv, fetching.undisturbed
    PROVE  /\ fetching # NoFetch /\ Unmounted(fetching) # NoFetch
           /\ [fetching EXCEPT !.undisturbed = FALSE] # NoFetch
<1>1. /\ fetching \in Fetches /\ fetching.live /\ fetching.row \in DOMAIN form.files
      /\ form.files \in Seq(FormFiles)
  BY DEF FormInv, FormTypeOK, Aimed, Forms
<1>2. fetching.row # 0 /\ NoFetch.row = 0
  BY <1>1 DEF NoFetch
<1>3. Unmounted(fetching).row = fetching.row
  BY <1>1 DEF Unmounted, Fetches
<1>4. [fetching EXCEPT !.undisturbed = FALSE].row = fetching.row
  BY <1>1 DEF Fetches
<1>5. QED
  BY <1>2, <1>3, <1>4

(* What is fetched while the rows stay where they are goes to the file it  *)
(* was asked for, and leaves what was typed meanwhile.                     *)
THEOREM TypingStays == Spec => FetchKeepsTyping
<1> DEFINE Kept == fetching.undisturbed /\ fetching' = NoFetch /\ mount' = mount =>
                      \A i \in DOMAIN form.files :
                          \/ form'.files[i] = form.files[i]
                          \/ /\ form.files[i].id = fetching.id
                             /\ [form'.files[i] EXCEPT !.content = form.files[i].content]
                                    = form.files[i]
<1>1. ASSUME FormInv, [Next]_vars PROVE [Kept]_vars
  <2>1. SUFFICES ASSUME fetching.undisturbed, fetching' = NoFetch, mount' = mount,
                        NEW i \in DOMAIN form.files, form'.files[i] # form.files[i]
                 PROVE  /\ form.files[i].id = fetching.id
                        /\ [form'.files[i] EXCEPT !.content = form.files[i].content] = form.files[i]
    OBVIOUS
  <2>2. ~UNCHANGED form
    BY <2>1
  <2>3. ~UNCHANGED fetching /\ fetching' # Unmounted(fetching)
        /\ fetching' # [fetching EXCEPT !.undisturbed = FALSE]
    BY <1>1, <2>1, Disturbed
  <2>3a. ~Remount
    BY <1>1, <2>1 DEF Remount, FormInv, FormTypeOK
  <2>4. FetchAnswered
    BY <1>1, <2>2, <2>3, <2>3a DEF Next, vars, Go, Browse, ToggleRepo, ToggleSelectAllVisible,
       FillFields, TypeValue, UpdateFile, AddFile, RemoveFile, MoveFile, Fetch, Submit,
       ConfirmAndRun, PostChangeSet, PostJob, PostExecute, Previewed, Confirmed, LoseSession,
       SubmitFails
  <2>5. PICK c \in Contents :
           form' = [form EXCEPT !.files = [form.files EXCEPT ![fetching.row] =
                                             [Latest EXCEPT !.content = c]]]
    BY <1>1, <2>2, <2>4, Answer
  <2>6. /\ form \in Forms /\ form.files \in Seq(FormFiles)
        /\ fetching.live /\ fetching.row \in DOMAIN form.files
        /\ form.files[fetching.row].id = fetching.id
    BY <1>1, <2>1 DEF FormInv, FormTypeOK, Aimed, Forms
  <2>7. form'.files = [form.files EXCEPT ![fetching.row] = [Latest EXCEPT !.content = c]]
    BY <2>5, <2>6 DEF Forms
  <2>8. i = fetching.row
    BY <2>1, <2>6, <2>7
  <2>9. Latest = form.files[i] /\ form.files[i] \in FormFiles
    BY <2>6, <2>8 DEF Latest
  <2>10. form'.files[i] = [form.files[i] EXCEPT !.content = c]
    BY <2>6, <2>7, <2>8, <2>9
  <2>11. [[form.files[i] EXCEPT !.content = c] EXCEPT !.content = form.files[i].content]
            = form.files[i]
    BY <2>9 DEF FormFiles
  <2>12. QED
    BY <2>6, <2>8, <2>10, <2>11
<1>2. QED
  BY <1>1, FormInvariant, PTL DEF Spec, FetchKeepsTyping
=============================================================================
