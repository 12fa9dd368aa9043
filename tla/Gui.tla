-------------------------------- MODULE Gui --------------------------------
(***************************************************************************)
(* The window (gui/src/main.rs): one thread draws and reacts to the user,  *)
(* one runs the command line program for the current action, and one reads *)
(* its stderr.  They talk through an mpsc channel that is drained when a   *)
(* frame is drawn.                                                         *)
(*                                                                         *)
(* A result is kept as what it was made for: a profile, a project and the  *)
(* baseline it was compared with.  A slot that shows a result is a set of  *)
(* at most one.  Messages, layout and --allow-dirty are left out.          *)
(***************************************************************************)
EXTENDS Naturals, Sequences, Functions

CONSTANTS
  Profile,    \* PROFILES
  Live,       \* the live development profile
  Pinnable,   \* the profiles whose pins the window updates
  MuSig2,     \* the profiles of the MuSig2 baseline
  Project,    \* PROJECTS
  Harness,    \* the project that stands for all code
  Baseline,   \* COMPARISON_BASELINES
  MaxCases,   \* bound: the cases of a check
  MaxCommits, \* bound: the commits made in the checkouts
  MaxStray    \* bound: the lines not yet read when run_cli gives up

ASSUME GuiAssumption ==
  /\ Live \in Profile /\ Pinnable \subseteq Profile \ {Live} /\ MuSig2 \subseteq Profile \ {Live}
  /\ Harness \in Project /\ Baseline # {} /\ MaxCases \in Nat \ {0}
  /\ MaxCommits \in Nat /\ MaxStray \in Nat

Legs == 2
Idle == "idle"
Action == {"compare", "doctor", "fetch", "preview", "check", "pin_preview", "pin"}

VARIABLES
  profile, project, baseline,      \* what the user has chosen
  liveProfile,                     \* interop.yaml is there
  running,                         \* the action that runs, or Idle
  doctor, selection, summary,      \* what is shown: the results of doctor, preview, check,
  comparison,                      \* compare (with the project it affects)
  changes, reviewed,               \* and pin --dry-run, and that it was reviewed
  completed, total,                \* the progress bar
  thread,                          \* the thread of the action: commands to run, and for what
  cli,                             \* the command it runs
  stderr,                          \* the lines of it not yet read
  queue,                           \* the channel
  stray,                           \* the lines a reader that was not joined has left to send
  tip                              \* the revision the checkouts are at

choice   == <<profile, project, baseline, liveProfile>>
shown    == <<doctor, selection, summary, comparison, changes, reviewed>>
progress == <<completed, total>>
aside    == <<stray, tip>>
back     == <<thread, cli, stderr, aside>>
vars     == <<choice, running, shown, progress, back, queue>>

NoThread == [todo |-> <<>>, profile |-> Live, project |-> Harness, lock |-> {}]
NoCli    == [state |-> "none", stage |-> "begin", total |-> 0, done |-> 0, legs |-> 0,
             code |-> 0, out |-> {}]

Init ==
  /\ profile \in Pinnable /\ project = Harness /\ baseline \in Baseline
  /\ liveProfile \in BOOLEAN /\ running = Idle
  /\ doctor = {} /\ selection = {} /\ summary = {} /\ comparison = {} /\ changes = {}
  /\ reviewed = FALSE /\ completed = 0 /\ total = 0
  /\ thread = NoThread /\ cli = NoCli /\ stderr = <<>> /\ queue = <<>>
  /\ stray = {} /\ tip = 0

-----------------------------------------------------------------------------
(* The user                                                                *)

(* Mutant: the pin preview of the profile left behind stays.                *)
ChooseProfileKeepPins(p) ==
  /\ running = Idle /\ p # profile /\ profile' = p
  /\ doctor' = {} /\ selection' = {} /\ summary' = {} /\ comparison' = {}
  /\ UNCHANGED <<project, baseline, liveProfile, running, changes, reviewed, progress, back, queue>>

ChooseProfile(p) ==
  /\ running = Idle /\ p # profile /\ profile' = p
  /\ doctor' = {} /\ selection' = {} /\ summary' = {} /\ comparison' = {}
  /\ changes' = {} /\ reviewed' = FALSE
  /\ UNCHANGED <<project, baseline, liveProfile, running, progress, back, queue>>

ChooseProject(q) ==
  /\ running = Idle /\ q # project /\ project' = q
  /\ selection' = {} /\ summary' = {}
  /\ UNCHANGED <<profile, baseline, liveProfile, running, doctor, comparison, changes,
                 reviewed, progress, back, queue>>

ChooseBaseline(b) ==
  /\ profile = Live /\ running = Idle /\ b # baseline /\ baseline' = b
  /\ comparison' = {}
  /\ UNCHANGED <<profile, project, liveProfile, running, doctor, selection, summary, changes,
                 reviewed, progress, back, queue>>

CreateLiveProfile ==
  /\ profile = Live /\ ~ liveProfile /\ liveProfile' = TRUE
  /\ UNCHANGED <<profile, project, baseline, running, shown, progress, back, queue>>

Ready == running = Idle /\ (profile = Live => liveProfile)

(* Mutant: every profile is compared with the chosen baseline.              *)
StartAlwaysCompares(a, q) ==
  /\ running' = a /\ completed' = 0 /\ total' = 0
  /\ thread' = [todo |-> <<a>>, profile |-> profile, project |-> q, lock |-> {baseline}]
  /\ doctor'    = IF a = "doctor" THEN {} ELSE doctor
  /\ selection' = IF a = "preview" THEN {} ELSE selection
  /\ changes'   = IF a = "pin_preview" THEN {} ELSE changes
  /\ reviewed'  = (reviewed /\ a # "pin_preview")
  /\ UNCHANGED <<comparison, cli, stderr, queue, profile, baseline, liveProfile, aside>>

(* start: it clears the slots of the action, and its thread takes what is    *)
(* chosen at this moment.  Doctor in the live profile compares first.        *)
Start(a, q) ==
  /\ running' = a /\ completed' = 0 /\ total' = 0
  /\ thread' = [todo    |-> IF a = "doctor" /\ profile = Live THEN <<"compare", a>> ELSE <<a>>,
                profile |-> profile, project |-> q,
                lock    |-> IF profile = Live THEN {baseline} ELSE {}]
  /\ doctor'    = IF a = "doctor" THEN {} ELSE doctor
  /\ selection' = IF a = "preview" THEN {} ELSE selection
  /\ changes'   = IF a = "pin_preview" THEN {} ELSE changes
  /\ reviewed'  = (reviewed /\ a # "pin_preview")
  /\ UNCHANGED <<comparison, cli, stderr, queue, profile, baseline, liveProfile, aside>>

Offered(a) ==
  CASE a = "compare" -> profile = Live
    [] a \in {"fetch", "pin_preview"} -> profile \in Pinnable
    [] a = "pin" -> profile \in Pinnable /\ reviewed /\ \E c \in changes : c.changed
    [] OTHER -> TRUE

Click(a) ==
  /\ Ready /\ Offered(a) /\ Start(a, project)
  /\ summary' = IF a = "check" THEN {} ELSE summary
  /\ UNCHANGED project

(* Mutant: the report of the project before stays.                          *)
PreviewAffectedOnly(q) ==
  /\ Ready /\ profile = Live /\ \E c \in comparison : q \in c.affected
  /\ project' = q /\ summary' = summary /\ Start("preview", q)

(* "Preview affected cases" chooses the project that the comparison names.   *)
PreviewAffected(q) ==
  /\ Ready /\ profile = Live /\ \E c \in comparison : q \in c.affected
  /\ project' = q
  /\ summary' = IF q # project THEN {} ELSE summary
  /\ Start("preview", q)

-----------------------------------------------------------------------------
(* The thread of an action and the command it runs (run_cli)               *)

front == <<choice, running, shown, progress, aside>>
Command == Head(thread.todo)

(* check_mode: the MuSig2 legs belong to the check of all code of a MuSig2   *)
(* profile.                                                                  *)
Release == thread.profile \in MuSig2 /\ thread.project = Harness

Compared(affected) ==
  {[lock |-> b, affected |-> affected] : b \in thread.lock}

Spawn ==
  /\ thread.todo # <<>> /\ cli.state = "none"
  /\ cli' = [NoCli EXCEPT !.state = "running"]
  /\ UNCHANGED <<front, thread, stderr, queue>>

(* Mutant: an early return of the thread says nothing.                      *)
CannotStartSilently ==
  /\ thread.todo # <<>> /\ cli.state = "none" /\ thread' = NoThread
  /\ UNCHANGED <<front, cli, stderr, queue>>

CannotStart ==
  /\ thread.todo # <<>> /\ cli.state = "none"
  /\ cli' = [NoCli EXCEPT !.state = "exited", !.code = 2]
  /\ UNCHANGED <<front, thread, stderr, queue>>

Checking == thread.todo # <<>> /\ cli.state = "running" /\ Command = "check"
Writes(line) == stderr' = Append(stderr, line)
Line(stage, n, compared) == [type |-> "progress", stage |-> stage, n |-> n, compared |-> compared]

CliCompares ==
  /\ Checking /\ cli.stage = "begin" /\ thread.lock # {}
  /\ cli' = [cli EXCEPT !.stage = "compared"]
  /\ \E q \in {{}} \cup {{p} : p \in Project} : Writes(Line("baseline-comparison", 0, Compared(q)))
  /\ UNCHANGED <<front, thread, queue>>

CliPreflight(n) ==
  /\ Checking /\ cli.stage = IF thread.lock = {} THEN "begin" ELSE "compared"
  /\ cli' = [cli EXCEPT !.stage = "cases", !.total = n]
  /\ Writes(Line("preflight", n, {}))
  /\ UNCHANGED <<front, thread, queue>>

CliCase ==
  /\ Checking /\ cli.stage = "cases" /\ cli.done < cli.total
  /\ cli' = [cli EXCEPT !.done = @ + 1]
  /\ Writes(Line("case-done", cli.done + 1, {}))
  /\ UNCHANGED <<front, thread, queue>>

(* Each leg has a start line and a done line: legs counts the lines.         *)
CliLeg ==
  /\ Checking /\ cli.stage = "cases" /\ cli.done = cli.total /\ Release
  /\ cli.legs < 2 * Legs /\ cli' = [cli EXCEPT !.legs = @ + 1]
  /\ Writes(Line(IF cli.legs % 2 = 0 THEN "musig2-start" ELSE "musig2-done", 0, {}))
  /\ UNCHANGED <<front, thread, queue>>

(* The JSON a command prints, for what its thread was started for.  pin, dry *)
(* or not, prints the revisions the checkouts are at when it runs.           *)
Output ==
  {[profile |-> thread.profile, project |-> thread.project, changed |-> c,
    tip |-> IF Command \in {"pin_preview", "pin"} THEN tip ELSE 0,
    compared |-> IF Command \in {"compare", "preview", "check"} THEN Compared(q) ELSE {}] :
     c \in IF Command = "pin_preview" THEN BOOLEAN ELSE {FALSE},
     q \in {{}} \cup {{p} : p \in Project}}

(* A check prints it once every case is done, also when it exits with 1.     *)
(* "exited" stands for the end of its pipes and of itself.                   *)
CliSucceeds ==
  /\ thread.todo # <<>> /\ cli.state = "running"
  /\ Command = "check" => cli.stage = "cases" /\ cli.done = cli.total /\ cli.legs % 2 = 0
  /\ \E r \in Output, c \in IF Command = "check" THEN {0, 1} ELSE {0} :
       cli' = [cli EXCEPT !.state = "exited", !.code = c, !.out = {r}]
  /\ UNCHANGED <<front, thread, stderr, queue>>

CliFails ==
  /\ cli.state = "running"
  /\ cli' = [cli EXCEPT !.state = "exited", !.code = 2]
  /\ UNCHANGED <<front, thread, stderr, queue>>

(* The thread that reads stderr                                             *)
Forward ==
  /\ stderr # <<>> /\ queue' = Append(queue, Head(stderr)) /\ stderr' = Tail(stderr)
  /\ UNCHANGED <<front, thread, cli>>

(* Doctor's comparison is an event of its own.                              *)
SendComparison ==
  /\ Len(thread.todo) = 2 /\ cli.state = "exited" /\ stderr = <<>>
  /\ queue' = Append(queue, [type |-> "comparison", ok |-> cli.code = 0,
                             compared |-> UNION {r.compared : r \in cli.out}])
  /\ thread' = [thread EXCEPT !.todo = Tail(@)] /\ cli' = NoCli
  /\ UNCHANGED <<front, stderr>>

Finished == [type |-> "finished", action |-> Command, code |-> cli.code, out |-> cli.out]

(* Mutant: the thread does not join the reader.                             *)
SendFinishedAtOnce ==
  /\ Len(thread.todo) = 1 /\ cli.state = "exited"
  /\ queue' = Append(queue, Finished) /\ thread' = NoThread /\ cli' = NoCli
  /\ UNCHANGED <<front, stderr>>

(* run_cli read stdout and joins the reader before it returns.               *)
SendFinished ==
  /\ Len(thread.todo) = 1 /\ cli.state = "exited" /\ stderr = <<>>
  /\ queue' = Append(queue, Finished) /\ thread' = NoThread /\ cli' = NoCli
  /\ UNCHANGED <<front, stderr>>

(* run_cli gives up: what it read of stdout was no text, or the command could *)
(* not be waited for.  It returns before it joins the reader, and the thread  *)
(* ends the action while the reader still has lines to send.  At most one     *)
(* reader is left like this.                                                  *)
SendFinishedUnread ==
  /\ Len(thread.todo) = 1 /\ cli.state = "exited"
  /\ stderr # <<>> /\ Len(stderr) <= MaxStray /\ stray = {}
  /\ queue' = Append(queue, [type |-> "finished", action |-> Command, code |-> 2, out |-> {}])
  /\ stray' = {stderr} /\ stderr' = <<>> /\ thread' = NoThread /\ cli' = NoCli
  /\ UNCHANGED <<choice, running, shown, progress, tip>>

(* Someone commits in the checkouts, while the window is open.               *)
Commit ==
  /\ tip < MaxCommits /\ tip' = tip + 1
  /\ UNCHANGED <<choice, running, shown, progress, thread, cli, stderr, queue, stray>>

-----------------------------------------------------------------------------
(* The events, as a frame takes them from the channel                       *)

Event(type) == queue # <<>> /\ Head(queue).type = type /\ queue' = Tail(queue)
Compare(compared) == comparison' = IF compared = {} THEN comparison ELSE compared

ReceiveComparison ==
  /\ Event("comparison") /\ comparison' = Head(queue).compared
  /\ UNCHANGED <<choice, running, doctor, selection, summary, changes, reviewed, progress, back>>

(* What a line of progress changes.                                          *)
ShowProgress(e) ==
  /\ Compare(e.compared)
  /\ total' = CASE e.stage = "preflight" -> e.n
                [] e.stage = "musig2-start" -> total + 1
                [] OTHER -> total
  /\ completed' = CASE e.stage = "case-done" -> e.n
                    [] e.stage = "musig2-done" -> completed + 1
                    [] OTHER -> completed

ReceiveProgress ==
  /\ Event("progress") /\ ShowProgress(Head(queue))
  /\ UNCHANGED <<choice, running, doctor, selection, summary, changes, reviewed, back>>

(* A line of a reader that was not joined: it is put into the channel at any *)
(* time, so it is received between any two events.                           *)
ReceiveStray ==
  \E s \in stray :
    /\ s # <<>> /\ ShowProgress(Head(s)) /\ stray' = {Tail(s)}
    /\ UNCHANGED <<choice, running, doctor, selection, summary, changes, reviewed,
                   thread, cli, stderr, queue, tip>>

(* finish without JSON, or with an exit code that is not a check's          *)
FinishFailed ==
  /\ Event("finished") /\ running' = Idle
  /\ Head(queue).out = {} \/ (Head(queue).code # 0 /\ Head(queue).action # "check")
  /\ comparison' = IF Head(queue).action = "compare" THEN {} ELSE comparison
  /\ UNCHANGED <<choice, doctor, selection, summary, changes, reviewed, progress, back>>

Finish(r) ==
  /\ Event("finished") /\ running' = Idle
  /\ LET a == Head(queue).action IN
       /\ r \in Head(queue).out /\ (Head(queue).code = 0 \/ a = "check")
       /\ Compare(r.compared)
       /\ doctor' = IF a = "doctor" THEN {r.profile} ELSE doctor
       /\ selection' = CASE a = "preview" -> {<<r.profile, r.project>>}
                         [] a = "check" -> {}
                         [] OTHER -> selection
       /\ summary' = IF a = "check" THEN {<<r.profile, r.project>>} ELSE summary
       /\ changes' = CASE a = "pin_preview" -> {[profile |-> r.profile, changed |-> r.changed, tip |-> r.tip]}
                       [] a = "pin" -> {}
                       [] OTHER -> changes
       /\ reviewed' = CASE a = "pin_preview" -> TRUE [] a = "pin" -> FALSE [] OTHER -> reviewed
  /\ UNCHANGED <<choice, progress, back>>

-----------------------------------------------------------------------------
CliStep ==
  \/ CliCompares \/ CliCase \/ CliLeg \/ CliSucceeds \/ CliFails
  \/ \E n \in 1 .. MaxCases : CliPreflight(n)

ThreadStep  == Spawn \/ CannotStart \/ SendComparison \/ SendFinished \/ SendFinishedUnread

Receive ==
  \/ ReceiveComparison \/ ReceiveProgress \/ FinishFailed
  \/ queue # <<>> /\ Head(queue).type = "finished" /\ \E r \in Head(queue).out : Finish(r)

Next ==
  \/ \E p \in Profile : ChooseProfile(p)
  \/ \E q \in Project : ChooseProject(q) \/ PreviewAffected(q)
  \/ \E b \in Baseline : ChooseBaseline(b)
  \/ CreateLiveProfile
  \/ \E a \in Action : Click(a)
  \/ CliStep \/ ThreadStep \/ Forward \/ Receive \/ ReceiveStray
  \/ Commit

Spec == Init /\ [][Next]_vars

(* While an action runs a frame is asked for every 100 ms, so the channel is *)
(* drained, and the threads are scheduled.  Nothing ends a command: run_cli  *)
(* has no time limit.                                                        *)
FairSpec == Spec /\ WF_vars(Receive) /\ WF_vars(ThreadStep) /\ WF_vars(Forward)

-----------------------------------------------------------------------------
(* Properties                                                              *)

(* Types, and where a slot can be filled: only the live profile compares,    *)
(* and the bar stays within a run's lines, unless a reader was left behind.  *)
TypeOK ==
  /\ profile \in Profile /\ project \in Project /\ baseline \in Baseline
  /\ liveProfile \in BOOLEAN /\ running \in Action \cup {Idle} /\ reviewed \in BOOLEAN
  /\ doctor \subseteq Profile /\ selection \cup summary \subseteq Profile \X Project
  /\ comparison \subseteq [lock : Baseline, affected : SUBSET Project]
  /\ changes \subseteq [profile : Pinnable, changed : BOOLEAN, tip : 0 .. MaxCommits]
  /\ tip \in 0 .. MaxCommits
  /\ thread.lock \subseteq Baseline /\ Len(thread.todo) <= 2
  /\ cli.state \in {"none", "running", "exited"} /\ cli.code \in 0 .. 2
  /\ stray = {} =>
       /\ total \in 0 .. MaxCases + Legs /\ completed \in 0 .. MaxCases + Legs
       /\ profile # Live => comparison = {}

(* What is shown belongs to what is chosen: no result of another profile, of *)
(* another project or of another baseline ever stays or arrives, whatever    *)
(* was chosen and started since.  Only a reader that run_cli left behind can *)
(* bring the comparison of an earlier choice, and nothing else.              *)
ShownBelongsToChoice ==
  /\ doctor \subseteq {profile} /\ selection \cup summary \subseteq {<<profile, project>>}
  /\ \A c \in changes : c.profile = profile
  /\ stray = {} => \A c \in comparison : c.lock = baseline

(* When the buttons are enabled again no thread, no command and no event of  *)
(* the action is left, whether its command could not start, failed or        *)
(* succeeded.  The lines of a reader that was not joined (main.rs:637-640)   *)
(* are the exception: they are in stray, not here.                           *)
NothingAfterFinished ==
  running = Idle => queue = <<>> /\ stderr = <<>> /\ cli.state = "none" /\ thread.todo = <<>>

(* Pins are updated only while a preview of this profile that found changes  *)
(* is shown.  It says nothing of the revisions: see PinsWhatWasReviewed.     *)
PinFollowsReview ==
  running = "pin" =>
    /\ reviewed /\ (thread.todo # <<>> => thread.profile = profile)
    /\ \E c \in changes : c.changed /\ c.profile = profile

(* README.md:87-90: what is written to the lock is what was reviewed.  The   *)
(* code runs pin again, which locks what the checkouts are at by then.       *)
PinsWhatWasReviewed ==
  running = "pin" => \A r \in cli.out, c \in changes : r.tip = c.tip

(* The window is blocked by nothing but a command that runs: again and again *)
(* no action runs, or its command does.                                      *)
OnlyACommandHoldsTheWindow == []<>(running = Idle \/ cli.state = "running")

=============================================================================
