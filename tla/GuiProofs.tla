----------------------------- MODULE GuiProofs -----------------------------
(***************************************************************************)
(* Theorems about Gui: what the window shows belongs to what is chosen,    *)
(* nothing of an action is left when it ended but the lines of a reader    *)
(* that was not joined, and pins are updated only while a preview is shown. *)
(***************************************************************************)
EXTENDS Gui, Integers, SequenceTheorems, TLAPS

-----------------------------------------------------------------------------
(* The inductive invariant: whatever is on its way was made for the choice.  *)
(* The choice cannot change while an action runs, and nothing is on its way  *)
(* when none does.                                                           *)

OwnComparisons ==
  {c \in SUBSET [lock : {baseline}, affected : SUBSET Project] : profile # Live => c = {}}

OwnResults ==
  [profile : {profile}, project : {project}, changed : BOOLEAN, tip : 0 .. MaxCommits,
   compared : OwnComparisons]

OwnLines ==
  [type : {"progress"}, n : 0 .. MaxCases, compared : OwnComparisons,
   stage : {"baseline-comparison", "preflight", "case-done", "musig2-start", "musig2-done"}]

OwnEvents ==
  OwnLines
    \cup [type : {"comparison"}, ok : BOOLEAN, compared : OwnComparisons]
    \cup [type : {"finished"}, action : {running}, code : 0 .. 2, out : SUBSET OwnResults]

(* The thread of the action that runs.                                       *)
ThreadInv ==
  \/ thread = NoThread
  \/ /\ running # Idle
     /\ \/ thread.todo = <<running>>
        \/ thread.todo = <<"compare", "doctor">> /\ running = "doctor"
     /\ thread = [todo |-> thread.todo, profile |-> profile, project |-> project,
                  lock |-> IF profile = Live THEN {baseline} ELSE {}]

(* Its command, and the lines of it that were not read.                      *)
CliInv ==
  /\ cli \in [state : {"none", "running", "exited"}, stage : {"begin", "compared", "cases"},
              total : 0 .. MaxCases, done : 0 .. MaxCases, legs : 0 .. 2 * Legs,
              code : 0 .. 2, out : SUBSET OwnResults]
  /\ cli.done <= cli.total /\ (cli.stage # "cases" => cli.done = 0)
  /\ cli.state = "none" => cli = NoCli /\ stderr = <<>>
  /\ thread = NoThread => cli.state = "none"
  /\ stderr \in Seq(OwnLines)

(* The channel ends with the end of the action, and only then.               *)
QueueInv ==
  /\ queue \in Seq(OwnEvents)
  /\ \A k \in 1 .. Len(queue) :
       queue[k].type = "finished" => k = Len(queue) /\ thread = NoThread
  /\ running = Idle => queue = <<>> /\ thread = NoThread
  /\ running # Idle /\ thread = NoThread =>
       queue # <<>> /\ queue[Len(queue)].type = "finished"

(* What is shown, without the bounds of the progress bar.                    *)
ShownInv ==
  /\ profile \in Profile /\ project \in Project /\ baseline \in Baseline
  /\ liveProfile \in BOOLEAN /\ running \in Action \cup {Idle} /\ reviewed \in BOOLEAN
  /\ doctor \subseteq {profile} /\ selection \cup summary \subseteq {<<profile, project>>}
  /\ changes \subseteq [profile : {profile} \cap Pinnable, changed : BOOLEAN,
                        tip : 0 .. MaxCommits]
  /\ running \in {"pin_preview", "pin"} => profile \in Pinnable
  /\ running = "pin" => reviewed /\ \E c \in changes : c.changed

(* A reader that was not joined may bring the comparison of another choice:   *)
(* until there is one, the comparison is of this choice.                     *)
StrayLines ==
  [type : {"progress"}, n : 0 .. MaxCases,
   compared : SUBSET [lock : Baseline, affected : SUBSET Project],
   stage : {"baseline-comparison", "preflight", "case-done", "musig2-start", "musig2-done"}]

AsideInv ==
  /\ tip \in 0 .. MaxCommits /\ stray \subseteq Seq(StrayLines)
  /\ comparison \subseteq [lock : Baseline, affected : SUBSET Project]
  /\ stray = {} => comparison \in OwnComparisons

GuiInv == ThreadInv /\ CliInv /\ QueueInv /\ ShownInv /\ AsideInv

LEMMA GuiStart == Init => GuiInv
<1> SUFFICES ASSUME Init PROVE GuiInv OBVIOUS
<1> USE GuiAssumption DEF Init
<1>1. ThreadInv BY DEF ThreadInv
<1>2. CliInv BY EmptySeq DEF CliInv, NoCli, Legs
<1>3. QueueInv BY EmptySeq DEF QueueInv
<1>4. ShownInv BY DEF ShownInv, Idle
<1>5. AsideInv BY DEF AsideInv, OwnComparisons
<1> QED BY <1>1, <1>2, <1>3, <1>4, <1>5 DEF GuiInv

(* A step that no reader takes shows no comparison, the one it showed, or    *)
(* one of the choice.                                                        *)
LEMMA AsideKeeps ==
  ASSUME GuiInv, UNCHANGED aside,
         \/ comparison' = {}
         \/ /\ comparison' = comparison \/ comparison' \in OwnComparisons
            /\ UNCHANGED <<profile, baseline>>
  PROVE  AsideInv'
<1> USE DEF GuiInv, AsideInv, aside
<1>1. baseline \in Baseline BY DEF ShownInv
<1>2. \A c \in OwnComparisons : c \subseteq [lock : Baseline, affected : SUBSET Project]
  BY <1>1 DEF OwnComparisons
<1>3. CASE comparison' = {} BY <1>3 DEF OwnComparisons
<1>4. CASE /\ comparison' = comparison \/ comparison' \in OwnComparisons
           /\ UNCHANGED <<profile, baseline>>
  <2>1. OwnComparisons' = OwnComparisons BY <1>4 DEF OwnComparisons
  <2> QED BY <1>2, <1>4, <2>1
<1> QED BY <1>3, <1>4

(* Nothing is on its way when no action runs.                                *)
LEMMA IdleIsQuiet ==
  ASSUME GuiInv, running = Idle
  PROVE  queue = <<>> /\ stderr = <<>> /\ thread = NoThread /\ cli = NoCli
BY DEF GuiInv, QueueInv, CliInv

(* What is quiet belongs to any choice.                                      *)
LEMMA QuietIsOwn ==
  ASSUME running' = Idle, queue' = <<>>, stderr' = <<>>, thread' = NoThread, cli' = NoCli
  PROVE  ThreadInv' /\ CliInv' /\ QueueInv'
<1>1. ThreadInv' BY DEF ThreadInv
<1>2. CliInv'
  <2>1. <<>> \in Seq(OwnLines') BY EmptySeq
  <2>2. NoCli \in [state : {"none", "running", "exited"}, stage : {"begin", "compared", "cases"},
                   total : 0 .. MaxCases, done : 0 .. MaxCases, legs : 0 .. 2 * Legs,
                   code : 0 .. 2, out : SUBSET OwnResults']
    BY GuiAssumption DEF NoCli, Legs
  <2> QED BY <2>1, <2>2 DEF CliInv, NoCli
<1>3. QueueInv'
  <2>1. <<>> \in Seq(OwnEvents') BY EmptySeq
  <2>2. Len(<<>>) = 0 BY EmptySeq
  <2> QED BY <2>1, <2>2 DEF QueueInv
<1> QED BY <1>1, <1>2, <1>3

LEMMA UserStep ==
  ASSUME GuiInv,
         \/ \E p \in Profile : ChooseProfile(p)
         \/ \E q \in Project : ChooseProject(q)
         \/ \E b \in Baseline : ChooseBaseline(b)
  PROVE  GuiInv'
<1> USE DEF back, progress
<1>1. ASSUME NEW p \in Profile, ChooseProfile(p) PROVE GuiInv'
  <2>1. ThreadInv' /\ CliInv' /\ QueueInv'
    BY <1>1, IdleIsQuiet, QuietIsOwn DEF ChooseProfile
  <2>2. ShownInv' BY <1>1 DEF ChooseProfile, GuiInv, ShownInv, Idle
  <2>3. AsideInv' BY <1>1, AsideKeeps DEF ChooseProfile
  <2> QED BY <2>1, <2>2, <2>3 DEF GuiInv
<1>2. ASSUME NEW q \in Project, ChooseProject(q) PROVE GuiInv'
  <2>1. ThreadInv' /\ CliInv' /\ QueueInv'
    BY <1>2, IdleIsQuiet, QuietIsOwn DEF ChooseProject
  <2>2. ShownInv' BY <1>2 DEF ChooseProject, GuiInv, ShownInv, Idle
  <2>3. AsideInv' BY <1>2, AsideKeeps DEF ChooseProject
  <2> QED BY <2>1, <2>2, <2>3 DEF GuiInv
<1>3. ASSUME NEW b \in Baseline, ChooseBaseline(b) PROVE GuiInv'
  <2>1. ThreadInv' /\ CliInv' /\ QueueInv'
    BY <1>3, IdleIsQuiet, QuietIsOwn DEF ChooseBaseline
  <2>2. ShownInv' BY <1>3 DEF ChooseBaseline, GuiInv, ShownInv, Idle
  <2>3. AsideInv' BY <1>3, AsideKeeps DEF ChooseBaseline
  <2> QED BY <2>1, <2>2, <2>3 DEF GuiInv
<1> QED BY <1>1, <1>2, <1>3

(* An action starts: its thread takes the choice of this moment.             *)
LEMMA StartKeeps ==
  ASSUME GuiInv, running = Idle, NEW a \in Action, NEW q \in Project, Start(a, q), project' = q,
         summary' \in {summary, {}}, q # project => summary' = {} /\ a = "preview",
         a \in {"pin_preview", "pin"} => profile \in Pinnable,
         a = "pin" => reviewed /\ \E c \in changes : c.changed
  PROVE  GuiInv'
<1>1. queue' = <<>> /\ stderr' = <<>> /\ thread = NoThread /\ cli' = NoCli
  BY IdleIsQuiet DEF Start
<1>2. a # Idle /\ running' = a BY DEF Action, Idle, Start
<1>3. ThreadInv'
  BY <1>2 DEF Start, ThreadInv
<1>4. thread' # NoThread
  <2>1. thread'.todo # <<>> BY DEF Start
  <2> QED BY <2>1 DEF NoThread
<1>5. CliInv'
  <2>1. <<>> \in Seq(OwnLines') BY EmptySeq
  <2>2. NoCli \in [state : {"none", "running", "exited"}, stage : {"begin", "compared", "cases"},
                   total : 0 .. MaxCases, done : 0 .. MaxCases, legs : 0 .. 2 * Legs,
                   code : 0 .. 2, out : SUBSET OwnResults']
    BY GuiAssumption DEF NoCli, Legs
  <2> QED BY <1>1, <2>1, <2>2 DEF CliInv, NoCli
<1>6. QueueInv'
  <2>1. <<>> \in Seq(OwnEvents') BY EmptySeq
  <2>2. Len(<<>>) = 0 BY EmptySeq
  <2> QED BY <1>1, <1>2, <1>4, <2>1, <2>2 DEF QueueInv
<1>7. ShownInv'
  <2>2. selection' \cup summary' \subseteq {<<profile, q>>}
    BY DEF Start, GuiInv, ShownInv
  <2>3. /\ changes' \subseteq [profile : {profile} \cap Pinnable, changed : BOOLEAN,
                                tip : 0 .. MaxCommits]
        /\ a = "pin" => reviewed' /\ changes' = changes
    BY DEF Start, GuiInv, ShownInv
  <2> QED BY <1>2, <2>2, <2>3 DEF Start, GuiInv, ShownInv
<1>8. AsideInv' BY AsideKeeps DEF Start
<1> QED BY <1>3, <1>5, <1>6, <1>7, <1>8 DEF GuiInv

LEMMA ClickStep ==
  ASSUME GuiInv, \/ \E a \in Action : Click(a)
                 \/ \E q \in Project : PreviewAffected(q)
  PROVE  GuiInv'
<1>1. ASSUME NEW a \in Action, Click(a) PROVE GuiInv'
  <2>1. project \in Project /\ running = Idle BY <1>1 DEF GuiInv, ShownInv, Click, Ready
  <2>2. a \in {"pin_preview", "pin"} => profile \in Pinnable
    BY <1>1 DEF Click, Offered
  <2>3. a = "pin" => reviewed /\ \E c \in changes : c.changed
    BY <1>1 DEF Click, Offered
  <2> QED BY <1>1, <2>1, <2>2, <2>3, StartKeeps DEF Click
<1>2. ASSUME NEW q \in Project, PreviewAffected(q) PROVE GuiInv'
  <2>1. running = Idle /\ "preview" \in Action BY <1>2 DEF PreviewAffected, Ready, Action
  <2> QED BY <1>2, <2>1, StartKeeps DEF PreviewAffected
<1> QED BY <1>1, <1>2

LEMMA CreateStep == ASSUME GuiInv, CreateLiveProfile PROVE GuiInv'
<1> USE DEF CreateLiveProfile, back, shown, GuiInv
<1>1. ThreadInv' BY DEF ThreadInv
<1>2. CliInv' BY DEF CliInv, OwnLines, OwnResults, OwnComparisons
<1>3. QueueInv' BY DEF QueueInv, OwnEvents, OwnLines, OwnResults, OwnComparisons
<1>4. ShownInv' BY DEF ShownInv
<1>5. AsideInv' BY AsideKeeps
<1> QED BY <1>1, <1>2, <1>3, <1>4, <1>5

-----------------------------------------------------------------------------
(* The threads and the command                                             *)

(* A step of the command touches nothing but itself and its lines.           *)
LEMMA CommandKeeps ==
  ASSUME GuiInv, UNCHANGED <<front, thread, queue>>,
         OwnLines' = OwnLines /\ OwnResults' = OwnResults => CliInv'
  PROVE  GuiInv'
<1> USE DEF front, choice, shown, GuiInv
<1>1. ThreadInv' BY DEF ThreadInv
<1>2. OwnLines' = OwnLines /\ OwnResults' = OwnResults
  BY DEF OwnLines, OwnResults, OwnComparisons
<1>3. QueueInv' BY DEF QueueInv, OwnEvents, OwnLines, OwnResults, OwnComparisons
<1>4. ShownInv' BY DEF ShownInv
<1>5. AsideInv' BY AsideKeeps
<1> QED BY <1>1, <1>2, <1>3, <1>4, <1>5

(* A comparison that the command makes is one of the baseline chosen.        *)
LEMMA ComparedIsOwn ==
  ASSUME GuiInv, thread.todo # <<>>, NEW q \in SUBSET Project
  PROVE  Compared(q) \in OwnComparisons
<1>1. thread # NoThread BY DEF NoThread
<1>2. thread.lock = IF profile = Live THEN {baseline} ELSE {}
  <2>1. thread = [todo |-> thread.todo, profile |-> profile, project |-> project,
                  lock |-> IF profile = Live THEN {baseline} ELSE {}]
    BY <1>1 DEF GuiInv, ThreadInv
  <2> DEFINE t == [todo |-> thread.todo, profile |-> profile, project |-> project,
                   lock |-> IF profile = Live THEN {baseline} ELSE {}]
  <2>2. t.lock = IF profile = Live THEN {baseline} ELSE {} OBVIOUS
  <2> QED BY <2>1, <2>2, Zenon
<1> QED BY <1>2 DEF Compared, OwnComparisons

LEMMA SpawnStep == ASSUME GuiInv, Spawn \/ CannotStart PROVE GuiInv'
<1>1. thread # NoThread /\ stderr' = stderr /\ UNCHANGED <<front, thread, queue>>
  BY DEF NoThread, Spawn, CannotStart
<1>2. cli' \in [state : {"running", "exited"}, stage : {"begin"}, total : {0}, done : {0},
                legs : {0}, code : {0, 2}, out : {{}}]
  BY DEF Spawn, CannotStart, NoCli
<1>3. ASSUME OwnLines' = OwnLines, OwnResults' = OwnResults PROVE CliInv'
  <2>1. 0 \in 0 .. MaxCases /\ 0 \in 0 .. 2 * Legs BY GuiAssumption DEF Legs
  <2>2. cli' \in [state : {"none", "running", "exited"}, stage : {"begin", "compared", "cases"},
                  total : 0 .. MaxCases, done : 0 .. MaxCases, legs : 0 .. 2 * Legs,
                  code : 0 .. 2, out : SUBSET OwnResults]
    BY <1>2, <2>1
  <2>3. cli'.done <= cli'.total /\ cli'.done = 0 /\ cli'.state # "none" BY <1>2
  <2> QED BY <1>1, <1>3, <2>2, <2>3 DEF GuiInv, CliInv
<1> QED BY <1>1, <1>3, CommandKeeps

(* A line that the check writes.                                             *)
LEMMA LineIsOwn ==
  ASSUME GuiInv, NEW stage \in {"baseline-comparison", "preflight", "case-done", "musig2-start",
                                "musig2-done"},
         NEW n \in 0 .. MaxCases, NEW c \in OwnComparisons, Writes(Line(stage, n, c))
  PROVE  stderr' \in Seq(OwnLines)
<1>1. Line(stage, n, c) \in OwnLines BY DEF Line, OwnLines
<1> QED BY <1>1, AppendProperties DEF Writes, GuiInv, CliInv

LEMMA LinesStep ==
  ASSUME GuiInv, CliCompares \/ CliCase \/ CliLeg \/ \E n \in 1 .. MaxCases : CliPreflight(n)
  PROVE  GuiInv'
<1>1. {} \in OwnComparisons BY DEF OwnComparisons
<1>2. cli \in [state : {"none", "running", "exited"}, stage : {"begin", "compared", "cases"},
               total : 0 .. MaxCases, done : 0 .. MaxCases, legs : 0 .. 2 * Legs,
               code : 0 .. 2, out : SUBSET OwnResults]
     /\ cli.done <= cli.total /\ (cli.stage # "cases" => cli.done = 0)
  BY DEF GuiInv, CliInv
<1>3. 0 \in 0 .. MaxCases /\ MaxCases \in Nat BY GuiAssumption
<1>4. UNCHANGED <<front, thread, queue>> /\ Checking
  BY DEF CliCompares, CliCase, CliLeg, CliPreflight
<1>5. thread # NoThread /\ cli.state = "running" BY <1>4 DEF Checking, NoThread
<1>6. ASSUME stderr' \in Seq(OwnLines), cli'.state = "running",
             cli'.done <= cli'.total /\ (cli'.stage # "cases" => cli'.done = 0),
             cli' \in [state : {"none", "running", "exited"}, stage : {"begin", "compared", "cases"},
                       total : 0 .. MaxCases, done : 0 .. MaxCases, legs : 0 .. 2 * Legs,
                       code : 0 .. 2, out : SUBSET OwnResults]
      PROVE  GuiInv'
  <2>1. OwnLines' = OwnLines /\ OwnResults' = OwnResults => CliInv'
    BY <1>4, <1>5, <1>6 DEF CliInv
  <2> QED BY <1>4, <2>1, CommandKeeps
<1>7. CASE CliCompares
  <2>1. PICK q \in {{}} \cup {{p} : p \in Project} : Writes(Line("baseline-comparison", 0, Compared(q)))
    BY <1>7 DEF CliCompares
  <2>2. Compared(q) \in OwnComparisons BY <1>4, ComparedIsOwn DEF Checking
  <2>3. stderr' \in Seq(OwnLines) BY <1>3, <2>1, <2>2, LineIsOwn
  <2> QED BY <1>2, <1>5, <1>6, <1>7, <2>3 DEF CliCompares
<1>8. CASE CliCase
  <2>1. cli.done + 1 \in 0 .. MaxCases /\ cli.done + 1 <= cli.total
    BY <1>2, <1>3, <1>8 DEF CliCase
  <2>2. stderr' \in Seq(OwnLines) BY <1>1, <1>8, <2>1, LineIsOwn DEF CliCase
  <2> QED BY <1>2, <1>5, <1>6, <1>8, <2>1, <2>2 DEF CliCase
<1>9. CASE CliLeg
  <2>1. cli.legs + 1 \in 0 .. 2 * Legs BY <1>2, <1>9 DEF CliLeg, Legs
  <2>2. stderr' \in Seq(OwnLines)
    <3>1. PICK s \in {"musig2-start", "musig2-done"} : Writes(Line(s, 0, {}))
      BY <1>9, Zenon DEF CliLeg
    <3> QED BY <1>1, <1>3, <3>1, LineIsOwn
  <2> QED BY <1>2, <1>5, <1>6, <1>9, <2>1, <2>2 DEF CliLeg
<1>10. ASSUME NEW n \in 1 .. MaxCases, CliPreflight(n) PROVE GuiInv'
  <2>1. n \in 0 .. MaxCases BY <1>3
  <2>2. stderr' \in Seq(OwnLines) BY <1>1, <1>10, <2>1, LineIsOwn DEF CliPreflight
  <2>3. cli.stage # "cases" BY <1>10 DEF CliPreflight
  <2>4. cli.done = 0 /\ n \in Nat /\ 0 <= n BY <1>2, <1>3, <2>3
  <2> QED BY <1>2, <1>5, <1>6, <1>10, <2>1, <2>2, <2>4 DEF CliPreflight
<1> QED BY <1>7, <1>8, <1>9, <1>10

LEMMA CliEndsStep == ASSUME GuiInv, CliSucceeds \/ CliFails PROVE GuiInv'
<1>1. cli \in [state : {"none", "running", "exited"}, stage : {"begin", "compared", "cases"},
               total : 0 .. MaxCases, done : 0 .. MaxCases, legs : 0 .. 2 * Legs,
               code : 0 .. 2, out : SUBSET OwnResults]
     /\ cli.done <= cli.total /\ (cli.stage # "cases" => cli.done = 0)
  BY DEF GuiInv, CliInv
<1>2. UNCHANGED <<front, thread, queue>> /\ stderr' = stderr /\ cli.state = "running"
  BY DEF CliSucceeds, CliFails
<1>3. thread # NoThread BY <1>2 DEF GuiInv, CliInv
<1>4. thread.todo # <<>> BY <1>3 DEF GuiInv, ThreadInv
<1>5. Output \subseteq OwnResults
  <2>1. thread.profile = profile /\ thread.project = project BY <1>3 DEF GuiInv, ThreadInv
  <2>2. {} \in OwnComparisons BY DEF OwnComparisons
  <2>3. \A q \in {{}} \cup {{p} : p \in Project} : Compared(q) \in OwnComparisons
    BY <1>4, ComparedIsOwn
  <2>4. ASSUME NEW c \in IF Command = "pin_preview" THEN BOOLEAN ELSE {FALSE},
               NEW q \in {{}} \cup {{p} : p \in Project}
        PROVE  [profile |-> thread.profile, project |-> thread.project, changed |-> c,
                tip |-> IF Command \in {"pin_preview", "pin"} THEN tip ELSE 0,
                compared |-> IF Command \in {"compare", "preview", "check"}
                             THEN Compared(q) ELSE {}] \in OwnResults
    <3>1. c \in BOOLEAN OBVIOUS
    <3>2. (IF Command \in {"compare", "preview", "check"} THEN Compared(q) ELSE {})
            \in OwnComparisons
      BY <2>2, <2>3, Zenon
    <3>3. (IF Command \in {"pin_preview", "pin"} THEN tip ELSE 0) \in 0 .. MaxCommits
      <4>1. tip \in 0 .. MaxCommits /\ 0 \in 0 .. MaxCommits
        BY GuiAssumption DEF GuiInv, AsideInv
      <4> QED BY <4>1
    <3> QED BY <2>1, <3>1, <3>2, <3>3 DEF OwnResults
  <2> DEFINE B == IF Command = "pin_preview" THEN BOOLEAN ELSE {FALSE}
             Q == {{}} \cup {{p} : p \in Project}
             f(c, q) == [profile |-> thread.profile, project |-> thread.project, changed |-> c,
                         tip |-> IF Command \in {"pin_preview", "pin"} THEN tip ELSE 0,
                         compared |-> IF Command \in {"compare", "preview", "check"}
                                      THEN Compared(q) ELSE {}]
  <2>5. \A c \in B, q \in Q : f(c, q) \in OwnResults BY <2>4, Zenon
  <2>6. Output = {f(c, q) : c \in B, q \in Q} BY SMT DEF Output
  <2> HIDE DEF B, Q, f
  <2> QED BY <2>5, <2>6
<1>6. ASSUME OwnLines' = OwnLines, OwnResults' = OwnResults PROVE CliInv'
  <2>1. PICK c \in 0 .. 2, o \in SUBSET OwnResults :
          cli' = [cli EXCEPT !.state = "exited", !.code = c, !.out = o]
    <3>1. CASE CliSucceeds
      <4>1. PICK r \in Output, c \in {0, 1} :
              cli' = [cli EXCEPT !.state = "exited", !.code = c, !.out = {r}]
        BY <3>1 DEF CliSucceeds
      <4>2. {r} \in SUBSET OwnResults /\ c \in 0 .. 2 BY <1>5
      <4> QED BY <4>1, <4>2
    <3>2. CASE CliFails
      <4>1. cli' = [cli EXCEPT !.state = "exited", !.code = 2, !.out = cli.out]
        BY <1>1, <3>2 DEF CliFails
      <4>2. cli.out \in SUBSET OwnResults /\ 2 \in 0 .. 2 BY <1>1
      <4> QED BY <4>1, <4>2
    <3> QED BY <3>1, <3>2
  <2>2. cli' \in [state : {"none", "running", "exited"}, stage : {"begin", "compared", "cases"},
                  total : 0 .. MaxCases, done : 0 .. MaxCases, legs : 0 .. 2 * Legs,
                  code : 0 .. 2, out : SUBSET OwnResults]
        /\ cli'.done <= cli'.total /\ cli'.state = "exited"
        /\ (cli'.stage # "cases" => cli'.done = 0)
    BY <1>1, <2>1
  <2> QED BY <1>2, <1>3, <1>6, <2>2 DEF GuiInv, CliInv
<1> QED BY <1>2, <1>6, CommandKeeps

(* A line that is read while its command runs goes to the end of the channel. *)
LEMMA ForwardStep == ASSUME GuiInv, Forward PROVE GuiInv'
<1> USE DEF GuiInv
<1>1. UNCHANGED <<front, thread, cli>> /\ stderr # <<>> /\ stderr \in Seq(OwnLines)
  BY DEF Forward, CliInv
<1>2. thread # NoThread BY <1>1 DEF CliInv
<1>3. Head(stderr) \in OwnLines /\ Tail(stderr) \in Seq(OwnLines) BY <1>1, HeadTailProperties
<1>4. OwnLines' = OwnLines /\ OwnResults' = OwnResults /\ OwnEvents' = OwnEvents
  BY <1>1 DEF front, choice, OwnEvents, OwnLines, OwnResults, OwnComparisons
<1>5. ThreadInv' BY <1>1 DEF front, choice, ThreadInv
<1>6. CliInv' BY <1>1, <1>2, <1>3, <1>4 DEF Forward, CliInv
<1>7. Head(stderr).type = "progress" /\ Head(stderr) \in OwnEvents
  BY <1>3 DEF OwnLines, OwnEvents
<1>8. /\ queue' \in Seq(OwnEvents) /\ queue' # <<>> /\ Len(queue') = Len(queue) + 1
      /\ \A k \in 1 .. Len(queue) : queue'[k] = queue[k]
      /\ queue'[Len(queue) + 1] = Head(stderr)
  BY <1>7, AppendProperties DEF Forward, QueueInv
<1>9. \A k \in 1 .. Len(queue) : queue[k].type # "finished" BY <1>2 DEF QueueInv
<1>10. \A k \in 1 .. Len(queue') : queue'[k].type # "finished"
  <2>1. Len(queue) \in Nat BY LenProperties DEF QueueInv
  <2> QED BY <1>7, <1>8, <1>9, <2>1
<1>11. QueueInv'
  <2>1. running' # Idle /\ thread' # NoThread
    BY <1>1, <1>2 DEF QueueInv, front
  <2> QED BY <1>4, <1>8, <1>10, <2>1 DEF QueueInv
<1>12. ShownInv' BY <1>1 DEF front, choice, shown, ShownInv
<1>13. AsideInv' BY <1>1, AsideKeeps DEF front, choice, shown
<1> QED BY <1>5, <1>6, <1>11, <1>12, <1>13

LEMMA SendComparisonStep == ASSUME GuiInv, SendComparison PROVE GuiInv'
<1> USE DEF GuiInv
<1>1. UNCHANGED <<front, stderr>> /\ stderr = <<>> /\ cli' = NoCli BY DEF SendComparison
<1>2. thread # NoThread BY DEF SendComparison, CliInv, NoCli
<1>3. thread.todo = <<"compare", "doctor">> /\ running = "doctor"
  <2>1. Len(thread.todo) = 2 BY DEF SendComparison
  <2>2. thread.todo # <<running>> BY <2>1
  <2> QED BY <1>2, <2>2 DEF ThreadInv
<1> DEFINE t == [todo |-> <<"doctor">>, profile |-> profile, project |-> project,
                 lock |-> IF profile = Live THEN {baseline} ELSE {}]
<1>4. thread' = t
  <2>1. thread = [todo |-> thread.todo, profile |-> profile, project |-> project,
                  lock |-> IF profile = Live THEN {baseline} ELSE {}]
    BY <1>2 DEF ThreadInv
  <2>2. Tail(thread.todo) = <<"doctor">> BY <1>3
  <2>3. thread' = [thread EXCEPT !.todo = <<"doctor">>] BY <2>2 DEF SendComparison
  <2> HIDE DEF t
  <2>4. [[todo |-> thread.todo, profile |-> profile, project |-> project,
          lock |-> IF profile = Live THEN {baseline} ELSE {}] EXCEPT !.todo = <<"doctor">>] = t
    BY DEF t
  <2> QED BY <2>1, <2>3, <2>4
<1>5. t # NoThread /\ t.todo = <<"doctor">>
  <2>1. t.todo # NoThread.todo BY DEF NoThread
  <2> QED BY <2>1
<1>6. running' = "doctor" /\ "doctor" # Idle BY <1>1, <1>3 DEF front, Idle
<1>7. OwnLines' = OwnLines /\ OwnResults' = OwnResults /\ OwnEvents' = OwnEvents
  BY <1>1 DEF front, choice, OwnEvents, OwnLines, OwnResults, OwnComparisons
<1>8. ThreadInv'
  <2>1. profile' = profile /\ project' = project /\ baseline' = baseline
    BY <1>1 DEF front, choice
  <2> QED BY <1>4, <1>5, <1>6, <2>1 DEF ThreadInv
<1>9. CliInv'
  <2>1. NoCli \in [state : {"none", "running", "exited"}, stage : {"begin", "compared", "cases"},
                   total : 0 .. MaxCases, done : 0 .. MaxCases, legs : 0 .. 2 * Legs,
                   code : 0 .. 2, out : SUBSET OwnResults]
    BY GuiAssumption DEF NoCli, Legs
  <2>2. <<>> \in Seq(OwnLines) BY EmptySeq
  <2> QED BY <1>1, <1>7, <2>1, <2>2 DEF CliInv, NoCli
<1> DEFINE e == [type |-> "comparison", ok |-> cli.code = 0,
                 compared |-> UNION {r.compared : r \in cli.out}]
<1>10. e \in OwnEvents /\ e.type # "finished"
  <2>1. \A r \in cli.out : r.compared \in OwnComparisons BY DEF CliInv, OwnResults
  <2>2. UNION {r.compared : r \in cli.out} \in OwnComparisons BY <2>1 DEF OwnComparisons
  <2>3. (cli.code = 0) \in BOOLEAN OBVIOUS
  <2> QED BY <2>2, <2>3 DEF OwnEvents
<1>11. /\ queue' \in Seq(OwnEvents) /\ queue' # <<>> /\ Len(queue') = Len(queue) + 1
       /\ \A k \in 1 .. Len(queue) : queue'[k] = queue[k]
       /\ queue'[Len(queue) + 1] = e
  <2>1. queue' = Append(queue, e) BY DEF SendComparison
  <2> HIDE DEF e
  <2> QED BY <1>10, <2>1, AppendProperties DEF QueueInv
<1>12. \A k \in 1 .. Len(queue') : queue'[k].type # "finished"
  <2> HIDE DEF e
  <2>1. \A k \in 1 .. Len(queue) : queue[k].type # "finished" BY <1>2 DEF QueueInv
  <2>2. Len(queue) \in Nat BY LenProperties DEF QueueInv
  <2> QED BY <1>10, <1>11, <2>1, <2>2
<1>13. QueueInv' BY <1>4, <1>5, <1>6, <1>7, <1>11, <1>12 DEF QueueInv
<1>14. ShownInv' BY <1>1 DEF front, choice, shown, ShownInv
<1>15. AsideInv' BY <1>1, AsideKeeps DEF front, choice, shown
<1> QED BY <1>8, <1>9, <1>13, <1>14, <1>15

(* The end of the action is the last event, and it is the action that runs.  *)
LEMMA SendFinishedStep == ASSUME GuiInv, SendFinished PROVE GuiInv'
<1> USE DEF GuiInv
<1>1. UNCHANGED <<front, stderr>> /\ stderr = <<>> /\ cli' = NoCli /\ thread' = NoThread
  BY DEF SendFinished
<1>2. thread # NoThread BY DEF SendFinished, CliInv, NoCli
<1>3. Command = running /\ running # Idle
  <2>1. running # Idle /\ (thread.todo = <<running>> \/ thread.todo = <<"compare", "doctor">>)
    BY <1>2 DEF ThreadInv
  <2>2. thread.todo = <<running>> BY <2>1 DEF SendFinished
  <2> QED BY <2>1, <2>2 DEF Command
<1>4. OwnLines' = OwnLines /\ OwnResults' = OwnResults /\ OwnEvents' = OwnEvents
  BY <1>1 DEF front, choice, OwnEvents, OwnLines, OwnResults, OwnComparisons
<1>5. ThreadInv' BY <1>1 DEF ThreadInv
<1>6. CliInv'
  <2>1. NoCli \in [state : {"none", "running", "exited"}, stage : {"begin", "compared", "cases"},
                   total : 0 .. MaxCases, done : 0 .. MaxCases, legs : 0 .. 2 * Legs,
                   code : 0 .. 2, out : SUBSET OwnResults]
    BY GuiAssumption DEF NoCli, Legs
  <2>2. <<>> \in Seq(OwnLines) BY EmptySeq
  <2> QED BY <1>1, <1>4, <2>1, <2>2 DEF CliInv, NoCli
<1>7. Finished \in OwnEvents /\ Finished.type = "finished"
  <2>1. cli.code \in 0 .. 2 /\ cli.out \in SUBSET OwnResults BY DEF CliInv
  <2> QED BY <1>3, <2>1 DEF Finished, OwnEvents
<1>8. /\ queue' \in Seq(OwnEvents) /\ queue' # <<>> /\ Len(queue') = Len(queue) + 1
      /\ \A k \in 1 .. Len(queue) : queue'[k] = queue[k]
      /\ queue'[Len(queue) + 1] = Finished
  BY <1>7, AppendProperties DEF SendFinished, QueueInv
<1>9. QueueInv'
  <2>1. \A k \in 1 .. Len(queue) : queue[k].type # "finished" BY <1>2 DEF QueueInv
  <2>2. Len(queue) \in Nat BY LenProperties DEF QueueInv
  <2>3. \A k \in 1 .. Len(queue') : queue'[k].type = "finished" => k = Len(queue')
    BY <1>8, <2>1, <2>2
  <2>4. running' # Idle BY <1>1, <1>3 DEF front
  <2> QED BY <1>1, <1>4, <1>7, <1>8, <2>3, <2>4 DEF QueueInv
<1>10. ShownInv' BY <1>1 DEF front, choice, shown, ShownInv
<1>11. AsideInv' BY <1>1, AsideKeeps DEF front, choice, shown
<1> QED BY <1>5, <1>6, <1>9, <1>10, <1>11

(* It is so too when run_cli gave up: only the lines not read are left over. *)
LEMMA SendFinishedUnreadStep == ASSUME GuiInv, SendFinishedUnread PROVE GuiInv'
<1> USE DEF GuiInv
<1>1. /\ UNCHANGED <<choice, running, shown, tip>> /\ stray' = {stderr}
      /\ stderr' = <<>> /\ cli' = NoCli /\ thread' = NoThread
  BY DEF SendFinishedUnread
<1>2. thread # NoThread BY DEF SendFinishedUnread, CliInv, NoCli
<1>3. Command = running /\ running # Idle
  <2>1. running # Idle /\ (thread.todo = <<running>> \/ thread.todo = <<"compare", "doctor">>)
    BY <1>2 DEF ThreadInv
  <2>2. thread.todo = <<running>> BY <2>1 DEF SendFinishedUnread
  <2> QED BY <2>1, <2>2 DEF Command
<1>4. OwnLines' = OwnLines /\ OwnResults' = OwnResults /\ OwnEvents' = OwnEvents
  BY <1>1 DEF choice, OwnEvents, OwnLines, OwnResults, OwnComparisons
<1>5. ThreadInv' BY <1>1 DEF ThreadInv
<1>6. CliInv'
  <2>1. NoCli \in [state : {"none", "running", "exited"}, stage : {"begin", "compared", "cases"},
                   total : 0 .. MaxCases, done : 0 .. MaxCases, legs : 0 .. 2 * Legs,
                   code : 0 .. 2, out : SUBSET OwnResults]
    BY GuiAssumption DEF NoCli, Legs
  <2>2. <<>> \in Seq(OwnLines) BY EmptySeq
  <2> QED BY <1>1, <1>4, <2>1, <2>2 DEF CliInv, NoCli
<1> DEFINE e == [type |-> "finished", action |-> Command, code |-> 2, out |-> {}]
<1>7. e \in OwnEvents /\ e.type = "finished"
  BY <1>3 DEF OwnEvents
<1>8. queue' = Append(queue, e) BY DEF SendFinishedUnread
<1> HIDE DEF e
<1>9. /\ queue' \in Seq(OwnEvents) /\ queue' # <<>> /\ Len(queue') = Len(queue) + 1
      /\ \A k \in 1 .. Len(queue) : queue'[k] = queue[k]
      /\ queue'[Len(queue) + 1] = e
  BY <1>7, <1>8, AppendProperties DEF QueueInv
<1>10. QueueInv'
  <2>1. \A k \in 1 .. Len(queue) : queue[k].type # "finished" BY <1>2 DEF QueueInv
  <2>2. Len(queue) \in Nat BY LenProperties DEF QueueInv
  <2>3. \A k \in 1 .. Len(queue') : queue'[k].type = "finished" => k = Len(queue')
    BY <1>9, <2>1, <2>2
  <2>4. running' # Idle BY <1>1, <1>3
  <2> QED BY <1>1, <1>4, <1>7, <1>9, <2>3, <2>4 DEF QueueInv
<1>11. ShownInv' BY <1>1 DEF choice, shown, ShownInv
<1>12. AsideInv'
  <2>1. stderr \in Seq(OwnLines) BY DEF CliInv
  <2>2. OwnLines \subseteq StrayLines
    BY DEF OwnLines, OwnComparisons, StrayLines, ShownInv
  <2>3. stderr \in Seq(StrayLines) BY <2>1, <2>2, SeqMonotonic
  <2> QED BY <1>1, <2>3 DEF AsideInv, choice, shown
<1> QED BY <1>5, <1>6, <1>10, <1>11, <1>12

(* Someone commits: what is on its way has the revisions it was made with.   *)
LEMMA CommitStep == ASSUME GuiInv, Commit PROVE GuiInv'
<1> USE DEF Commit, choice, shown, GuiInv
<1>1. ThreadInv' BY DEF ThreadInv
<1>2. CliInv' BY DEF CliInv, OwnLines, OwnResults, OwnComparisons
<1>3. QueueInv' BY DEF QueueInv, OwnEvents, OwnLines, OwnResults, OwnComparisons
<1>4. ShownInv' BY DEF ShownInv
<1>5. AsideInv'
  <2>1. tip' \in 0 .. MaxCommits BY GuiAssumption DEF AsideInv
  <2> QED BY <2>1 DEF AsideInv, OwnComparisons
<1> QED BY <1>1, <1>2, <1>3, <1>4, <1>5

(* A line of a reader that was not joined changes the bar and the comparison. *)
LEMMA StrayStep == ASSUME GuiInv, ReceiveStray PROVE GuiInv'
<1>1. PICK s \in stray :
        /\ s # <<>> /\ ShowProgress(Head(s)) /\ stray' = {Tail(s)}
        /\ UNCHANGED <<choice, running, doctor, selection, summary, changes, reviewed,
                       thread, cli, stderr, queue, tip>>
  BY DEF ReceiveStray
<1> USE <1>1 DEF choice, GuiInv
<1>2. ThreadInv' BY DEF ThreadInv
<1>3. CliInv' BY DEF CliInv, OwnLines, OwnResults, OwnComparisons
<1>4. QueueInv' BY DEF QueueInv, OwnEvents, OwnLines, OwnResults, OwnComparisons
<1>5. ShownInv' BY DEF ShownInv
<1>6. AsideInv'
  <2>1. s \in Seq(StrayLines) BY DEF AsideInv
  <2>2. Head(s) \in StrayLines /\ Tail(s) \in Seq(StrayLines)
    BY <2>1, HeadTailProperties
  <2>3. comparison' \subseteq [lock : Baseline, affected : SUBSET Project]
    BY <2>2 DEF ShowProgress, Compare, StrayLines, AsideInv
  <2> QED BY <2>2, <2>3 DEF AsideInv
<1> QED BY <1>2, <1>3, <1>4, <1>5, <1>6

-----------------------------------------------------------------------------
(* The events                                                              *)

(* An event that is not the end leaves the channel in order.                 *)
LEMMA EventStep ==
  ASSUME GuiInv, ReceiveComparison \/ ReceiveProgress
  PROVE  GuiInv'
<1> USE DEF GuiInv
<1>1. /\ queue # <<>> /\ queue \in Seq(OwnEvents) /\ queue' = Tail(queue)
      /\ Head(queue).type # "finished" /\ UNCHANGED <<choice, running, back>>
      /\ UNCHANGED <<doctor, selection, summary, changes, reviewed>>
  BY DEF ReceiveComparison, ReceiveProgress, Event, QueueInv
<1>2. OwnLines' = OwnLines /\ OwnResults' = OwnResults /\ OwnEvents' = OwnEvents
      /\ OwnComparisons' = OwnComparisons
  BY <1>1 DEF choice, OwnEvents, OwnLines, OwnResults, OwnComparisons
<1>3. ThreadInv' BY <1>1 DEF choice, back, ThreadInv
<1>4. CliInv' BY <1>1, <1>2 DEF back, CliInv
<1>5. /\ Head(queue) \in OwnEvents /\ queue' \in Seq(OwnEvents)
      /\ Head(queue) = queue[1] /\ Len(queue) \in Nat \ {0} /\ Len(queue') = Len(queue) - 1
      /\ \A k \in 1 .. Len(queue') : queue'[k] = queue[k + 1]
  BY <1>1, HeadTailProperties, EmptySeq, LenProperties
<1>6. \A k \in 1 .. Len(queue') : queue'[k].type = "finished" => k = Len(queue') /\ thread = NoThread
  BY <1>5 DEF QueueInv
<1>7. running # Idle BY <1>1 DEF QueueInv
<1>8. thread = NoThread => queue' # <<>> /\ queue'[Len(queue')].type = "finished"
  <2> SUFFICES ASSUME thread = NoThread PROVE queue' # <<>> /\ queue'[Len(queue')].type = "finished"
    OBVIOUS
  <2>1. queue[Len(queue)].type = "finished" BY <1>7 DEF QueueInv
  <2>2. Len(queue) > 1 BY <1>1, <1>5, <2>1
  <2>3. Len(queue') \in 1 .. Len(queue') /\ queue'[Len(queue')] = queue[Len(queue)]
    BY <1>5, <2>2
  <2>4. queue' # <<>> BY <1>5, <2>2, EmptySeq
  <2> QED BY <2>1, <2>3, <2>4
<1>9. QueueInv' BY <1>1, <1>2, <1>5, <1>6, <1>7, <1>8 DEF QueueInv, back
<1>10. ShownInv' BY <1>1, <1>2 DEF choice, ShownInv
<1>11. AsideInv'
  <2>1. comparison' = comparison \/ comparison' \in OwnComparisons
    <3>1. CASE ReceiveComparison
      <4>1. Head(queue).type = "comparison" BY <3>1 DEF ReceiveComparison, Event
      <4>2. Head(queue).compared \in OwnComparisons BY <1>5, <4>1 DEF OwnEvents, OwnLines
      <4> QED BY <3>1, <4>2 DEF ReceiveComparison
    <3>2. CASE ReceiveProgress
      <4>1. Head(queue).type = "progress" BY <3>2 DEF ReceiveProgress, Event
      <4>2. Head(queue).compared \in OwnComparisons BY <1>5, <4>1 DEF OwnEvents, OwnLines
      <4> QED BY <3>2, <4>2 DEF ReceiveProgress, ShowProgress, Compare
    <3> QED BY <3>1, <3>2
  <2> QED BY <1>1, <2>1, AsideKeeps DEF choice, back
<1> QED BY <1>3, <1>4, <1>9, <1>10, <1>11

(* The end of the action is the last of it, and was made for the choice.     *)
LEMMA LastEvent ==
  ASSUME GuiInv, queue # <<>>, Head(queue).type = "finished"
  PROVE  /\ Head(queue).action = running /\ Head(queue).out \in SUBSET OwnResults
         /\ Tail(queue) = <<>> /\ stderr = <<>> /\ thread = NoThread /\ cli = NoCli
<1> USE DEF GuiInv
<1>1. /\ queue \in Seq(OwnEvents) /\ Head(queue) \in OwnEvents /\ Head(queue) = queue[1]
      /\ Len(queue) \in Nat \ {0} /\ Tail(queue) \in Seq(OwnEvents)
      /\ Len(Tail(queue)) = Len(queue) - 1
  BY HeadTailProperties, EmptySeq, LenProperties DEF QueueInv
<1>2. 1 = Len(queue) /\ thread = NoThread
  <2>1. 1 \in 1 .. Len(queue) /\ queue[1].type = "finished" BY <1>1
  <2> QED BY <2>1 DEF QueueInv
<1>3. Tail(queue) = <<>>
  <2> DEFINE rest == Tail(queue)
  <2>1. rest \in Seq(OwnEvents) /\ Len(rest) = Len(queue) - 1 BY <1>1
  <2>2. Len(queue) = 1 BY <1>2
  <2> HIDE DEF rest
  <2>3. Len(rest) = 0 BY <2>1, <2>2
  <2>4. rest = <<>> BY <2>1, <2>3, EmptySeq
  <2> QED BY <2>4 DEF rest
<1>4. Head(queue) \in [type : {"finished"}, action : {running}, code : 0 .. 2,
                       out : SUBSET OwnResults]
  BY <1>1 DEF OwnEvents, OwnLines
<1> QED BY <1>2, <1>3, <1>4 DEF CliInv

LEMMA FinishStep ==
  ASSUME GuiInv,
         FinishFailed \/ (queue # <<>> /\ Head(queue).type = "finished"
                          /\ \E r \in Head(queue).out : Finish(r))
  PROVE  GuiInv'
<1>1. queue # <<>> /\ Head(queue).type = "finished" /\ running' = Idle /\ queue' = Tail(queue)
      /\ UNCHANGED <<choice, back>>
  BY DEF FinishFailed, Finish, Event
<1>2. /\ Head(queue).action = running /\ Head(queue).out \in SUBSET OwnResults
      /\ queue' = <<>> /\ stderr' = <<>> /\ thread' = NoThread /\ cli' = NoCli
  BY <1>1, LastEvent DEF back
<1>3. ThreadInv' /\ CliInv' /\ QueueInv' BY <1>1, <1>2, QuietIsOwn
<1>4. Idle \notin {"pin_preview", "pin"} BY DEF Idle
<1>5. AsideInv'
  <2>1. CASE FinishFailed
    <3>1. comparison' \in {{}, comparison} BY <2>1 DEF FinishFailed
    <3> QED BY <1>1, <3>1, AsideKeeps DEF choice, back
  <2>2. ASSUME NEW r \in Head(queue).out, Finish(r) PROVE AsideInv'
    <3>1. r.compared \in OwnComparisons BY <1>2 DEF OwnResults
    <3>2. comparison' = comparison \/ comparison' \in OwnComparisons
      BY <2>2, <3>1 DEF Finish, Compare
    <3> QED BY <1>1, <3>2, AsideKeeps DEF choice, back
  <2> QED BY <2>1, <2>2
<1>6. ShownInv'
  <2>1. CASE FinishFailed
    <3> QED BY <1>1, <1>4, <2>1 DEF FinishFailed, GuiInv, ShownInv, choice
  <2>2. ASSUME NEW r \in Head(queue).out, Finish(r) PROVE ShownInv'
    <3>1. r \in OwnResults BY <1>2
    <3>2. r.profile = profile /\ r.project = project /\ r.changed \in BOOLEAN
          /\ r.tip \in 0 .. MaxCommits
      BY <3>1 DEF OwnResults
    <3>4. changes' \subseteq [profile : {profile} \cap Pinnable, changed : BOOLEAN,
                              tip : 0 .. MaxCommits]
          /\ reviewed' \in BOOLEAN
      <4>1. Head(queue).action = "pin_preview" => profile \in Pinnable
        BY <1>2 DEF GuiInv, ShownInv
      <4>2. \/ changes' = {[profile |-> r.profile, changed |-> r.changed, tip |-> r.tip]}
               /\ Head(queue).action = "pin_preview"
            \/ changes' = {} \/ changes' = changes
        BY <2>2 DEF Finish
      <4>3. changes' \subseteq [profile : {profile} \cap Pinnable, changed : BOOLEAN,
                                tip : 0 .. MaxCommits]
        BY <3>2, <4>1, <4>2 DEF GuiInv, ShownInv
      <4>4. reviewed' \in BOOLEAN BY <2>2 DEF Finish, GuiInv, ShownInv
      <4> QED BY <4>3, <4>4
    <3>5. selection' \cup summary' \subseteq {<<profile, project>>} /\ doctor' \subseteq {profile}
      BY <2>2, <3>2 DEF Finish, GuiInv, ShownInv
    <3> QED BY <1>1, <1>4, <3>4, <3>5 DEF GuiInv, ShownInv, choice
  <2> QED BY <2>1, <2>2
<1> QED BY <1>3, <1>5, <1>6 DEF GuiInv

-----------------------------------------------------------------------------
LEMMA GuiStep == GuiInv /\ [Next]_vars => GuiInv'
<1> SUFFICES ASSUME GuiInv, [Next]_vars PROVE GuiInv' OBVIOUS
<1>1. CASE UNCHANGED vars
  <2> USE <1>1 DEF vars, choice, shown, back, GuiInv
  <2>1. ThreadInv' BY DEF ThreadInv
  <2>2. CliInv' BY DEF CliInv, OwnLines, OwnResults, OwnComparisons
  <2>3. QueueInv' BY DEF QueueInv, OwnEvents, OwnLines, OwnResults, OwnComparisons
  <2>4. ShownInv' BY DEF ShownInv
  <2>5. AsideInv' BY AsideKeeps
  <2> QED BY <2>1, <2>2, <2>3, <2>4, <2>5
<1>2. CASE Next
  BY <1>2, UserStep, ClickStep, CreateStep, SpawnStep, LinesStep, CliEndsStep, ForwardStep,
     SendComparisonStep, SendFinishedStep, SendFinishedUnreadStep, EventStep, FinishStep,
     StrayStep, CommitStep
  DEF Next, CliStep, ThreadStep, Receive
<1> QED BY <1>1, <1>2

LEMMA GuiInvariant == Spec => []GuiInv
BY GuiStart, GuiStep, PTL DEF Spec

(* Nothing is shown that was not made for the profile, the project and the   *)
(* baseline that are chosen, but for a comparison of a reader left behind.   *)
THEOREM ShownIsOfTheChoice == Spec => []ShownBelongsToChoice
<1>1. GuiInv => ShownBelongsToChoice
  BY DEF GuiInv, ShownInv, AsideInv, OwnComparisons, ShownBelongsToChoice
<1> QED BY <1>1, GuiInvariant, PTL

(* When the buttons are enabled no thread, command or event of the action    *)
(* before is left, but for the lines of a reader that was not joined.        *)
THEOREM NothingIsLeftOver == Spec => []NothingAfterFinished
<1>1. GuiInv => NothingAfterFinished
  <2> SUFFICES ASSUME GuiInv, running = Idle
               PROVE  queue = <<>> /\ stderr = <<>> /\ cli.state = "none" /\ thread.todo = <<>>
    BY DEF NothingAfterFinished
  <2> QED BY IdleIsQuiet DEF NoCli, NoThread
<1> QED BY <1>1, GuiInvariant, PTL

(* Pins are updated only while a preview of this profile that found changes  *)
(* is shown; nothing is said of the revisions that are written.              *)
THEOREM PinIsReviewed == Spec => []PinFollowsReview
<1>1. GuiInv => PinFollowsReview
  <2> SUFFICES ASSUME GuiInv, running = "pin"
               PROVE  /\ reviewed /\ (thread.todo # <<>> => thread.profile = profile)
                      /\ \E c \in changes : c.changed /\ c.profile = profile
    BY DEF PinFollowsReview
  <2>1. thread.todo # <<>> => thread.profile = profile
    <3>1. CASE thread = NoThread BY <3>1 DEF NoThread
    <3>2. CASE thread # NoThread
      <4> DEFINE t == [todo |-> thread.todo, profile |-> profile, project |-> project,
                       lock |-> IF profile = Live THEN {baseline} ELSE {}]
      <4>1. thread = t BY <3>2 DEF GuiInv, ThreadInv
      <4>2. t.profile = profile OBVIOUS
      <4> QED BY <4>1, <4>2, Zenon
    <3> QED BY <3>1, <3>2
  <2> QED BY <2>1 DEF GuiInv, ShownInv
<1> QED BY <1>1, GuiInvariant, PTL

-----------------------------------------------------------------------------
(* The progress bar: a check writes the lines of its legs after all others,  *)
(* in order, so that the line at place k of what is on its way is line       *)
(* o + k of the legs, and o of them were read.                               *)

Starts(o) == IF o < 1 THEN 0 ELSE IF o < 3 THEN 1 ELSE 2
Dones(o)  == IF o < 2 THEN 0 ELSE IF o < 4 THEN 1 ELSE 2

IsLine(e, stage) == e.type = "progress" /\ e.stage = stage

LegLines(lines, o) ==
  \A k \in 1 .. Len(lines) :
    /\ IsLine(lines[k], "musig2-start") => o + k \in {1, 3}
    /\ IsLine(lines[k], "musig2-done") => o + k \in {2, 4}

BarAt(o) ==
  /\ LegLines(queue, o) /\ LegLines(stderr, o + Len(queue))
  /\ total \in 0 .. MaxCases + Starts(o) /\ completed \in 0 .. MaxCases + Dones(o)
  /\ thread # NoThread => cli.legs = o + Len(queue) + Len(stderr)

BarOwn ==
  /\ cli.legs > 0 => running = "check" /\ cli.stage = "cases" /\ cli.done = cli.total
  /\ \E o \in Int : BarAt(o)

LEMMA AppendLine ==
  ASSUME NEW S, NEW lines \in Seq(S), NEW e \in S, NEW o \in Int, LegLines(lines, o),
         IsLine(e, "musig2-start") => o + Len(lines) + 1 \in {1, 3},
         IsLine(e, "musig2-done") => o + Len(lines) + 1 \in {2, 4}
  PROVE  LegLines(Append(lines, e), o)
<1> DEFINE more == Append(lines, e)
<1>1. /\ Len(lines) \in Nat /\ Len(more) = Len(lines) + 1 /\ more[Len(lines) + 1] = e
      /\ \A k \in 1 .. Len(lines) : more[k] = lines[k]
  BY AppendProperties, LenProperties
<1> SUFFICES ASSUME NEW k \in 1 .. Len(more)
             PROVE  /\ IsLine(more[k], "musig2-start") => o + k \in {1, 3}
                    /\ IsLine(more[k], "musig2-done") => o + k \in {2, 4}
  BY DEF LegLines
<1> HIDE DEF more
<1>2. CASE k = Len(lines) + 1
  <2>1. o + Len(lines) + 1 = o + k BY <1>1, <1>2
  <2> QED BY <1>1, <1>2, <2>1
<1>3. CASE k # Len(lines) + 1
  <2>1. k \in 1 .. Len(lines) BY <1>1, <1>3
  <2> QED BY <1>1, <2>1 DEF LegLines
<1> QED BY <1>2, <1>3

LEMMA TakeLine ==
  ASSUME NEW S, NEW lines \in Seq(S), lines # <<>>, NEW o \in Int, LegLines(lines, o)
  PROVE  /\ LegLines(Tail(lines), o + 1)
         /\ IsLine(Head(lines), "musig2-start") => o + 1 \in {1, 3}
         /\ IsLine(Head(lines), "musig2-done") => o + 1 \in {2, 4}
<1> DEFINE rest == Tail(lines)
<1>1. /\ Len(lines) \in Nat \ {0} /\ Len(rest) = Len(lines) - 1 /\ Head(lines) = lines[1]
      /\ \A k \in 1 .. Len(rest) : rest[k] = lines[k + 1]
  BY HeadTailProperties, LenProperties, EmptySeq
<1> HIDE DEF rest
<1>2. LegLines(rest, o + 1)
  <2> SUFFICES ASSUME NEW k \in 1 .. Len(rest)
               PROVE  /\ IsLine(rest[k], "musig2-start") => o + 1 + k \in {1, 3}
                      /\ IsLine(rest[k], "musig2-done") => o + 1 + k \in {2, 4}
    BY DEF LegLines
  <2>1. k + 1 \in 1 .. Len(lines) /\ o + 1 + k = o + (k + 1) /\ rest[k] = lines[k + 1] BY <1>1
  <2> QED BY <2>1 DEF LegLines
<1>3. 1 \in 1 .. Len(lines) BY <1>1
<1> QED BY <1>1, <1>2, <1>3 DEF rest, LegLines

(* Before the first line of a leg the count can be moved.                    *)
LEMMA NoLegYet ==
  ASSUME NEW S, NEW lines \in Seq(S), NEW o \in Int, NEW p \in Int, LegLines(lines, o),
         o + Len(lines) <= 0, p + Len(lines) <= 0
  PROVE  LegLines(lines, p)
<1>1. \A k \in 1 .. Len(lines) : o + k \notin {1, 2, 3, 4}
  BY LenProperties
<1> QED BY <1>1 DEF LegLines

LEMMA StartsBound ==
  ASSUME NEW o \in Int
  PROVE  /\ Starts(o) \in 0 .. 2 /\ Dones(o) \in 0 .. 2
         /\ Starts(o) <= Starts(o + 1) /\ Dones(o) <= Dones(o + 1)
         /\ o + 1 \in {1, 3} => Starts(o + 1) = Starts(o) + 1
         /\ o + 1 \in {2, 4} => Dones(o + 1) = Dones(o) + 1
         /\ o <= 0 => Starts(o) = 0 /\ Dones(o) = 0
BY DEF Starts, Dones

LEMMA BarStart == Init => BarOwn
<1> SUFFICES ASSUME Init PROVE BarOwn OBVIOUS
<1>1. BarAt(0)
  <2>1. Len(queue) = 0 /\ Len(stderr) = 0 BY DEF Init
  <2>2. total = 0 /\ completed = 0 /\ thread = NoThread BY DEF Init
  <2> QED BY <2>1, <2>2, StartsBound, GuiAssumption DEF BarAt, LegLines
<1>2. ~ (cli.legs > 0) BY DEF Init, NoCli
<1> QED BY <1>1, <1>2 DEF BarOwn

(* When no action runs the bar may stand where it was, and it starts at zero. *)
LEMMA QuietBar ==
  ASSUME GuiInv, BarOwn, running = Idle, queue' = queue, stderr' = stderr, cli' = cli,
         \/ thread' = thread /\ UNCHANGED progress
         \/ completed' = 0 /\ total' = 0
  PROVE  BarOwn'
<1>1. queue = <<>> /\ stderr = <<>> /\ thread = NoThread /\ cli = NoCli BY IdleIsQuiet
<1>2. Len(queue) = 0 /\ Len(stderr) = 0 /\ Len(queue') = 0 BY <1>1
<1>3. ~ (cli'.legs > 0) /\ cli.legs = 0 BY <1>1 DEF NoCli
<1>4. CASE thread' = thread /\ UNCHANGED progress
  <2>1. PICK o \in Int : BarAt(o) BY DEF BarOwn
  <2>2. BarAt(o)' BY <1>1, <1>4, <2>1 DEF BarAt, LegLines, progress
  <2> QED BY <1>3, <2>2 DEF BarOwn
<1>5. CASE completed' = 0 /\ total' = 0
  <2>1. BarAt(0)'
    BY <1>1, <1>2, <1>3, <1>5, StartsBound, GuiAssumption DEF BarAt, LegLines
  <2> QED BY <1>3, <2>1 DEF BarOwn
<1> QED BY <1>4, <1>5

(* A step that writes and reads no line.                                     *)
LEMMA SameBar ==
  ASSUME BarOwn, UNCHANGED <<running, progress, queue, stderr>>,
         thread' = thread, cli'.legs = cli.legs,
         cli'.legs = 0 \/ (cli'.stage = cli.stage /\ cli'.done = cli.done /\ cli'.total = cli.total)
  PROVE  BarOwn'
<1>1. PICK o \in Int : BarAt(o) BY DEF BarOwn
<1>2. BarAt(o)' BY <1>1 DEF BarAt, LegLines, IsLine, progress
<1> QED BY <1>2 DEF BarOwn

(* The check writes a line that is not of a leg, before all that are.        *)
LEMMA OtherLine ==
  ASSUME GuiInv, BarOwn, UNCHANGED <<running, progress, queue, thread>>, cli.legs = 0,
         cli'.legs = 0, NEW e \in OwnLines, stderr' = Append(stderr, e),
         e.stage \notin {"musig2-start", "musig2-done"}, thread # NoThread
  PROVE  BarOwn'
<1>1. PICK o \in Int : BarAt(o) BY DEF BarOwn
<1>2. queue \in Seq(OwnEvents) /\ stderr \in Seq(OwnLines) BY DEF GuiInv, QueueInv, CliInv
<1>3. Len(queue) \in Nat /\ Len(stderr) \in Nat BY <1>2, LenProperties
<1>4. o + Len(queue) + Len(stderr) = 0 BY <1>1 DEF BarAt
<1> DEFINE p == o - 1
<1>5. p \in Int /\ o <= 0 /\ p <= 0 BY <1>3, <1>4
<1>6. LegLines(queue, p)
  <2>1. o + Len(queue) <= 0 /\ p + Len(queue) <= 0 BY <1>3, <1>4
  <2> HIDE DEF p
  <2> QED BY <1>1, <1>2, <1>5, <2>1, NoLegYet DEF BarAt
<1>7. LegLines(stderr, p + Len(queue))
  <2> DEFINE a == o + Len(queue)  b == p + Len(queue)
  <2>1. a \in Int /\ b \in Int /\ a + Len(stderr) <= 0 /\ b + Len(stderr) <= 0 BY <1>3, <1>4
  <2>2. LegLines(stderr, a) BY <1>1 DEF BarAt
  <2> HIDE DEF a, b
  <2>3. LegLines(stderr, b) BY <1>2, <2>1, <2>2, NoLegYet
  <2> QED BY <2>3 DEF b
<1>8. LegLines(stderr', p + Len(queue))
  <2>1. ~ IsLine(e, "musig2-start") /\ ~ IsLine(e, "musig2-done") BY DEF IsLine
  <2> DEFINE b == p + Len(queue)
  <2>2. b \in Int BY <1>3
  <2> HIDE DEF b
  <2>3. LegLines(stderr, b) BY <1>7 DEF b
  <2>4. LegLines(Append(stderr, e), b) BY <1>2, <2>1, <2>2, <2>3, AppendLine
  <2> QED BY <2>4 DEF b
<1>9. Len(stderr') = Len(stderr) + 1 BY <1>2, AppendProperties
<1>10. total \in 0 .. MaxCases /\ completed \in 0 .. MaxCases
  <2>1. Starts(o) = 0 /\ Dones(o) = 0 BY <1>5 DEF Starts, Dones
  <2>2. MaxCases + 0 = MaxCases BY GuiAssumption
  <2> QED BY <1>1, <2>1, <2>2 DEF BarAt
<1>11. BarAt(p)'
  <2>1. Starts(p) = 0 /\ Dones(p) = 0 BY <1>5 DEF Starts, Dones
  <2>2. 0 = p + Len(queue) + Len(stderr') BY <1>3, <1>4, <1>9
  <2>3. MaxCases + 0 = MaxCases BY GuiAssumption
  <2> HIDE DEF p
  <2> QED BY <1>6, <1>8, <1>10, <2>1, <2>2, <2>3 DEF BarAt, progress, LegLines, IsLine
<1>12. ~ (cli'.legs > 0) OBVIOUS
<1> QED BY <1>5, <1>11, <1>12 DEF BarOwn

LEMMA LegLine == ASSUME GuiInv, BarOwn, CliLeg PROVE BarOwn'
<1>1. PICK o \in Int : BarAt(o) BY DEF BarOwn
<1>2. queue \in Seq(OwnEvents) /\ stderr \in Seq(OwnLines) /\ cli.legs \in 0 .. 4
  BY DEF GuiInv, QueueInv, CliInv, Legs
<1>3. Len(queue) \in Nat /\ Len(stderr) \in Nat BY <1>2, LenProperties
<1>4. thread # NoThread /\ thread.todo # <<>> /\ Command = "check"
  BY DEF CliLeg, Checking, NoThread
<1>5. o + Len(queue) + Len(stderr) = cli.legs BY <1>1, <1>4 DEF BarAt
<1>6. running = "check"
  <2>1. thread.todo = <<running>> \/ thread.todo = <<"compare", "doctor">>
    BY <1>4 DEF GuiInv, ThreadInv
  <2>2. thread.todo # <<"compare", "doctor">> BY <1>4 DEF Command
  <2> QED BY <1>4, <2>1, <2>2 DEF Command
<1> DEFINE e == Line(IF cli.legs % 2 = 0 THEN "musig2-start" ELSE "musig2-done", 0, {})
           b == o + Len(queue)
<1>7. stderr' = Append(stderr, e) BY DEF CliLeg, Writes
<1>8. e \in OwnLines
  <2>1. {} \in OwnComparisons /\ 0 \in 0 .. MaxCases BY GuiAssumption DEF OwnComparisons
  <2> QED BY <2>1 DEF Line, OwnLines
<1>9. cli.legs \in 0 .. 3 /\ cli'.legs = cli.legs + 1
      /\ cli'.stage = "cases" /\ cli'.done = cli'.total
  BY <1>2 DEF CliLeg, Legs, GuiInv, CliInv
<1>10. /\ IsLine(e, "musig2-start") => cli.legs + 1 \in {1, 3}
       /\ IsLine(e, "musig2-done") => cli.legs + 1 \in {2, 4}
  BY <1>9 DEF IsLine, Line
<1>11. b \in Int /\ b + Len(stderr) + 1 = cli.legs + 1 BY <1>3, <1>5
<1>12. LegLines(stderr, b) /\ LegLines(queue, o) BY <1>1 DEF BarAt
<1> HIDE DEF e, b
<1>13. LegLines(stderr', b) BY <1>2, <1>7, <1>8, <1>10, <1>11, <1>12, AppendLine
<1>14. Len(stderr') = Len(stderr) + 1 BY <1>2, <1>7, <1>8, AppendProperties
<1>15. cli'.legs = o + Len(queue) + Len(stderr') BY <1>3, <1>5, <1>9, <1>14
<1>16. UNCHANGED <<queue, running, total, completed>> BY DEF CliLeg, front, progress
<1>17. BarAt(o)'
  BY <1>1, <1>12, <1>13, <1>15, <1>16 DEF b, BarAt, LegLines, IsLine
<1> QED BY <1>6, <1>9, <1>16, <1>17 DEF BarOwn

LEMMA ForwardBar == ASSUME GuiInv, BarOwn, Forward PROVE BarOwn'
<1>1. PICK o \in Int : BarAt(o) BY DEF BarOwn
<1>2. queue \in Seq(OwnEvents) /\ stderr \in Seq(OwnLines) /\ stderr # <<>>
  BY DEF GuiInv, QueueInv, CliInv, Forward
<1>3. Len(queue) \in Nat /\ Len(stderr) \in Nat BY <1>2, LenProperties
<1> DEFINE b == o + Len(queue)
<1>4. b \in Int BY <1>3
<1>5. LegLines(stderr, b) /\ LegLines(queue, o) BY <1>1 DEF BarAt
<1>6. Head(stderr) \in OwnEvents /\ Len(Tail(stderr)) = Len(stderr) - 1
  BY <1>2, HeadTailProperties DEF OwnEvents
<1>7. /\ LegLines(Tail(stderr), b + 1)
      /\ IsLine(Head(stderr), "musig2-start") => b + 1 \in {1, 3}
      /\ IsLine(Head(stderr), "musig2-done") => b + 1 \in {2, 4}
  <2> HIDE DEF b
  <2> QED BY <1>2, <1>4, <1>5, TakeLine
<1>8. LegLines(queue', o) /\ Len(queue') = Len(queue) + 1
  BY <1>2, <1>5, <1>6, <1>7, AppendLine, AppendProperties DEF Forward
<1>9. o + Len(queue') = b + 1 /\ o + Len(queue') + Len(stderr') = o + Len(queue) + Len(stderr)
  BY <1>3, <1>6, <1>8 DEF Forward
<1>10. UNCHANGED <<thread, cli, running, total, completed>> /\ stderr' = Tail(stderr)
  BY DEF Forward, front, progress
<1>11. LegLines(stderr', o + Len(queue')) BY <1>7, <1>9, <1>10
<1>12. BarAt(o)' BY <1>1, <1>8, <1>9, <1>10, <1>11 DEF BarAt, LegLines, IsLine
<1> QED BY <1>10, <1>12 DEF BarOwn

LEMMA SendBar == ASSUME GuiInv, BarOwn, SendComparison \/ SendFinished PROVE BarOwn'
<1>1. PICK o \in Int : BarAt(o) BY DEF BarOwn
<1>2. queue \in Seq(OwnEvents) /\ stderr = <<>> /\ stderr' = <<>> /\ thread # NoThread
      /\ UNCHANGED <<running, total, completed>> /\ cli'.legs = 0
  BY DEF GuiInv, QueueInv, CliInv, SendComparison, SendFinished, NoCli, front, progress
<1>3. Len(queue) \in Nat /\ Len(stderr) = 0 BY <1>2, LenProperties
<1>4. LegLines(queue, o) /\ cli.legs = o + Len(queue) + Len(stderr) BY <1>1, <1>2 DEF BarAt
<1>5. PICK e : queue' = Append(queue, e) /\ e.type # "progress"
  <2>1. CASE SendFinished
    <3>1. Finished.type # "progress" BY DEF Finished
    <3> QED BY <2>1, <3>1 DEF SendFinished
  <2>2. CASE SendComparison
    <3> DEFINE f == [type |-> "comparison", ok |-> cli.code = 0,
                     compared |-> UNION {r.compared : r \in cli.out}]
    <3>1. f.type # "progress" OBVIOUS
    <3>2. queue' = Append(queue, f) BY <2>2 DEF SendComparison
    <3> HIDE DEF f
    <3> QED BY <3>1, <3>2
  <2> QED BY <2>1, <2>2
<1>6. queue \in Seq(OwnEvents \cup {e}) /\ e \in OwnEvents \cup {e}
      /\ ~ IsLine(e, "musig2-start") /\ ~ IsLine(e, "musig2-done")
  <2>1. OwnEvents \subseteq OwnEvents \cup {e} OBVIOUS
  <2> QED BY <1>2, <1>5, <2>1, SeqMonotonic DEF IsLine
<1>7. Len(queue') = Len(queue) + 1 BY <1>5, <1>6, AppendProperties
<1>8. \A p \in Int : LegLines(queue, p) => LegLines(queue', p)
  BY <1>5, <1>6, AppendLine
<1>9. \A p : LegLines(stderr', p) BY <1>2 DEF LegLines
<1>10. CASE SendFinished
  <2>1. BarAt(o)'
    <3>1. thread' = NoThread BY <1>10 DEF SendFinished
    <3> QED BY <1>1, <1>2, <1>4, <1>8, <1>9, <3>1 DEF BarAt, LegLines, IsLine
  <2> QED BY <1>2, <2>1 DEF BarOwn
<1>11. CASE SendComparison
  <2>1. running = "doctor"
    <3>1. Len(thread.todo) = 2 BY <1>11 DEF SendComparison
    <3>2. thread.todo # <<running>> BY <3>1
    <3> QED BY <1>2, <3>2 DEF GuiInv, ThreadInv
  <2>2. cli.legs = 0
    <3>1. cli.legs \in Nat /\ ~ (cli.legs > 0) BY <2>1 DEF GuiInv, CliInv, BarOwn, Legs
    <3> QED BY <3>1
  <2> DEFINE p == o - 1
  <2>3. p \in Int /\ o <= 0 /\ p <= 0 /\ o + Len(queue) <= 0 /\ p + Len(queue) <= 0
        /\ 0 = p + Len(queue') + 0
    BY <1>3, <1>4, <1>7, <2>2
  <2>4. Starts(p) = 0 /\ Dones(p) = 0 /\ Starts(o) = 0 /\ Dones(o) = 0
    BY <2>3 DEF Starts, Dones
  <2> HIDE DEF p
  <2>5. LegLines(queue, p) BY <1>2, <1>4, <2>3, NoLegYet
  <2>6. Len(stderr') = 0 BY <1>2
  <2>7. BarAt(p)'
    BY <1>1, <1>2, <1>8, <1>9, <2>3, <2>4, <2>5, <2>6 DEF BarAt, LegLines, IsLine
  <2> QED BY <1>2, <2>3, <2>7 DEF BarOwn
<1> QED BY <1>10, <1>11

LEMMA ReceiveBar == ASSUME GuiInv, BarOwn, ReceiveComparison \/ ReceiveProgress PROVE BarOwn'
<1>1. PICK o \in Int : BarAt(o) BY DEF BarOwn
<1>2. queue \in Seq(OwnEvents) /\ stderr \in Seq(OwnLines) /\ queue # <<>>
      /\ queue' = Tail(queue) /\ UNCHANGED <<running, thread, cli, stderr>>
  BY DEF GuiInv, QueueInv, CliInv, ReceiveComparison, ReceiveProgress, Event, back
<1>3. Len(queue) \in Nat \ {0} /\ Len(queue') = Len(queue) - 1 /\ Head(queue) \in OwnEvents
      /\ Len(stderr) \in Nat
  BY <1>2, LenProperties, EmptySeq, HeadTailProperties
<1>4. /\ LegLines(queue', o + 1)
      /\ IsLine(Head(queue), "musig2-start") => o + 1 \in {1, 3}
      /\ IsLine(Head(queue), "musig2-done") => o + 1 \in {2, 4}
  BY <1>1, <1>2, TakeLine DEF BarAt
<1>5. o + 1 + Len(queue') = o + Len(queue)
  BY <1>3
<1>6. LegLines(stderr', o + 1 + Len(queue')) BY <1>1, <1>2, <1>5 DEF BarAt
<1>7. thread' # NoThread => cli'.legs = o + 1 + Len(queue') + Len(stderr')
  BY <1>1, <1>2, <1>5 DEF BarAt
<1> DEFINE p == o + 1
<1>8. /\ Starts(o) \in 0 .. 2 /\ Dones(o) \in 0 .. 2 /\ Starts(p) \in 0 .. 2 /\ Dones(p) \in 0 .. 2
      /\ Starts(o) <= Starts(p) /\ Dones(o) <= Dones(p)
      /\ p \in {1, 3} => Starts(p) = Starts(o) + 1
      /\ p \in {2, 4} => Dones(p) = Dones(o) + 1
  BY StartsBound
<1>9. total \in 0 .. MaxCases + Starts(o) /\ completed \in 0 .. MaxCases + Dones(o)
  BY <1>1 DEF BarAt
<1>10. p \in Int OBVIOUS
<1> HIDE DEF p
<1>11. total' \in 0 .. MaxCases + Starts(p) /\ completed' \in 0 .. MaxCases + Dones(p)
  <2>1. CASE ReceiveComparison
    <3>1. total' = total /\ completed' = completed BY <2>1 DEF ReceiveComparison, progress
    <3> QED BY <1>8, <1>9, <3>1, GuiAssumption
  <2>2. CASE ReceiveProgress
    <3> DEFINE e == Head(queue)
    <3>1. e.type = "progress" /\ e.n \in 0 .. MaxCases
      <4>1. e.type = "progress" BY <2>2 DEF ReceiveProgress, Event
      <4> QED BY <1>3, <4>1 DEF OwnEvents, OwnLines
    <3>2. total' = CASE e.stage = "preflight" -> e.n
                     [] e.stage = "musig2-start" -> total + 1
                     [] OTHER -> total
      BY <2>2 DEF ReceiveProgress, ShowProgress
    <3>3. completed' = CASE e.stage = "case-done" -> e.n
                         [] e.stage = "musig2-done" -> completed + 1
                         [] OTHER -> completed
      BY <2>2 DEF ReceiveProgress, ShowProgress
    <3>4. e.stage = "musig2-start" => p \in {1, 3} BY <1>4, <3>1 DEF IsLine, p
    <3>5. e.stage = "musig2-done" => p \in {2, 4} BY <1>4, <3>1 DEF IsLine, p
    <3> HIDE DEF e
    <3>6. total' \in 0 .. MaxCases + Starts(p)
      <4>1. CASE e.stage = "preflight" BY <1>8, <3>1, <3>2, <4>1, GuiAssumption
      <4>2. CASE e.stage = "musig2-start" BY <1>8, <1>9, <3>2, <3>4, <4>2, GuiAssumption
      <4>3. CASE e.stage \notin {"preflight", "musig2-start"}
        BY <1>8, <1>9, <3>2, <4>3, GuiAssumption
      <4> QED BY <4>1, <4>2, <4>3
    <3>7. completed' \in 0 .. MaxCases + Dones(p)
      <4>1. CASE e.stage = "case-done" BY <1>8, <3>1, <3>3, <4>1, GuiAssumption
      <4>2. CASE e.stage = "musig2-done" BY <1>8, <1>9, <3>3, <3>5, <4>2, GuiAssumption
      <4>3. CASE e.stage \notin {"case-done", "musig2-done"}
        BY <1>8, <1>9, <3>3, <4>3, GuiAssumption
      <4> QED BY <4>1, <4>2, <4>3
    <3> QED BY <3>6, <3>7
  <2> QED BY <2>1, <2>2
<1>12. BarAt(p)'
  <2>1. p' = p BY DEF p
  <2>2. LegLines(queue', p) /\ LegLines(stderr', p + Len(queue')) BY <1>4, <1>6 DEF p
  <2>3. thread' # NoThread => cli'.legs = p + Len(queue') + Len(stderr') BY <1>7 DEF p
  <2> QED BY <1>11, <2>2, <2>3 DEF BarAt, LegLines, IsLine, Starts, Dones
<1>13. cli'.legs > 0 => running' = "check" /\ cli'.stage = "cases" /\ cli'.done = cli'.total
  BY <1>2 DEF BarOwn
<1> QED BY <1>10, <1>12, <1>13 DEF BarOwn

LEMMA FinishBar ==
  ASSUME GuiInv, BarOwn,
         FinishFailed \/ (queue # <<>> /\ Head(queue).type = "finished"
                          /\ \E r \in Head(queue).out : Finish(r))
  PROVE  BarOwn'
<1>1. queue # <<>> /\ Head(queue).type = "finished" /\ queue' = Tail(queue)
      /\ UNCHANGED <<thread, cli, stderr, total, completed>>
  BY DEF FinishFailed, Finish, Event, back, progress
<1>2. queue' = <<>> /\ stderr' = <<>> /\ thread' = NoThread /\ cli' = NoCli
  BY <1>1, LastEvent
<1>3. PICK o \in Int : BarAt(o) BY DEF BarOwn
<1>4. BarAt(o)'
  <2>1. \A p : LegLines(queue', p) /\ LegLines(stderr', p)
    <3>1. Len(queue') = 0 /\ Len(stderr') = 0 BY <1>2
    <3> QED BY <3>1 DEF LegLines
  <2> QED BY <1>1, <1>2, <1>3, <2>1 DEF BarAt, LegLines, IsLine
<1>5. ~ (cli'.legs > 0) BY <1>2 DEF NoCli
<1> QED BY <1>4, <1>5 DEF BarOwn

LEMMA OwnBarStep ==
  ASSUME GuiInv, BarOwn, [Next]_vars, ~ SendFinishedUnread, ~ ReceiveStray
  PROVE  BarOwn'
<1>1. ASSUME NEW p \in Profile, ChooseProfile(p) PROVE BarOwn'
  <2>1. /\ running = Idle /\ queue' = queue /\ stderr' = stderr /\ cli' = cli
        /\ thread' = thread /\ UNCHANGED progress
    BY <1>1 DEF ChooseProfile, back
  <2> QED BY <2>1, QuietBar
<1>2. ASSUME NEW q \in Project, ChooseProject(q) PROVE BarOwn'
  <2>1. /\ running = Idle /\ queue' = queue /\ stderr' = stderr /\ cli' = cli
        /\ thread' = thread /\ UNCHANGED progress
    BY <1>2 DEF ChooseProject, back
  <2> QED BY <2>1, QuietBar
<1>3. ASSUME NEW b \in Baseline, ChooseBaseline(b) PROVE BarOwn'
  <2>1. /\ running = Idle /\ queue' = queue /\ stderr' = stderr /\ cli' = cli
        /\ thread' = thread /\ UNCHANGED progress
    BY <1>3 DEF ChooseBaseline, back
  <2> QED BY <2>1, QuietBar
<1>4. ASSUME NEW q \in Project, PreviewAffected(q) PROVE BarOwn'
  BY <1>4, QuietBar DEF PreviewAffected, Ready, Start
<1>5. ASSUME NEW a \in Action, Click(a) PROVE BarOwn'
  BY <1>5, QuietBar DEF Click, Ready, Start
<1>6. CASE CreateLiveProfile \/ Commit \/ UNCHANGED vars
  BY <1>6, SameBar DEF CreateLiveProfile, Commit, vars, back
<1>7. CASE Spawn \/ CannotStart
  <2>1. cli = NoCli /\ cli.legs = 0 /\ cli'.legs = 0
    BY <1>7 DEF GuiInv, CliInv, Spawn, CannotStart, NoCli
  <2> QED BY <1>7, <2>1, SameBar DEF Spawn, CannotStart, front
<1>8. CASE CliSucceeds \/ CliFails
  <2>1. /\ cli'.legs = cli.legs /\ cli'.stage = cli.stage /\ cli'.done = cli.done
        /\ cli'.total = cli.total
    BY <1>8 DEF CliSucceeds, CliFails, GuiInv, CliInv
  <2> QED BY <1>8, <2>1, SameBar DEF CliSucceeds, CliFails, front
<1>9. ASSUME CliCompares \/ CliCase \/ \E n \in 1 .. MaxCases : CliPreflight(n) PROVE BarOwn'
  <2>1. /\ thread.todo # <<>> /\ UNCHANGED <<running, progress, queue, thread>>
        /\ cli.stage = "cases" => cli.done # cli.total
        /\ cli'.legs = cli.legs
    <3>1. thread.todo # <<>> /\ UNCHANGED <<running, progress, queue, thread>>
      BY <1>9 DEF CliCompares, CliCase, CliPreflight, Checking, front
    <3>2. cli.done \in Nat /\ cli.total \in Nat BY DEF GuiInv, CliInv
    <3>3. cli.stage = "cases" => cli.done # cli.total
      BY <1>9, <3>2 DEF CliCompares, CliCase, CliPreflight
    <3>4. cli'.legs = cli.legs
      BY <1>9 DEF CliCompares, CliCase, CliPreflight, GuiInv, CliInv
    <3> QED BY <3>1, <3>3, <3>4
  <2>2. cli.legs = 0
    <3>1. cli.legs \in Nat /\ ~ (cli.legs > 0) BY <2>1 DEF GuiInv, CliInv, BarOwn, Legs
    <3> QED BY <3>1
  <2>3. thread # NoThread BY <2>1 DEF NoThread
  <2>4. {} \in OwnComparisons /\ MaxCases \in Nat BY GuiAssumption DEF OwnComparisons
  <2>5. PICK s \in {"baseline-comparison", "preflight", "case-done"}, n \in 0 .. MaxCases,
             c \in OwnComparisons : Writes(Line(s, n, c))
    <3>1. CASE CliCompares
      <4>1. PICK q \in {{}} \cup {{p} : p \in Project} :
              Writes(Line("baseline-comparison", 0, Compared(q)))
        BY <3>1 DEF CliCompares
      <4>2. Compared(q) \in OwnComparisons BY <2>1, ComparedIsOwn
      <4> QED BY <2>4, <4>1, <4>2
    <3>2. CASE CliCase
      <4>1. cli.done + 1 \in 0 .. MaxCases
        <5>1. cli.done \in Nat /\ cli.total \in 0 .. MaxCases BY DEF GuiInv, CliInv
        <5>2. cli.done < cli.total BY <3>2 DEF CliCase
        <5> QED BY <2>4, <5>1, <5>2
      <4> QED BY <2>4, <3>2, <4>1 DEF CliCase
    <3>3. ASSUME NEW n \in 1 .. MaxCases, CliPreflight(n)
          PROVE  \E s \in {"baseline-comparison", "preflight", "case-done"}, m \in 0 .. MaxCases,
                    c \in OwnComparisons : Writes(Line(s, m, c))
      <4>1. n \in 0 .. MaxCases BY <2>4
      <4> QED BY <2>4, <3>3, <4>1 DEF CliPreflight
    <3> QED BY <1>9, <3>1, <3>2, <3>3
  <2>6. Line(s, n, c) \in OwnLines /\ Line(s, n, c).stage \notin {"musig2-start", "musig2-done"}
    BY DEF Line, OwnLines
  <2> QED BY <2>1, <2>2, <2>3, <2>5, <2>6, OtherLine DEF Writes
<1> QED
  BY <1>1, <1>2, <1>3, <1>4, <1>5, <1>6, <1>7, <1>8, <1>9, LegLine, ForwardBar, SendBar, ReceiveBar,
     FinishBar
  DEF Next, CliStep, ThreadStep, Receive

(* The bar is bounded as long as no reader was left behind, and one that was *)
(* is never forgotten.                                                       *)
BarInv == stray = {} => BarOwn

LEMMA StrayStays ==
  ASSUME [Next]_vars, stray' = {}
  PROVE  stray = {} /\ ~ SendFinishedUnread /\ ~ ReceiveStray
<1>1. ~ SendFinishedUnread /\ ~ ReceiveStray BY DEF SendFinishedUnread, ReceiveStray
<1>2. CASE UNCHANGED vars BY <1>1, <1>2 DEF vars, back, aside
<1>3. CASE \/ \E p \in Profile : ChooseProfile(p)
           \/ \E q \in Project : ChooseProject(q) \/ PreviewAffected(q)
           \/ \E b \in Baseline : ChooseBaseline(b)
           \/ CreateLiveProfile \/ Commit
           \/ \E a \in Action : Click(a)
  BY <1>1, <1>3
  DEF ChooseProfile, ChooseProject, PreviewAffected, ChooseBaseline, CreateLiveProfile, Commit, Click,
      Start, back, aside
<1>4. CASE CliStep \/ Forward
  BY <1>1, <1>4
  DEF CliStep, CliCompares, CliCase, CliLeg, CliSucceeds, CliFails, CliPreflight, Forward, front, aside
<1>5. CASE ThreadStep
  BY <1>1, <1>5 DEF ThreadStep, Spawn, CannotStart, SendComparison, SendFinished, front, aside
<1>6. CASE Receive
  BY <1>1, <1>6
  DEF Receive, ReceiveComparison, ReceiveProgress, FinishFailed, Finish, back, aside
<1> QED BY <1>1, <1>2, <1>3, <1>4, <1>5, <1>6 DEF Next

LEMMA BarStep == GuiInv /\ BarInv /\ [Next]_vars => BarInv'
<1> SUFFICES ASSUME GuiInv, BarInv, [Next]_vars, stray' = {} PROVE BarOwn'
  BY DEF BarInv
<1>1. BarOwn BY StrayStays DEF BarInv
<1> QED BY <1>1, StrayStays, OwnBarStep

(* The types, with what the progress bar can show.                           *)
THEOREM GuiTypeCorrect == Spec => []TypeOK
<1>1. GuiInv /\ BarInv => TypeOK
  <2> SUFFICES ASSUME GuiInv, BarInv PROVE TypeOK OBVIOUS
  <2>1. ASSUME stray = {}
        PROVE  total \in 0 .. MaxCases + Legs /\ completed \in 0 .. MaxCases + Legs
    <3>1. PICK o \in Int : BarAt(o) BY <2>1 DEF BarInv, BarOwn
    <3>2. Starts(o) \in 0 .. 2 /\ Dones(o) \in 0 .. 2 BY StartsBound
    <3> QED BY <3>1, <3>2, GuiAssumption DEF BarAt, Legs
  <2>2. thread.lock \subseteq Baseline /\ Len(thread.todo) <= 2
    <3>1. CASE thread = NoThread
      BY <3>1 DEF NoThread
    <3>2. CASE thread # NoThread
      <4> DEFINE t == [todo |-> thread.todo, profile |-> profile, project |-> project,
                       lock |-> IF profile = Live THEN {baseline} ELSE {}]
      <4>1. thread = t BY <3>2 DEF GuiInv, ThreadInv
      <4>2. t.lock \subseteq Baseline BY DEF GuiInv, ShownInv
      <4>3. Len(thread.todo) <= 2
        <5>1. thread.todo = <<running>> \/ thread.todo = <<"compare", "doctor">>
          BY <3>2 DEF GuiInv, ThreadInv
        <5>2. Len(<<running>>) = 1 /\ Len(<<"compare", "doctor">>) = 2 OBVIOUS
        <5>3. 1 <= 2 /\ 2 <= 2 OBVIOUS
        <5> QED BY <5>1, <5>2, <5>3, Zenon
      <4> HIDE DEF t
      <4> QED BY <4>1, <4>2, <4>3
    <3> QED BY <3>1, <3>2
  <2>3. comparison \subseteq [lock : Baseline, affected : SUBSET Project]
        /\ (stray = {} /\ profile # Live => comparison = {})
    BY DEF GuiInv, AsideInv, OwnComparisons
  <2>4. selection \cup summary \subseteq Profile \X Project /\ doctor \subseteq Profile
        /\ changes \subseteq [profile : Pinnable, changed : BOOLEAN, tip : 0 .. MaxCommits]
        /\ tip \in 0 .. MaxCommits
    BY DEF GuiInv, ShownInv, AsideInv
  <2>5. cli.state \in {"none", "running", "exited"} /\ cli.code \in 0 .. 2 BY DEF GuiInv, CliInv
  <2>6. /\ profile \in Profile /\ project \in Project /\ baseline \in Baseline
        /\ liveProfile \in BOOLEAN /\ running \in Action \cup {Idle} /\ reviewed \in BOOLEAN
    BY DEF GuiInv, ShownInv
  <2> QED BY <2>1, <2>2, <2>3, <2>4, <2>5, <2>6 DEF TypeOK
<1>2. Init => BarInv BY BarStart DEF BarInv
<1> QED BY <1>1, <1>2, GuiStart, GuiStep, BarStep, PTL DEF Spec
=============================================================================
