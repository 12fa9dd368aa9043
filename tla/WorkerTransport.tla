-------------------------- MODULE WorkerTransport --------------------------
(***************************************************************************)
(* WorkerClient (worker.py) and the signer process at the other end of its *)
(* pipes: one JSON line per request, one per response.  A process that     *)
(* drives a device also has a child, the emulator, in its process group.   *)
(*                                                                         *)
(* The processes run beside the client: they may answer late or never,     *)
(* print lines nobody asked for, crash, or lose their emulator.  The       *)
(* client is driven as the harness drives it: start, then one call after   *)
(* another, and after an error nothing but stop.                           *)
(***************************************************************************)
EXTENDS Naturals, Sequences

CONSTANTS
  MaxStarts,    \* bound: the times the client is started
  MaxRequests,  \* bound: the requests it sends
  MaxNoise      \* bound: the lines processes print on their own account

ASSUME TransportAssumption == {MaxStarts, MaxRequests, MaxNoise} \subseteq Nat

Process == 1 .. MaxStarts
Member  == {"worker", "child"}

(* A line of output: an answer to a request, usable (a result the client     *)
(* accepts) or not, or noise.                                               *)
Noise == [to |-> 0, usable |-> FALSE]
Line  == [to : 1 .. MaxRequests, usable : BOOLEAN] \cup {Noise}

VARIABLES
  call,       \* what the client is doing
  process,    \* _process: the running process, 0 for none
  stopping,   \* the process stop() is taking down, 0 for none
  started,    \* the number of processes started
  failed,     \* the caller saw an error and may only stop the client
  buffer,     \* _stdout_buffer, as the whole lines in it
  asked,      \* the number of requests sent
  reply,      \* history: the last request answered to the caller, and with which line
  worker,     \* each process: "none", "idle", "busy", "dead"
  job,        \* the request a busy worker is serving
  child,      \* its emulator: "none", "up", "dead"
  stdin,      \* the requests written to it
  stdout,     \* the lines it has written
  termed,     \* history: the members of its group that got SIGTERM
  noise       \* the lines of noise so far

clientVars  == <<call, process, stopping, started, failed, buffer, asked, reply>>
processVars == <<worker, job, child, stdin, stdout, termed, noise>>
vars == <<clientVars, processVars>>

Init ==
  /\ call = "none" /\ process = 0 /\ stopping = 0 /\ started = 0
  /\ failed = FALSE /\ buffer = <<>> /\ asked = 0
  /\ reply = [request |-> 0, line |-> 0]
  /\ worker = [p \in Process |-> "none"]
  /\ child  = [p \in Process |-> "none"]
  /\ job    = [p \in Process |-> 0]
  /\ stdin  = [p \in Process |-> <<>>]
  /\ stdout = [p \in Process |-> <<>>]
  /\ termed = [p \in Process |-> {}]
  /\ noise = 0

-----------------------------------------------------------------------------
(* The client                                                              *)

Alive(p) == {m \in Member : IF m = "worker" THEN worker[p] \in {"idle", "busy"}
                                            ELSE child[p] = "up"}

(* Mutant: stop() leaves the process it takes down in _process.              *)
BeginStopKept ==
  /\ call' = "stop-term" /\ stopping' = process /\ UNCHANGED process

(* stop() takes the process over and begins with its group.                  *)
BeginStop ==
  /\ call' = "stop-term" /\ stopping' = process /\ process' = 0

(* Mutant: the first error of a call is forgotten by the caller.             *)
FailForgotten ==
  /\ IF call \in {"start-write", "start-read"}
       THEN BeginStop /\ UNCHANGED failed
       ELSE call' = "none" /\ failed' = FALSE /\ UNCHANGED <<process, stopping>>
  /\ UNCHANGED <<started, asked, reply>>

(* A call raises.  start() stops the process it began; the error of any      *)
(* other call reaches the caller, which gives the client up.                 *)
Fail ==
  /\ IF call \in {"start-write", "start-read"}
       THEN BeginStop /\ UNCHANGED failed
       ELSE call' = "none" /\ failed' = TRUE /\ UNCHANGED <<process, stopping>>
  /\ UNCHANGED <<started, asked, reply>>

(* start(): a new process in a session of its own, an empty buffer.          *)
Start ==
  /\ call = "none" /\ process = 0 /\ started < MaxStarts /\ asked < MaxRequests
  /\ started' = started + 1 /\ process' = started + 1
  /\ worker' = [worker EXCEPT ![started + 1] = "idle"]
  /\ buffer' = <<>>
  /\ call' = "start-write"
  /\ UNCHANGED <<stopping, failed, asked, reply, job, child, stdin, stdout, termed, noise>>

(* process_psbt()                                                           *)
Process_psbt ==
  /\ call = "none" /\ process # 0 /\ ~ failed /\ asked < MaxRequests
  /\ call' = "process-write"
  /\ UNCHANGED <<process, stopping, started, failed, buffer, asked, reply, processVars>>

(* The caller, done or in its finally block, stops the client.               *)
Stop ==
  /\ call = "none" /\ process # 0
  /\ BeginStop
  /\ UNCHANGED <<started, failed, buffer, asked, reply, processVars>>

(* The request is written, or the pipe is broken because the process died.   *)
Write ==
  /\ call \in {"start-write", "process-write"}
  /\ worker[process] # "dead"
  /\ asked' = asked + 1
  /\ stdin' = [stdin EXCEPT ![process] = Append(@, asked + 1)]
  /\ call' = IF call = "start-write" THEN "start-read" ELSE "process-read"
  /\ UNCHANGED <<process, stopping, started, failed, buffer, reply,
                 worker, job, child, stdout, termed, noise>>

WriteBroken ==
  /\ call \in {"start-write", "process-write"}
  /\ worker[process] = "dead"
  /\ Fail /\ UNCHANGED <<buffer, processVars>>

Reading == call \in {"start-read", "process-read"}

(* os.read: whatever whole lines have arrived by then.                       *)
ReadChunk ==
  /\ Reading /\ buffer = <<>> /\ stdout[process] # <<>>
  /\ \E k \in 1 .. Len(stdout[process]) :
       /\ buffer' = SubSeq(stdout[process], 1, k)
       /\ stdout' = [stdout EXCEPT ![process] = SubSeq(@, k + 1, Len(@))]
  /\ UNCHANGED <<call, process, stopping, started, failed, asked, reply,
                 worker, job, child, stdin, termed, noise>>

(* The first line is a usable answer: the call returns it.  The answer is    *)
(* never compared with the request's id.                                     *)
TakeReply ==
  /\ Reading /\ buffer # <<>> /\ Head(buffer).usable
  /\ buffer' = Tail(buffer)
  /\ reply' = [request |-> asked, line |-> Head(buffer).to]
  /\ call' = "none"
  /\ UNCHANGED <<process, stopping, started, failed, asked, processVars>>

(* It is not: non-JSON output, an error response, a result start() refuses.  *)
TakeError ==
  /\ Reading /\ buffer # <<>> /\ ~ Head(buffer).usable
  /\ buffer' = Tail(buffer)
  /\ Fail /\ UNCHANGED processVars

ReadEof ==
  /\ Reading /\ buffer = <<>> /\ stdout[process] = <<>> /\ worker[process] = "dead"
  /\ Fail /\ UNCHANGED <<buffer, processVars>>

(* Mutant: the read only ends when the process does.                         *)
ReadTimeoutOnExit ==
  /\ Reading /\ buffer = <<>> /\ worker[process] = "dead"
  /\ Fail /\ UNCHANGED <<buffer, processVars>>

(* RESPONSE_TIMEOUT passes before a whole line is in the buffer.             *)
ReadTimeout ==
  /\ Reading /\ buffer = <<>>
  /\ Fail /\ UNCHANGED <<buffer, processVars>>

(* Mutants: SIGTERM to the worker alone; nothing when the worker has exited. *)
SignalledWorkerOnly(p) == Alive(p) \cap {"worker"}
SignalledUnlessExited(p) == IF "worker" \in Alive(p) THEN Alive(p) ELSE {}

(* _signal_group(SIGTERM): everything alive in the group.                    *)
Signalled(p) == Alive(p)

StopTerm ==
  /\ call = "stop-term"
  /\ termed' = [termed EXCEPT ![stopping] = @ \cup Signalled(stopping)]
  /\ call' = "stop-wait"
  /\ UNCHANGED <<process, stopping, started, failed, buffer, asked, reply,
                 worker, job, child, stdin, stdout, noise>>

(* The worker does not exit within five seconds: SIGKILL to its group.       *)
StopKill ==
  /\ call = "stop-wait" /\ worker[stopping] # "dead"
  /\ worker' = [worker EXCEPT ![stopping] = "dead"]
  /\ child' = [child EXCEPT ![stopping] = IF @ = "up" THEN "dead" ELSE @]
  /\ UNCHANGED <<clientVars, job, stdin, stdout, termed, noise>>

StopReturns ==
  /\ call = "stop-wait" /\ worker[stopping] = "dead"
  /\ call' = "none" /\ stopping' = 0 /\ failed' = FALSE
  /\ UNCHANGED <<process, started, buffer, asked, reply, processVars>>

-----------------------------------------------------------------------------
(* The processes                                                           *)

Runs(p) == "worker" \in Alive(p) /\ "worker" \notin termed[p]

(* serve: the next line of stdin.                                           *)
Take(p) ==
  /\ Runs(p) /\ worker[p] = "idle" /\ stdin[p] # <<>>
  /\ worker' = [worker EXCEPT ![p] = "busy"]
  /\ job' = [job EXCEPT ![p] = Head(stdin[p])]
  /\ stdin' = [stdin EXCEPT ![p] = Tail(@)]
  /\ UNCHANGED <<clientVars, child, stdout, termed, noise>>

(* _open starts the emulator on the first request that needs it.             *)
Spawn(p) ==
  /\ Runs(p) /\ worker[p] = "busy" /\ child[p] = "none"
  /\ child' = [child EXCEPT ![p] = "up"]
  /\ UNCHANGED <<clientVars, worker, job, stdin, stdout, termed, noise>>

(* handle_request answers every request, with a result or an error.          *)
Respond(p) ==
  /\ Runs(p) /\ worker[p] = "busy"
  /\ \E usable \in BOOLEAN :
       stdout' = [stdout EXCEPT ![p] = Append(@, [to |-> job[p], usable |-> usable])]
  /\ worker' = [worker EXCEPT ![p] = "idle"]
  /\ UNCHANGED <<clientVars, job, child, stdin, termed, noise>>

(* The emulator did not become ready: _open closes it and the request fails. *)
GiveUpChild(p) ==
  /\ Runs(p) /\ worker[p] = "busy" /\ child[p] # "none"
  /\ child' = [child EXCEPT ![p] = "none"]
  /\ stdout' = [stdout EXCEPT ![p] = Append(@, [to |-> job[p], usable |-> FALSE])]
  /\ worker' = [worker EXCEPT ![p] = "idle"]
  /\ UNCHANGED <<clientVars, job, stdin, termed, noise>>

(* A library under the worker prints a line.                                *)
PrintNoise(p) ==
  /\ Runs(p) /\ noise < MaxNoise
  /\ noise' = noise + 1
  /\ stdout' = [stdout EXCEPT ![p] = Append(@, Noise)]
  /\ UNCHANGED <<clientVars, worker, job, child, stdin, termed>>

(* The worker dies, of a crash or of SIGTERM, which skips its finally block: *)
(* the emulator stays.                                                      *)
WorkerDies(p) ==
  /\ "worker" \in Alive(p)
  /\ worker' = [worker EXCEPT ![p] = "dead"]
  /\ UNCHANGED <<clientVars, job, child, stdin, stdout, termed, noise>>

ChildDies(p) ==
  /\ "child" \in Alive(p)
  /\ child' = [child EXCEPT ![p] = "dead"]
  /\ UNCHANGED <<clientVars, worker, job, stdin, stdout, termed, noise>>

-----------------------------------------------------------------------------
Choice == Start \/ Process_psbt \/ Stop

Proceed ==
  \/ Write \/ WriteBroken
  \/ ReadChunk \/ TakeReply \/ TakeError \/ ReadEof \/ ReadTimeout
  \/ StopTerm \/ StopKill \/ StopReturns

ProcessStep(p) ==
  \/ Take(p) \/ Spawn(p) \/ Respond(p) \/ GiveUpChild(p) \/ PrintNoise(p)
  \/ WorkerDies(p) \/ ChildDies(p)

Next == Choice \/ Proceed \/ \E p \in Process : ProcessStep(p)

Spec == Init /\ [][Next]_vars

(* A call that is under way proceeds: a read is bounded by its timeout, the  *)
(* wait of stop() by the SIGKILL after it.  An emulator that got SIGTERM     *)
(* exits, as the two the harness starts do; a worker need not answer, nor a  *)
(* caller call.                                                             *)
FairSpec ==
  /\ Spec
  /\ WF_vars(Proceed)
  /\ \A p \in Process : WF_vars("child" \in termed[p] /\ ChildDies(p))

-----------------------------------------------------------------------------
(* Properties                                                              *)

(* Types, and which process a call is about: a call under way has one, stop()*)
(* has taken it out of _process, and only processes started exist.           *)
TypeOK ==
  /\ call \in {"none", "start-write", "start-read", "process-write", "process-read",
               "stop-term", "stop-wait"}
  /\ {process, stopping} \subseteq Process \cup {0} /\ started \in 0 .. MaxStarts
  /\ (stopping # 0) <=> call \in {"stop-term", "stop-wait"}
  /\ stopping # 0 => process = 0
  /\ call \notin {"none", "stop-term", "stop-wait"} => process # 0
  /\ \A p \in Process : worker[p] = "none" <=> p > started
  /\ failed \in BOOLEAN /\ asked \in 0 .. MaxRequests /\ noise \in 0 .. MaxNoise
  /\ buffer \in Seq(Line)
  /\ reply \in [request : 0 .. MaxRequests, line : 0 .. MaxRequests]
  /\ worker \in [Process -> {"none", "idle", "busy", "dead"}]
  /\ child \in [Process -> {"none", "up", "dead"}]
  /\ job \in [Process -> 0 .. MaxRequests]
  /\ stdin \in [Process -> Seq(1 .. MaxRequests)]
  /\ stdout \in [Process -> Seq(Line)]
  /\ termed \in [Process -> SUBSET Member]

(* "one long-lived signer process": what a call returns is the answer to the *)
(* request it sent.  Ids are not compared, so this rests on lockstep, on the *)
(* buffer emptied at start, and on a caller that gives up after an error     *)
(* instead of reading the late answer as the next one.                       *)
ReplyAnswersRequest == reply.line = reply.request

(* stop() and a start() that fails leave no process behind: whatever is      *)
(* alive and is neither the client's process nor being stopped got SIGTERM,  *)
(* the emulator of a worker that had already exited included.                *)
NothingLeftUnsignalled ==
  \A p \in Process \ {process, stopping} : Alive(p) \subseteq termed[p]

(* Every call of the client returns, whatever the process does.              *)
CallsReturn == (call # "none") ~> (call = "none")

(* What the harness stopped is gone in the end, emulators included.          *)
StoppedGroupDies ==
  \A p \in Process : (started >= p /\ process # p) ~> (Alive(p) = {})

=============================================================================
