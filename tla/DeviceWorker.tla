---------------------------- MODULE DeviceWorker ----------------------------
(***************************************************************************)
(* The workers that sign with an emulated device: JadeWorker               *)
(* (jade_worker.py) starts a QEMU and talks to it over a TCP port,         *)
(* ColdcardPsbtWorker (coldcard_psbt_worker.py) starts a simulator and     *)
(* talks to it over a socket named after its pid.  Both serve one request  *)
(* at a time, open the device at the first one, and keep what they told it *)
(* (the mnemonic, the descriptor) for the requests that follow.            *)
(*                                                                         *)
(* The workers here belong to different runs on one host, so that two may  *)
(* start at once and be handed one port.  Emulators die, device calls fail *)
(* before or after they took effect, the process that asks goes away, and  *)
(* a client goes on asking after an error, as the protocol lets it.        *)
(*                                                                         *)
(* Assumed of an emulator, which is not in this repository: it serves one  *)
(* connection at a time; one that cannot bind its port exits; it dies when *)
(* it is terminated.  Every descriptor is registered under one name, so a  *)
(* device that takes a second one replaces the first, or refuses it; one   *)
(* whose registration returned is the one it holds.                        *)
(***************************************************************************)
EXTENDS Naturals

CONSTANTS
  Worker,        \* the worker processes
  Pairings,      \* the kinds of workers that run side by side
  Port,          \* the ports _unused_port may hand out
  Mnemonic, Descriptor,
  Requests,      \* the requests that may be sent
  NoValue,       \* Python's None
  MaxEmulators,  \* bound: the emulators started
  MaxRequests,   \* bound: the requests sent
  MaxFaults      \* bound: the faults that happen

Backends == {"jade", "coldcard"}

Request  == {r \in [suite : {"bip375", "musig2-sp"}, mnemonic : Mnemonic,
                     descriptor : Descriptor \cup {NoValue}] :
               r.suite = "bip375" => r.descriptor = NoValue}

ASSUME DeviceAssumption ==
  /\ Pairings \subseteq [Worker -> Backends] /\ Requests \subseteq Request
  /\ {MaxEmulators, MaxRequests, MaxFaults} \subseteq Nat
  /\ NoValue \notin Worker \cup Port \cup Mnemonic \cup Descriptor
  /\ 0 \notin Port

Emulator == 1 .. MaxEmulators

VARIABLES
  backend,    \* each worker's kind
  caller,     \* whether the process that writes its stdin lives
  at,         \* where a worker is: between requests, in a step of one, or gone
  request,    \* the request it serves
  own,        \* _qemu, _simulator: the emulator it started, 0 for none
  device,     \* _jade, _device: the emulator it talks to, 0 for none
  mnemonic,   \* _mnemonic
  descriptor, \* _registered_descriptor, _enrolled_descriptor
  runtime,    \* whether its temporary directory exists (Jade)
  emulator,   \* the emulator processes
  started, asked, faults,
  dropped     \* history: the emulators whose start a raise left unattended

workerVars == <<backend, caller, at, request, own, device, mnemonic, descriptor, runtime>>
vars == <<workerVars, emulator, started, asked, faults, dropped>>

Unborn == [state |-> "none", starter |-> NoValue, port |-> NoValue, client |-> NoValue,
           seed |-> NoValue, wallet |-> NoValue, lost |-> NoValue]

TypeOK ==
  /\ backend \in [Worker -> Backends]
  /\ caller \in [Worker -> BOOLEAN]
  /\ at \in [Worker -> {"idle", "open", "connect", "seed", "enroll", "sign", "gone"}]
  /\ request \in [Worker -> Request \cup {NoValue}]
  /\ own \in [Worker -> Emulator \cup {0}]
  /\ device \in [Worker -> Emulator \cup {0}]
  /\ mnemonic \in [Worker -> Mnemonic \cup {NoValue}]
  /\ descriptor \in [Worker -> Descriptor \cup {NoValue}]
  /\ runtime \in [Worker -> BOOLEAN]
  /\ emulator \in [Emulator -> [state : {"none", "starting", "up", "dead"},
                                starter : Worker \cup {NoValue},
                                port : Port \cup {NoValue}, client : Worker \cup {NoValue},
                                seed : Mnemonic \cup {NoValue},
                                wallet : Descriptor \cup {NoValue},
                                lost : Descriptor \cup {NoValue}]]
  /\ started \in 0 .. MaxEmulators /\ asked \in 0 .. MaxRequests /\ faults \in 0 .. MaxFaults
  /\ dropped \subseteq Emulator

Init ==
  /\ backend \in Pairings
  /\ caller = [w \in Worker |-> TRUE]
  /\ at = [w \in Worker |-> "idle"]
  /\ request = [w \in Worker |-> NoValue]
  /\ own = [w \in Worker |-> 0]
  /\ device = [w \in Worker |-> 0]
  /\ mnemonic = [w \in Worker |-> NoValue]
  /\ descriptor = [w \in Worker |-> NoValue]
  /\ runtime = [w \in Worker |-> FALSE]
  /\ emulator = [e \in Emulator |-> Unborn]
  /\ started = 0 /\ asked = 0 /\ faults = 0 /\ dropped = {}

Move(w, place) == at' = [at EXCEPT ![w] = place]

(* A reply, a result or an error, is written and the next line awaited.      *)
Answer(w) == Move(w, "idle") /\ request' = [request EXCEPT ![w] = NoValue]

Fault == faults < MaxFaults /\ faults' = faults + 1

-----------------------------------------------------------------------------
(* A request                                                               *)

(* process(): the request is well formed; the device is opened if need be.   *)
Ask(w) ==
  /\ at[w] = "idle" /\ caller[w] /\ asked < MaxRequests
  /\ asked' = asked + 1
  /\ \E r \in Requests : request' = [request EXCEPT ![w] = r]
  /\ Move(w, IF device[w] = 0 THEN "open" ELSE "seed")
  /\ UNCHANGED <<backend, caller, own, device, mnemonic, descriptor, runtime,
                 emulator, started, faults, dropped>>

Bound(p) == \E e \in Emulator : emulator[e].state = "up" /\ emulator[e].port = p

(* Mutant: the port that was asked for, 0, and not the one that was bound.   *)
EndpointAsked(w) == IF backend[w] = "jade" THEN {0} ELSE {NoValue}

(* _unused_port: a port no process listens on now.  ColdCard's socket is     *)
(* named after the simulator's pid, and is nobody else's.                    *)
Endpoint(w) == IF backend[w] = "jade" THEN {p \in Port : ~ Bound(p)} ELSE {NoValue}

(* _start_qemu, _start_simulator: the emulator process is started.           *)
StartEmulator(w) ==
  /\ at[w] = "open" /\ started < MaxEmulators
  /\ started' = started + 1
  /\ \E p \in Endpoint(w) :
       emulator' = [emulator EXCEPT ![started + 1].state = "starting",
                                    ![started + 1].starter = w, ![started + 1].port = p]
  /\ own' = [own EXCEPT ![w] = started + 1]
  /\ runtime' = [runtime EXCEPT ![w] = backend[w] = "jade"]
  /\ Move(w, "connect")
  /\ UNCHANGED <<backend, caller, request, device, mnemonic, descriptor,
                 asked, faults, dropped>>

(* What the worker can connect to: Jade, whoever listens on the port;        *)
(* ColdCard, the simulator it started.                                       *)
Reachable(w) ==
  {e \in Emulator :
     /\ emulator[e].state = "up" /\ emulator[e].client = NoValue
     /\ IF backend[w] = "jade" THEN emulator[e].port = emulator[own[w]].port
                               ELSE e = own[w]}

(* The connection stands and the device has answered.                        *)
Connect(w) ==
  /\ at[w] = "connect"
  /\ \E e \in Reachable(w) :
       /\ device' = [device EXCEPT ![w] = e]
       /\ emulator' = [emulator EXCEPT ![e].client = w]
  /\ Move(w, "seed")
  /\ UNCHANGED <<backend, caller, request, own, mnemonic, descriptor, runtime,
                 started, asked, faults, dropped>>

(* The worker's connection is over, and the emulators of a set with it: of   *)
(* a process that ended only its port is still spoken of, by its worker.     *)
Ended(w, dying) ==
  [e \in Emulator |->
     IF e \in dying /\ emulator[e].state # "none"
       THEN [Unborn EXCEPT !.state = "dead", !.port = emulator[e].port]
       ELSE [emulator[e] EXCEPT !.client = IF @ = w THEN NoValue ELSE @]]

(* close(): disconnect, terminate the emulator and wait for it, remove the   *)
(* temporary directory.  ColdCard also forgets what it told the simulator.   *)
CloseDevice(w) ==
  /\ emulator' = Ended(w, {own[w]})
  /\ own' = [own EXCEPT ![w] = 0]
  /\ device' = [device EXCEPT ![w] = 0]
  /\ runtime' = [runtime EXCEPT ![w] = FALSE]
  /\ IF backend[w] = "coldcard"
       THEN /\ mnemonic' = [mnemonic EXCEPT ![w] = NoValue]
            /\ descriptor' = [descriptor EXCEPT ![w] = NoValue]
       ELSE UNCHANGED <<mnemonic, descriptor>>

(* The emulator cannot be started: something is missing, or Popen fails.     *)
(* Jade closes after the second, not after a missing QEMU, which it looks    *)
(* for when the temporary directory is there already.                        *)
StartFails(w) ==
  /\ at[w] = "open"
  /\ \/ backend[w] = "jade" /\ CloseDevice(w)
     \/ /\ \E left \in {runtime[w], backend[w] = "jade"} :
             runtime' = [runtime EXCEPT ![w] = left]
        /\ UNCHANGED <<own, device, mnemonic, descriptor, emulator>>
  /\ Answer(w)
  /\ UNCHANGED <<backend, caller, started, asked, faults, dropped>>

(* Mutant: the error is reported and the emulator left for the next attempt. *)
ConnectFailsUnclosed(w) ==
  /\ at[w] = "connect"
  /\ Answer(w)
  /\ UNCHANGED <<backend, caller, own, device, mnemonic, descriptor, runtime,
                 emulator, started, asked, faults, dropped>>

(* Mutant: the wait for the emulator has no deadline.                        *)
ConnectFailsWhenDead(w) ==
  /\ at[w] = "connect" /\ emulator[own[w]].state = "dead"
  /\ CloseDevice(w) /\ Answer(w)
  /\ UNCHANGED <<backend, caller, started, asked, faults, dropped>>

(* The emulator exited, or was not ready by the deadline: close, report it.  *)
ConnectFails(w) ==
  /\ at[w] = "connect"
  /\ CloseDevice(w) /\ Answer(w)
  /\ UNCHANGED <<backend, caller, started, asked, faults, dropped>>

(* What no handler of the opening catches: the limit in the environment is   *)
(* not a number, or the device's library cannot be set up.  The error is     *)
(* reported, nothing is closed, and the next request starts an emulator anew.*)
ConnectRaises(w) ==
  /\ at[w] = "connect" /\ Fault
  /\ dropped' = dropped \cup {own[w]}
  /\ Answer(w)
  /\ UNCHANGED <<backend, caller, own, device, mnemonic, descriptor, runtime,
                 emulator, started, asked>>

-----------------------------------------------------------------------------
(* The device is open                                                      *)

Answers(w) == emulator[device[w]].state = "up"

AfterSeed(w) == IF request[w].suite = "musig2-sp" THEN "enroll" ELSE "sign"

(* Mutant: the mnemonic is remembered before the device has taken it.        *)
RememberMnemonicFirst(w, taken) == mnemonic' = [mnemonic EXCEPT ![w] = request[w].mnemonic]

(* _mnemonic is set only after the call returned.                            *)
RememberMnemonic(w, returned) ==
  mnemonic' = [mnemonic EXCEPT ![w] = IF returned THEN request[w].mnemonic ELSE @]

(* _open, first request: set_mnemonic returns, or raises without or with the *)
(* device having taken the seed.                                             *)
SetMnemonic(w) ==
  /\ at[w] = "seed" /\ mnemonic[w] = NoValue /\ Answers(w)
  /\ \E returned, taken \in BOOLEAN :
       /\ returned => taken
       /\ IF returned THEN UNCHANGED faults ELSE Fault
       /\ emulator' = [emulator EXCEPT ![device[w]].seed =
                         IF taken THEN request[w].mnemonic ELSE @]
       /\ RememberMnemonic(w, returned)
       /\ IF returned THEN Move(w, AfterSeed(w)) /\ UNCHANGED request ELSE Answer(w)
  /\ UNCHANGED <<backend, caller, own, device, descriptor, runtime,
                 started, asked, dropped>>

(* _open, later requests: the mnemonic must be the one the device has.       *)
SameMnemonic(w) ==
  /\ at[w] = "seed" /\ mnemonic[w] # NoValue
  /\ IF mnemonic[w] = request[w].mnemonic
       THEN Move(w, AfterSeed(w)) /\ UNCHANGED request
       ELSE Answer(w)
  /\ UNCHANGED <<backend, caller, own, device, mnemonic, descriptor, runtime,
                 emulator, started, asked, faults, dropped>>

(* A MuSig2 request without a descriptor fails here, the device being seeded *)
(* already; one with the descriptor of the last enrolment needs no other.    *)
NothingToEnroll(w) ==
  /\ at[w] = "enroll" /\ request[w].descriptor \in {NoValue, descriptor[w]}
  /\ IF request[w].descriptor = NoValue THEN Answer(w)
                                        ELSE Move(w, "sign") /\ UNCHANGED request
  /\ UNCHANGED <<backend, caller, own, device, mnemonic, descriptor, runtime,
                 emulator, started, asked, faults, dropped>>

(* Mutant: the descriptor is remembered before the device has taken it.      *)
RememberDescriptorFirst(w, returned) ==
  descriptor' = [descriptor EXCEPT ![w] = request[w].descriptor]

(* _registered_descriptor is set only after the call returned.               *)
RememberDescriptor(w, returned) ==
  descriptor' = [descriptor EXCEPT ![w] = IF returned THEN request[w].descriptor ELSE @]

(* What the device holds after the call.  The field lost is history: a call  *)
(* that raised when the device had taken the descriptor replaced the one the *)
(* worker still remembers.                                                   *)
Registered(held, w, returned, taken) ==
  [held EXCEPT !.wallet = IF taken THEN request[w].descriptor ELSE @,
               !.lost = IF returned THEN NoValue ELSE IF taken THEN descriptor[w] ELSE @]

(* _register_descriptor, _enroll_descriptor: the call returns, or raises     *)
(* without or with the device having taken the descriptor.  A device that    *)
(* holds one may refuse another of the same name.                            *)
Enroll(w) ==
  /\ at[w] = "enroll" /\ request[w].descriptor \notin {NoValue, descriptor[w]} /\ Answers(w)
  /\ \E returned, taken \in BOOLEAN :
       /\ returned => taken
       /\ IF returned \/ (~ taken /\ emulator[device[w]].wallet # NoValue)
            THEN UNCHANGED faults ELSE Fault
       /\ emulator' = [emulator EXCEPT ![device[w]] = Registered(@, w, returned, taken)]
       /\ RememberDescriptor(w, returned)
       /\ IF returned THEN Move(w, "sign") /\ UNCHANGED request ELSE Answer(w)
  /\ UNCHANGED <<backend, caller, own, device, mnemonic, runtime,
                 started, asked, dropped>>

(* sign_psbt, or the upload, approval and download of the simulator: the     *)
(* device signs with what it holds, or refuses.                              *)
Sign(w) ==
  /\ at[w] = "sign" /\ Answers(w)
  /\ Answer(w)
  /\ UNCHANGED <<backend, caller, own, device, mnemonic, descriptor, runtime,
                 emulator, started, asked, faults, dropped>>

(* The device is gone: whatever the worker asks of it raises.  The handle is *)
(* kept, so every later request fails as well.                               *)
DeviceGone(w) ==
  /\ \/ at[w] = "seed" /\ mnemonic[w] = NoValue
     \/ at[w] = "enroll" /\ request[w].descriptor \notin {NoValue, descriptor[w]}
     \/ at[w] = "sign"
  /\ ~ Answers(w)
  /\ Answer(w)
  /\ UNCHANGED <<backend, caller, own, device, mnemonic, descriptor, runtime,
                 emulator, started, asked, faults, dropped>>

-----------------------------------------------------------------------------
(* The end of a worker, and the emulators                                  *)

(* The memory of a process that ended.                                       *)
Forget(w) ==
  /\ own' = [own EXCEPT ![w] = 0]
  /\ device' = [device EXCEPT ![w] = 0]
  /\ mnemonic' = [mnemonic EXCEPT ![w] = NoValue]
  /\ descriptor' = [descriptor EXCEPT ![w] = NoValue]

(* serve()'s finally: the stdin has ended, or the reply met a broken pipe.   *)
Serve_ends(w) ==
  /\ at[w] = "idle" /\ ~ caller[w]
  /\ emulator' = Ended(w, {own[w]})
  /\ runtime' = [runtime EXCEPT ![w] = FALSE]
  /\ Forget(w) /\ Move(w, "gone")
  /\ UNCHANGED <<backend, caller, request, started, asked, faults, dropped>>

(* stop() signals the group: worker and emulator end, and no finally runs.   *)
Stopped(w) ==
  /\ at[w] # "gone" /\ caller[w]
  /\ Move(w, "gone")
  /\ request' = [request EXCEPT ![w] = NoValue]
  /\ emulator' = Ended(w, {e \in Emulator : emulator[e].starter = w})
  /\ Forget(w)
  /\ UNCHANGED <<backend, caller, runtime, started, asked, faults, dropped>>

(* The harness is killed and stops nothing: all its workers see is the end   *)
(* of their stdin.                                                           *)
CallerDies(w) ==
  /\ caller[w] /\ at[w] # "gone" /\ Fault
  /\ caller' = [caller EXCEPT ![w] = FALSE]
  /\ UNCHANGED <<backend, at, request, own, device, mnemonic, descriptor, runtime,
                 emulator, started, asked, dropped>>

(* The emulator listens, or finds its port taken and exits.                  *)
Listen(e) ==
  /\ emulator[e].state = "starting"
  /\ IF emulator[e].port # NoValue /\ Bound(emulator[e].port)
       THEN emulator' = Ended(NoValue, {e})
       ELSE emulator' = [emulator EXCEPT ![e].state = "up"]
  /\ UNCHANGED <<workerVars, started, asked, faults, dropped>>

EmulatorDies(e) ==
  /\ emulator[e].state \in {"starting", "up"} /\ Fault
  /\ emulator' = Ended(NoValue, {e})
  /\ UNCHANGED <<workerVars, started, asked, dropped>>

(* What a worker does without waiting for an answer that may never come.     *)
Proceed(w) ==
  \/ StartEmulator(w) \/ StartFails(w) \/ Connect(w) \/ ConnectFails(w) \/ ConnectRaises(w)
  \/ SameMnemonic(w) \/ NothingToEnroll(w) \/ DeviceGone(w) \/ Serve_ends(w)

Next ==
  \/ \E w \in Worker : \/ Ask(w) \/ Proceed(w)
                       \/ SetMnemonic(w) \/ Enroll(w) \/ Sign(w)
                       \/ Stopped(w) \/ CallerDies(w)
  \/ \E e \in Emulator : Listen(e) \/ EmulatorDies(e)

Spec == Init /\ [][Next]_vars /\ \A w \in Worker : WF_vars(Proceed(w))

-----------------------------------------------------------------------------
(* Properties                                                              *)

(* Whenever a worker asks its device to sign, the device, if it lives, holds *)
(* the mnemonic of the request, and for MuSig2 its descriptor: whatever      *)
(* failed in the requests before, and whosever emulator the connection       *)
(* reached.  One case is left out: an enrolment that raised replaced the     *)
(* descriptor that the worker still remembers, and a request for that one    *)
(* skips its enrolment.                                                      *)
SignsWithRequestKeys ==
  \A w \in Worker : at[w] = "sign" /\ Answers(w) =>
    LET held == emulator[device[w]]
    IN /\ held.seed = request[w].mnemonic
       /\ request[w].suite = "musig2-sp" =>
            request[w].descriptor \in {held.wallet, held.lost}

(* No emulator outlives the worker that started it, the ones of failed       *)
(* attempts included, except one whose start a raise left unattended; a      *)
(* worker that left by itself removed its directory.                         *)
GoneLeavesNothing ==
  \A w \in Worker : at[w] = "gone" =>
    /\ \A e \in Emulator \ dropped :
         emulator[e].starter = w => emulator[e].state = "dead"
    /\ ~ caller[w] => ~ runtime[w]

(* The worker waits for the answer of an emulator that lives: no call of the *)
(* two workers that follows the opening has a limit of its own.              *)
AwaitsDevice(w) ==
  /\ device[w] # 0 /\ Answers(w)
  /\ \/ at[w] = "seed" /\ mnemonic[w] = NoValue
     \/ at[w] = "enroll" /\ request[w].descriptor \notin {NoValue, descriptor[w]}
     \/ at[w] = "sign"

(* A worker whose harness was killed ends, and its emulator with it, unless  *)
(* the emulator lives and never answers.                                     *)
OrphanEnds ==
  \A w \in Worker : (~ caller[w]) ~> (at[w] = "gone" \/ []AwaitsDevice(w))
=============================================================================
