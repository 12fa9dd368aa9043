-------------------------- MODULE TransportProofs --------------------------
(***************************************************************************)
(* Theorems about WorkerTransport: what a call returns answers its request *)
(* although ids are never compared, and what stop() leaves was signalled.  *)
(***************************************************************************)
EXTENDS WorkerTransport, SequenceTheorems, TLAPS

-----------------------------------------------------------------------------
(* The inductive invariant.  A process that was not started is blank, and    *)
(* the client and its process are in lockstep: one request at a time is in   *)
(* the pipe, in the worker or answered, and none between two calls.          *)

CallInv ==
  /\ call \in {"start-write", "process-write"} => asked < MaxRequests
  /\ failed => call \in {"stop-term", "stop-wait"} \/ (call = "none" /\ process # 0)
  /\ \A p \in Process : worker[p] = "busy" => job[p] # 0

FreshInv ==
  /\ process <= started /\ stopping <= started
  /\ \A p \in Process : p > started =>
       child[p] = "none" /\ stdin[p] = <<>> /\ stdout[p] = <<>>

OnlyNoise(lines) == \A k \in 1 .. Len(lines) : lines[k] = Noise

OneAnswer(lines) ==
  \E i \in 1 .. Len(lines) :
    lines[i].to = asked /\ \A k \in 1 .. Len(lines) : k # i => lines[k] = Noise

(* No answer of process p has arrived.                                       *)
Unanswered(p) == OnlyNoise(buffer) /\ OnlyNoise(stdout[p])

Answered(p) ==
  \/ OneAnswer(buffer) /\ OnlyNoise(stdout[p])
  \/ OnlyNoise(buffer) /\ OneAnswer(stdout[p])

LockInv ==
  process # 0 /\ ~ failed =>
    IF Reading
    THEN \/ stdin[process] = <<asked>> /\ worker[process] # "busy" /\ Unanswered(process)
         \/ /\ stdin[process] = <<>> /\ Unanswered(process)
            /\ worker[process] = "busy" => job[process] = asked
         \/ stdin[process] = <<>> /\ worker[process] # "busy" /\ Answered(process)
    ELSE stdin[process] = <<>> /\ worker[process] # "busy" /\ Unanswered(process)

SignalInv ==
  /\ NothingLeftUnsignalled
  /\ call = "stop-wait" => Alive(stopping) \subseteq termed[stopping]

TransportInv ==
  TypeOK /\ CallInv /\ FreshInv /\ LockInv /\ ReplyAnswersRequest /\ SignalInv

LEMMA TransportStart == Init => TransportInv
<1> SUFFICES ASSUME Init PROVE TransportInv OBVIOUS
<1> USE TransportAssumption DEF Init
<1>1. TypeOK
  <2>1. MaxStarts \in Nat /\ MaxRequests \in Nat /\ MaxNoise \in Nat OBVIOUS
  <2>2. /\ buffer \in Seq(Line) /\ stdin \in [Process -> Seq(1 .. MaxRequests)]
        /\ stdout \in [Process -> Seq(Line)]
    BY EmptySeq
  <2>3. /\ worker \in [Process -> {"none", "idle", "busy", "dead"}]
        /\ child \in [Process -> {"none", "up", "dead"}] /\ job \in [Process -> 0 .. MaxRequests]
        /\ termed \in [Process -> SUBSET Member]
    BY <2>1
  <2>4. \A p \in Process : worker[p] = "none" <=> p > started BY <2>1 DEF Process
  <2>5. call = "none" /\ stopping = 0 /\ process = 0 /\ failed \in BOOLEAN OBVIOUS
  <2>6. 0 \in 0 .. MaxStarts /\ 0 \in 0 .. MaxRequests /\ 0 \in 0 .. MaxNoise BY <2>1
  <2>7. started \in 0 .. MaxStarts /\ asked \in 0 .. MaxRequests /\ noise \in 0 .. MaxNoise
    BY <2>6, Zenon
  <2>8. reply \in [request : 0 .. MaxRequests, line : 0 .. MaxRequests] BY <2>6
  <2> QED BY ONLY <2>2, <2>3, <2>4, <2>5, <2>7, <2>8 DEF TypeOK
<1>2. CallInv /\ FreshInv /\ LockInv
  BY DEF CallInv, FreshInv, LockInv
<1>3. ReplyAnswersRequest BY DEF ReplyAnswersRequest
<1>4. SignalInv BY DEF SignalInv, NothingLeftUnsignalled, Alive, Member
<1> QED BY <1>1, <1>2, <1>3, <1>4 DEF TransportInv

-----------------------------------------------------------------------------
(* Lines                                                                   *)

LEMMA NoiseIsALine == Noise \in Line /\ ~ Noise.usable
BY DEF Noise, Line

LEMMA AppendNoise ==
  ASSUME NEW lines \in Seq(Line)
  PROVE  /\ OnlyNoise(lines) => OnlyNoise(Append(lines, Noise))
         /\ OneAnswer(lines) => OneAnswer(Append(lines, Noise))
<1>1. /\ Len(lines) \in Nat /\ Len(Append(lines, Noise)) = Len(lines) + 1
      /\ Append(lines, Noise)[Len(lines) + 1] = Noise
      /\ \A k \in 1 .. Len(lines) : Append(lines, Noise)[k] = lines[k]
  BY AppendProperties, LenProperties, NoiseIsALine
<1>2. OnlyNoise(lines) => OnlyNoise(Append(lines, Noise)) BY <1>1 DEF OnlyNoise
<1>3. ASSUME OneAnswer(lines) PROVE OneAnswer(Append(lines, Noise))
  <2>1. PICK i \in 1 .. Len(lines) :
          lines[i].to = asked /\ \A k \in 1 .. Len(lines) : k # i => lines[k] = Noise
    BY <1>3 DEF OneAnswer
  <2>2. i \in 1 .. Len(Append(lines, Noise)) BY <1>1
  <2> QED BY <1>1, <2>1, <2>2 DEF OneAnswer
<1> QED BY <1>2, <1>3

LEMMA AppendAnswer ==
  ASSUME NEW lines \in Seq(Line), OnlyNoise(lines), NEW e \in Line, e.to = asked
  PROVE  OneAnswer(Append(lines, e))
<1>1. /\ Len(lines) \in Nat /\ Len(Append(lines, e)) = Len(lines) + 1
      /\ Append(lines, e)[Len(lines) + 1] = e
      /\ \A k \in 1 .. Len(lines) : Append(lines, e)[k] = lines[k]
  BY AppendProperties, LenProperties
<1>2. Len(lines) + 1 \in 1 .. Len(Append(lines, e)) BY <1>1
<1>3. \A k \in 1 .. Len(Append(lines, e)) : k # Len(lines) + 1 => Append(lines, e)[k] = Noise
  BY <1>1 DEF OnlyNoise
<1> QED BY <1>1, <1>2, <1>3 DEF OneAnswer

LEMMA SplitLines ==
  ASSUME NEW lines \in Seq(Line), NEW n \in 1 .. Len(lines)
  PROVE  LET first == SubSeq(lines, 1, n)
             rest  == SubSeq(lines, n + 1, Len(lines))
         IN  /\ first \in Seq(Line) /\ rest \in Seq(Line)
             /\ OnlyNoise(lines) => OnlyNoise(first) /\ OnlyNoise(rest)
             /\ OneAnswer(lines) => \/ OneAnswer(first) /\ OnlyNoise(rest)
                                    \/ OnlyNoise(first) /\ OneAnswer(rest)
<1> DEFINE first == SubSeq(lines, 1, n)
           rest  == SubSeq(lines, n + 1, Len(lines))
<1>1. Len(lines) \in Nat /\ n \in Int /\ n + 1 \in Int /\ \A k \in 1 .. Len(lines) : lines[k] \in Line
  BY LenProperties, ElementOfSeq
<1>2. /\ first \in Seq(Line) /\ Len(first) = n
      /\ \A k \in 1 .. n : first[k] = lines[k]
  <2>1. \A k \in 1 .. n : lines[k] \in Line BY <1>1
  <2>2. 1 <= n /\ n - 1 + 1 = n BY <1>1
  <2>3. /\ first \in Seq(Line) /\ Len(first) = IF 1 <= n THEN n - 1 + 1 ELSE 0
        /\ \A k \in 1 .. n - 1 + 1 : first[k] = lines[1 + k - 1]
    BY <1>1, <2>1, SubSeqProperties
  <2>4. \A k \in 1 .. n : 1 + k - 1 = k BY <1>1
  <2> HIDE DEF first
  <2> QED BY <2>2, <2>3, <2>4
<1>3. /\ rest \in Seq(Line) /\ Len(rest) = Len(lines) - n
      /\ \A k \in 1 .. Len(lines) - n : rest[k] = lines[n + k]
  <2>1. \A k \in n + 1 .. Len(lines) : lines[k] \in Line BY <1>1
  <2>2. Len(lines) - (n + 1) + 1 = Len(lines) - n BY <1>1
  <2>3. /\ rest \in Seq(Line)
        /\ Len(rest) = IF n + 1 <= Len(lines) THEN Len(lines) - (n + 1) + 1 ELSE 0
        /\ \A k \in 1 .. Len(lines) - (n + 1) + 1 : rest[k] = lines[n + 1 + k - 1]
    BY <1>1, <2>1, SubSeqProperties
  <2>4. \A k \in 1 .. Len(lines) - n : n + 1 + k - 1 = n + k BY <1>1
  <2> HIDE DEF rest
  <2>5. Len(rest) = Len(lines) - n
    <3>1. CASE n + 1 <= Len(lines) BY <2>2, <2>3, <3>1
    <3>2. CASE ~ (n + 1 <= Len(lines))
      <4>1. Len(lines) - n = 0 BY <1>1, <3>2
      <4> QED BY <2>3, <3>2, <4>1
    <3> QED BY <3>1, <3>2
  <2> QED BY <2>2, <2>3, <2>4, <2>5
<1> HIDE DEF first, rest
<1>4. OnlyNoise(lines) => OnlyNoise(first) /\ OnlyNoise(rest)
  BY <1>1, <1>2, <1>3 DEF OnlyNoise
<1>5. ASSUME OneAnswer(lines)
      PROVE  \/ OneAnswer(first) /\ OnlyNoise(rest)
             \/ OnlyNoise(first) /\ OneAnswer(rest)
  <2>1. PICK i \in 1 .. Len(lines) :
          lines[i].to = asked /\ \A k \in 1 .. Len(lines) : k # i => lines[k] = Noise
    BY <1>5 DEF OneAnswer
  <2>2. CASE i <= n
    <3>1. OnlyNoise(rest) BY <1>1, <1>3, <2>1, <2>2 DEF OnlyNoise
    <3>2. i \in 1 .. Len(first) BY <1>1, <1>2, <2>2
    <3>3. \A k \in 1 .. Len(first) : k # i => first[k] = Noise
      BY <1>1, <1>2, <2>1
    <3>4. first[i].to = asked BY <1>2, <2>1, <3>2
    <3>5. OneAnswer(first) BY <3>2, <3>3, <3>4 DEF OneAnswer
    <3> QED BY <3>1, <3>5
  <2>3. CASE i > n
    <3>1. OnlyNoise(first) BY <1>1, <1>2, <2>1, <2>3 DEF OnlyNoise
    <3> DEFINE j == i - n
    <3>2. j \in 1 .. Len(rest) /\ n + j = i BY <1>1, <1>3, <2>3
    <3> HIDE DEF j
    <3>3. rest[j].to = asked BY <1>3, <2>1, <3>2
    <3>4. \A k \in 1 .. Len(rest) : k # j => rest[k] = Noise
      <4> SUFFICES ASSUME NEW k \in 1 .. Len(rest), k # j PROVE rest[k] = Noise OBVIOUS
      <4>1. n + k \in 1 .. Len(lines) /\ n + k # i BY <1>1, <1>3, <3>2
      <4>2. rest[k] = lines[n + k] BY <1>3
      <4> QED BY <2>1, <4>1, <4>2
    <3> QED BY <3>1, <3>2, <3>3, <3>4 DEF OneAnswer
  <2> QED BY <1>1, <2>2, <2>3
<1> QED BY <1>2, <1>3, <1>4, <1>5 DEF first, rest

LEMMA FirstLine ==
  ASSUME NEW lines \in Seq(Line), lines # <<>>
  PROVE  /\ Head(lines) \in Line /\ Tail(lines) \in Seq(Line)
         /\ OnlyNoise(lines) => ~ Head(lines).usable /\ OnlyNoise(Tail(lines))
         /\ OneAnswer(lines) /\ Head(lines).usable
              => Head(lines).to = asked /\ OnlyNoise(Tail(lines))
<1> DEFINE rest == Tail(lines)
<1>1. /\ Len(lines) \in Nat \ {0} /\ Head(lines) = lines[1] /\ Head(lines) \in Line
      /\ rest \in Seq(Line) /\ Len(rest) = Len(lines) - 1
      /\ \A k \in 1 .. Len(rest) : rest[k] = lines[k + 1]
  BY HeadTailProperties, LenProperties, EmptySeq
<1> HIDE DEF rest
<1>2. 1 \in 1 .. Len(lines) BY <1>1
<1>3. OnlyNoise(lines) => ~ Head(lines).usable /\ OnlyNoise(rest)
  BY <1>1, <1>2, NoiseIsALine DEF OnlyNoise
<1>4. ASSUME OneAnswer(lines), Head(lines).usable
      PROVE  Head(lines).to = asked /\ OnlyNoise(rest)
  <2>1. PICK i \in 1 .. Len(lines) :
          lines[i].to = asked /\ \A k \in 1 .. Len(lines) : k # i => lines[k] = Noise
    BY <1>4 DEF OneAnswer
  <2>2. i = 1 BY <1>1, <1>2, <1>4, <2>1, NoiseIsALine
  <2>3. OnlyNoise(rest) BY <1>1, <2>1, <2>2 DEF OnlyNoise
  <2> QED BY <1>1, <2>1, <2>2, <2>3
<1> QED BY <1>1, <1>3, <1>4 DEF rest

-----------------------------------------------------------------------------
(* The client                                                              *)

LEMMA AliveKept ==
  ASSUME worker' = worker, child' = child
  PROVE  \A p : Alive(p)' = Alive(p)
BY DEF Alive

(* What the types say of a call under way.                                   *)
LEMMA CallHasProcess ==
  ASSUME TransportInv, call \in {"start-write", "start-read", "process-write", "process-read"}
  PROVE  process \in Process /\ process # 0 /\ stopping = 0 /\ ~ failed
BY DEF TransportInv, TypeOK, CallInv

(* A call that raises leaves its process to stop(), or the client to be      *)
(* given up.                                                                *)
LEMMA FailStep ==
  ASSUME TransportInv, Fail, UNCHANGED processVars, buffer' \in Seq(Line),
         call \in {"start-write", "start-read", "process-write", "process-read"}
  PROVE  TransportInv'
<1>1. process \in Process /\ process # 0 /\ stopping = 0 /\ ~ failed BY CallHasProcess
<1>2. /\ UNCHANGED <<started, asked, reply, worker, job, child, stdin, stdout, termed, noise>>
      /\ \/ call' = "stop-term" /\ stopping' = process /\ process' = 0 /\ failed' = failed
         \/ call' = "none" /\ failed' = TRUE /\ process' = process /\ stopping' = stopping
  BY DEF Fail, BeginStop, processVars
<1>3. TypeOK'
  <2>1. CASE call' = "stop-term" /\ stopping' = process /\ process' = 0 /\ failed' = failed
    BY <1>1, <1>2, <2>1 DEF TransportInv, TypeOK
  <2>2. CASE call' = "none" /\ failed' = TRUE /\ process' = process /\ stopping' = stopping
    BY <1>1, <1>2, <2>2 DEF TransportInv, TypeOK
  <2> QED BY <1>2, <2>1, <2>2
<1>4. CallInv' /\ FreshInv' BY <1>1, <1>2 DEF TransportInv, CallInv, FreshInv
<1>5. LockInv' BY <1>2 DEF LockInv
<1>6. ReplyAnswersRequest' BY <1>2 DEF TransportInv, ReplyAnswersRequest
<1>7. SignalInv'
  <2>1. \A p \in Process : Alive(p)' = Alive(p) /\ termed' = termed BY <1>2, AliveKept
  <2>2. {process', stopping'} = {process, stopping} /\ call' # "stop-wait" BY <1>1, <1>2
  <2> QED BY <2>1, <2>2 DEF TransportInv, SignalInv, NothingLeftUnsignalled
<1> QED BY <1>3, <1>4, <1>5, <1>6, <1>7 DEF TransportInv

(* The process that starts is blank: its pipes are empty, and so is the buffer. *)
LEMMA StartStep == ASSUME TransportInv, Start PROVE TransportInv'
<1> DEFINE n == started + 1
<1>1. started \in Nat /\ started < MaxStarts /\ MaxStarts \in Nat
  BY TransportAssumption DEF TransportInv, TypeOK, Start
<1>2. n \in Process /\ n # 0 /\ n > started BY <1>1 DEF Process
<1>3. /\ process = 0 /\ process' = n /\ started' = n /\ call = "none" /\ call' = "start-write"
      /\ stopping = 0 /\ stopping' = 0 /\ failed' = failed /\ ~ failed /\ buffer' = <<>>
      /\ UNCHANGED <<asked, reply, job, child, stdin, stdout, termed, noise>> /\ asked < MaxRequests
      /\ worker' = [worker EXCEPT ![n] = "idle"]
  BY DEF Start, TransportInv, TypeOK, CallInv
<1>4. child[n] = "none" /\ stdin[n] = <<>> /\ stdout[n] = <<>> /\ worker'[n] = "idle"
  BY <1>2, <1>3 DEF TransportInv, FreshInv, TypeOK
<1>5. TypeOK'
  <2>1. \A p \in Process : worker'[p] = "none" <=> p > n
    <3> SUFFICES ASSUME NEW p \in Process PROVE worker'[p] = "none" <=> p > n OBVIOUS
    <3>1. p \in Nat BY <1>1 DEF Process
    <3>2. CASE p = n BY <1>1, <1>4, <3>2
    <3>3. CASE p # n
      <4>1. p > started <=> p > n BY <1>1, <3>1, <3>3
      <4>2. worker'[p] = worker[p] BY <1>3, <3>3 DEF TransportInv, TypeOK
      <4> QED BY <4>1, <4>2 DEF TransportInv, TypeOK
    <3> QED BY <3>2, <3>3
  <2>2. n \in 0 .. MaxStarts /\ <<>> \in Seq(Line) BY <1>1, EmptySeq
  <2>3. worker' \in [Process -> {"none", "idle", "busy", "dead"}]
    BY <1>3 DEF TransportInv, TypeOK
  <2> HIDE DEF n
  <2> QED BY <1>2, <1>3, <2>1, <2>2, <2>3 DEF TransportInv, TypeOK
<1>6. CallInv' /\ FreshInv'
  <2>1. (\A p \in Process : p > n => p > started) /\ n <= n /\ 0 <= n BY <1>1 DEF Process
  <2>2. \A p \in Process : worker'[p] = "busy" => worker[p] = "busy"
    BY <1>3 DEF TransportInv, TypeOK
  <2> HIDE DEF n
  <2> QED BY <1>3, <2>1, <2>2 DEF TransportInv, CallInv, FreshInv
<1>7. LockInv' BY <1>3, <1>4 DEF LockInv, Reading, Unanswered, OnlyNoise
<1>8. ReplyAnswersRequest' BY <1>3 DEF TransportInv, ReplyAnswersRequest
<1>9. SignalInv'
  <2>1. \A p \in Process \ {n} : Alive(p)' = Alive(p)
    BY <1>3 DEF Alive, TransportInv, TypeOK
  <2>2. \A p \in Process \ {n} : p \notin {process, stopping} BY <1>1, <1>3 DEF Process
  <2> HIDE DEF n
  <2> QED BY <1>3, <2>1, <2>2 DEF TransportInv, SignalInv, NothingLeftUnsignalled
<1> HIDE DEF n
<1> QED BY <1>5, <1>6, <1>7, <1>8, <1>9 DEF TransportInv

LEMMA CallStep == ASSUME TransportInv, Process_psbt \/ Stop PROVE TransportInv'
<1>1. /\ UNCHANGED <<started, failed, buffer, asked, reply, worker, job, child, stdin, stdout,
                     termed, noise>>
      /\ call = "none" /\ process # 0 /\ stopping = 0 /\ process \in Process
      /\ \/ call' = "stop-term" /\ stopping' = process /\ process' = 0
         \/ /\ call' = "process-write" /\ stopping' = 0 /\ process' = process
            /\ ~ failed /\ asked < MaxRequests
  BY DEF Process_psbt, Stop, BeginStop, processVars, TransportInv, TypeOK
<1>2. TypeOK' BY <1>1 DEF TransportInv, TypeOK
<1>3. CallInv' /\ FreshInv' BY <1>1 DEF TransportInv, CallInv, FreshInv
<1>4. LockInv'
  BY <1>1 DEF TransportInv, LockInv, Reading, Unanswered, OnlyNoise
<1>5. ReplyAnswersRequest' BY <1>1 DEF TransportInv, ReplyAnswersRequest
<1>6. SignalInv'
  <2>1. \A p \in Process : Alive(p)' = Alive(p) /\ termed' = termed BY <1>1, AliveKept
  <2>2. {process', stopping'} = {process, stopping} /\ call' # "stop-wait" BY <1>1
  <2> QED BY <2>1, <2>2 DEF TransportInv, SignalInv, NothingLeftUnsignalled
<1> QED BY <1>2, <1>3, <1>4, <1>5, <1>6 DEF TransportInv

(* One request is under way.                                                 *)
LEMMA WriteStep == ASSUME TransportInv, Write PROVE TransportInv'
<1>1. process \in Process /\ process # 0 /\ stopping = 0 /\ ~ failed
  BY CallHasProcess DEF Write
<1>2. /\ UNCHANGED <<process, stopping, started, failed, buffer, reply, worker, job, child, stdout,
                     termed, noise>>
      /\ asked' = asked + 1 /\ asked < MaxRequests /\ asked \in Nat /\ MaxRequests \in Nat
      /\ stdin' = [stdin EXCEPT ![process] = Append(@, asked + 1)]
      /\ call \in {"start-write", "process-write"} /\ call' \in {"start-read", "process-read"}
  BY TransportAssumption DEF Write, TransportInv, TypeOK, CallInv
<1>3. stdin[process] = <<>> /\ worker[process] # "busy" /\ Unanswered(process)
  BY <1>1, <1>2 DEF TransportInv, LockInv, Reading
<1>4. stdin'[process] = <<asked'>> /\ asked' \in 1 .. MaxRequests
  BY <1>1, <1>2, <1>3 DEF TransportInv, TypeOK
<1>5. TypeOK'
  <2>1. stdin' = [stdin EXCEPT ![process] = <<asked + 1>>] /\ asked + 1 \in 1 .. MaxRequests
    BY <1>2, <1>3, <1>4
  <2>2. <<asked + 1>> \in Seq(1 .. MaxRequests) BY <2>1
  <2>3. stdin' \in [Process -> Seq(1 .. MaxRequests)] BY <2>1, <2>2 DEF TransportInv, TypeOK
  <2>4. asked' \in 0 .. MaxRequests BY <1>2
  <2> QED BY <1>1, <1>2, <2>3, <2>4 DEF TransportInv, TypeOK
<1>6. CallInv' BY <1>1, <1>2 DEF TransportInv, CallInv
<1>7. FreshInv'
  <2>1. \A p \in Process : p > started => p # process
    BY <1>1, <1>2 DEF TransportInv, TypeOK, FreshInv, Process
  <2>2. \A p \in Process : p # process => stdin'[p] = stdin[p]
    BY <1>2 DEF TransportInv, TypeOK
  <2> QED BY <1>2, <2>1, <2>2 DEF TransportInv, FreshInv
<1>8. LockInv' BY <1>2, <1>3, <1>4 DEF LockInv, Reading, Unanswered, OnlyNoise
<1>9. ReplyAnswersRequest' BY <1>2 DEF TransportInv, ReplyAnswersRequest
<1>10. SignalInv'
  <2>1. \A p \in Process : Alive(p)' = Alive(p) BY <1>2, AliveKept
  <2> QED BY <1>2, <2>1 DEF TransportInv, SignalInv, NothingLeftUnsignalled
<1> QED BY <1>5, <1>6, <1>7, <1>8, <1>9, <1>10 DEF TransportInv

LEMMA ReadStep == ASSUME TransportInv, ReadChunk PROVE TransportInv'
<1>1. process \in Process /\ process # 0 /\ ~ failed BY CallHasProcess DEF ReadChunk, Reading
<1>2. PICK n \in 1 .. Len(stdout[process]) :
        /\ buffer' = SubSeq(stdout[process], 1, n)
        /\ stdout' = [stdout EXCEPT ![process] = SubSeq(@, n + 1, Len(@))]
  BY DEF ReadChunk
<1>3. /\ UNCHANGED <<call, process, stopping, started, failed, asked, reply, worker, job, child,
                     stdin, termed, noise>>
      /\ Reading /\ buffer = <<>>
  BY DEF ReadChunk
<1> DEFINE first == SubSeq(stdout[process], 1, n)
           rest  == SubSeq(stdout[process], n + 1, Len(stdout[process]))
<1>4. stdout[process] \in Seq(Line) /\ stdout \in [Process -> Seq(Line)]
  BY <1>1 DEF TransportInv, TypeOK
<1>5. buffer' = first /\ stdout' = [stdout EXCEPT ![process] = rest]
  BY <1>2
<1>6. /\ first \in Seq(Line) /\ rest \in Seq(Line)
      /\ OnlyNoise(stdout[process]) => OnlyNoise(first) /\ OnlyNoise(rest)
      /\ OneAnswer(stdout[process]) => \/ OneAnswer(first) /\ OnlyNoise(rest)
                                       \/ OnlyNoise(first) /\ OneAnswer(rest)
  BY <1>4, SplitLines
<1> HIDE DEF first, rest
<1>7. stdout'[process] = rest /\ \A p \in Process : p # process => stdout'[p] = stdout[p]
  BY <1>1, <1>4, <1>5
<1>8. TypeOK'
  <2>1. stdout' \in [Process -> Seq(Line)] BY <1>4, <1>5, <1>6
  <2> QED BY <1>3, <1>5, <1>6, <2>1 DEF TransportInv, TypeOK
<1>9. CallInv' BY <1>3 DEF TransportInv, CallInv
<1>10. FreshInv'
  <2>1. \A p \in Process : p > started => p # process
    BY DEF TransportInv, FreshInv, Process, TypeOK
  <2> QED BY <1>3, <1>7, <2>1 DEF TransportInv, FreshInv
<1>11. LockInv'
  <2>1. ~ OneAnswer(buffer) /\ OnlyNoise(buffer) BY <1>3 DEF OneAnswer, OnlyNoise
  <2>2. Unanswered(process) => Unanswered(process)'
    BY <1>3, <1>5, <1>6, <1>7 DEF Unanswered, OnlyNoise
  <2>3. Answered(process) => Answered(process)'
    BY <1>3, <1>5, <1>6, <1>7, <2>1 DEF Answered, OnlyNoise, OneAnswer
  <2>4. /\ Reading' /\ asked' = asked /\ process' = process /\ stdin' = stdin /\ worker' = worker
        /\ job' = job
    BY <1>3 DEF Reading
  <2>5. \/ stdin[process] = <<asked>> /\ worker[process] # "busy" /\ Unanswered(process)
        \/ /\ stdin[process] = <<>> /\ Unanswered(process)
           /\ worker[process] = "busy" => job[process] = asked
        \/ stdin[process] = <<>> /\ worker[process] # "busy" /\ Answered(process)
    BY <1>1, <1>3 DEF TransportInv, LockInv
  <2> QED BY <2>2, <2>3, <2>4, <2>5 DEF LockInv, Unanswered, Answered
<1>12. ReplyAnswersRequest' BY <1>3 DEF TransportInv, ReplyAnswersRequest
<1>13. SignalInv'
  <2>1. \A p \in Process : Alive(p)' = Alive(p) BY <1>3, AliveKept
  <2>2. call' # "stop-wait" BY <1>3 DEF Reading
  <2> QED BY <1>3, <2>1, <2>2 DEF TransportInv, SignalInv, NothingLeftUnsignalled
<1> QED BY <1>8, <1>9, <1>10, <1>11, <1>12, <1>13 DEF TransportInv

(* The answer taken is that of the request, and none is left behind.         *)
LEMMA TakeReplyStep == ASSUME TransportInv, TakeReply PROVE TransportInv'
<1>1. process \in Process /\ process # 0 /\ ~ failed BY CallHasProcess DEF TakeReply, Reading
<1>2. /\ UNCHANGED <<process, stopping, started, failed, asked, worker, job, child, stdin, stdout,
                     termed, noise>>
      /\ Reading /\ buffer # <<>> /\ Head(buffer).usable /\ buffer' = Tail(buffer)
      /\ reply' = [request |-> asked, line |-> Head(buffer).to] /\ call' = "none"
  BY DEF TakeReply, processVars
<1>3. buffer \in Seq(Line) /\ asked \in 0 .. MaxRequests /\ MaxRequests \in Nat
  BY TransportAssumption DEF TransportInv, TypeOK
<1>4. /\ Tail(buffer) \in Seq(Line)
      /\ OnlyNoise(buffer) => ~ Head(buffer).usable
      /\ OneAnswer(buffer) => Head(buffer).to = asked /\ OnlyNoise(Tail(buffer))
  BY <1>2, <1>3, FirstLine
<1>5. ~ OnlyNoise(buffer) BY <1>2, <1>4
<1>6. /\ stdin[process] = <<>> /\ worker[process] # "busy"
      /\ OneAnswer(buffer) /\ OnlyNoise(stdout[process])
  BY <1>1, <1>2, <1>5 DEF TransportInv, LockInv, Unanswered, Answered
<1>7. Head(buffer).to = asked /\ OnlyNoise(Tail(buffer)) BY <1>4, <1>6
<1>8. reply' \in [request : 0 .. MaxRequests, line : 0 .. MaxRequests]
  BY <1>2, <1>3, <1>7
<1>9. TypeOK'
  <2>1. stopping = 0 BY CallHasProcess, <1>2 DEF Reading
  <2> QED BY <1>1, <1>2, <1>4, <1>8, <2>1 DEF TransportInv, TypeOK
<1>10. CallInv' /\ FreshInv' BY <1>1, <1>2 DEF TransportInv, CallInv, FreshInv
<1>11. LockInv'
  <2>1. OnlyNoise(buffer') BY <1>2, <1>7
  <2> QED BY <1>2, <1>6, <2>1 DEF LockInv, Reading, Unanswered, OnlyNoise
<1>12. ReplyAnswersRequest' BY <1>2, <1>7 DEF ReplyAnswersRequest
<1>13. SignalInv'
  <2>1. \A p \in Process : Alive(p)' = Alive(p) BY <1>2, AliveKept
  <2> QED BY <1>2, <2>1 DEF TransportInv, SignalInv, NothingLeftUnsignalled
<1> QED BY <1>9, <1>10, <1>11, <1>12, <1>13 DEF TransportInv

LEMMA ErrorStep ==
  ASSUME TransportInv, WriteBroken \/ TakeError \/ ReadEof \/ ReadTimeout
  PROVE  TransportInv'
<1>1. /\ Fail /\ UNCHANGED processVars
      /\ call \in {"start-write", "start-read", "process-write", "process-read"}
  BY DEF WriteBroken, TakeError, ReadEof, ReadTimeout, Reading
<1>2. buffer' \in Seq(Line)
  <2>1. buffer \in Seq(Line) BY DEF TransportInv, TypeOK
  <2>2. CASE TakeError
    <3>1. buffer # <<>> /\ buffer' = Tail(buffer) BY <2>2 DEF TakeError
    <3>2. Tail(buffer) \in Seq(Line) BY <2>1, <3>1, FirstLine
    <3> QED BY <3>1, <3>2
  <2>3. CASE ~ TakeError BY <2>1, <2>3 DEF WriteBroken, ReadEof, ReadTimeout
  <2> QED BY <2>2, <2>3
<1> QED BY <1>1, <1>2, FailStep

-----------------------------------------------------------------------------
(* stop()                                                                  *)

LEMMA StopTermStep == ASSUME TransportInv, StopTerm PROVE TransportInv'
<1>1. stopping \in Process /\ process = 0 /\ stopping # 0
  BY DEF StopTerm, TransportInv, TypeOK
<1>2. /\ UNCHANGED <<process, stopping, started, failed, buffer, asked, reply, worker, job, child,
                     stdin, stdout, noise>>
      /\ call = "stop-term" /\ call' = "stop-wait"
      /\ termed' = [termed EXCEPT ![stopping] = @ \cup Alive(stopping)]
  BY DEF StopTerm, Signalled
<1>3. Alive(stopping) \subseteq Member BY DEF Alive
<1>4. termed \in [Process -> SUBSET Member] BY DEF TransportInv, TypeOK
<1>5. termed' \in [Process -> SUBSET Member] /\ Alive(stopping) \subseteq termed'[stopping]
      /\ \A p \in Process \ {stopping} : termed'[p] = termed[p]
  BY <1>1, <1>2, <1>3, <1>4
<1>6. TypeOK' BY <1>1, <1>2, <1>5 DEF TransportInv, TypeOK
<1>7. CallInv' /\ FreshInv' /\ LockInv' /\ ReplyAnswersRequest'
  BY <1>1, <1>2 DEF TransportInv, CallInv, FreshInv, LockInv, ReplyAnswersRequest
<1>8. SignalInv'
  <2>1. \A p \in Process : Alive(p)' = Alive(p) BY <1>2, AliveKept
  <2>2. \A p \in Process \ {process', stopping'} : Alive(p)' \subseteq termed'[p]
    BY <1>1, <1>2, <1>5, <2>1 DEF TransportInv, SignalInv, NothingLeftUnsignalled
  <2>3. Alive(stopping)' \subseteq termed'[stopping'] BY <1>1, <1>2, <1>5, <2>1
  <2> QED BY <1>2, <2>2, <2>3 DEF SignalInv, NothingLeftUnsignalled, Alive
<1> QED BY <1>6, <1>7, <1>8 DEF TransportInv

LEMMA StopKillStep == ASSUME TransportInv, StopKill PROVE TransportInv'
<1>1. stopping \in Process /\ process = 0 /\ stopping # 0 /\ stopping <= started
  BY DEF StopKill, TransportInv, TypeOK, FreshInv
<1>2. /\ UNCHANGED <<call, process, stopping, started, failed, buffer, asked, reply, job, stdin,
                     stdout, termed, noise>>
      /\ call = "stop-wait" /\ worker' = [worker EXCEPT ![stopping] = "dead"]
      /\ child' = [child EXCEPT ![stopping] = IF @ = "up" THEN "dead" ELSE @]
  BY DEF StopKill, clientVars
<1>3. /\ worker \in [Process -> {"none", "idle", "busy", "dead"}]
      /\ child \in [Process -> {"none", "up", "dead"}]
  BY DEF TransportInv, TypeOK
<1>4. /\ worker'[stopping] = "dead" /\ child'[stopping] # "up"
      /\ \A p \in Process \ {stopping} : worker'[p] = worker[p] /\ child'[p] = child[p]
  BY <1>1, <1>2, <1>3
<1>5. /\ worker' \in [Process -> {"none", "idle", "busy", "dead"}]
      /\ child' \in [Process -> {"none", "up", "dead"}]
  BY <1>1, <1>2, <1>3
<1>6. ~ (stopping > started)
  BY <1>1 DEF TransportInv, TypeOK, Process
<1>7. TypeOK'
  <2>1. \A p \in Process : worker'[p] = "none" <=> p > started
    BY <1>4, <1>6 DEF TransportInv, TypeOK
  <2> QED BY <1>1, <1>2, <1>5, <2>1 DEF TransportInv, TypeOK
<1>8. CallInv'
  <2>1. \A p \in Process : worker'[p] = "busy" => worker[p] = "busy" BY <1>4
  <2> QED BY <1>2, <2>1 DEF TransportInv, CallInv
<1>9. FreshInv' BY <1>2, <1>4, <1>6 DEF TransportInv, FreshInv
<1>10. LockInv' /\ ReplyAnswersRequest'
  BY <1>1, <1>2 DEF TransportInv, LockInv, ReplyAnswersRequest
<1>11. SignalInv'
  <2>1. \A p \in Process \ {stopping} : Alive(p)' = Alive(p) BY <1>4 DEF Alive
  <2>2. Alive(stopping)' = {} BY <1>2, <1>4 DEF Alive, Member
  <2>3. Alive(stopping)' \subseteq termed'[stopping'] BY <2>2
  <2> QED BY <1>2, <2>1, <2>3 DEF TransportInv, SignalInv, NothingLeftUnsignalled
<1> QED BY <1>7, <1>8, <1>9, <1>10, <1>11 DEF TransportInv

LEMMA StopReturnsStep == ASSUME TransportInv, StopReturns PROVE TransportInv'
<1>1. /\ UNCHANGED <<process, started, buffer, asked, reply, worker, job, child, stdin, stdout,
                     termed, noise>>
      /\ call = "stop-wait" /\ call' = "none" /\ stopping' = 0 /\ failed' = FALSE
      /\ process = 0 /\ started \in Nat
  BY DEF StopReturns, processVars, TransportInv, TypeOK
<1>2. TypeOK' BY <1>1 DEF TransportInv, TypeOK
<1>3. CallInv' /\ FreshInv' /\ LockInv' /\ ReplyAnswersRequest'
  BY <1>1 DEF TransportInv, CallInv, FreshInv, LockInv, ReplyAnswersRequest
<1>4. SignalInv'
  <2>1. \A p \in Process : Alive(p)' = Alive(p) /\ termed' = termed BY <1>1, AliveKept
  <2>2. \A p \in Process : Alive(p) \subseteq termed[p]
    BY <1>1, TransportAssumption DEF Process, TransportInv, SignalInv, NothingLeftUnsignalled
  <2> QED BY <1>1, <2>1, <2>2 DEF SignalInv, NothingLeftUnsignalled
<1> QED BY <1>2, <1>3, <1>4 DEF TransportInv

-----------------------------------------------------------------------------
(* The processes                                                           *)

(* What a process does concerns itself, and the client only if it is its own. *)
LEMMA ProcessKeeps ==
  ASSUME TransportInv, NEW p \in Process, UNCHANGED <<clientVars, termed>>,
         worker' \in [Process -> {"none", "idle", "busy", "dead"}],
         child' \in [Process -> {"none", "up", "dead"}],
         job' \in [Process -> 0 .. MaxRequests], stdin' \in [Process -> Seq(1 .. MaxRequests)],
         stdout' \in [Process -> Seq(Line)], noise' \in 0 .. MaxNoise,
         \A q \in Process \ {p} :
           /\ worker'[q] = worker[q] /\ child'[q] = child[q] /\ job'[q] = job[q]
           /\ stdin'[q] = stdin[q] /\ stdout'[q] = stdout[q],
         p <= started, worker'[p] # "none", worker'[p] = "busy" => job'[p] # 0,
         Alive(p)' \subseteq Alive(p) \/ Runs(p),
         p = process /\ ~ failed => LockInv'
  PROVE  TransportInv'
<1>1. UNCHANGED <<call, process, stopping, started, failed, buffer, asked, reply>>
  BY DEF clientVars
<1>2. p \in Nat /\ started \in Nat /\ ~ (p > started)
  BY TransportAssumption DEF Process, TransportInv, TypeOK
<1>3. TypeOK'
  <2>1. \A q \in Process : worker'[q] = "none" <=> q > started
    BY <1>2 DEF TransportInv, TypeOK
  <2> QED BY <1>1, <2>1 DEF TransportInv, TypeOK
<1>4. CallInv' BY <1>1 DEF TransportInv, CallInv
<1>5. FreshInv' BY <1>1, <1>2 DEF TransportInv, FreshInv
<1>6. LockInv'
  <2>1. CASE p = process /\ ~ failed BY <2>1
  <2>2. CASE failed BY <1>1, <2>2 DEF LockInv
  <2>3. CASE process = 0 BY <1>1, <2>3 DEF LockInv
  <2>4. CASE p # process /\ process # 0 /\ ~ failed
    <3>1. process \in Process BY <2>4 DEF TransportInv, TypeOK
    <3>2. /\ stdin'[process] = stdin[process] /\ stdout'[process] = stdout[process]
          /\ worker'[process] = worker[process] /\ job'[process] = job[process]
      BY <2>4, <3>1
    <3> QED
      BY <1>1, <3>2 DEF TransportInv, LockInv, Reading, Unanswered, Answered, OnlyNoise, OneAnswer
  <2> QED BY <2>1, <2>2, <2>3, <2>4
<1>7. ReplyAnswersRequest' BY <1>1 DEF TransportInv, ReplyAnswersRequest
<1>8. SignalInv'
  <2>1. \A q \in Process \ {p} : Alive(q)' = Alive(q) BY DEF Alive
  <2>2. call = "stop-wait" => stopping \in Process BY DEF TransportInv, TypeOK
  <2>3. Runs(p) => ~ (Alive(p) \subseteq termed[p]) BY DEF Runs
  <2>4. \A q \in Process \ {process', stopping'} : Alive(q)' \subseteq termed'[q]
    <3> SUFFICES ASSUME NEW q \in Process \ {process, stopping}
                 PROVE  Alive(q)' \subseteq termed[q]
      BY <1>1
    <3>1. Alive(q) \subseteq termed[q] BY DEF TransportInv, SignalInv, NothingLeftUnsignalled
    <3>2. CASE q = p
      <4>1. Alive(p)' \subseteq termed[p] BY <2>3, <3>1, <3>2
      <4> QED BY <3>2, <4>1
    <3>3. CASE q # p BY <2>1, <3>1, <3>3
    <3> QED BY <3>2, <3>3
  <2>5. call' = "stop-wait" => Alive(stopping)' \subseteq termed'[stopping']
    <3> SUFFICES ASSUME call = "stop-wait" PROVE Alive(stopping)' \subseteq termed[stopping]
      BY <1>1
    <3>1. Alive(stopping) \subseteq termed[stopping] BY DEF TransportInv, SignalInv
    <3>2. CASE stopping = p
      <4>1. Alive(p)' \subseteq termed[p] BY <2>3, <3>1, <3>2
      <4> QED BY <1>1, <3>2, <4>1 DEF Alive
    <3>3. CASE stopping # p
      <4>1. Alive(stopping)' = Alive(stopping)
        BY <1>1, <2>2, <3>3 DEF Alive
      <4> QED BY <3>1, <4>1
    <3> QED BY <3>2, <3>3
  <2> QED BY <2>4, <2>5 DEF SignalInv, NothingLeftUnsignalled
<1> QED BY <1>3, <1>4, <1>5, <1>6, <1>7, <1>8 DEF TransportInv

(* The types of a process, and that one that is alive was started.           *)
LEMMA ProcessTypes ==
  ASSUME TransportInv, NEW p \in Process
  PROVE  /\ worker \in [Process -> {"none", "idle", "busy", "dead"}]
         /\ child \in [Process -> {"none", "up", "dead"}]
         /\ job \in [Process -> 0 .. MaxRequests] /\ stdin \in [Process -> Seq(1 .. MaxRequests)]
         /\ stdout \in [Process -> Seq(Line)] /\ noise \in 0 .. MaxNoise
         /\ worker[p] = "busy" => job[p] # 0
         /\ worker[p] # "none" \/ child[p] # "none" => p <= started /\ worker[p] # "none"
<1>1. p \in Nat /\ started \in Nat
  BY TransportAssumption DEF Process, TransportInv, TypeOK
<1>2. p > started => worker[p] = "none" /\ child[p] = "none"
  BY DEF TransportInv, TypeOK, FreshInv
<1>3. p <= started => worker[p] # "none"
  BY <1>1 DEF TransportInv, TypeOK
<1> QED BY <1>1, <1>2, <1>3 DEF TransportInv, TypeOK, CallInv

LEMMA TakeStep == ASSUME TransportInv, NEW p \in Process, Take(p) PROVE TransportInv'
<1>1. /\ UNCHANGED <<clientVars, child, stdout, termed, noise>> /\ Runs(p)
      /\ worker[p] = "idle" /\ stdin[p] # <<>>
      /\ worker' = [worker EXCEPT ![p] = "busy"] /\ job' = [job EXCEPT ![p] = Head(stdin[p])]
      /\ stdin' = [stdin EXCEPT ![p] = Tail(@)]
  BY DEF Take
<1>2. /\ stdin[p] \in Seq(1 .. MaxRequests) /\ Head(stdin[p]) \in 1 .. MaxRequests
      /\ Tail(stdin[p]) \in Seq(1 .. MaxRequests)
  BY <1>1, ProcessTypes, HeadTailProperties
<1>3. MaxRequests \in Nat BY TransportAssumption
<1>4. /\ worker' \in [Process -> {"none", "idle", "busy", "dead"}]
      /\ job' \in [Process -> 0 .. MaxRequests] /\ stdin' \in [Process -> Seq(1 .. MaxRequests)]
      /\ worker'[p] = "busy" /\ job'[p] = Head(stdin[p]) /\ stdin'[p] = Tail(stdin[p])
      /\ job'[p] # 0
  BY <1>1, <1>2, <1>3, ProcessTypes
<1>5. \A q \in Process \ {p} : worker'[q] = worker[q] /\ job'[q] = job[q] /\ stdin'[q] = stdin[q]
  BY <1>1, ProcessTypes
<1>6. ASSUME p = process, ~ failed PROVE LockInv'
  <2>1. process # 0 BY <1>6, TransportAssumption DEF Process
  <2>2. Reading /\ stdin[p] = <<asked>> /\ Unanswered(p)
    BY <1>1, <1>6, <2>1 DEF TransportInv, LockInv
  <2>3. stdin'[p] = <<>> /\ job'[p] = asked BY <1>4, <2>2
  <2>4. UNCHANGED <<call, process, failed, buffer, asked, stdout>> BY <1>1 DEF clientVars
  <2> QED BY <1>6, <2>2, <2>3, <2>4 DEF LockInv, Reading, Unanswered, OnlyNoise
<1> QED BY <1>1, <1>4, <1>5, <1>6, ProcessTypes, ProcessKeeps

(* A worker that gets SIGTERM never starts an emulator that did not.         *)
LEMMA SpawnStep == ASSUME TransportInv, NEW p \in Process, Spawn(p) PROVE TransportInv'
<1>1. /\ UNCHANGED <<clientVars, worker, job, stdin, stdout, termed, noise>> /\ Runs(p)
      /\ worker[p] = "busy" /\ child' = [child EXCEPT ![p] = "up"]
  BY DEF Spawn
<1>2. child' \in [Process -> {"none", "up", "dead"}] BY <1>1, ProcessTypes
<1>3. \A q \in Process \ {p} : child'[q] = child[q] BY <1>1, ProcessTypes
<1>4. LockInv'
  <2>1. UNCHANGED <<call, process, failed, buffer, asked>> BY <1>1 DEF clientVars
  <2> QED BY <1>1, <2>1
    DEF TransportInv, LockInv, Reading, Unanswered, Answered, OnlyNoise, OneAnswer
<1> QED BY <1>1, <1>2, <1>3, <1>4, ProcessTypes, ProcessKeeps

(* The answer to the request under way arrives.                              *)
LEMMA RespondStep ==
  ASSUME TransportInv, NEW p \in Process, Respond(p) \/ GiveUpChild(p)
  PROVE  TransportInv'
<1>1. /\ UNCHANGED <<clientVars, job, stdin, termed, noise>> /\ Runs(p) /\ worker[p] = "busy"
      /\ worker' = [worker EXCEPT ![p] = "idle"]
      /\ child' \in {child, [child EXCEPT ![p] = "none"]}
  BY DEF Respond, GiveUpChild
<1>2. PICK usable \in BOOLEAN :
        stdout' = [stdout EXCEPT ![p] = Append(@, [to |-> job[p], usable |-> usable])]
  BY DEF Respond, GiveUpChild
<1> DEFINE e == [to |-> job[p], usable |-> usable]
<1>3. job[p] \in 1 .. MaxRequests /\ stdout[p] \in Seq(Line) /\ stdout \in [Process -> Seq(Line)]
  BY <1>1, ProcessTypes, TransportAssumption
<1>4. e \in Line /\ e.to = job[p] BY <1>3 DEF Line
<1>5. stdout' = [stdout EXCEPT ![p] = Append(stdout[p], e)] BY <1>2
<1> HIDE DEF e
<1>6. Append(stdout[p], e) \in Seq(Line) BY <1>3, <1>4, AppendProperties
<1>7. stdout' \in [Process -> Seq(Line)] /\ stdout'[p] = Append(stdout[p], e)
      /\ \A q \in Process \ {p} : stdout'[q] = stdout[q]
  BY <1>3, <1>5, <1>6
<1>8. /\ worker' \in [Process -> {"none", "idle", "busy", "dead"}] /\ worker'[p] = "idle"
      /\ child' \in [Process -> {"none", "up", "dead"}]
      /\ \A q \in Process \ {p} : worker'[q] = worker[q] /\ child'[q] = child[q]
  BY <1>1, ProcessTypes
<1>9. ASSUME p = process, ~ failed PROVE LockInv'
  <2>1. process # 0 BY <1>9, TransportAssumption DEF Process
  <2>2. Reading /\ stdin[p] = <<>> /\ Unanswered(p) /\ job[p] = asked
    BY <1>1, <1>9, <2>1 DEF TransportInv, LockInv
  <2>3. OneAnswer(stdout'[p]) /\ OnlyNoise(buffer)
    BY <1>3, <1>4, <1>7, <2>2, AppendAnswer DEF Unanswered
  <2>4. UNCHANGED <<call, process, failed, buffer, asked, stdin>> BY <1>1 DEF clientVars
  <2>5. Answered(process)'
    BY <1>9, <2>3, <2>4 DEF Answered, OneAnswer, OnlyNoise
  <2> QED BY <1>8, <1>9, <2>2, <2>4, <2>5 DEF LockInv, Reading
<1> QED BY <1>1, <1>7, <1>8, <1>9, ProcessTypes, ProcessKeeps

LEMMA NoiseStep == ASSUME TransportInv, NEW p \in Process, PrintNoise(p) PROVE TransportInv'
<1>1. /\ UNCHANGED <<clientVars, worker, job, child, stdin, termed>> /\ Runs(p)
      /\ noise < MaxNoise /\ noise' = noise + 1
      /\ stdout' = [stdout EXCEPT ![p] = Append(@, Noise)]
  BY DEF PrintNoise
<1>2. stdout[p] \in Seq(Line) /\ stdout \in [Process -> Seq(Line)] BY ProcessTypes
<1>3. Append(stdout[p], Noise) \in Seq(Line) BY <1>2, NoiseIsALine, AppendProperties
<1>4. stdout' \in [Process -> Seq(Line)] /\ stdout'[p] = Append(stdout[p], Noise)
      /\ \A q \in Process \ {p} : stdout'[q] = stdout[q]
  BY <1>1, <1>2, <1>3
<1>5. noise' \in 0 .. MaxNoise BY <1>1, ProcessTypes, TransportAssumption
<1>6. worker[p] # "none" BY <1>1 DEF Runs, Alive
<1>7. ASSUME p = process, ~ failed PROVE LockInv'
  <2>1. UNCHANGED <<call, process, failed, buffer, asked, stdin, worker, job>>
    BY <1>1 DEF clientVars
  <2>2. OnlyNoise(stdout[p]) => OnlyNoise(stdout'[p]) BY <1>2, <1>4, AppendNoise
  <2>3. OneAnswer(stdout[p]) => OneAnswer(stdout'[p]) BY <1>2, <1>4, AppendNoise
  <2>4. Unanswered(process) => Unanswered(process)'
    BY <1>7, <2>1, <2>2 DEF Unanswered, OnlyNoise
  <2>5. Answered(process) => Answered(process)'
    BY <1>7, <2>1, <2>2, <2>3 DEF Answered, OnlyNoise, OneAnswer
  <2> QED BY <2>1, <2>4, <2>5 DEF TransportInv, LockInv, Reading
<1> QED BY <1>1, <1>4, <1>5, <1>6, <1>7, ProcessTypes, ProcessKeeps

LEMMA DieStep ==
  ASSUME TransportInv, NEW p \in Process, WorkerDies(p) \/ ChildDies(p)
  PROVE  TransportInv'
<1>1. /\ UNCHANGED <<clientVars, job, stdin, stdout, termed, noise>>
      /\ \/ worker[p] \in {"idle", "busy"} /\ worker' = [worker EXCEPT ![p] = "dead"] /\ child' = child
         \/ child[p] = "up" /\ child' = [child EXCEPT ![p] = "dead"] /\ worker' = worker
  BY DEF WorkerDies, ChildDies, Alive, Member
<1>2. /\ worker' \in [Process -> {"none", "idle", "busy", "dead"}]
      /\ child' \in [Process -> {"none", "up", "dead"}]
      /\ \A q \in Process \ {p} : worker'[q] = worker[q] /\ child'[q] = child[q]
      /\ worker'[p] \in {worker[p], "dead"} /\ child'[p] \in {child[p], "dead"}
      /\ p <= started /\ worker[p] # "none"
  BY <1>1, ProcessTypes
<1>3. Alive(p)' \subseteq Alive(p) BY <1>2 DEF Alive
<1>4. ASSUME p = process, ~ failed PROVE LockInv'
  <2>1. UNCHANGED <<call, process, failed, buffer, asked>> BY <1>1 DEF clientVars
  <2>2. worker'[process] = "busy" => worker[process] = "busy" BY <1>2, <1>4
  <2> QED BY <1>1, <2>1, <2>2
    DEF TransportInv, LockInv, Reading, Unanswered, Answered, OnlyNoise, OneAnswer
<1> QED BY <1>1, <1>2, <1>3, <1>4, ProcessTypes, ProcessKeeps

-----------------------------------------------------------------------------
LEMMA TransportStep == TransportInv /\ [Next]_vars => TransportInv'
<1> SUFFICES ASSUME TransportInv, [Next]_vars PROVE TransportInv' OBVIOUS
<1>1. CASE Choice BY <1>1, StartStep, CallStep DEF Choice
<1>2. CASE Proceed
  BY <1>2, WriteStep, ReadStep, TakeReplyStep, ErrorStep, StopTermStep, StopKillStep,
     StopReturnsStep
  DEF Proceed
<1>3. ASSUME NEW p \in Process, ProcessStep(p) PROVE TransportInv'
  BY <1>3, TakeStep, SpawnStep, RespondStep, NoiseStep, DieStep DEF ProcessStep
<1>4. CASE UNCHANGED vars
  <2>1. UNCHANGED <<clientVars, processVars>> BY <1>4 DEF vars
  <2>2. TypeOK' BY <2>1 DEF clientVars, processVars, TransportInv, TypeOK
  <2>3. CallInv' /\ FreshInv' /\ ReplyAnswersRequest'
    BY <2>1 DEF clientVars, processVars, TransportInv, CallInv, FreshInv, ReplyAnswersRequest
  <2>4. LockInv'
    BY <2>1 DEF clientVars, processVars, TransportInv, LockInv, Reading, Unanswered, Answered,
                OnlyNoise, OneAnswer
  <2>5. SignalInv'
    BY <2>1 DEF clientVars, processVars, TransportInv, SignalInv, NothingLeftUnsignalled, Alive
  <2> QED BY <2>2, <2>3, <2>4, <2>5 DEF TransportInv
<1> QED BY <1>1, <1>2, <1>3, <1>4 DEF Next

LEMMA TransportInvariant == Spec => []TransportInv
BY TransportStart, TransportStep, PTL DEF Spec

(* The types, and which process a call is about.                             *)
THEOREM TransportTypeCorrect == Spec => []TypeOK
<1>1. TransportInv => TypeOK BY DEF TransportInv
<1> QED BY <1>1, TransportInvariant, PTL

(* What a call returns is the answer to the request it sent.                 *)
THEOREM RepliesMatch == Spec => []ReplyAnswersRequest
<1>1. TransportInv => ReplyAnswersRequest BY DEF TransportInv
<1> QED BY <1>1, TransportInvariant, PTL

(* stop(), and a start() that fails, leave nothing alive without SIGTERM.    *)
THEOREM WhatIsLeftWasSignalled == Spec => []NothingLeftUnsignalled
<1>1. TransportInv => NothingLeftUnsignalled BY DEF TransportInv, SignalInv
<1> QED BY <1>1, TransportInvariant, PTL
=============================================================================
