---------------------------- MODULE DeviceProofs ----------------------------
(***************************************************************************)
(* Theorems about DeviceWorker: a device signs with the keys of the        *)
(* request, and a worker that is gone leaves no emulator, for any number   *)
(* of workers, ports, emulators, requests and faults.                      *)
(***************************************************************************)
EXTENDS DeviceWorker, TLAPS

EmulatorRecord ==
  [state : {"none", "starting", "up", "dead"}, starter : Worker \cup {NoValue},
   port : Port \cup {NoValue}, client : Worker \cup {NoValue},
   seed : Mnemonic \cup {NoValue},
   wallet : Descriptor \cup {NoValue}, lost : Descriptor \cup {NoValue}]

LEMMA UnbornTyped == Unborn \in EmulatorRecord
  BY DEF Unborn, EmulatorRecord

LEMMA EndedTyped ==
  ASSUME NEW w, NEW dying, emulator \in [Emulator -> EmulatorRecord]
  PROVE  Ended(w, dying) \in [Emulator -> EmulatorRecord]
<1> SUFFICES ASSUME NEW e \in Emulator PROVE Ended(w, dying)[e] \in EmulatorRecord
  BY DEF Ended
<1>1. emulator[e] \in EmulatorRecord OBVIOUS
<1>2. [Unborn EXCEPT !.state = "dead", !.port = emulator[e].port] \in EmulatorRecord
  BY <1>1 DEF Unborn, EmulatorRecord
<1>3. [emulator[e] EXCEPT !.client = IF @ = w THEN NoValue ELSE @] \in EmulatorRecord
  BY <1>1 DEF EmulatorRecord
<1> QED BY <1>2, <1>3 DEF Ended

LEMMA CloseTyped ==
  ASSUME TypeOK, NEW w \in Worker, CloseDevice(w)
  PROVE  /\ emulator' \in [Emulator -> EmulatorRecord]
         /\ own' \in [Worker -> Emulator \cup {0}]
         /\ device' \in [Worker -> Emulator \cup {0}]
         /\ runtime' \in [Worker -> BOOLEAN]
         /\ mnemonic' \in [Worker -> Mnemonic \cup {NoValue}]
         /\ descriptor' \in [Worker -> Descriptor \cup {NoValue}]
<1>1. emulator' \in [Emulator -> EmulatorRecord]
  BY EndedTyped DEF CloseDevice, TypeOK, EmulatorRecord
<1> QED BY <1>1 DEF CloseDevice, TypeOK

(* One emulator is replaced by another record.                               *)
LEMMA ReplacedTyped ==
  ASSUME emulator \in [Emulator -> EmulatorRecord], NEW e \in Emulator,
         NEW r \in EmulatorRecord
  PROVE  [emulator EXCEPT ![e] = r] \in [Emulator -> EmulatorRecord]
OBVIOUS

LEMMA FieldsTyped ==
  ASSUME NEW r \in EmulatorRecord, NEW w \in Worker
  PROVE  /\ [r EXCEPT !.client = w] \in EmulatorRecord
         /\ \A m \in Mnemonic : [r EXCEPT !.seed = m] \in EmulatorRecord
         /\ [r EXCEPT !.state = "up"] \in EmulatorRecord
         /\ \A p \in Port \cup {NoValue} :
              [r EXCEPT !.state = "starting", !.starter = w, !.port = p] \in EmulatorRecord
BY DEF EmulatorRecord

(* A worker between requests serves none; one that opens its device has      *)
(* started an emulator, and one that has opened it talks to one.  TypeOK is inductive with this only: what a       *)
(* device is told comes from the request.                                    *)
Serving ==
  \A w \in Worker :
    /\ at[w] \notin {"idle", "gone"} => request[w] \in Request
    /\ at[w] = "connect" => own[w] # 0
    /\ at[w] \in {"seed", "enroll", "sign"} => device[w] # 0

TypeInv == TypeOK /\ Serving

LEMMA TypeStart == Init => TypeInv
<1> SUFFICES ASSUME Init PROVE TypeInv OBVIOUS
<1>1. emulator \in [Emulator -> EmulatorRecord] BY UnbornTyped DEF Init
<1>2. backend \in [Worker -> Backends] BY DeviceAssumption DEF Init
<1>3. TypeOK BY <1>1, <1>2, DeviceAssumption DEF Init, TypeOK, EmulatorRecord
<1>4. Serving BY DEF Init, Serving
<1> QED BY <1>3, <1>4 DEF TypeInv

LEMMA TypeStep == TypeInv /\ [Next]_vars => TypeInv'
<1> SUFFICES ASSUME TypeOK, Serving, [Next]_vars PROVE TypeOK' /\ Serving'
  BY DEF TypeInv
<1> USE DeviceAssumption DEF TypeOK, Serving, workerVars, Move, Answer, Fault
<1>a. emulator \in [Emulator -> EmulatorRecord] BY DEF EmulatorRecord
<1>1. ASSUME NEW w \in Worker, Ask(w) PROVE TypeOK' /\ Serving'
  <2>1. TypeOK' BY <1>1 DEF Ask
  <2>2. PICK r \in Request : request' = [request EXCEPT ![w] = r] BY <1>1 DEF Ask
  <2> QED BY <1>1, <2>1, <2>2 DEF Ask
<1>2. ASSUME NEW w \in Worker, StartEmulator(w) PROVE TypeOK' /\ Serving'
  <2>1. started + 1 \in Emulator BY <1>2 DEF StartEmulator, Emulator
  <2>2. \A p \in Endpoint(w) : p \in Port \cup {NoValue} BY DEF Endpoint
  <2>3. emulator' \in [Emulator -> EmulatorRecord]
    <3>1. PICK p \in Port \cup {NoValue} :
            emulator' = [emulator EXCEPT ![started + 1].state = "starting",
                                         ![started + 1].starter = w,
                                         ![started + 1].port = p]
      BY <1>2, <2>2 DEF StartEmulator
    <3> DEFINE r == [emulator[started + 1] EXCEPT !.state = "starting", !.starter = w,
                                                  !.port = p]
    <3>2. r \in EmulatorRecord BY <1>a, <2>1, FieldsTyped
    <3>3. emulator' = [emulator EXCEPT ![started + 1] = r] BY <3>1, <1>a, <2>1
    <3> HIDE DEF r
    <3> QED BY <1>a, <2>1, <3>2, <3>3, ReplacedTyped
  <2>4. TypeOK' BY <1>2, <2>1, <2>3 DEF StartEmulator, EmulatorRecord
  <2>5. Serving' BY <1>2, <2>1 DEF StartEmulator, Emulator
  <2> QED BY <2>4, <2>5
<1>3. ASSUME NEW w \in Worker, StartFails(w) PROVE TypeOK' /\ Serving'
  <2>1. CASE CloseDevice(w)
    <3>1. TypeOK' BY <1>3, <2>1, CloseTyped DEF StartFails, EmulatorRecord
    <3>2. Serving' BY <1>3, <2>1 DEF StartFails, CloseDevice
    <3> QED BY <3>1, <3>2
  <2>2. CASE UNCHANGED <<own, device, mnemonic, descriptor, emulator>>
             /\ \E left \in {runtime[w], backend[w] = "jade"} :
                  runtime' = [runtime EXCEPT ![w] = left]
    <3>1. PICK left \in BOOLEAN : runtime' = [runtime EXCEPT ![w] = left] BY <2>2
    <3>2. TypeOK' BY <1>3, <2>2, <3>1 DEF StartFails
    <3>3. Serving' BY <1>3, <2>2 DEF StartFails
    <3> QED BY <3>2, <3>3
  <2> QED BY <1>3, <2>1, <2>2 DEF StartFails
<1>4. ASSUME NEW w \in Worker, Connect(w) PROVE TypeOK' /\ Serving'
  <2>1. PICK e \in Emulator : /\ device' = [device EXCEPT ![w] = e]
                              /\ emulator' = [emulator EXCEPT ![e].client = w]
    BY <1>4 DEF Connect, Reachable
  <2> DEFINE r == [emulator[e] EXCEPT !.client = w]
  <2>2. r \in EmulatorRecord BY <1>a, FieldsTyped
  <2>3. emulator' = [emulator EXCEPT ![e] = r] BY <2>1
  <2> HIDE DEF r
  <2>4. emulator' \in [Emulator -> EmulatorRecord]
    BY <1>a, <2>2, <2>3, ReplacedTyped
  <2>5. e # 0 BY DEF Emulator
  <2>6. TypeOK' BY <1>4, <2>1, <2>4 DEF Connect, EmulatorRecord
  <2>7. Serving' BY <1>4, <2>1, <2>5 DEF Connect
  <2> QED BY <2>6, <2>7
<1>5. ASSUME NEW w \in Worker, ConnectFails(w) PROVE TypeOK' /\ Serving'
  <2>1. TypeOK' BY <1>5, CloseTyped DEF ConnectFails, EmulatorRecord
  <2>2. Serving' BY <1>5 DEF ConnectFails, CloseDevice
  <2> QED BY <2>1, <2>2
<1>6. ASSUME NEW w \in Worker, SetMnemonic(w) PROVE TypeOK' /\ Serving'
  <2>1. PICK returned, taken \in BOOLEAN :
          /\ IF returned THEN UNCHANGED faults ELSE Fault
          /\ emulator' = [emulator EXCEPT ![device[w]].seed =
                            IF taken THEN request[w].mnemonic ELSE @]
          /\ RememberMnemonic(w, returned)
          /\ IF returned THEN Move(w, AfterSeed(w)) /\ UNCHANGED request ELSE Answer(w)
    BY <1>6 DEF SetMnemonic
  <2>2. request[w] \in Request /\ device[w] \in Emulator BY <1>6 DEF SetMnemonic
  <2>3. request[w].mnemonic \in Mnemonic BY <2>2 DEF Request
  <2> DEFINE r == [emulator[device[w]] EXCEPT !.seed = IF taken THEN request[w].mnemonic ELSE @]
  <2>4. r \in EmulatorRecord
    <3>1. emulator[device[w]] \in EmulatorRecord BY <1>a, <2>2
    <3>2. CASE taken BY <2>3, <3>1, <3>2, FieldsTyped
    <3>3. CASE ~ taken BY <3>1, <3>3 DEF EmulatorRecord
    <3> QED BY <3>2, <3>3
  <2>5. emulator' = [emulator EXCEPT ![device[w]] = r] BY <2>1
  <2> HIDE DEF r
  <2>6. emulator' \in [Emulator -> EmulatorRecord]
    BY <1>a, <2>2, <2>4, <2>5, ReplacedTyped
  <2>7. AfterSeed(w) \in {"enroll", "sign"} BY DEF AfterSeed
  <2>8. mnemonic' \in [Worker -> Mnemonic \cup {NoValue}]
    BY <2>1, <2>3 DEF RememberMnemonic
  <2>9. TypeOK' BY <1>6, <2>1, <2>6, <2>7, <2>8 DEF SetMnemonic, EmulatorRecord
  <2>10. Serving' BY <1>6, <2>1, <2>7 DEF SetMnemonic
  <2> QED BY <2>9, <2>10
<1>7. ASSUME NEW w \in Worker, SameMnemonic(w) PROVE TypeOK' /\ Serving'
  BY <1>7 DEF SameMnemonic, AfterSeed
<1>8. ASSUME NEW w \in Worker, NothingToEnroll(w) PROVE TypeOK' /\ Serving'
  BY <1>8 DEF NothingToEnroll
<1>9. ASSUME NEW w \in Worker, Enroll(w) PROVE TypeOK' /\ Serving'
  <2>1. PICK returned, taken \in BOOLEAN :
          /\ UNCHANGED faults \/ Fault
          /\ emulator' = [emulator EXCEPT
                             ![device[w]] = Registered(@, w, returned, taken)]
          /\ RememberDescriptor(w, returned)
          /\ IF returned THEN Move(w, "sign") /\ UNCHANGED request ELSE Answer(w)
    BY <1>9 DEF Enroll
  <2>2. request[w] \in Request /\ device[w] \in Emulator BY <1>9 DEF Enroll
  <2>3. request[w].descriptor \in Descriptor BY <1>9, <2>2 DEF Request, Enroll
  <2> DEFINE r == Registered(emulator[device[w]], w, returned, taken)
  <2>4. r \in EmulatorRecord
    <3>1. emulator[device[w]] \in EmulatorRecord BY <1>a, <2>2
    <3> QED BY <2>3, <3>1 DEF Registered, EmulatorRecord
  <2>5. emulator' = [emulator EXCEPT ![device[w]] = r] BY <2>1
  <2> HIDE DEF r
  <2>6. emulator' \in [Emulator -> EmulatorRecord]
    BY <1>a, <2>2, <2>4, <2>5, ReplacedTyped
  <2>9. descriptor' \in [Worker -> Descriptor \cup {NoValue}]
    BY <2>1, <2>3 DEF RememberDescriptor
  <2>7. TypeOK' BY <1>9, <2>1, <2>6, <2>9 DEF Enroll, EmulatorRecord
  <2>8. Serving' BY <1>9, <2>1 DEF Enroll
  <2> QED BY <2>7, <2>8
<1>10. ASSUME NEW w \in Worker, Sign(w) PROVE TypeOK' /\ Serving'
  BY <1>10 DEF Sign
<1>11. ASSUME NEW w \in Worker, DeviceGone(w) PROVE TypeOK' /\ Serving'
  BY <1>11 DEF DeviceGone
<1>12. ASSUME NEW w \in Worker, Serve_ends(w) PROVE TypeOK' /\ Serving'
  <2>1. emulator' \in [Emulator -> EmulatorRecord] BY <1>12, <1>a, EndedTyped DEF Serve_ends
  <2>2. TypeOK' BY <1>12, <2>1 DEF Serve_ends, Forget, EmulatorRecord
  <2>3. Serving' BY <1>12 DEF Serve_ends, Forget
  <2> QED BY <2>2, <2>3
<1>13. ASSUME NEW w \in Worker, Stopped(w) PROVE TypeOK' /\ Serving'
  <2>1. emulator' \in [Emulator -> EmulatorRecord] BY <1>13, <1>a, EndedTyped DEF Stopped
  <2>2. TypeOK' BY <1>13, <2>1 DEF Stopped, Forget, EmulatorRecord
  <2>3. Serving' BY <1>13 DEF Stopped, Forget
  <2> QED BY <2>2, <2>3
<1>14. ASSUME NEW w \in Worker, CallerDies(w) PROVE TypeOK' /\ Serving'
  BY <1>14 DEF CallerDies
<1>15. ASSUME NEW e \in Emulator, Listen(e) PROVE TypeOK' /\ Serving'
  <2>1. emulator' \in [Emulator -> EmulatorRecord]
    <3>1. CASE emulator' = Ended(NoValue, {e}) BY <3>1, <1>a, EndedTyped
    <3>2. CASE emulator' = [emulator EXCEPT ![e].state = "up"]
      <4> DEFINE r == [emulator[e] EXCEPT !.state = "up"]
      <4>1. r \in EmulatorRecord BY <1>a DEF EmulatorRecord
      <4>2. emulator' = [emulator EXCEPT ![e] = r] BY <3>2
      <4> HIDE DEF r
      <4> QED BY <1>a, <4>1, <4>2, ReplacedTyped
    <3> QED BY <1>15, <3>1, <3>2 DEF Listen
  <2>2. UNCHANGED <<workerVars, started, asked, faults, dropped>> BY <1>15 DEF Listen
  <2> QED BY <2>1, <2>2 DEF EmulatorRecord
<1>16. ASSUME NEW e \in Emulator, EmulatorDies(e) PROVE TypeOK' /\ Serving'
  <2>1. emulator' \in [Emulator -> EmulatorRecord] BY <1>16, <1>a, EndedTyped DEF EmulatorDies
  <2>2. UNCHANGED <<workerVars, started, asked, dropped>> BY <1>16 DEF EmulatorDies
  <2>3. faults' \in 0 .. MaxFaults BY <1>16 DEF EmulatorDies
  <2> QED BY <2>1, <2>2, <2>3 DEF EmulatorRecord
<1>17. ASSUME NEW w \in Worker, ConnectRaises(w) PROVE TypeOK' /\ Serving'
  <2>1. own[w] # 0 => own[w] \in Emulator OBVIOUS
  <2>2. own[w] # 0 BY <1>17 DEF ConnectRaises, Serving
  <2> QED BY <1>17, <2>1, <2>2 DEF ConnectRaises
<1>18. CASE UNCHANGED vars BY <1>18 DEF vars
<1> QED
  BY <1>1, <1>2, <1>3, <1>4, <1>5, <1>6, <1>7, <1>8, <1>9, <1>10, <1>11, <1>12, <1>13,
     <1>14, <1>15, <1>16, <1>17, <1>18 DEF Next, Proceed

LEMMA TypeInvariant == Spec => []TypeInv
BY TypeStart, TypeStep, PTL DEF Spec

(* Types are kept.                                                           *)
THEOREM DeviceTypeCorrect == Spec => []TypeOK
<1>1. TypeInv => TypeOK BY DEF TypeInv
<1> QED BY <1>1, TypeInvariant, PTL

-----------------------------------------------------------------------------
(* What a worker holds                                                       *)

(* An emulator that was not started is nobody's.                             *)
Records ==
  \A e \in Emulator :
    /\ emulator[e].state = "none" => emulator[e] = Unborn
    /\ e > started => emulator[e].state = "none"

(* The one emulator a worker may have to end is the one it knows of, the     *)
(* dropped ones aside; and it knows of no other unless it is opening its     *)
(* device or has opened it.                                                  *)
Owned ==
  \A w \in Worker :
    /\ \A e \in Emulator :
         emulator[e].starter = w /\ emulator[e].state # "dead" =>
           own[w] = e \/ e \in dropped
    /\ device[w] = 0 /\ at[w] # "connect" => own[w] \in dropped \cup {0}
    /\ at[w] = "gone" => caller[w] \/ ~ runtime[w]

(* Without a device nothing was told to one.                                 *)
Opening ==
  \A w \in Worker :
    /\ at[w] \in {"open", "connect", "gone"} => device[w] = 0
    /\ device[w] = 0 => mnemonic[w] = NoValue /\ descriptor[w] = NoValue

(* The device of a worker serves that worker, and holds what the worker      *)
(* remembers of it, until it dies.                                           *)
Told ==
  \A w \in Worker :
    device[w] # 0 =>
      /\ emulator[device[w]].state \in {"up", "dead"}
      /\ emulator[device[w]].state = "up" =>
           /\ emulator[device[w]].client = w
           /\ mnemonic[w] # NoValue => emulator[device[w]].seed = mnemonic[w]
           /\ descriptor[w] # NoValue =>
                descriptor[w] \in {emulator[device[w]].wallet, emulator[device[w]].lost}

(* How far the request is: the mnemonic was compared, the descriptor too.    *)
InHand ==
  \A w \in Worker :
    /\ at[w] \in {"enroll", "sign"} => mnemonic[w] = request[w].mnemonic
    /\ at[w] = "sign" /\ request[w].suite = "musig2-sp" =>
         descriptor[w] # NoValue /\ descriptor[w] = request[w].descriptor

Held == Records /\ Owned /\ Opening /\ Told /\ InHand

SafeInv == TypeInv /\ Held

LEMMA HeldStart == Init => Held
<1> SUFFICES ASSUME Init PROVE Held OBVIOUS
<1>1. Records /\ Owned
  <2>1. \A e \in Emulator : emulator[e] = Unborn BY DEF Init
  <2>2. \A w \in Worker : w # NoValue BY DeviceAssumption
  <2> QED BY <2>1, <2>2 DEF Init, Records, Owned, Unborn
<1>2. Opening /\ Told /\ InHand BY DEF Init, Opening, Told, InHand
<1> QED BY <1>1, <1>2 DEF Held

(* Only the emulators of dying end, and only w's connection.                 *)
LEMMA EndedAt ==
  ASSUME NEW w, NEW dying, NEW e \in Emulator, emulator[e] \in EmulatorRecord
  PROVE  /\ e \in dying /\ emulator[e].state # "none" =>
              Ended(w, dying)[e].state = "dead" /\ Ended(w, dying)[e].starter = NoValue
         /\ e \notin dying \/ emulator[e].state = "none" =>
              /\ Ended(w, dying)[e].state = emulator[e].state
              /\ Ended(w, dying)[e].starter = emulator[e].starter
              /\ Ended(w, dying)[e].seed = emulator[e].seed
              /\ Ended(w, dying)[e].wallet = emulator[e].wallet
              /\ Ended(w, dying)[e].lost = emulator[e].lost
              /\ emulator[e].client # w =>
                   Ended(w, dying)[e].client = emulator[e].client
              /\ emulator[e] = Unborn => Ended(w, dying)[e] = Unborn
<1>1. CASE e \in dying /\ emulator[e].state # "none"
  BY <1>1 DEF Ended, Unborn
<1>2. CASE ~ (e \in dying /\ emulator[e].state # "none")
  <2>1. Ended(w, dying)[e] = [emulator[e] EXCEPT !.client = IF @ = w THEN NoValue ELSE @]
    BY <1>2 DEF Ended
  <2> QED BY <1>2, <2>1 DEF EmulatorRecord, Unborn
<1> QED BY <1>1, <1>2

(* What is told of records and devices survives the end of some emulators,   *)
(* when w, whose connection ends, has no device any more.                    *)
LEMMA EndedKeeps ==
  ASSUME TypeOK, Records, Told, started' = started,
         NEW w \in Worker \cup {NoValue}, NEW dying, emulator' = Ended(w, dying),
         \A v \in Worker \ {w} : /\ device'[v] = device[v]
                                 /\ mnemonic'[v] = mnemonic[v]
                                 /\ descriptor'[v] = descriptor[v],
         w \in Worker => device'[w] = 0
  PROVE  Records' /\ Told'
<1>a. \A e \in Emulator : emulator[e] \in EmulatorRecord
  BY DEF TypeOK, EmulatorRecord
<1>1. Records'
  <2> SUFFICES ASSUME NEW e \in Emulator
               PROVE  /\ emulator'[e].state = "none" => emulator'[e] = Unborn
                      /\ e > started => emulator'[e].state = "none"
    BY DEF Records
  <2> QED BY <1>a, EndedAt DEF Records
<1>2. Told'
  <2> SUFFICES ASSUME NEW v \in Worker, device'[v] # 0
               PROVE  /\ emulator'[device'[v]].state \in {"up", "dead"}
                      /\ emulator'[device'[v]].state = "up" =>
                           /\ emulator'[device'[v]].client = v
                           /\ mnemonic'[v] # NoValue =>
                                emulator'[device'[v]].seed = mnemonic'[v]
                           /\ descriptor'[v] # NoValue =>
                                descriptor'[v] \in {emulator'[device'[v]].wallet,
                                                       emulator'[device'[v]].lost}
    BY DEF Told
  <2>1. v # w /\ device'[v] = device[v] /\ device[v] \in Emulator
    BY DEF TypeOK
  <2>2. mnemonic'[v] = mnemonic[v] /\ descriptor'[v] = descriptor[v] BY <2>1
  <2>3. CASE device[v] \in dying
    BY <1>a, <2>1, <2>3, EndedAt DEF Told
  <2>4. CASE device[v] \notin dying
    BY <1>a, <2>1, <2>2, <2>4, EndedAt DEF Told
  <2> QED BY <2>3, <2>4
<1> QED BY <1>1, <1>2

(* Nobody owns one more emulator after some have ended.                      *)
LEMMA EndedOwns ==
  ASSUME TypeOK, NEW w \in Worker \cup {NoValue}, NEW dying,
         emulator' = Ended(w, dying),
         NEW v \in Worker, NEW e \in Emulator,
         emulator'[e].starter = v, emulator'[e].state # "dead"
  PROVE  emulator[e].starter = v /\ emulator[e].state # "dead"
         /\ (e \notin dying \/ emulator[e].state = "none")
<1>1. emulator[e] \in EmulatorRecord BY DEF TypeOK, EmulatorRecord
<1>2. v # NoValue BY DeviceAssumption
<1> QED BY <1>1, <1>2, EndedAt

(* The connection is over and w forgets: ConnectFails, Serve_ends, Stopped.  *)
Forgets(w, dying) ==
  /\ emulator' = Ended(w, dying)
  /\ \A e \in Emulator :
       emulator[e].starter = w /\ emulator[e].state # "dead" => e \in dying \cup dropped
  /\ own' = [own EXCEPT ![w] = 0] /\ device' = [device EXCEPT ![w] = 0]
  /\ mnemonic'[w] = NoValue /\ descriptor'[w] = NoValue
  /\ at'[w] \in {"idle", "gone"} /\ (at'[w] = "gone" => caller[w] \/ ~ runtime'[w])
  /\ \A v \in Worker \ {w} :
       /\ mnemonic'[v] = mnemonic[v] /\ descriptor'[v] = descriptor[v]
       /\ at'[v] = at[v] /\ request'[v] = request[v] /\ runtime'[v] = runtime[v]
  /\ caller' = caller /\ started' = started /\ dropped' = dropped

LEMMA ForgetKeeps ==
  ASSUME TypeOK, TypeOK', Held, NEW w \in Worker, NEW dying, Forgets(w, dying)
  PROVE  Held'
<1> USE DEF Forgets
<1>1. Records' /\ Told'
  <2>1. \A v \in Worker \ {w} : device'[v] = device[v] BY DEF TypeOK
  <2>2. device'[w] = 0 BY DEF TypeOK
  <2> QED BY <2>1, <2>2, EndedKeeps DEF Held
<1>2. Owned'
  <2> SUFFICES ASSUME NEW v \in Worker
               PROVE  /\ \A e \in Emulator :
                           emulator'[e].starter = v /\ emulator'[e].state # "dead" =>
                             own'[v] = e \/ e \in dropped'
                      /\ device'[v] = 0 /\ at'[v] # "connect" => own'[v] \in dropped' \cup {0}
                      /\ at'[v] = "gone" => caller'[v] \/ ~ runtime'[v]
    BY DEF Owned
  <2>1. ASSUME NEW e \in Emulator, emulator'[e].starter = v, emulator'[e].state # "dead"
        PROVE  own'[v] = e \/ e \in dropped'
    <3>1. /\ emulator[e].starter = v /\ emulator[e].state # "dead"
          /\ e \notin dying \/ emulator[e].state = "none"
      BY <2>1, EndedOwns
    <3>2. emulator[e].state # "none"
      <4>1. v # NoValue BY DeviceAssumption
      <4> QED BY <3>1, <4>1 DEF Held, Records, Unborn
    <3>3. v # w \/ e \in dropped BY <3>1, <3>2
    <3> QED BY <3>1, <3>3 DEF Held, Owned, TypeOK
  <2>2. device'[v] = 0 /\ at'[v] # "connect" => own'[v] \in dropped' \cup {0}
    BY DEF Held, Owned, TypeOK
  <2>3. at'[v] = "gone" => caller'[v] \/ ~ runtime'[v] BY DEF Held, Owned
  <2> QED BY <2>1, <2>2, <2>3
<1>3. Opening' BY DEF Held, Opening, TypeOK
<1>4. InHand' BY DEF Held, InHand
<1> QED BY <1>1, <1>2, <1>3, <1>4 DEF Held

(* Nothing of the device or of its emulator changes.                         *)
LEMMA QuietKeeps ==
  ASSUME Held, UNCHANGED <<own, device, mnemonic, descriptor, emulator, started>>,
         dropped \subseteq dropped',
         \A w \in Worker :
            /\ at'[w] = at[w] \/ at'[w] \notin {"open", "connect", "gone"} \/ device[w] = 0
            /\ device[w] = 0 /\ at'[w] # "connect" => own[w] \in dropped' \cup {0}
            /\ at'[w] = "gone" => caller'[w] \/ ~ runtime'[w],
         InHand'
  PROVE  Held'
<1>1. Records' /\ Told' BY DEF Held, Records, Told
<1>2. Owned' BY DEF Held, Owned
<1>3. Opening' BY DEF Held, Opening
<1> QED BY <1>1, <1>2, <1>3 DEF Held

LEMMA HeldStep ==
  ASSUME TypeInv, TypeInv', Held, [Next]_vars
  PROVE  Held'
<1> USE DEF workerVars, Move, Answer, TypeInv
<1>1. ASSUME NEW w \in Worker, Ask(w) PROVE Held'
  <2>1. InHand' BY <1>1 DEF Ask, Held, InHand, TypeOK
  <2> QED BY <1>1, <2>1, QuietKeeps DEF Ask, Held, Owned, TypeOK
<1>2. ASSUME NEW w \in Worker, StartFails(w) PROVE Held'
  <2>1. CASE CloseDevice(w)
    <3>1. mnemonic[w] = NoValue /\ descriptor[w] = NoValue
      BY <1>2 DEF StartFails, Held, Opening
    <3>2. \A e \in Emulator : emulator[e].starter = w /\ emulator[e].state # "dead"
                                => e \in {own[w]} \cup dropped
      BY DEF Held, Owned
    <3>3. Forgets(w, {own[w]})
      BY <1>2, <2>1, <3>1, <3>2 DEF StartFails, CloseDevice, TypeOK, Forgets
    <3> QED BY <3>3, ForgetKeeps
  <2>2. CASE UNCHANGED <<own, device, mnemonic, descriptor, emulator>>
             /\ \E left \in {runtime[w], backend[w] = "jade"} :
                  runtime' = [runtime EXCEPT ![w] = left]
    <3>1. InHand' BY <1>2, <2>2 DEF StartFails, Held, InHand, TypeOK
    <3> QED BY <1>2, <2>2, <3>1, QuietKeeps DEF StartFails, Held, Owned, TypeOK
  <2> QED BY <1>2, <2>1, <2>2 DEF StartFails
<1>3. ASSUME NEW w \in Worker, SameMnemonic(w) PROVE Held'
  <2>1. InHand' BY <1>3 DEF SameMnemonic, AfterSeed, Held, InHand, TypeOK
  <2> QED BY <1>3, <2>1, QuietKeeps DEF SameMnemonic, AfterSeed, Held, Owned, TypeOK
<1>4. ASSUME NEW w \in Worker, NothingToEnroll(w) PROVE Held'
  <2>1. InHand' BY <1>4 DEF NothingToEnroll, Held, InHand, TypeOK
  <2> QED BY <1>4, <2>1, QuietKeeps DEF NothingToEnroll, Held, Owned, TypeOK
<1>5. ASSUME NEW w \in Worker, DeviceGone(w) PROVE Held'
  <2>1. InHand' BY <1>5 DEF DeviceGone, Held, InHand, TypeOK
  <2> QED BY <1>5, <2>1, QuietKeeps DEF DeviceGone, Held, Owned, TypeOK
<1>6. ASSUME NEW w \in Worker, CallerDies(w) PROVE Held'
  <2>1. InHand' BY <1>6 DEF CallerDies, Held, InHand
  <2> QED BY <1>6, <2>1, QuietKeeps DEF CallerDies, Held, Owned, TypeOK
<1>7. ASSUME NEW w \in Worker, Sign(w) PROVE Held'
  <2>1. InHand' BY <1>7 DEF Sign, Held, InHand, TypeOK
  <2> QED BY <1>7, <2>1, QuietKeeps DEF Sign, Held, Owned, TypeOK
<1>8. ASSUME NEW w \in Worker, ConnectFails(w) PROVE Held'
  <2>1. mnemonic[w] = NoValue /\ descriptor[w] = NoValue
    BY <1>8 DEF ConnectFails, Held, Opening
  <2>2. \A e \in Emulator : emulator[e].starter = w /\ emulator[e].state # "dead"
                              => e \in {own[w]} \cup dropped
    BY DEF Held, Owned
  <2>3. Forgets(w, {own[w]})
    BY <1>8, <2>1, <2>2 DEF ConnectFails, CloseDevice, TypeOK, Forgets
  <2> QED BY <2>3, ForgetKeeps
<1>9. ASSUME NEW w \in Worker, Serve_ends(w) PROVE Held'
  <2>1. \A e \in Emulator : emulator[e].starter = w /\ emulator[e].state # "dead"
                              => e \in {own[w]} \cup dropped
    BY DEF Held, Owned
  <2>2. Forgets(w, {own[w]}) BY <1>9, <2>1 DEF Serve_ends, Forget, TypeOK, Forgets
  <2> QED BY <2>2, ForgetKeeps
<1>10. ASSUME NEW w \in Worker, Stopped(w) PROVE Held'
  <2> DEFINE group == {e \in Emulator : emulator[e].starter = w}
  <2>1. \A e \in Emulator : emulator[e].starter = w /\ emulator[e].state # "dead"
                              => e \in group
    OBVIOUS
  <2>2. emulator' = Ended(w, group) BY <1>10 DEF Stopped
  <2> HIDE DEF group
  <2>3. Forgets(w, group) BY <1>10, <2>1, <2>2 DEF Stopped, Forget, TypeOK, Forgets
  <2> QED BY <2>3, ForgetKeeps
<1>11. ASSUME NEW w \in Worker, StartEmulator(w) PROVE Held'
  <2> DEFINE new == started + 1
  <2>1. new \in Emulator /\ new > started /\ new \notin {0, started}
    BY <1>11 DEF StartEmulator, Emulator, TypeOK
  <2>2. emulator[new] = Unborn /\ own[w] \in dropped \cup {0} /\ device[w] = 0
    BY <1>11, <2>1 DEF StartEmulator, Held, Records, Opening, Owned
  <2>3. /\ emulator'[new].state = "starting" /\ emulator'[new].starter = w
        /\ \A e \in Emulator \ {new} : emulator'[e] = emulator[e]
    BY <1>11, <2>1, <2>2 DEF StartEmulator, TypeOK, Unborn
  <2>4. started' = new BY <1>11 DEF StartEmulator
  <2> HIDE DEF new
  <2>5. Records'
    <3>1. \A e \in Emulator : e > new => e > started /\ e # new
      BY <2>1 DEF Emulator, TypeOK, new
    <3> QED BY <2>3, <2>4, <3>1 DEF Held, Records
  <2>6. Owned'
    <3>1. /\ own'[w] = new /\ at'[w] = "connect" /\ caller' = caller
          /\ \A v \in Worker \ {w} : /\ own'[v] = own[v] /\ at'[v] = at[v]
                                     /\ runtime'[v] = runtime[v] /\ device'[v] = device[v]
      BY <1>11 DEF StartEmulator, TypeOK, new
    <3>2. \A e \in Emulator : emulator'[e].starter = w /\ emulator'[e].state # "dead"
                               => e = new \/ e \in dropped
      BY <2>1, <2>2, <2>3 DEF Held, Owned, Emulator
    <3>3. dropped' = dropped BY <1>11 DEF StartEmulator
    <3> QED BY <2>3, <3>1, <3>2, <3>3 DEF Held, Owned
  <2>7. Opening' BY <1>11, <2>2 DEF StartEmulator, Held, Opening, TypeOK
  <2>8. Told'
    <3>1. \A v \in Worker : device[v] # 0 => device[v] \in Emulator \ {new}
      BY <2>2 DEF Held, Told, Unborn, TypeOK
    <3>2. UNCHANGED <<device, mnemonic, descriptor>> BY <1>11 DEF StartEmulator
    <3> QED BY <2>3, <3>1, <3>2 DEF Held, Told
  <2>9. InHand' BY <1>11 DEF StartEmulator, Held, InHand, TypeOK
  <2> QED BY <2>5, <2>6, <2>7, <2>8, <2>9 DEF Held
<1>12. ASSUME NEW w \in Worker, Connect(w) PROVE Held'
  <2>1. PICK e \in Reachable(w) : /\ device' = [device EXCEPT ![w] = e]
                                  /\ emulator' = [emulator EXCEPT ![e].client = w]
    BY <1>12 DEF Connect
  <2>2. /\ e \in Emulator /\ emulator[e].state = "up" /\ emulator[e].client = NoValue
        /\ e # 0
    BY DEF Reachable, Emulator
  <2>3. /\ \A f \in Emulator \ {e} : emulator'[f] = emulator[f]
        /\ emulator'[e].state = "up" /\ emulator'[e].starter = emulator[e].starter
        /\ emulator'[e].client = w
    BY <2>1, <2>2 DEF TypeOK
  <2>4. device[w] = 0 /\ mnemonic[w] = NoValue /\ descriptor[w] = NoValue
    BY <1>12 DEF Connect, Held, Opening
  <2>5. Records' BY <1>12, <2>2, <2>3 DEF Connect, Held, Records
  <2>6. Owned' BY <1>12, <2>1, <2>2, <2>3 DEF Connect, Held, Owned, TypeOK
  <2>7. Opening' BY <1>12, <2>1, <2>2 DEF Connect, Held, Opening, TypeOK
  <2>8. Told'
    <3>1. \A v \in Worker \ {w} : device[v] # 0 => device[v] \in Emulator \ {e}
      BY <2>2, DeviceAssumption DEF Held, Told, TypeOK
    <3>2. \A v \in Worker \ {w} : device'[v] = device[v] BY <2>1 DEF TypeOK
    <3>3. device'[w] = e BY <2>1 DEF TypeOK
    <3>4. UNCHANGED <<mnemonic, descriptor>> BY <1>12 DEF Connect
    <3>5. Told BY DEF Held
    <3> QED BY <2>3, <2>4, <3>1, <3>2, <3>3, <3>4, <3>5 DEF Told
  <2>9. InHand' BY <1>12 DEF Connect, Held, InHand, TypeOK
  <2> QED BY <2>5, <2>6, <2>7, <2>8, <2>9 DEF Held
<1>13. ASSUME NEW w \in Worker, SetMnemonic(w) PROVE Held'
  <2> DEFINE d == device[w]
  <2>1. d # 0 /\ d \in Emulator /\ request[w] \in Request /\ emulator[d].state = "up"
    BY <1>13 DEF SetMnemonic, Serving, TypeOK, Answers
  <2>2. PICK returned, taken \in BOOLEAN :
          /\ returned => taken
          /\ emulator' = [emulator EXCEPT ![d].seed =
                            IF taken THEN request[w].mnemonic ELSE @]
          /\ RememberMnemonic(w, returned)
          /\ IF returned THEN at' = [at EXCEPT ![w] = AfterSeed(w)] /\ UNCHANGED request
                         ELSE Answer(w)
    BY <1>13 DEF SetMnemonic
  <2>3. \A v \in Worker : device[v] = d => v = w
    BY <2>1 DEF Held, Told
  <2> HIDE DEF d
  <2>4. \A e \in Emulator : /\ emulator'[e].state = emulator[e].state
                            /\ emulator'[e].starter = emulator[e].starter
                            /\ emulator'[e].client = emulator[e].client
                            /\ emulator'[e].wallet = emulator[e].wallet
                            /\ emulator'[e].lost = emulator[e].lost
                            /\ e # d => emulator'[e] = emulator[e]
    BY <2>2 DEF TypeOK
  <2>5. /\ mnemonic'[w] = IF returned THEN request[w].mnemonic ELSE NoValue
        /\ \A v \in Worker \ {w} : mnemonic'[v] = mnemonic[v]
    BY <1>13, <2>2 DEF SetMnemonic, RememberMnemonic, TypeOK
  <2>6. returned => emulator'[d].seed = request[w].mnemonic
    BY <2>1, <2>2 DEF TypeOK
  <2>7. Records' BY <1>13, <2>1, <2>4 DEF SetMnemonic, Held, Records
  <2>8. AfterSeed(w) \in {"enroll", "sign"}
        /\ (AfterSeed(w) = "sign" => request[w].suite # "musig2-sp")
    BY DEF AfterSeed
  <2>9. /\ \A v \in Worker \ {w} : at'[v] = at[v] /\ request'[v] = request[v]
        /\ at'[w] = IF returned THEN AfterSeed(w) ELSE "idle"
        /\ returned => request'[w] = request[w]
    BY <2>2 DEF TypeOK
  <2>10. Owned'
    BY <1>13, <2>1, <2>4, <2>8, <2>9 DEF SetMnemonic, Held, Owned, TypeOK, d
  <2>11. Opening' BY <1>13, <2>1, <2>5, <2>8, <2>9 DEF SetMnemonic, Held, Opening, d
  <2>12. Told'
    <3> SUFFICES ASSUME NEW v \in Worker, device'[v] # 0
                 PROVE  /\ emulator'[device'[v]].state \in {"up", "dead"}
                        /\ emulator'[device'[v]].state = "up" =>
                             /\ emulator'[device'[v]].client = v
                             /\ mnemonic'[v] # NoValue =>
                                  emulator'[device'[v]].seed = mnemonic'[v]
                             /\ descriptor'[v] # NoValue =>
                                  descriptor'[v] \in {emulator'[device'[v]].wallet,
                                                       emulator'[device'[v]].lost}
      BY DEF Told
    <3>1. /\ device'[v] = device[v] /\ device[v] \in Emulator
          /\ descriptor'[v] = descriptor[v]
      BY <1>13 DEF SetMnemonic, TypeOK
    <3>2. CASE v = w BY <2>4, <2>5, <2>6, <3>1, <3>2 DEF Held, Told, d
    <3>3. CASE v # w BY <2>3, <2>4, <2>5, <3>1, <3>3 DEF Held, Told
    <3> QED BY <3>2, <3>3
  <2>13. InHand'
    BY <1>13, <2>5, <2>8, <2>9 DEF SetMnemonic, Held, InHand
  <2> QED BY <2>7, <2>10, <2>11, <2>12, <2>13 DEF Held
<1>14. ASSUME NEW w \in Worker, Enroll(w) PROVE Held'
  <2> DEFINE d == device[w]
  <2>1. d # 0 /\ d \in Emulator /\ request[w] \in Request /\ emulator[d].state = "up"
    BY <1>14 DEF Enroll, Serving, TypeOK, Answers
  <2>2. PICK returned, taken \in BOOLEAN :
          /\ returned => taken
          /\ emulator' = [emulator EXCEPT ![d] = Registered(@, w, returned, taken)]
          /\ RememberDescriptor(w, returned)
          /\ IF returned THEN at' = [at EXCEPT ![w] = "sign"] /\ UNCHANGED request
                         ELSE Answer(w)
    BY <1>14 DEF Enroll
  <2>3. \A v \in Worker : device[v] = d => v = w
    BY <2>1 DEF Held, Told
  <2> HIDE DEF d
  <2>4. \A e \in Emulator : /\ emulator'[e].state = emulator[e].state
                            /\ emulator'[e].starter = emulator[e].starter
                            /\ emulator'[e].client = emulator[e].client
                            /\ emulator'[e].seed = emulator[e].seed
                            /\ e # d => emulator'[e] = emulator[e]
    BY <2>2 DEF TypeOK, Registered
  <2>5. /\ descriptor'[w] = IF returned THEN request[w].descriptor ELSE descriptor[w]
        /\ \A v \in Worker \ {w} : descriptor'[v] = descriptor[v]
    BY <2>2 DEF RememberDescriptor, TypeOK
  <2>6. /\ emulator'[d].wallet = IF taken THEN request[w].descriptor ELSE emulator[d].wallet
        /\ emulator'[d].lost = IF returned THEN NoValue
                               ELSE IF taken THEN descriptor[w] ELSE emulator[d].lost
    BY <2>1, <2>2 DEF TypeOK, Registered
  <2>7. Records' BY <1>14, <2>1, <2>4 DEF Enroll, Held, Records
  <2>8. /\ \A v \in Worker \ {w} : at'[v] = at[v] /\ request'[v] = request[v]
        /\ at'[w] = IF returned THEN "sign" ELSE "idle"
        /\ returned => request'[w] = request[w]
    BY <2>2 DEF TypeOK
  <2>9. Owned' BY <1>14, <2>1, <2>4, <2>8 DEF Enroll, Held, Owned, TypeOK, d
  <2>10. Opening' BY <1>14, <2>1, <2>5, <2>8 DEF Enroll, Held, Opening, d
  <2>11. Told'
    <3> SUFFICES ASSUME NEW v \in Worker, device'[v] # 0
                 PROVE  /\ emulator'[device'[v]].state \in {"up", "dead"}
                        /\ emulator'[device'[v]].state = "up" =>
                             /\ emulator'[device'[v]].client = v
                             /\ mnemonic'[v] # NoValue =>
                                  emulator'[device'[v]].seed = mnemonic'[v]
                             /\ descriptor'[v] # NoValue =>
                                  descriptor'[v] \in {emulator'[device'[v]].wallet,
                                                       emulator'[device'[v]].lost}
      BY DEF Told
    <3>1. /\ device'[v] = device[v] /\ device[v] \in Emulator
          /\ mnemonic'[v] = mnemonic[v]
      BY <1>14 DEF Enroll, TypeOK
    <3>2. CASE v = w BY <2>2, <2>4, <2>5, <2>6, <3>1, <3>2 DEF Held, Told, d
    <3>3. CASE v # w BY <2>3, <2>4, <2>5, <3>1, <3>3 DEF Held, Told
    <3> QED BY <3>2, <3>3
  <2>12. InHand'
    BY <1>14, <2>5, <2>8 DEF Enroll, Held, InHand
  <2> QED BY <2>7, <2>9, <2>10, <2>11, <2>12 DEF Held
<1>15. ASSUME NEW e \in Emulator, emulator' = Ended(NoValue, {e}),
              UNCHANGED <<workerVars, started, dropped>>
       PROVE  Held'
  <2>1. NoValue \notin Worker BY DeviceAssumption
  <2>2. Records' /\ Told' BY <1>15, <2>1, EndedKeeps DEF Held
  <2>3. Owned'
    <3>1. \A w \in Worker, f \in Emulator :
            emulator'[f].starter = w /\ emulator'[f].state # "dead" =>
              emulator[f].starter = w /\ emulator[f].state # "dead"
      BY <1>15, EndedOwns
    <3> QED BY <1>15, <3>1 DEF Held, Owned
  <2>4. Opening' /\ InHand' BY <1>15 DEF Held, Opening, InHand
  <2> QED BY <2>2, <2>3, <2>4 DEF Held
<1>16. ASSUME NEW e \in Emulator, Listen(e) PROVE Held'
  <2>1. CASE emulator' = Ended(NoValue, {e}) BY <1>15, <1>16, <2>1 DEF Listen
  <2>2. CASE emulator' = [emulator EXCEPT ![e].state = "up"]
    <3>1. /\ \A f \in Emulator \ {e} : emulator'[f] = emulator[f]
          /\ emulator'[e].state = "up" /\ emulator'[e].starter = emulator[e].starter
          /\ emulator[e].state = "starting"
      BY <1>16, <2>2 DEF TypeOK, Listen
    <3>2. UNCHANGED <<workerVars, started, dropped>> BY <1>16 DEF Listen
    <3>3. Records' BY <3>1, <3>2 DEF Held, Records
    <3>4. Owned' BY <3>1, <3>2 DEF Held, Owned
    <3>5. Told'
      <4>1. \A v \in Worker : device[v] # 0 => device[v] \in Emulator \ {e}
        BY <3>1 DEF Held, Told, TypeOK
      <4> QED BY <3>1, <3>2, <4>1 DEF Held, Told
    <3>6. Opening' /\ InHand' BY <3>2 DEF Held, Opening, InHand
    <3> QED BY <3>3, <3>4, <3>5, <3>6 DEF Held
  <2> QED BY <1>16, <2>1, <2>2 DEF Listen
<1>17. ASSUME NEW e \in Emulator, EmulatorDies(e) PROVE Held'
  BY <1>15, <1>17 DEF EmulatorDies
<1>18. CASE UNCHANGED vars
  BY <1>18 DEF vars, Held, Records, Owned, Opening, Told, InHand
<1>19. ASSUME NEW w \in Worker, ConnectRaises(w) PROVE Held'
  <2>1. InHand' BY <1>19 DEF ConnectRaises, Held, InHand, TypeOK
  <2>2. \A v \in Worker : device[v] = 0 /\ at'[v] # "connect" =>
                            own[v] \in dropped' \cup {0}
    BY <1>19 DEF ConnectRaises, Held, Owned, TypeOK
  <2> QED BY <1>19, <2>1, <2>2, QuietKeeps DEF ConnectRaises, Held, Owned, TypeOK
<1> QED
  BY <1>1, <1>2, <1>3, <1>4, <1>5, <1>6, <1>7, <1>8, <1>9, <1>10, <1>11, <1>12, <1>13,
     <1>14, <1>16, <1>17, <1>18, <1>19 DEF Next, Proceed

LEMMA SafeInvariant == Spec => []SafeInv
<1>1. Init => SafeInv BY TypeStart, HeldStart DEF SafeInv
<1>2. SafeInv /\ [Next]_vars => SafeInv'
  <2> SUFFICES ASSUME SafeInv, [Next]_vars PROVE SafeInv' OBVIOUS
  <2>1. TypeInv' BY TypeStep DEF SafeInv
  <2> QED BY <2>1, HeldStep DEF SafeInv
<1> QED BY <1>1, <1>2, PTL DEF Spec

(* Whenever a worker asks its device to sign, the device holds the mnemonic  *)
(* of the request, and for MuSig2 its descriptor: every later failure, other *)
(* requests and other workers leave both.                                    *)
THEOREM SignsWithTheRequestsKeys == Spec => []SignsWithRequestKeys
<1>1. SafeInv => SignsWithRequestKeys
  <2> SUFFICES ASSUME SafeInv, NEW w \in Worker, at[w] = "sign", Answers(w)
               PROVE  /\ emulator[device[w]].seed = request[w].mnemonic
                      /\ request[w].suite = "musig2-sp" =>
                           request[w].descriptor \in {emulator[device[w]].wallet,
                                                      emulator[device[w]].lost}
    BY DEF SignsWithRequestKeys
  <2>1. device[w] # 0 /\ emulator[device[w]].state = "up" /\ request[w] \in Request
    BY DEF SafeInv, TypeInv, Serving, Answers
  <2>2. request[w].mnemonic # NoValue BY <2>1, DeviceAssumption DEF Request
  <2>3. mnemonic[w] = request[w].mnemonic BY DEF SafeInv, Held, InHand
  <2>4. emulator[device[w]].seed = request[w].mnemonic
    BY <2>1, <2>2, <2>3 DEF SafeInv, Held, Told
  <2>5. request[w].suite = "musig2-sp" =>
          request[w].descriptor \in {emulator[device[w]].wallet, emulator[device[w]].lost}
    BY <2>1 DEF SafeInv, Held, InHand, Told
  <2> QED BY <2>4, <2>5
<1> QED BY <1>1, SafeInvariant, PTL

(* The emulators of a worker that is gone are dead, those a raise left       *)
(* unattended aside, and one that left by itself left no directory.          *)
THEOREM AGoneWorkerLeavesNothing == Spec => []GoneLeavesNothing
<1>1. SafeInv => GoneLeavesNothing
  <2> SUFFICES ASSUME SafeInv, NEW w \in Worker, at[w] = "gone"
               PROVE  /\ \A e \in Emulator \ dropped :
                           emulator[e].starter = w => emulator[e].state = "dead"
                      /\ ~ caller[w] => ~ runtime[w]
    BY DEF GoneLeavesNothing
  <2>1. own[w] \in dropped \cup {0} BY DEF SafeInv, Held, Opening, Owned
  <2>2. \A e \in Emulator : e # 0 BY DEF Emulator
  <2> QED BY <2>1, <2>2 DEF SafeInv, Held, Owned
<1> QED BY <1>1, SafeInvariant, PTL
=============================================================================
