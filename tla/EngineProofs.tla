---------------------------- MODULE EngineProofs ----------------------------
(***************************************************************************)
(* Proofs about run_rounds (Engine.tla), for every set of signers, records,*)
(* scenarios, orders and returned PSBTs the assumptions allow.             *)
(***************************************************************************)
EXTENDS Engine, SequenceTheorems, WellFoundedInduction, TLAPS

-----------------------------------------------------------------------------
(* The merge                                                               *)

(* What merge_parsed_psbts returns is a PSBT again.                         *)
LEMMA MergedIsPsbt ==
  ASSUME NEW base \in Psbt, NEW contribution \in Psbt
  PROVE  Merged(base, contribution) \in Psbt
  <1>1. {} \in Content \cup {Absent}
    BY DEF Content, FlagByte
  <1>2. \A s \in Slot : base[s] \in Content \cup {Absent} /\ contribution[s] \in Content \cup {Absent}
    BY DEF Psbt
  <1> QED
    BY <1>1, <1>2 DEF Merged, Psbt

(* A merge that is not refused carries everything the base carried.         *)
LEMMA MergeExtends ==
  ASSUME NEW base \in Psbt, NEW contribution \in Psbt, NEW policy,
         Mergeable(base, contribution, policy)
  PROVE  Additive!Extends(base, Merged(base, contribution))
  <1> DEFINE merged == Merged(base, contribution)
  <1>1. ASSUME NEW s \in Protected PROVE merged[s] = base[s]
    <2>1. s \in Slot /\ ~ IsFlags(s)
      BY <1>1, PsbtAssumption DEF Protected, ProtectedFields, IsFlags
    <2>2. contribution[s] = base[s]
      BY <1>1 DEF Mergeable, SameTransaction
    <2> QED BY <2>1, <2>2 DEF Merged
  <1>2. ASSUME NEW s \in Slot, ~ IsFlags(s), base[s] # Absent PROVE merged[s] = base[s]
    BY <1>2 DEF Merged
  <1>3. ASSUME NEW s \in Slot, IsFlags(s)
        PROVE  \/ merged[s] = base[s]
               \/ merged[s] = {}
               \/ base[s] \in FlagByte /\ merged[s] \in FlagByte /\ merged[s] \subseteq base[s]
    <2>1. ~ FlagsRefused(base[s], contribution[s])
      BY <1>3 DEF Mergeable, ConflictRefused
    <2>2. merged[s] = IF base[s] # Absent /\ contribution[s] = Absent THEN {} ELSE contribution[s]
      BY <1>3 DEF Merged
    <2> QED BY <2>1, <2>2 DEF FlagsRefused
  <1> HIDE DEF merged
  <1>4. QED BY <1>1, <1>2, <1>3
    DEF merged, Additive!Extends, Additive!Protected, Additive!ProtectedFields, Additive!IsFlags,
        Additive!FlagByte, Protected, ProtectedFields, IsFlags, FlagByte

-----------------------------------------------------------------------------
(* The schedule                                                            *)

(* Whose turn it is: a signer that is still waiting, whatever the order.    *)
LEMMA FirstIsWaiting ==
  ASSUME NEW sc \in Scenarios, NEW S, S \subseteq AllSigners(sc), S # {}
  PROVE  FirstOf(sc, S) \in S
  <1> DEFINE T == {k \in DOMAIN sc.order : sc.order[k] \in S}
             R == OpToRel(<, Nat)
  <1>1. /\ sc.order \in Seq(Signer) /\ Range(sc.order) = AllSigners(sc)
    BY EngineAssumption DEF ValidScenario, AllSigners
  <1>2. DOMAIN sc.order \subseteq Nat
    BY <1>1
  <1>3. T # {}
    BY <1>1 DEF Range
  <1>4. \E k \in T : \A j \in T : ~ (<<j, k>> \in R)
    BY <1>2, <1>3, WFMin, NatLessThanWellFounded
  <1>5. PICK k \in T : \A j \in T : ~ (j < k)
    BY <1>2, <1>4 DEF OpToRel
  <1>6. \A j \in DOMAIN sc.order : j < k => sc.order[j] \notin S
    BY <1>5
  <1> QED BY <1>5, <1>6 DEF FirstOf

(* A schedule has at least one round, and its signers are signers.          *)
LEMMA RoundsTyped ==
  ASSUME NEW sc \in Scenarios
  PROVE  /\ Rounds(sc) \in Seq([phase : Phase, signers : SUBSET AllSigners(sc)])
         /\ Len(Rounds(sc)) \in Nat \ {0}
         /\ AllSigners(sc) \subseteq Signer
  <1> DEFINE R == [phase : Phase, signers : SUBSET AllSigners(sc)]
  <1>1. /\ sc.names \in Seq(Signer) /\ sc.names # <<>>
    BY EngineAssumption DEF ValidScenario
  <1>2. AllSigners(sc) \subseteq Signer /\ LastSigner(sc) \in AllSigners(sc)
    BY <1>1 DEF AllSigners, LastSigner, Range
  <1>3. \A p \in Phase, S \in SUBSET AllSigners(sc) : OneRound(p, S) \in R
    BY DEF OneRound
  <1>4. AllSigners(sc) \in SUBSET AllSigners(sc) /\ {LastSigner(sc)} \in SUBSET AllSigners(sc)
        /\ OtherSigners(sc) \in SUBSET AllSigners(sc)
    BY <1>2 DEF OtherSigners
  <1>5. CollectRounds(sc) \in Seq(R) /\ Len(CollectRounds(sc)) = 3
    BY <1>3, <1>4 DEF CollectRounds, Phase
  <1>6. << OneRound("resolve-sign", AllSigners(sc)) >> \in Seq(R)
        /\ OneRound("redundant-sign", AllSigners(sc)) \in R
        /\ << OneRound("round1", AllSigners(sc)), OneRound("round2", AllSigners(sc)) >> \in Seq(R)
    BY <1>3, <1>4 DEF Phase
  <1> DEFINE single == sc.mode = "global" \/ Len(sc.names) = 1 \/ ~ sc.spOutput
             passes == IF single THEN << OneRound("resolve-sign", AllSigners(sc)) >>
                                 ELSE CollectRounds(sc)
  <1>7. passes \in Seq(R) /\ Len(passes) \in Nat \ {0}
    <2>1. Len(<< OneRound("resolve-sign", AllSigners(sc)) >>) = 1
      OBVIOUS
    <2>2. \/ passes = << OneRound("resolve-sign", AllSigners(sc)) >>
          \/ passes = CollectRounds(sc)
      OBVIOUS
    <2> HIDE DEF passes, R
    <2> DEFINE lone == << OneRound("resolve-sign", AllSigners(sc)) >>
    <2>3. lone \in Seq(R) /\ Len(lone) = 1
      BY <1>6, <2>1
    <2>4. passes = lone \/ passes = CollectRounds(sc)
      BY <2>2
    <2> HIDE DEF lone
    <2>5. passes \in Seq(R)
      BY <1>5, <2>3, <2>4
    <2>6. Len(passes) = 1 \/ Len(passes) = 3
      BY <1>5, <2>3, <2>4
    <2> QED BY <2>5, <2>6
  <1>8. Append(passes, OneRound("redundant-sign", AllSigners(sc))) \in Seq(R)
        /\ Len(Append(passes, OneRound("redundant-sign", AllSigners(sc)))) \in Nat \ {0}
    <2> HIDE DEF passes, R
    <2> QED BY <1>6, <1>7
  <1>9. Rounds(sc) = IF sc.suite = "musig2-sp"
          THEN << OneRound("round1", AllSigners(sc)), OneRound("round2", AllSigners(sc)) >>
          ELSE IF sc.redundant THEN Append(passes, OneRound("redundant-sign", AllSigners(sc)))
                               ELSE passes
    BY DEF Rounds
  <1> QED
    <2> HIDE DEF passes, R
    <2>1. Rounds(sc) \in Seq(R) /\ Len(Rounds(sc)) \in Nat \ {0}
      BY <1>6, <1>7, <1>8, <1>9
    <2> QED BY <2>1, <1>2 DEF R

-----------------------------------------------------------------------------
(* Types                                                                   *)

(* A round of the schedule, as RoundsTyped gives it.                        *)
LEMMA RoundTyped ==
  ASSUME NEW sc \in Scenarios, NEW k \in 1 .. Len(Rounds(sc))
  PROVE  Rounds(sc)[k].phase \in Phase /\ Rounds(sc)[k].signers \subseteq AllSigners(sc)
  <1> DEFINE R == [phase : Phase, signers : SUBSET AllSigners(sc)]
  <1>1. Rounds(sc) \in Seq(R)
    BY RoundsTyped
  <1>2. Rounds(sc)[k] \in R
    <2> HIDE DEF R
    <2> QED BY <1>1, ElementOfSeq
  <1> QED BY <1>2

(* Whatever a signer returns is a PSBT.                                     *)
LEMMA OffersArePsbts ==
  ASSUME TypeOK
  PROVE  Offers \subseteq Psbt
  <1> SUFFICES ASSUME NEW ch \in Changes(scenario), NEW s \in Slot
               PROVE  (IF s \in DOMAIN ch THEN ch[s] ELSE current[s]) \in Content \cup {Absent}
    BY DEF Offers, Psbt
  <1>1. s \in DOMAIN ch => ch[s] \in Content \cup {Absent}
    BY EngineAssumption DEF TypeOK
  <1>2. current[s] \in Content \cup {Absent}
    BY DEF TypeOK, Psbt
  <1> QED BY <1>1, <1>2

(* The signer whose turn it is still has one, and the phase is a phase.     *)
LEMMA TurnTyped ==
  ASSUME TypeOK, Working
  PROVE  /\ TurnSigner \in waiting /\ TurnSigner \in Signer
         /\ TurnPhase \in Phase
  <1>1. waiting \subseteq AllSigners(scenario)
    BY RoundTyped DEF TypeOK
  <1>2. TurnSigner \in waiting
    BY <1>1, FirstIsWaiting DEF TypeOK, Working, TurnSigner
  <1>3. TurnSigner \in Signer
    BY <1>1, <1>2, RoundsTyped DEF TypeOK
  <1>4. TurnPhase \in Phase
    BY RoundTyped DEF TypeOK, TurnPhase
  <1> QED BY <1>2, <1>3, <1>4

(* What a merged step leaves behind is typed.                               *)
LEMMA TakeMergeTyped ==
  ASSUME TypeOK, Working, NEW returned \in Psbt, TakeMerge(returned)
  PROVE  /\ current' \in Psbt /\ step' \in Nat
         /\ repairs' \subseteq [step : Nat, phase : Phase, signer : Signer, slot : Slot]
         /\ author' \in [Slot -> [signer : Signer, phase : Phase] \cup {NoOne}]
  <1>1. TurnSigner \in Signer /\ TurnPhase \in Phase
    BY TurnTyped
  <1>2. current' \in Psbt
    BY MergedIsPsbt DEF TakeMerge, TypeOK
  <1>3. step' \in Nat
    BY DEF TakeMerge, TypeOK
  <1>4. repairs' \subseteq [step : Nat, phase : Phase, signer : Signer, slot : Slot]
    <2>1. ASSUME NEW s \in Repairs(current, returned)
          PROVE  [step |-> step + 1, phase |-> TurnPhase, signer |-> TurnSigner, slot |-> s]
                   \in [step : Nat, phase : Phase, signer : Signer, slot : Slot]
      <3>1. s \in Slot /\ step + 1 \in Nat
        BY DEF Repairs, TypeOK
      <3> QED BY <1>1, <3>1
    <2> QED BY <2>1 DEF TakeMerge, TypeOK
  <1>5. author' \in [Slot -> [signer : Signer, phase : Phase] \cup {NoOne}]
    <2>1. [signer |-> TurnSigner, phase |-> TurnPhase] \in [signer : Signer, phase : Phase]
      BY <1>1
    <2> QED BY <2>1 DEF TakeMerge, TypeOK
  <1> QED BY <1>2, <1>3, <1>4, <1>5

(* The loop stays inside the schedule.                                      *)
LEMMA AdvanceTyped ==
  ASSUME TypeOK, Working, Advance
  PROVE  round' \in 1 .. Len(Rounds(scenario)) /\ waiting' \subseteq Rounds(scenario)[round'].signers
  <1>1. round \in 1 .. Len(Rounds(scenario)) /\ Len(Rounds(scenario)) \in Nat
    BY RoundsTyped DEF TypeOK
  <1> DEFINE left == waiting \ {TurnSigner}
             more == left = {} /\ round < Len(Rounds(scenario))
  <1>2. CASE more
    BY <1>1, <1>2 DEF Advance
  <1>3. CASE ~ more
    <2>1. round' = round /\ waiting' = left
      BY <1>3 DEF Advance
    <2> QED BY <2>1, <1>1 DEF TypeOK
  <1> QED BY <1>2, <1>3

(* The run starts well typed.                                               *)
LEMMA InitTyped == Init => TypeOK
  <1> SUFFICES ASSUME Init PROVE TypeOK
    OBVIOUS
  <1>1. scenario \in Scenarios /\ initial \in Psbt /\ current \in Psbt
    BY EngineAssumption DEF Init
  <1>2. round \in 1 .. Len(Rounds(scenario))
    <2>1. Len(Rounds(scenario)) \in Nat \ {0} /\ round = 1
      BY <1>1, RoundsTyped DEF Init
    <2>2. \A n \in Nat \ {0} : 1 \in 1 .. n
      OBVIOUS
    <2> QED BY <2>1, <2>2
  <1>3. waiting \subseteq Rounds(scenario)[round].signers
    BY DEF Init
  <1>4. author \in [Slot -> [signer : Signer, phase : Phase] \cup {NoOne}]
    BY DEF Init
  <1> QED BY <1>1, <1>2, <1>3, <1>4 DEF Init, TypeOK

(* Every action keeps the types.                                            *)
LEMMA NextTyped == TypeOK /\ [Next]_vars => TypeOK'
  <1> SUFFICES ASSUME TypeOK, [Next]_vars PROVE TypeOK'
    OBVIOUS
  <1>1. ASSUME NEW error \in {"worker", "warning", "format", "contract", "merge"}, Raise(error)
        PROVE  TypeOK'
    BY <1>1 DEF Raise, TypeOK
  <1>2. CASE WorkerFails
    BY <1>1, <1>2 DEF WorkerFails
  <1>3. CASE RejectWarning
    BY <1>1, <1>3 DEF RejectWarning
  <1>4. ASSUME NEW returned \in Offers, SignerStep(returned) PROVE TypeOK'
    <2>1. returned \in Psbt /\ Working
      BY <1>4, OffersArePsbts DEF SignerStep
    <2>2. CASE RejectStep(Verdict(returned))
      <3>1. Verdict(returned) \in {"format", "contract", "merge"}
        BY <2>2 DEF RejectStep, Verdict
      <3> QED BY <1>1, <2>2, <3>1 DEF RejectStep
    <2>3. CASE AcceptStep(Verdict(returned), returned)
      <3>1. TakeMerge(returned) /\ Advance /\ UNCHANGED <<scenario, initial, outcome>>
        BY <2>3 DEF AcceptStep
      <3> QED BY <2>1, <3>1, TakeMergeTyped, AdvanceTyped DEF TypeOK
    <2>4. CASE RejectRound(Verdict(returned), returned)
      <3>1. TakeMerge(returned) /\ outcome' = "round"
            /\ UNCHANGED <<scenario, initial, round, waiting>>
        BY <2>4 DEF RejectRound
      <3> QED BY <2>1, <3>1, TakeMergeTyped DEF TypeOK
    <2> QED BY <1>4, <2>2, <2>3, <2>4 DEF SignerStep
  <1>5. CASE Finish
    BY <1>5 DEF Finish, TypeOK
  <1>6. CASE UNCHANGED vars
    BY <1>6 DEF vars, TypeOK
  <1> QED BY <1>2, <1>3, <1>4, <1>5, <1>6 DEF Next

(* The state of run_rounds is well typed throughout every run: the carried  *)
(* PSBT is one, and the loop never leaves its schedule.                     *)
THEOREM TypeCorrect == Spec => []TypeOK
  BY InitTyped, NextTyped, PTL DEF Spec

-----------------------------------------------------------------------------
(* What a step does to the PSBT and to its authors                         *)

(* The inputs of a run never change.                                        *)
LEMMA RunFixed ==
  ASSUME [Next]_vars
  PROVE  scenario' = scenario /\ initial' = initial
  BY DEF Next, vars, WorkerFails, RejectWarning, SignerStep, RejectStep, AcceptStep,
         RejectRound, Finish, Raise

(* A step either takes a merge that every check let pass, or leaves the     *)
(* PSBT, its authors and the repairs alone.                                 *)
LEMMA StepMerges ==
  ASSUME TypeOK, [Next]_vars
  PROVE  \/ UNCHANGED <<current, author, repairs, step>>
         \/ \E returned \in Psbt :
              /\ Working
              /\ ContractKept(scenario, TurnPhase, TurnSigner, current, returned)
              /\ Mergeable(current, returned, scenario.policy)
              /\ TakeMerge(returned)
  <1>1. ASSUME NEW error, Raise(error) PROVE UNCHANGED <<current, author, repairs, step>>
    BY <1>1 DEF Raise
  <1>2. CASE WorkerFails \/ RejectWarning
    BY <1>1, <1>2 DEF WorkerFails, RejectWarning
  <1>3. ASSUME NEW returned \in Offers, SignerStep(returned)
        PROVE  \/ UNCHANGED <<current, author, repairs, step>>
               \/ /\ returned \in Psbt /\ Working
                  /\ ContractKept(scenario, TurnPhase, TurnSigner, current, returned)
                  /\ Mergeable(current, returned, scenario.policy)
                  /\ TakeMerge(returned)
    <2>1. returned \in Psbt /\ Working
      BY <1>3, OffersArePsbts DEF SignerStep
    <2>2. CASE RejectStep(Verdict(returned))
      BY <1>1, <2>2 DEF RejectStep
    <2>3. CASE AcceptStep(Verdict(returned), returned) \/ RejectRound(Verdict(returned), returned)
      <3>1. Verdict(returned) = "ok" /\ TakeMerge(returned)
        BY <2>3 DEF AcceptStep, RejectRound
      <3>2. /\ ContractKept(scenario, TurnPhase, TurnSigner, current, returned)
            /\ Mergeable(current, returned, scenario.policy)
        BY <3>1 DEF Verdict
      <3> QED BY <2>1, <3>1, <3>2
    <2> QED BY <1>3, <2>2, <2>3 DEF SignerStep
  <1>4. CASE Finish \/ UNCHANGED vars
    BY <1>4 DEF Finish, vars
  <1> QED BY <1>2, <1>3, <1>4 DEF Next

(* A step extends the carried PSBT.                                         *)
LEMMA StepExtends ==
  ASSUME TypeOK, [Next]_vars
  PROVE  UNCHANGED current \/ Additive!Extends(current, current')
  <1>1. CASE UNCHANGED <<current, author, repairs, step>>
    BY <1>1
  <1>2. ASSUME NEW returned \in Psbt, Mergeable(current, returned, scenario.policy),
               TakeMerge(returned)
        PROVE  Additive!Extends(current, current')
    <2>1. current' = Merged(current, returned) /\ current \in Psbt
      BY <1>2 DEF TakeMerge, TypeOK
    <2>2. Additive!Extends(current, Merged(current, returned))
      BY <1>2, <2>1, MergeExtends
    <2> QED BY <2>1, <2>2
  <1> QED BY <1>1, <1>2, StepMerges

(* The carried PSBT only ever grows: run_rounds implements AdditivePsbt.     *)
THEOREM CarriedPsbtOnlyGrows == Spec => OnlyGrows
  <1>1. Init => Additive!Init
    BY InitTyped DEF TypeOK, Additive!Init, Additive!Psbt, Additive!Content, Additive!FlagByte,
                     Psbt, Content, FlagByte
  <1>2. TypeOK /\ TypeOK' /\ [Next]_vars => [Additive!Next]_current
    BY StepExtends DEF TypeOK, Additive!Next, Additive!Psbt, Additive!Content, Additive!FlagByte,
                       Psbt, Content, FlagByte
  <1> QED BY <1>1, <1>2, TypeCorrect, PTL DEF Spec, OnlyGrows, Additive!Spec

(* The records a run started from survive it, byte for byte.                *)
THEOREM InitialRecordsSurvive == Spec => []InitialSurvives
  <1>1. Init => InitialSurvives
    BY DEF Init, InitialSurvives
  <1>2. TypeOK /\ InitialSurvives /\ [Next]_vars => InitialSurvives'
    <2> SUFFICES ASSUME TypeOK, InitialSurvives, [Next]_vars PROVE InitialSurvives'
      OBVIOUS
    <2>1. initial' = initial
      BY RunFixed
    <2>2. CASE UNCHANGED current
      BY <2>1, <2>2 DEF InitialSurvives
    <2>3. CASE Additive!Extends(current, current')
      <3>1. \A s \in Protected : current'[s] = current[s]
        BY <2>3 DEF Additive!Extends, Additive!Protected, Additive!ProtectedFields,
                    Protected, ProtectedFields
      <3>2. \A s \in Slot : ~ IsFlags(s) /\ current[s] # Absent => current'[s] = current[s]
        BY <2>3 DEF Additive!Extends, Additive!IsFlags, IsFlags
      <3> QED BY <2>1, <3>1, <3>2 DEF InitialSurvives
    <2> QED BY <2>2, <2>3, StepExtends
  <1> QED BY <1>1, <1>2, TypeCorrect, PTL DEF Spec

-----------------------------------------------------------------------------
(* Who put a record in                                                     *)

(* A record with an author is in the PSBT.                                  *)
AuthorsHold == \A s \in Slot : author[s] # NoOne => current[s] # Absent

(* A record a merge adds came from the signer, who is named as its author.  *)
LEMMA MergeAuthors ==
  ASSUME TypeOK, Working, NEW returned \in Psbt, TakeMerge(returned), NEW s \in Slot
  PROVE  /\ current[s] # Absent => author'[s] = author[s] /\ current'[s] # Absent
         /\ ~ IsFlags(s) /\ current[s] # Absent => current'[s] = current[s]
         /\ current[s] = Absent => current'[s] = returned[s]
         /\ current[s] = Absent /\ returned[s] = Absent => author'[s] = author[s]
         /\ current[s] = Absent /\ returned[s] # Absent
              => author'[s] = [signer |-> TurnSigner, phase |-> TurnPhase]
  <1>1. current' = Merged(current, returned) /\ current \in Psbt
    BY DEF TakeMerge, TypeOK
  <1>2. current'[s] = IF IsFlags(s)
                        THEN IF current[s] # Absent /\ returned[s] = Absent
                               THEN {} ELSE returned[s]
                        ELSE IF current[s] = Absent THEN returned[s] ELSE current[s]
    BY <1>1 DEF Merged
  <1>3. author'[s] = IF IsAdded(current, current', s)
                       THEN [signer |-> TurnSigner, phase |-> TurnPhase]
                       ELSE author[s]
    BY DEF TakeMerge
  <1>4. {} # Absent
    BY PsbtAssumption DEF Content, FlagByte
  <1> QED BY <1>2, <1>3, <1>4 DEF IsAdded

LEMMA AuthorsHoldStep == TypeOK /\ AuthorsHold /\ [Next]_vars => AuthorsHold'
  <1> SUFFICES ASSUME TypeOK, AuthorsHold, [Next]_vars, NEW s \in Slot, author'[s] # NoOne
               PROVE  current'[s] # Absent
    BY DEF AuthorsHold
  <1>1. CASE UNCHANGED <<current, author, repairs, step>>
    BY <1>1 DEF AuthorsHold
  <1>2. ASSUME NEW returned \in Psbt, Working, TakeMerge(returned)
        PROVE  current'[s] # Absent
    BY <1>2, MergeAuthors DEF AuthorsHold
  <1> QED BY <1>1, <1>2, StepMerges

LEMMA AuthorsAreHeld == Spec => []AuthorsHold
  <1>1. Init => AuthorsHold
    BY DEF Init, AuthorsHold
  <1> QED BY <1>1, AuthorsHoldStep, TypeCorrect, PTL DEF Spec

(* Signatures, and per-input shares and proofs, come from the input's owner. *)
THEOREM OwnersSpeak == Spec => []OwnersSpeakForInputs
  <1>1. Init => OwnersSpeakForInputs
    BY DEF Init, OwnersSpeakForInputs
  <1>2. TypeOK /\ OwnersSpeakForInputs /\ [Next]_vars => OwnersSpeakForInputs'
    <2> SUFFICES ASSUME TypeOK, OwnersSpeakForInputs, [Next]_vars,
                        NEW s \in Slot, author'[s] # NoOne, author'[s].phase \in CheckedPhases,
                        IsSignature(s) \/ (s.scope = "input" /\ s.field \in ShareFields)
                 PROVE  s.index \in Owned(scenario, author'[s].signer)
      BY RunFixed DEF OwnersSpeakForInputs
    <2>1. CASE author'[s] = author[s]
      BY <2>1 DEF OwnersSpeakForInputs
    <2>2. ASSUME NEW returned \in Psbt, Working, TakeMerge(returned), author'[s] # author[s],
                 ContractKept(scenario, TurnPhase, TurnSigner, current, returned)
          PROVE  s.index \in Owned(scenario, author'[s].signer)
      <3>1. /\ IsAdded(current, returned, s)
            /\ author'[s] = [signer |-> TurnSigner, phase |-> TurnPhase]
        BY <2>2, MergeAuthors DEF IsAdded
      <3>2. Security(s)
        BY DEF Security, SecurityFields, IsSignature
      <3>3. AdditionAllowed(scenario, TurnPhase, TurnSigner, current, returned, s)
        BY <2>2, <3>1, <3>2 DEF ContractKept
      <3>4. s.index \in Owned(scenario, TurnSigner)
        BY <3>3 DEF AdditionAllowed, SignatureAllowed, WitnessAllowed, ShareAllowed,
                    ScriptAllowed, IsSignature, SignatureFields, ShareFields
      <3> QED BY <3>1, <3>4
    <2> QED BY <2>1, <2>2, StepMerges
  <1> QED BY <1>1, <1>2, TypeCorrect, PTL DEF Spec

(* A final witness is made of a signature that the same signer added on its *)
(* input in the same phase, and that is still held.                         *)
THEOREM WitnessesAreOwnSignatures == Spec => []WitnessIsOwnSignature
  <1>1. Init => WitnessIsOwnSignature
    BY DEF Init, WitnessIsOwnSignature, WitnessTaken
  <1>2. TypeOK /\ AuthorsHold /\ WitnessIsOwnSignature /\ [Next]_vars
          => WitnessIsOwnSignature'
    <2> SUFFICES ASSUME TypeOK, AuthorsHold, WitnessIsOwnSignature, [Next]_vars,
                        NEW s \in Slot, author'[s] # NoOne, author'[s].phase \in CheckedPhases,
                        s.scope = "input", s.field = "final_scriptwitness"
                 PROVE  \E t \in Slot : /\ IsSignature(t) /\ t.index = s.index
                                        /\ current'[s] = Stack(WitnessItems(t, current'[t]))
                                        /\ author'[t] = author'[s]
      BY DEF WitnessIsOwnSignature, WitnessTaken
    <2>1. CASE UNCHANGED <<current, author, repairs, step>>
      BY <2>1 DEF WitnessIsOwnSignature, WitnessTaken
    <2>2. ASSUME NEW returned \in Psbt, Working, TakeMerge(returned), author'[s] = author[s]
          PROVE  \E t \in Slot : /\ IsSignature(t) /\ t.index = s.index
                                 /\ current'[s] = Stack(WitnessItems(t, current'[t]))
                                 /\ author'[t] = author'[s]
      <3>1. PICK t \in Slot : /\ IsSignature(t) /\ t.index = s.index
                              /\ current[s] = Stack(WitnessItems(t, current[t]))
                              /\ author[t] = author[s]
        BY <2>2 DEF WitnessIsOwnSignature, WitnessTaken
      <3>2. current[s] # Absent /\ current[t] # Absent
        BY <2>2, <3>1 DEF AuthorsHold
      <3>3. ~ IsFlags(s) /\ ~ IsFlags(t)
        BY <3>1 DEF IsFlags, IsSignature
      <3>4. current'[s] = current[s] /\ current'[t] = current[t] /\ author'[t] = author[t]
        BY <2>2, <3>2, <3>3, MergeAuthors
      <3> QED BY <2>2, <3>1, <3>4
    <2>3. ASSUME NEW returned \in Psbt, Working, TakeMerge(returned), author'[s] # author[s],
                 ContractKept(scenario, TurnPhase, TurnSigner, current, returned)
          PROVE  \E t \in Slot : /\ IsSignature(t) /\ t.index = s.index
                                 /\ current'[s] = Stack(WitnessItems(t, current'[t]))
                                 /\ author'[t] = author'[s]
      <3>1. /\ IsAdded(current, returned, s)
            /\ author'[s] = [signer |-> TurnSigner, phase |-> TurnPhase]
        BY <2>3, MergeAuthors DEF IsAdded
      <3>2. Security(s)
        BY DEF Security, SecurityFields
      <3>3. AdditionAllowed(scenario, TurnPhase, TurnSigner, current, returned, s)
        BY <2>3, <3>1, <3>2 DEF ContractKept
      <3>4. WitnessAllowed(scenario, TurnPhase, TurnSigner, current, returned, s)
        BY <3>3 DEF AdditionAllowed, SignatureAllowed, ShareAllowed, ScriptAllowed,
                    IsSignature, SignatureFields, ShareFields
      <3>5. PICK t \in Slot : /\ IsSignature(t) /\ t.index = s.index
                              /\ IsAdded(current, returned, t)
                              /\ returned[s] = Stack(WitnessItems(t, returned[t]))
        BY <3>4 DEF WitnessAllowed
      <3>6. current'[s] = returned[s] /\ current'[t] = returned[t] /\ author'[t] = author'[s]
        BY <2>3, <3>1, <3>5, MergeAuthors DEF IsAdded
      <3> QED BY <3>5, <3>6
    <2> QED BY <2>1, <2>2, <2>3, StepMerges
  <1> QED BY <1>1, <1>2, TypeCorrect, AuthorsAreHeld, PTL DEF Spec

(* The strict policy repairs nothing, and what was repaired is still there. *)
THEOREM RepairsAreRestored == Spec => []RepairsRestore
  <1>1. Init => RepairsRestore
    BY DEF Init, RepairsRestore
  <1>2. TypeOK /\ RepairsRestore /\ [Next]_vars => RepairsRestore'
    <2> SUFFICES ASSUME TypeOK, RepairsRestore, [Next]_vars PROVE RepairsRestore'
      OBVIOUS
    <2>1. scenario' = scenario
      BY RunFixed
    <2>2. CASE UNCHANGED <<current, author, repairs, step>>
      BY <2>1, <2>2 DEF RepairsRestore
    <2>3. ASSUME NEW returned \in Psbt, Working, TakeMerge(returned),
                 Mergeable(current, returned, scenario.policy)
          PROVE  RepairsRestore'
      <3>1. ASSUME scenario.policy = "strict" PROVE repairs' = {}
        <4>1. Repairs(current, returned) = {}
          BY <2>3, <3>1 DEF Repairs, Mergeable, OmissionRefused
        <4> QED BY <2>3, <3>1, <4>1 DEF TakeMerge, RepairsRestore
      <3>2. ASSUME NEW r \in repairs' PROVE current'[r.slot] # Absent
        <4>1. r.slot \in Slot /\ current[r.slot] # Absent
          <5>1. CASE r \in repairs
            BY <5>1 DEF RepairsRestore, TypeOK
          <5>2. CASE r \notin repairs
            <6>1. PICK s \in Repairs(current, returned) : r.slot = s
              BY <2>3, <3>2, <5>2 DEF TakeMerge
            <6> QED BY <6>1 DEF Repairs, IsRemoved
          <5> QED BY <5>1, <5>2
        <4> QED BY <2>3, <4>1, MergeAuthors
      <3> QED BY <2>1, <3>1, <3>2 DEF RepairsRestore
    <2> QED BY <2>2, <2>3, StepMerges
  <1> QED BY <1>1, <1>2, TypeCorrect, PTL DEF Spec

-----------------------------------------------------------------------------
(* The order of the rounds                                                 *)

Lone(sc)      == OneRound("resolve-sign", AllSigners(sc))
Collect(sc)   == OneRound("contribute", OtherSigners(sc))
Resolve(sc)   == OneRound("resolve-sign", {LastSigner(sc)})
SignLast(sc)  == OneRound("sign", OtherSigners(sc))
Redundant(sc) == OneRound("redundant-sign", AllSigners(sc))

(* Appending to the two schedules.                                          *)
LEMMA AppendRound ==
  ASSUME NEW w, NEW x, NEW y, NEW z
  PROVE  /\ Append(<<x>>, w) = <<x, w>>
         /\ Append(<<x, y, z>>, w) = <<x, y, z, w>>
  <1> DEFINE S == {w, x, y, z}
  <1>1. <<x>> \in Seq(S) /\ <<x, y, z>> \in Seq(S) /\ w \in S
        /\ <<x, w>> \in Seq(S) /\ <<x, y, z, w>> \in Seq(S)
    OBVIOUS
  <1>2. Append(<<x>>, w) = <<x, w>>
    <2>1. Append(<<x>>, w) \in Seq(S) /\ Len(Append(<<x>>, w)) = 2
          /\ Append(<<x>>, w)[1] = x /\ Append(<<x>>, w)[2] = w
      OBVIOUS
    <2>2. \A i \in 1 .. 2 : Append(<<x>>, w)[i] = <<x, w>>[i]
      BY <2>1
    <2> QED BY <1>1, <2>1, <2>2, SeqEqual
  <1>3. Append(<<x, y, z>>, w) = <<x, y, z, w>>
    <2>1. Append(<<x, y, z>>, w) \in Seq(S) /\ Len(Append(<<x, y, z>>, w)) = 4
          /\ Append(<<x, y, z>>, w)[1] = x /\ Append(<<x, y, z>>, w)[2] = y
          /\ Append(<<x, y, z>>, w)[3] = z /\ Append(<<x, y, z>>, w)[4] = w
      OBVIOUS
    <2>2. \A i \in 1 .. 4 : Append(<<x, y, z>>, w)[i] = <<x, y, z, w>>[i]
      BY <2>1
    <2> QED BY <1>1, <2>1, <2>2, SeqEqual
  <1> QED BY <1>2, <1>3

(* A BIP-375 schedule is one of four: a single signing round or the three   *)
(* rounds that collect the shares, with or without a redundant round.       *)
LEMMA Schedules ==
  ASSUME NEW sc \in Scenarios, sc.suite = "bip375"
  PROVE  \/ Rounds(sc) = <<Lone(sc)>>
         \/ Rounds(sc) = <<Lone(sc), Redundant(sc)>>
         \/ Len(sc.names) # 1 /\ Rounds(sc) = <<Collect(sc), Resolve(sc), SignLast(sc)>>
         \/ /\ Len(sc.names) # 1
            /\ Rounds(sc) = <<Collect(sc), Resolve(sc), SignLast(sc), Redundant(sc)>>
  <1> DEFINE single == sc.mode = "global" \/ Len(sc.names) = 1 \/ ~ sc.spOutput
             passes == IF single THEN <<Lone(sc)>> ELSE CollectRounds(sc)
  <1>1. Rounds(sc) = IF sc.redundant THEN Append(passes, Redundant(sc)) ELSE passes
    BY DEF Rounds, Lone, Redundant
  <1>2. \/ passes = <<Lone(sc)>>
        \/ Len(sc.names) # 1 /\ passes = <<Collect(sc), Resolve(sc), SignLast(sc)>>
    BY DEF CollectRounds, Collect, Resolve, SignLast
  <1> HIDE DEF passes
  <1> QED BY <1>1, <1>2, AppendRound

(* No other round comes before a round that collects shares.                *)
LEMMA ContributionsFirst ==
  ASSUME NEW sc \in Scenarios, sc.suite = "bip375",
         NEW k \in 1 .. Len(Rounds(sc)), NEW j \in 1 .. Len(Rounds(sc)),
         Rounds(sc)[k].phase = "contribute", Rounds(sc)[j].phase # "contribute"
  PROVE  k < j
  BY Schedules DEF Lone, Collect, Resolve, SignLast, Redundant, OneRound

(* Every signer has a round to sign in.                                     *)
LEMMA EveryoneSigns ==
  ASSUME NEW sc \in Scenarios, sc.suite = "bip375", NEW n \in AllSigners(sc)
  PROVE  \E k \in 1 .. Len(Rounds(sc)) :
           n \in Rounds(sc)[k].signers /\ Rounds(sc)[k].phase \in SigningPhases
  <1>1. /\ n \in Lone(sc).signers /\ Lone(sc).phase \in SigningPhases
        /\ Resolve(sc).phase \in SigningPhases /\ SignLast(sc).phase \in SigningPhases
        /\ n \in Resolve(sc).signers \/ n \in SignLast(sc).signers
    BY DEF Lone, Resolve, SignLast, OneRound, OtherSigners, SigningPhases
  <1>2. CASE Rounds(sc) = <<Lone(sc)>> \/ Rounds(sc) = <<Lone(sc), Redundant(sc)>>
    <2>1. 1 \in 1 .. Len(Rounds(sc)) /\ Rounds(sc)[1] = Lone(sc)
      BY <1>2
    <2> QED BY <1>1, <2>1
  <1>3. CASE \/ Rounds(sc) = <<Collect(sc), Resolve(sc), SignLast(sc)>>
             \/ Rounds(sc) = <<Collect(sc), Resolve(sc), SignLast(sc), Redundant(sc)>>
    <2>1. /\ 2 \in 1 .. Len(Rounds(sc)) /\ Rounds(sc)[2] = Resolve(sc)
          /\ 3 \in 1 .. Len(Rounds(sc)) /\ Rounds(sc)[3] = SignLast(sc)
      <3>1. CASE Rounds(sc) = <<Collect(sc), Resolve(sc), SignLast(sc)>>
        BY <3>1
      <3>2. CASE Rounds(sc) = <<Collect(sc), Resolve(sc), SignLast(sc), Redundant(sc)>>
        BY <3>2
      <3> QED BY <1>3, <3>1, <3>2
    <2> QED BY <1>1, <2>1
  <1> QED BY <1>2, <1>3, Schedules

(* No round is empty.                                                       *)
LEMMA RoundsNonempty ==
  ASSUME NEW sc \in Scenarios, NEW k \in 1 .. Len(Rounds(sc))
  PROVE  Rounds(sc)[k].signers # {}
  <1>1. /\ sc.names \in Seq(Signer) /\ sc.names # <<>> /\ IsInjective(sc.names)
        /\ sc.suite \in {"bip375", "musig2-sp"}
    BY EngineAssumption DEF ValidScenario
  <1>2. LastSigner(sc) \in AllSigners(sc)
    BY <1>1 DEF AllSigners, LastSigner, Range
  <1>3. Len(sc.names) # 1 => OtherSigners(sc) # {}
    <2> SUFFICES ASSUME Len(sc.names) # 1 PROVE sc.names[1] \in OtherSigners(sc)
      OBVIOUS
    <2>1. 1 \in DOMAIN sc.names /\ Len(sc.names) \in DOMAIN sc.names
      BY <1>1
    <2>2. sc.names[1] # sc.names[Len(sc.names)]
      BY <1>1, <2>1 DEF IsInjective
    <2> QED BY <2>1, <2>2 DEF OtherSigners, LastSigner, AllSigners, Range
  <1>4. CASE sc.suite = "bip375"
    <2>1. /\ Lone(sc).signers # {} /\ Resolve(sc).signers # {} /\ Redundant(sc).signers # {}
          /\ Len(sc.names) # 1 => Collect(sc).signers # {} /\ SignLast(sc).signers # {}
      BY <1>2, <1>3 DEF Lone, Collect, Resolve, SignLast, Redundant, OneRound
    <2> QED BY <1>4, <2>1, Schedules
  <1>5. CASE sc.suite = "musig2-sp"
    BY <1>2, <1>5 DEF Rounds, OneRound
  <1> QED BY <1>1, <1>4, <1>5

-----------------------------------------------------------------------------
(* What the signers served so far have done                                *)

RunRounds == Rounds(scenario)

(* Signer n has had the turn that round k gives it.                         *)
Served(k, n) ==
  /\ k \in 1 .. Len(RunRounds) /\ n \in RunRounds[k].signers
  /\ k < round \/ (k = round /\ n \notin waiting)

(* A record of one of the fields F on input i was added by n.               *)
AddedBy(n, i, F) ==
  \E s \in Slot : /\ s.scope = "input" /\ s.index = i /\ s.field \in F
                  /\ author[s] # NoOne /\ author[s].signer = n

HasContributed(n) == \A i \in Owned(scenario, n) : \A f \in ShareFields : AddedBy(n, i, {f})

HasSigned(n) ==
  Owned(scenario, n) # {} => \E i \in Owned(scenario, n) : AddedBy(n, i, SignatureFields)

(* Strengthening of the two schedule invariants: every signer served so far *)
(* did what the phase of its turn asked, and the loop stops at the end of   *)
(* the last round only.                                                     *)
TurnsServed ==
  \A k \in 1 .. Len(RunRounds) : \A n \in RunRounds[k].signers : Served(k, n) =>
    /\ RunRounds[k].phase = "contribute" => HasContributed(n)
    /\ RunRounds[k].phase \in SigningPhases => HasSigned(n)

LoopEnds ==
  /\ waiting = {} => round = Len(RunRounds)
  /\ outcome = "done" => waiting = {}

(* What a signer added, it has added for good.                              *)
LEMMA AddedByStep ==
  ASSUME TypeOK, AuthorsHold, [Next]_vars, NEW n, NEW i, NEW F, AddedBy(n, i, F)
  PROVE  AddedBy(n, i, F)'
  <1>1. PICK s \in Slot : /\ s.scope = "input" /\ s.index = i /\ s.field \in F
                          /\ author[s] # NoOne /\ author[s].signer = n
    BY DEF AddedBy
  <1>2. current[s] # Absent
    BY <1>1 DEF AuthorsHold
  <1>3. CASE UNCHANGED <<current, author, repairs, step>>
    BY <1>1, <1>3 DEF AddedBy
  <1>4. ASSUME NEW returned \in Psbt, Working, TakeMerge(returned)
        PROVE  AddedBy(n, i, F)'
    <2>1. author'[s] = author[s]
      BY <1>2, <1>4, MergeAuthors
    <2> QED BY <1>1, <2>1 DEF AddedBy
  <1> QED BY <1>3, <1>4, StepMerges

(* A turn that keeps the contract leaves the records its phase asks for.     *)
LEMMA TurnServes ==
  ASSUME TypeOK, Working, NEW returned \in Psbt, TakeMerge(returned), scenario' = scenario,
         ContractKept(scenario, TurnPhase, TurnSigner, current, returned),
         NEW n, n = TurnSigner
  PROVE  /\ TurnPhase = "contribute" => HasContributed(n)'
         /\ TurnPhase \in SigningPhases => HasSigned(n)'
  <1>1. ASSUME NEW i, NEW F, Adds(current, returned, i, F)
        PROVE  AddedBy(n, i, F)'
    <2>1. PICK s \in Slot : /\ s.scope = "input" /\ s.index = i /\ s.field \in F
                            /\ IsAdded(current, returned, s)
      BY <1>1 DEF Adds
    <2>2. author'[s] = [signer |-> n, phase |-> TurnPhase]
      BY <2>1, MergeAuthors DEF IsAdded
    <2>3. author'[s] # NoOne
      BY <2>2, TurnTyped, EngineAssumption
    <2> QED BY <2>1, <2>2, <2>3 DEF AddedBy
  <1>2. TurnPhase \in SigningPhases \cup {"contribute"} =>
          DutyDone(scenario, TurnPhase, n, current, returned)
    BY DEF ContractKept, CheckedPhases
  <1>3. ASSUME TurnPhase = "contribute" PROVE HasContributed(n)'
    BY <1>1, <1>2, <1>3 DEF DutyDone, HasContributed
  <1>4. ASSUME TurnPhase \in SigningPhases PROVE HasSigned(n)'
    <2>1. TurnPhase # "contribute"
      BY <1>4 DEF SigningPhases
    <2> QED BY <1>1, <1>2, <1>4, <2>1 DEF DutyDone, HasSigned
  <1> QED BY <1>3, <1>4

(* A step either leaves the loop where it is, or ends one signer's turn     *)
(* with a merge.                                                            *)
LEMMA StepAdvances ==
  ASSUME TypeOK, [Next]_vars
  PROVE  \/ UNCHANGED <<round, waiting>>
         \/ \E returned \in Psbt :
              /\ Working /\ TakeMerge(returned) /\ Advance /\ outcome' = outcome
              /\ ContractKept(scenario, TurnPhase, TurnSigner, current, returned)
  <1>1. ASSUME NEW returned \in Offers, SignerStep(returned)
        PROVE  \/ UNCHANGED <<round, waiting>>
               \/ /\ returned \in Psbt /\ Working /\ TakeMerge(returned) /\ Advance
                  /\ outcome' = outcome
                  /\ ContractKept(scenario, TurnPhase, TurnSigner, current, returned)
    <2>1. returned \in Psbt /\ Working
      BY <1>1, OffersArePsbts DEF SignerStep
    <2>2. CASE RejectStep(Verdict(returned)) \/ RejectRound(Verdict(returned), returned)
      BY <2>2 DEF RejectStep, Raise, RejectRound
    <2>3. CASE AcceptStep(Verdict(returned), returned)
      <3>1. Verdict(returned) = "ok" /\ TakeMerge(returned) /\ Advance /\ outcome' = outcome
        BY <2>3 DEF AcceptStep
      <3>2. ContractKept(scenario, TurnPhase, TurnSigner, current, returned)
        BY <3>1 DEF Verdict
      <3> QED BY <2>1, <3>1, <3>2
    <2> QED BY <1>1, <2>2, <2>3 DEF SignerStep
  <1>2. CASE WorkerFails \/ RejectWarning \/ Finish \/ UNCHANGED vars
    BY <1>2 DEF WorkerFails, RejectWarning, Raise, Finish, vars
  <1> QED BY <1>1, <1>2 DEF Next

(* Ending a turn serves one more signer, and no other.                      *)
LEMMA AdvanceServes ==
  ASSUME TypeOK, Working, Advance, scenario' = scenario, NEW k, NEW n, Served(k, n)'
  PROVE  Served(k, n) \/ (k = round /\ n = TurnSigner)
  <1> DEFINE left == waiting \ {TurnSigner}
             more == left = {} /\ round < Len(RunRounds)
  <1>1. /\ k \in 1 .. Len(RunRounds) /\ n \in RunRounds[k].signers
        /\ k < round' \/ (k = round' /\ n \notin waiting')
    BY DEF Served, RunRounds
  <1>2. round \in Nat
    BY DEF TypeOK
  <1>3. CASE more
    <2>1. round' = round + 1 /\ waiting' = RunRounds[round + 1].signers
      BY <1>3 DEF Advance, RunRounds
    <2>2. k < round \/ k = round
      BY <1>1, <1>2, <2>1
    <2> QED BY <1>1, <1>3, <2>2 DEF Served
  <1>4. CASE ~ more
    <2>1. round' = round /\ waiting' = left
      BY <1>4 DEF Advance, RunRounds
    <2> QED BY <1>1, <2>1 DEF Served
  <1> QED BY <1>3, <1>4

LEMMA TurnsServedStep == TypeOK /\ AuthorsHold /\ TurnsServed /\ [Next]_vars => TurnsServed'
  <1> SUFFICES ASSUME TypeOK, AuthorsHold, TurnsServed, [Next]_vars,
                      NEW k \in 1 .. Len(RunRounds), NEW n \in RunRounds[k].signers,
                      Served(k, n)'
               PROVE  /\ RunRounds[k].phase = "contribute" => HasContributed(n)'
                      /\ RunRounds[k].phase \in SigningPhases => HasSigned(n)'
    BY RunFixed DEF TurnsServed, RunRounds
  <1>1. scenario' = scenario
    BY RunFixed
  <1>2. /\ HasContributed(n) => HasContributed(n)'
        /\ HasSigned(n) => HasSigned(n)'
    BY <1>1, AddedByStep DEF HasContributed, HasSigned
  <1>3. CASE Served(k, n)
    BY <1>2, <1>3 DEF TurnsServed
  <1>4. CASE UNCHANGED <<round, waiting>>
    BY <1>1, <1>3, <1>4 DEF Served, RunRounds
  <1>5. ASSUME NEW returned \in Psbt, Working, TakeMerge(returned), Advance,
               ContractKept(scenario, TurnPhase, TurnSigner, current, returned)
        PROVE  /\ RunRounds[k].phase = "contribute" => HasContributed(n)'
               /\ RunRounds[k].phase \in SigningPhases => HasSigned(n)'
    <2>1. CASE k = round /\ n = TurnSigner
      <3>1. RunRounds[k].phase = TurnPhase
        BY <2>1 DEF TurnPhase, RunRounds
      <3> QED BY <1>1, <1>5, <2>1, <3>1, TurnServes
    <2> QED BY <1>1, <1>3, <1>5, <2>1, AdvanceServes
  <1> QED BY <1>4, <1>5, StepAdvances

LEMMA TurnsAreServed == Spec => []TurnsServed
  <1>1. Init => TurnsServed
    <2> SUFFICES ASSUME Init, NEW k \in 1 .. Len(RunRounds), NEW n \in RunRounds[k].signers,
                        Served(k, n)
                 PROVE  FALSE
      BY DEF TurnsServed
    <2> QED BY DEF Init, Served, RunRounds
  <1> QED BY <1>1, TurnsServedStep, TypeCorrect, AuthorsAreHeld, PTL DEF Spec

(* The loop runs out of signers only at the end of the last round.          *)
LEMMA LoopEndsThere == Spec => []LoopEnds
  <1>1. Init => LoopEnds
    <2> SUFFICES ASSUME Init PROVE waiting # {} /\ outcome # "done"
      BY DEF LoopEnds
    <2>1. scenario \in Scenarios /\ 1 \in 1 .. Len(Rounds(scenario))
      <3>1. scenario \in Scenarios /\ round = 1
        BY DEF Init
      <3> QED BY <3>1, InitTyped DEF TypeOK
    <2> QED BY <2>1, RoundsNonempty DEF Init
  <1>2. TypeOK /\ LoopEnds /\ [Next]_vars => LoopEnds'
    <2> SUFFICES ASSUME TypeOK, LoopEnds, [Next]_vars PROVE LoopEnds'
      OBVIOUS
    <2>1. scenario' = scenario
      BY RunFixed
    <2>2. CASE UNCHANGED <<round, waiting>>
      <3>1. outcome' = "done" => outcome = "done" \/ Finish
        BY DEF Next, vars, WorkerFails, RejectWarning, SignerStep, RejectStep, AcceptStep,
               RejectRound, Raise, Verdict
      <3> QED BY <2>1, <2>2, <3>1 DEF LoopEnds, RunRounds, Finish
    <2>3. ASSUME Working, Advance, outcome' = outcome PROVE LoopEnds'
      <3> DEFINE left == waiting \ {TurnSigner}
                 more == left = {} /\ round < Len(RunRounds)
      <3>1. outcome' # "done"
        BY <2>3 DEF Working
      <3>2. round \in 1 .. Len(RunRounds) /\ Len(RunRounds) \in Nat /\ scenario \in Scenarios
        BY RoundsTyped DEF TypeOK, RunRounds
      <3>3. CASE more
        <4>1. waiting' = RunRounds[round + 1].signers /\ round + 1 \in 1 .. Len(RunRounds)
          BY <2>3, <3>2, <3>3 DEF Advance, RunRounds
        <4>2. waiting' # {}
          BY <3>2, <4>1, RoundsNonempty DEF RunRounds
        <4> QED BY <3>1, <4>2 DEF LoopEnds
      <3>4. CASE ~ more
        <4>1. round' = round /\ waiting' = left
          BY <2>3, <3>4 DEF Advance, RunRounds
        <4>2. left = {} => round = Len(RunRounds)
          BY <3>2, <3>4
        <4> QED BY <2>1, <3>1, <4>1, <4>2 DEF LoopEnds, RunRounds
      <3> QED BY <3>3, <3>4
    <2> QED BY <2>2, <2>3, StepAdvances
  <1> QED BY <1>1, <1>2, TypeCorrect, PTL DEF Spec

(* A run that returned a PSBT took a signature from every signer that owns  *)
(* an input.                                                                *)
THEOREM DoneMeansSigned == Spec => []DoneMeansEveryOwnerSigned
  <1>1. TypeOK /\ TurnsServed /\ LoopEnds => DoneMeansEveryOwnerSigned
    <2> SUFFICES ASSUME TypeOK, TurnsServed, LoopEnds, outcome = "done",
                        scenario.suite = "bip375", NEW n \in AllSigners(scenario),
                        Owned(scenario, n) # {}
                 PROVE  \E s \in Slot : /\ IsSignature(s) /\ s.index \in Owned(scenario, n)
                                        /\ author[s] # NoOne /\ author[s].signer = n
      BY DEF DoneMeansEveryOwnerSigned
    <2>1. PICK k \in 1 .. Len(RunRounds) :
            n \in RunRounds[k].signers /\ RunRounds[k].phase \in SigningPhases
      BY EveryoneSigns DEF TypeOK, RunRounds
    <2>2. waiting = {} /\ round = Len(RunRounds) /\ Len(RunRounds) \in Nat
      BY RoundsTyped DEF LoopEnds, TypeOK, RunRounds
    <2>3. Served(k, n)
      BY <2>1, <2>2 DEF Served
    <2>4. HasSigned(n)
      BY <2>1, <2>3 DEF TurnsServed
    <2> QED BY <2>4 DEF HasSigned, AddedBy, IsSignature
  <1> QED BY <1>1, TypeCorrect, TurnsAreServed, LoopEndsThere, PTL

(* An output script appears only when every contributing owner has put a    *)
(* share and a proof, of whichever scan key, on each of its inputs.         *)
THEOREM SharesBeforeScripts == Spec => []ResolvedAfterShares
  <1>1. Init => ResolvedAfterShares
    BY DEF Init, ResolvedAfterShares
  <1>2. TypeOK /\ AuthorsHold /\ TurnsServed /\ ResolvedAfterShares /\ [Next]_vars
          => ResolvedAfterShares'
    <2> SUFFICES ASSUME TypeOK, AuthorsHold, TurnsServed, ResolvedAfterShares, [Next]_vars,
                        scenario.suite = "bip375", NEW s \in Slot, s.scope = "output",
                        s.field = "script", initial[s] = Absent, current'[s] # Absent
                 PROVE  SharesCollected'
      BY RunFixed DEF ResolvedAfterShares
    <2>1. scenario' = scenario /\ Contributors' = Contributors
      BY RunFixed DEF Contributors
    <2>2. SharesCollected <=> \A n \in Contributors : HasContributed(n)
      BY DEF SharesCollected, HasContributed, AddedBy
    <2>3. SharesCollected' <=> \A n \in Contributors : HasContributed(n)'
      BY <2>1 DEF SharesCollected, HasContributed, AddedBy
    <2>4. ASSUME NEW n, HasContributed(n) PROVE HasContributed(n)'
      BY <2>1, <2>4, AddedByStep DEF HasContributed
    <2>5. CASE current[s] # Absent
      <3>1. SharesCollected
        BY <2>5 DEF ResolvedAfterShares
      <3> QED BY <2>2, <2>3, <2>4, <3>1
    <2>6. ASSUME NEW returned \in Psbt, Working, TakeMerge(returned), current[s] = Absent,
                 ContractKept(scenario, TurnPhase, TurnSigner, current, returned)
          PROVE  SharesCollected'
      <3>1. IsAdded(current, returned, s) /\ Security(s)
        BY <2>6, MergeAuthors DEF IsAdded, Security, SecurityFields
      <3>2. TurnPhase # "contribute"
        <4> SUFFICES ASSUME TurnPhase = "contribute" PROVE FALSE
          OBVIOUS
        <4>1. AdditionAllowed(scenario, TurnPhase, TurnSigner, current, returned, s)
          BY <2>6, <3>1 DEF ContractKept, CheckedPhases
        <4> QED BY <4>1 DEF AdditionAllowed, SignatureAllowed, WitnessAllowed, ShareAllowed,
                            ScriptAllowed, IsSignature, SignatureFields, ShareFields
      <3>3. ASSUME NEW n \in Contributors PROVE HasContributed(n)
        <4>1. PICK k \in 1 .. Len(RunRounds) :
                RunRounds[k].phase = "contribute" /\ n \in RunRounds[k].signers
          BY RoundsTyped DEF Contributors, RunRounds, TypeOK
        <4>2. k < round
          BY <3>2, <4>1, ContributionsFirst DEF TypeOK, TurnPhase, RunRounds
        <4>3. Served(k, n)
          BY <4>1, <4>2 DEF Served
        <4> QED BY <4>1, <4>3 DEF TurnsServed
      <3> QED BY <2>3, <2>4, <3>3
    <2> QED BY <2>5, <2>6, StepMerges
  <1> QED BY <1>1, <1>2, TypeCorrect, AuthorsAreHeld, TurnsAreServed, PTL DEF Spec

=============================================================================
