-------------------------- MODULE CheckoutsProofs --------------------------
(***************************************************************************)
(* Theorems about Checkouts: a fetch that runs alone, whatever fails or    *)
(* kills it, leaves whole checkouts at their pins and nothing that stops   *)
(* the next one.                                                           *)
(***************************************************************************)
EXTENDS Checkouts, SequenceTheorems, TLAPS

-----------------------------------------------------------------------------
(* The inductive invariant: the types, and what a fetch that runs alone has  *)
(* reached at each of its commands.                                         *)

Pc == Stopped \cup {"look", "clear", "make", "checkout", "submodules", "rename", "next"}

TreeTypes ==
  /\ lock \in [Checkout -> 0 .. MaxRevision] /\ lockState \in {"whole", "empty"}
  /\ dest \in [Checkout -> Tree \cup {NoTree}] /\ partial \in [Checkout -> Tree \cup {NoTree}]
  /\ failures \in 0 .. MaxFailures /\ overlapped \in BOOLEAN

FetchTypes ==
  fetch \in [Fetcher -> [pc : Pc, at : 1 .. Len(Names), pins : [Checkout -> 0 .. MaxRevision]]]

PinTypes ==
  /\ pin \in [pc : {"idle", "inspect", "write"}, seen : Seq(Revision)]
  /\ pin.pc = "write" => Len(pin.seen) = Len(Names)

(* The checkouts that fetch f is done with.                                  *)
Passed(f) ==
  {k \in 1 .. Len(Names) : \/ fetch[f].pc = "done"
                           \/ fetch[f].pc \notin Stopped /\ k < fetch[f].at
                           \/ fetch[f].pc = "next" /\ k = fetch[f].at}

AtPin(f, c) == fetch[f].pins[c] # Unpinned /\ dest[c].rev >= fetch[f].pins[c]

FetchInv(f) ==
  /\ fetch[f].pc # "collided"
  /\ \A k \in Passed(f) : AtPin(f, Names[k])
  /\ fetch[f].pc \in {"clear", "make", "checkout", "submodules", "rename"} =>
       Rev(f) # Unpinned /\ ~ dest[Target(f)].there
  /\ fetch[f].pc = "make" => ~ partial[Target(f)].there
  /\ fetch[f].pc \in {"checkout", "submodules", "rename"} => partial[Target(f)].there
  /\ fetch[f].pc \in {"submodules", "rename"} => partial[Target(f)].rev = Rev(f)
  /\ fetch[f].pc = "rename" => partial[Target(f)].whole

Alone ==
  /\ \A f, g \in Fetcher : f # g => fetch[f].pc \in Stopped \/ fetch[g].pc \in Stopped
  /\ \A c \in Checkout : Whole(c)
  /\ \A f \in Fetcher : FetchInv(f)

CheckoutsInv == TreeTypes /\ FetchTypes /\ PinTypes /\ (~ overlapped => Alone)

LEMMA NamesFacts ==
  /\ Len(Names) \in Nat \ {0} /\ DOMAIN Names = 1 .. Len(Names)
  /\ \A k \in 1 .. Len(Names) : Names[k] \in Checkout
  /\ \A j, k \in 1 .. Len(Names) : Names[j] = Names[k] => j = k
  /\ \A c \in Checkout : \E k \in 1 .. Len(Names) : Names[k] = c
<1>1. Names \in Seq(Checkout) /\ Names # <<>> BY CheckoutsAssumption DEF Checkout
<1>2. Len(Names) \in Nat \ {0} /\ DOMAIN Names = 1 .. Len(Names)
  BY <1>1, LenProperties, EmptySeq
<1>3. \A j, k \in 1 .. Len(Names) : Names[j] = Names[k] => j = k
  BY <1>2, CheckoutsAssumption DEF IsInjective
<1>4. \A k \in 1 .. Len(Names) : Names[k] \in Checkout BY <1>1, ElementOfSeq
<1>5. \A c \in Checkout : \E k \in 1 .. Len(Names) : Names[k] = c BY <1>2 DEF Checkout, Range
<1> QED BY <1>2, <1>3, <1>4, <1>5

LEMMA TreeFacts ==
  ASSUME NEW t \in Tree \cup {NoTree}
  PROVE  /\ t.rev \in 0 .. MaxRevision /\ t.rev \in Nat /\ t.there \in BOOLEAN
         /\ t.there => t \in Tree
         /\ ~ t.there => t.rev = 0
<1>1. MaxRevision \in Nat BY CheckoutsAssumption
<1>2. CASE t \in Tree
  <2>1. t.there = TRUE /\ t.rev \in 0 .. MaxRevision BY <1>2 DEF Tree
  <2>2. t.rev \in Nat BY <1>1, <2>1
  <2> QED BY <1>2, <2>1, <2>2
<1>3. CASE t = NoTree
  <2>1. NoTree.rev = 0 /\ NoTree.there = FALSE BY DEF NoTree
  <2>2. 0 \in 0 .. MaxRevision BY <1>1
  <2>3. t.rev = 0 /\ t.there = FALSE BY <1>3, <2>1, Zenon
  <2>4. t.rev \in 0 .. MaxRevision /\ t.rev \in Nat BY <2>2, <2>3
  <2>5. t.there \in BOOLEAN /\ ~ t.there BY <2>3, Zenon
  <2> QED BY <2>3, <2>4, <2>5, Zenon
<1> QED BY <1>2, <1>3, Zenon

LEMMA IdleType ==
  ASSUME NEW pc \in Pc
  PROVE  /\ [Idle EXCEPT !.pc = pc] \in
              [pc : Pc, at : 1 .. Len(Names), pins : [Checkout -> 0 .. MaxRevision]]
         /\ [Idle EXCEPT !.pc = pc].pc = pc
<1>1. 1 \in 1 .. Len(Names) BY NamesFacts
<1>2. 0 \in 0 .. MaxRevision BY CheckoutsAssumption
<1>3. [c \in Checkout |-> Unpinned] \in [Checkout -> 0 .. MaxRevision] BY <1>2 DEF Unpinned
<1> QED BY <1>1, <1>3 DEF Idle

LEMMA CheckoutsStart == Init => CheckoutsInv
<1> SUFFICES ASSUME Init PROVE CheckoutsInv OBVIOUS
<1> USE DEF Init
<1>1. MaxRevision \in Nat \ {0} /\ MaxFailures \in Nat BY CheckoutsAssumption
<1>2. TreeTypes
  <2>1. FirstTree \in Tree BY <1>1 DEF FirstTree, Tree
  <2>2. lock \in [Checkout -> 0 .. MaxRevision] OBVIOUS
  <2>3. dest \in [Checkout -> Tree \cup {NoTree}] /\ partial \in [Checkout -> Tree \cup {NoTree}]
    BY <2>1
  <2>4. failures \in 0 .. MaxFailures BY <1>1
  <2> QED BY <2>2, <2>3, <2>4 DEF TreeTypes
<1>3. Idle \in [pc : {"idle"}, at : 1 .. Len(Names), pins : [Checkout -> 0 .. MaxRevision]]
  <2>1. 1 \in 1 .. Len(Names) /\ 0 \in 0 .. MaxRevision BY <1>1, NamesFacts
  <2> QED BY <2>1 DEF Idle, Unpinned
<1>4. \A f \in Fetcher : fetch[f].pc = "idle" BY <1>3
<1>5. FetchTypes BY <1>3 DEF FetchTypes, Pc, Stopped
<1>6. PinTypes BY EmptySeq DEF PinTypes
<1>7. Alone
  <2>1. \A c \in Checkout : Whole(c) BY <1>1 DEF Whole, NoTree, FirstTree
  <2>2. \A f \in Fetcher : FetchInv(f) BY <1>4 DEF FetchInv, Passed, Stopped
  <2> QED BY <1>4, <2>1, <2>2 DEF Alone, Stopped
<1> QED BY <1>2, <1>5, <1>6, <1>7 DEF CheckoutsInv

-----------------------------------------------------------------------------
(* fetch                                                                   *)

(* A fetch that runs alone is the only one that runs.                        *)
LEMMA RunsAlone ==
  ASSUME CheckoutsInv, NEW f \in Fetcher, fetch[f].pc \notin Stopped, ~ overlapped
  PROVE  /\ \A g \in Fetcher \ {f} : fetch[g].pc \in Stopped
         /\ FetchInv(f) /\ \A c \in Checkout : Whole(c)
BY DEF CheckoutsInv, Alone

(* What a step of fetch f leaves alone: the fetches that have stopped, whose  *)
(* checkouts never go back.                                                 *)
LEMMA FetchKeeps ==
  ASSUME CheckoutsInv, NEW f \in Fetcher, UNCHANGED pin, TreeTypes',
         NEW r \in [pc : Pc, at : 1 .. Len(Names), pins : [Checkout -> 0 .. MaxRevision]],
         fetch' = [fetch EXCEPT ![f] = r],
         ~ overlapped' =>
           /\ ~ overlapped /\ \A g \in Fetcher \ {f} : fetch[g].pc \in Stopped
           /\ \A c \in Checkout : Whole(c)' /\ dest'[c].rev >= dest[c].rev
           /\ FetchInv(f)'
  PROVE  CheckoutsInv'
<1>1. FetchTypes' BY DEF CheckoutsInv, FetchTypes
<1>2. PinTypes' BY DEF CheckoutsInv, PinTypes
<1>3. ASSUME ~ overlapped' PROVE Alone'
  <2>1. \A g \in Fetcher \ {f} : fetch'[g] = fetch[g] /\ fetch[g].pc \in Stopped
    BY <1>3 DEF CheckoutsInv, FetchTypes
  <2>2. \A g, h \in Fetcher : g # h => fetch'[g].pc \in Stopped \/ fetch'[h].pc \in Stopped
    BY <2>1
  <2>3. ASSUME NEW g \in Fetcher \ {f} PROVE FetchInv(g)'
    <3>1. FetchInv(g) /\ fetch'[g] = fetch[g] /\ fetch[g].pc \in Stopped
      BY <1>3, <2>1 DEF CheckoutsInv, Alone
    <3>2. \A k \in Passed(g)' : k \in Passed(g) /\ Names[k] \in Checkout
      BY <3>1, NamesFacts DEF Passed
    <3>3. ASSUME NEW c \in Checkout, AtPin(g, c) PROVE AtPin(g, c)'
      <4>1. dest[c].rev \in Nat /\ dest'[c].rev \in Nat
        BY TreeFacts DEF CheckoutsInv, TreeTypes
      <4>2. fetch[g].pins[c] \in Nat BY CheckoutsAssumption DEF CheckoutsInv, FetchTypes
      <4>3. dest'[c].rev >= dest[c].rev BY <1>3
      <4> QED BY <3>1, <3>3, <4>1, <4>2, <4>3 DEF AtPin
    <3>4. \A k \in Passed(g)' : AtPin(g, Names[k])'
      BY <3>1, <3>2, <3>3 DEF FetchInv
    <3> QED BY <3>1, <3>4 DEF FetchInv, Stopped
  <2> QED BY <1>3, <2>2, <2>3 DEF Alone
<1> QED BY <1>1, <1>2, <1>3 DEF CheckoutsInv

LEMMA BeginFetchStep == ASSUME CheckoutsInv, NEW f \in Fetcher, BeginFetch(f) PROVE CheckoutsInv'
<1> DEFINE r == [pc |-> "look", at |-> 1, pins |-> lock]
<1>1. /\ UNCHANGED <<disk, failures, lock, lockState, pin>> /\ fetch[f].pc \in Stopped
      /\ fetch' = [fetch EXCEPT ![f] = r]
      /\ overlapped' = (overlapped \/ \E g \in Fetcher \ {f} : fetch[g].pc \notin Stopped)
  BY DEF BeginFetch
<1>2. r \in [pc : Pc, at : 1 .. Len(Names), pins : [Checkout -> 0 .. MaxRevision]]
  BY NamesFacts DEF CheckoutsInv, TreeTypes, Pc
<1>3. fetch'[f] = r BY <1>1 DEF CheckoutsInv, FetchTypes
<1>4. fetch'[f].pc = "look" /\ fetch'[f].at = 1 BY <1>3
<1> HIDE DEF r
<1>5. overlapped' \in BOOLEAN BY <1>1
<1>6. TreeTypes' BY <1>1, <1>5 DEF CheckoutsInv, TreeTypes, disk
<1>7. FetchInv(f)'
  <2>1. Passed(f)' = {} BY <1>4, NamesFacts DEF Passed, Stopped
  <2> QED BY <1>4, <2>1 DEF FetchInv
<1>8. ASSUME ~ overlapped'
      PROVE  /\ ~ overlapped /\ \A g \in Fetcher \ {f} : fetch[g].pc \in Stopped
             /\ \A c \in Checkout : Whole(c)' /\ dest'[c].rev >= dest[c].rev
  <2>1. ~ overlapped /\ \A g \in Fetcher \ {f} : fetch[g].pc \in Stopped BY <1>1, <1>8
  <2>2. \A c \in Checkout : dest[c].rev \in Nat
    BY TreeFacts DEF CheckoutsInv, TreeTypes
  <2>3. \A c \in Checkout : Whole(c)' BY <1>1, <2>1 DEF CheckoutsInv, Alone, Whole, disk
  <2> QED BY <1>1, <2>1, <2>2, <2>3 DEF disk
<1> QED BY <1>1, <1>2, <1>6, <1>7, <1>8, FetchKeeps

LEMMA TargetFacts ==
  ASSUME CheckoutsInv, NEW f \in Fetcher
  PROVE  /\ Target(f) \in Checkout /\ Rev(f) \in 0 .. MaxRevision /\ Rev(f) \in Nat
         /\ dest[Target(f)] \in Tree \cup {NoTree} /\ partial[Target(f)] \in Tree \cup {NoTree}
         /\ dest \in [Checkout -> Tree \cup {NoTree}] /\ partial \in [Checkout -> Tree \cup {NoTree}]
<1>1. Target(f) \in Checkout BY NamesFacts DEF Target, CheckoutsInv, FetchTypes
<1>2. Rev(f) \in 0 .. MaxRevision /\ Rev(f) \in Nat
  BY <1>1, CheckoutsAssumption DEF Rev, CheckoutsInv, FetchTypes
<1> QED BY <1>1, <1>2 DEF CheckoutsInv, TreeTypes

(* A fetch that gives up leaves the checkouts as they are.  Alone it never    *)
(* collides.                                                                *)
LEMMA GiveUpStep ==
  ASSUME CheckoutsInv, NEW f \in Fetcher, RefuseFetch(f) \/ ClearFails(f) \/ FailFetch(f) \/ FailCollision(f)
  PROVE  CheckoutsInv'
<1>1. PICK pc \in {"idle", "collided"} :
        /\ UNCHANGED <<dest, others>> /\ fetch[f].pc \notin Stopped
        /\ partial' \in [Checkout -> Tree \cup {NoTree}]
        /\ Give(f, pc) /\ failures' \in 0 .. MaxFailures /\ (pc = "collided" => Collides(f))
  <2>1. MaxFailures \in Nat /\ failures \in 0 .. MaxFailures
    BY CheckoutsAssumption DEF CheckoutsInv, TreeTypes
  <2>a. partial \in [Checkout -> Tree \cup {NoTree}] BY DEF CheckoutsInv, TreeTypes
  <2>2. CASE RefuseFetch(f) BY <2>1, <2>a, <2>2 DEF RefuseFetch, At, Stopped, disk
  <2>3. CASE FailFetch(f) BY <2>1, <2>a, <2>3 DEF FailFetch, Stopped, disk
  <2>4. CASE FailCollision(f)
    BY <2>1, <2>a, <2>4 DEF FailCollision, Collides, At, Stopped, disk
  <2>5. CASE ClearFails(f)
    <3>1. PICK rev \in {0, partial[Target(f)].rev} :
            partial' = [partial EXCEPT
                          ![Target(f)] = [rev |-> rev, whole |-> FALSE, there |-> TRUE]]
      BY <2>5 DEF ClearFails
    <3>2. rev \in 0 .. MaxRevision
      <4>1. partial[Target(f)] \in Tree \cup {NoTree} BY TargetFacts
      <4>2. partial[Target(f)].rev \in 0 .. MaxRevision BY <4>1, TreeFacts
      <4> QED BY <4>2, CheckoutsAssumption
    <3>3. [rev |-> rev, whole |-> FALSE, there |-> TRUE] \in Tree BY <3>2 DEF Tree
    <3>4. partial' \in [Checkout -> Tree \cup {NoTree}] BY <2>a, <3>1, <3>3
    <3> QED BY <2>1, <2>5, <3>4 DEF ClearFails, At, Stopped
  <2> QED BY <2>2, <2>3, <2>4, <2>5
<1> DEFINE r == [Idle EXCEPT !.pc = pc]
<1>2. r \in [pc : Pc, at : 1 .. Len(Names), pins : [Checkout -> 0 .. MaxRevision]] /\ r.pc = pc
  BY IdleType DEF Pc, Stopped
<1>3. fetch' = [fetch EXCEPT ![f] = r] BY <1>1 DEF Give
<1> HIDE DEF r
<1>4. fetch'[f].pc = pc BY <1>2, <1>3 DEF CheckoutsInv, FetchTypes
<1>5. TreeTypes' BY <1>1 DEF CheckoutsInv, TreeTypes, others
<1>6. ASSUME ~ overlapped'
      PROVE  /\ ~ overlapped /\ \A g \in Fetcher \ {f} : fetch[g].pc \in Stopped
             /\ \A c \in Checkout : Whole(c)' /\ dest'[c].rev >= dest[c].rev
             /\ FetchInv(f)'
  <2>1. ~ overlapped BY <1>1, <1>6 DEF others
  <2>2. /\ \A g \in Fetcher \ {f} : fetch[g].pc \in Stopped
        /\ FetchInv(f) /\ \A c \in Checkout : Whole(c)
    BY <1>1, <2>1, RunsAlone
  <2>3. ~ Collides(f)
    BY <2>2 DEF FetchInv, Collides, At, Unpinned
  <2>4. pc = "idle" BY <1>1, <2>3
  <2>5. FetchInv(f)'
    <3>1. Passed(f)' = {} BY <1>4, <2>4 DEF Passed, Stopped
    <3> QED BY <1>4, <2>4, <3>1 DEF FetchInv
  <2>6. \A c \in Checkout : dest[c].rev \in Nat
    BY TreeFacts DEF CheckoutsInv, TreeTypes
  <2>7. \A c \in Checkout : Whole(c)' BY <1>1, <2>2 DEF Whole
  <2> QED BY <1>1, <2>1, <2>2, <2>5, <2>6, <2>7
<1>7. UNCHANGED pin BY <1>1 DEF others
<1> QED BY <1>2, <1>3, <1>5, <1>6, <1>7, FetchKeeps

(* A fetch goes on with the checkout it is at.                               *)
LEMMA ToKeeps ==
  ASSUME CheckoutsInv, NEW f \in Fetcher, NEW pc \in Pc \ (Stopped \cup {"look"}), To(f, pc),
         fetch[f].pc \notin Stopped, UNCHANGED <<failures, others>>,
         dest' \in [Checkout -> Tree \cup {NoTree}], partial' \in [Checkout -> Tree \cup {NoTree}],
         ~ overlapped =>
           LET d == dest'[Target(f)]  p == partial'[Target(f)] IN
             /\ \A c \in Checkout \ {Target(f)} : dest'[c] = dest[c]
             /\ d.there => d.whole /\ d.rev # 0
             /\ d.rev >= dest[Target(f)].rev
             /\ Rev(f) # Unpinned
             /\ pc = "next" => d.rev >= Rev(f)
             /\ pc # "next" => ~ d.there
             /\ pc = "make" => ~ p.there
             /\ pc \in {"checkout", "submodules", "rename"} => p.there
             /\ pc \in {"submodules", "rename"} => p.rev = Rev(f)
             /\ pc = "rename" => p.whole
  PROVE  CheckoutsInv'
<1> DEFINE r == [fetch[f] EXCEPT !.pc = pc]
<1>1. fetch[f] \in [pc : Pc, at : 1 .. Len(Names), pins : [Checkout -> 0 .. MaxRevision]]
  BY DEF CheckoutsInv, FetchTypes
<1>2. /\ r \in [pc : Pc, at : 1 .. Len(Names), pins : [Checkout -> 0 .. MaxRevision]]
      /\ r.pc = pc /\ r.at = fetch[f].at /\ r.pins = fetch[f].pins
  BY <1>1
<1>3. fetch' = [fetch EXCEPT ![f] = r] BY DEF To
<1> HIDE DEF r
<1>4. fetch'[f] = r BY <1>3 DEF CheckoutsInv, FetchTypes
<1>5. /\ fetch'[f].pc = pc /\ fetch'[f].at = fetch[f].at /\ fetch'[f].pins = fetch[f].pins
      /\ fetch[f].at \in 1 .. Len(Names)
  BY <1>1, <1>2, <1>4
<1>6. Target(f) \in Checkout /\ Target(f)' = Target(f) /\ Rev(f)' = Rev(f)
  BY <1>5, NamesFacts DEF Target, Rev
<1>7. TreeTypes' BY DEF CheckoutsInv, TreeTypes, others
<1>8. ASSUME ~ overlapped'
      PROVE  /\ ~ overlapped /\ \A g \in Fetcher \ {f} : fetch[g].pc \in Stopped
             /\ \A c \in Checkout : Whole(c)' /\ dest'[c].rev >= dest[c].rev
             /\ FetchInv(f)'
  <2>1. ~ overlapped BY <1>8 DEF others
  <2>2. /\ \A g \in Fetcher \ {f} : fetch[g].pc \in Stopped
        /\ FetchInv(f) /\ \A c \in Checkout : Whole(c)
    BY <2>1, RunsAlone
  <2>3. ASSUME NEW c \in Checkout PROVE Whole(c)' /\ dest'[c].rev >= dest[c].rev
    <3>1. CASE c = Target(f) BY <2>1, <3>1 DEF Whole
    <3>2. CASE c # Target(f)
      <4>1. dest'[c] = dest[c] BY <2>1, <3>2
      <4>2. dest[c].rev \in Nat BY TreeFacts DEF CheckoutsInv, TreeTypes
      <4> QED BY <2>2, <4>1, <4>2 DEF Whole
    <3> QED BY <3>1, <3>2
  <2>4. \A k \in Passed(f)' : AtPin(f, Names[k])'
    <3> SUFFICES ASSUME NEW k \in Passed(f)' PROVE AtPin(f, Names[k])' OBVIOUS
    <3>1. k \in 1 .. Len(Names) /\ (k < fetch[f].at \/ (pc = "next" /\ k = fetch[f].at))
      BY <1>5 DEF Passed, Stopped
    <3>2. CASE k = fetch[f].at /\ pc = "next"
      <4>1. Names[k] = Target(f) BY <3>2 DEF Target
      <4> QED BY <1>5, <2>1, <3>2, <4>1 DEF AtPin, Rev
    <3>3. CASE k < fetch[f].at
      <4>1. Names[k] \in Checkout /\ Names[k] # Target(f)
        BY <1>5, <3>1, <3>3, NamesFacts DEF Target
      <4>2. AtPin(f, Names[k]) BY <2>2, <3>1, <3>3 DEF FetchInv, Passed
      <4> QED BY <1>5, <2>1, <4>1, <4>2 DEF AtPin
    <3> QED BY <3>1, <3>2, <3>3
  <2>5. FetchInv(f)'
    BY <1>5, <1>6, <2>1, <2>4 DEF FetchInv, Stopped
  <2> QED BY <2>1, <2>2, <2>3, <2>5
<1>9. UNCHANGED pin BY DEF others
<1> QED BY <1>2, <1>3, <1>7, <1>8, <1>9, FetchKeeps

(* The checkout is there, or there is none and its fetch begins.             *)
LEMMA LookStep ==
  ASSUME CheckoutsInv, NEW f \in Fetcher, SkipPresent(f) \/ MissingDest(f)
  PROVE  CheckoutsInv'
<1> DEFINE d == dest[Target(f)]
<1>1. /\ fetch[f].pc \notin Stopped /\ UNCHANGED <<disk, failures, others>> /\ Rev(f) # Unpinned
      /\ \/ To(f, "next") /\ d.there /\ d.rev = Rev(f)
         \/ To(f, "clear") /\ ~ d.there
  BY DEF SkipPresent, MissingDest, At, To, Stopped
<1>2. d.rev \in Nat /\ d.rev >= d.rev BY TargetFacts, TreeFacts
<1>3. ~ overlapped => (d.there => d.whole /\ d.rev # 0)
  BY <1>1, RunsAlone, TargetFacts DEF Whole
<1>4. UNCHANGED <<dest, partial>> BY <1>1 DEF disk
<1>5. PICK pc \in {"next", "clear"} :
        To(f, pc) /\ (pc = "next" => d.rev = Rev(f)) /\ (pc # "next" => ~ d.there)
  BY <1>1
<1>6. pc \in Pc \ (Stopped \cup {"look"}) BY DEF Pc, Stopped
<1>7. pc = "next" => d.rev >= Rev(f) BY <1>2, <1>5
<1> QED BY <1>1, <1>2, <1>3, <1>4, <1>5, <1>6, <1>7, TargetFacts, ToKeeps

(* A fetch at work on its temporary directory.                               *)
LEMMA WorkStep ==
  ASSUME CheckoutsInv, NEW f \in Fetcher,
         Clear(f) \/ Make(f) \/ CheckoutRev(f) \/ InitSubmodules(f)
  PROVE  CheckoutsInv'
<1> DEFINE d == dest[Target(f)]  p == partial[Target(f)]
<1>1. d.rev \in Nat /\ d.rev >= d.rev BY TargetFacts, TreeFacts
<1>2. ASSUME fetch[f].pc \in {"clear", "make", "checkout", "submodules"}, ~ overlapped
      PROVE  /\ FetchInv(f) /\ Rev(f) # Unpinned /\ ~ d.there
  <2>1. fetch[f].pc \notin Stopped BY <1>2 DEF Stopped
  <2> QED BY <1>2, <2>1, RunsAlone DEF FetchInv
<1>3. MaxRevision \in Nat /\ 0 \in 0 .. MaxRevision BY CheckoutsAssumption
<1>4. CASE Clear(f)
  <2>1. /\ To(f, "make") /\ UNCHANGED <<dest, failures, others>> /\ fetch[f].pc = "clear"
        /\ partial' = [partial EXCEPT ![Target(f)] = NoTree]
    BY <1>4 DEF Clear, At
  <2>2. partial' \in [Checkout -> Tree \cup {NoTree}] /\ partial'[Target(f)] = NoTree
    BY <2>1, TargetFacts
  <2>3. ~ partial'[Target(f)].there BY <2>2 DEF NoTree
  <2>4. "make" \in Pc \ (Stopped \cup {"look"}) /\ fetch[f].pc \notin Stopped
    BY <2>1 DEF Pc, Stopped
  <2> QED BY <1>1, <1>2, <2>1, <2>2, <2>3, <2>4, TargetFacts, ToKeeps
<1>5. CASE Make(f)
  <2> DEFINE t == [NoTree EXCEPT !.there = TRUE]
  <2>1. /\ To(f, "checkout") /\ UNCHANGED <<dest, failures, others>> /\ fetch[f].pc = "make"
        /\ partial' = [partial EXCEPT ![Target(f)] = t]
    BY <1>5 DEF Make, At
  <2>2. t \in Tree /\ t.there BY <1>3 DEF NoTree, Tree
  <2> HIDE DEF t
  <2>3. partial' \in [Checkout -> Tree \cup {NoTree}] /\ partial'[Target(f)] = t
    BY <2>1, <2>2, TargetFacts
  <2>4. "checkout" \in Pc \ (Stopped \cup {"look"}) /\ fetch[f].pc \notin Stopped
    BY <2>1 DEF Pc, Stopped
  <2> QED BY <1>1, <1>2, <2>1, <2>2, <2>3, <2>4, TargetFacts, ToKeeps
<1>6. CASE CheckoutRev(f)
  <2> DEFINE t == [p EXCEPT !.rev = Rev(f)]
  <2>1. /\ To(f, "submodules") /\ UNCHANGED <<dest, failures, others>> /\ fetch[f].pc = "checkout"
        /\ partial' = [partial EXCEPT ![Target(f)] = t] /\ p.there
    BY <1>6 DEF CheckoutRev, At
  <2>2. p \in Tree BY <2>1, TargetFacts, TreeFacts
  <2>3. t \in Tree /\ t.there /\ t.rev = Rev(f) BY <2>2, TargetFacts DEF Tree
  <2> HIDE DEF t
  <2>4. partial' \in [Checkout -> Tree \cup {NoTree}] /\ partial'[Target(f)] = t
    BY <2>1, <2>3, TargetFacts
  <2>5. "submodules" \in Pc \ (Stopped \cup {"look"}) /\ fetch[f].pc \notin Stopped
    BY <2>1 DEF Pc, Stopped
  <2> QED BY <1>1, <1>2, <2>1, <2>3, <2>4, <2>5, TargetFacts, ToKeeps
<1>7. CASE InitSubmodules(f)
  <2> DEFINE t == [p EXCEPT !.whole = TRUE]
  <2>1. /\ To(f, "rename") /\ UNCHANGED <<dest, failures, others>> /\ fetch[f].pc = "submodules"
        /\ partial' = [partial EXCEPT ![Target(f)] = t] /\ p.there
    BY <1>7 DEF InitSubmodules, At
  <2>2. p \in Tree BY <2>1, TargetFacts, TreeFacts
  <2>3. t \in Tree /\ t.there /\ t.rev = p.rev /\ t.whole BY <2>2 DEF Tree
  <2>4. ~ overlapped => p.rev = Rev(f) BY <1>2, <2>1 DEF FetchInv
  <2> HIDE DEF t
  <2>5. partial' \in [Checkout -> Tree \cup {NoTree}] /\ partial'[Target(f)] = t
    BY <2>1, <2>3, TargetFacts
  <2>6. "rename" \in Pc \ (Stopped \cup {"look"}) /\ fetch[f].pc \notin Stopped
    BY <2>1 DEF Pc, Stopped
  <2> QED BY <1>1, <1>2, <2>1, <2>3, <2>4, <2>5, <2>6, TargetFacts, ToKeeps
<1> QED BY <1>4, <1>5, <1>6, <1>7

(* The checkout appears whole, at its pin.                                   *)
LEMMA RenameStep == ASSUME CheckoutsInv, NEW f \in Fetcher, Rename(f) PROVE CheckoutsInv'
<1> DEFINE d == dest[Target(f)]  p == partial[Target(f)]
<1>1. /\ To(f, "next") /\ UNCHANGED <<failures, others>> /\ fetch[f].pc = "rename"
      /\ dest' = [dest EXCEPT ![Target(f)] = p] /\ partial' = [partial EXCEPT ![Target(f)] = NoTree]
      /\ p.there /\ ~ d.there
  BY DEF Rename, At
<1>2. p \in Tree /\ p.rev \in Nat /\ d.rev = 0 BY <1>1, TargetFacts, TreeFacts
<1> HIDE DEF p
<1>3. dest' \in [Checkout -> Tree \cup {NoTree}] /\ partial' \in [Checkout -> Tree \cup {NoTree}]
      /\ dest'[Target(f)] = p /\ \A c \in Checkout \ {Target(f)} : dest'[c] = dest[c]
  BY <1>1, <1>2, TargetFacts
<1>4. fetch[f].pc \notin Stopped /\ "next" \in Pc \ (Stopped \cup {"look"})
  BY <1>1 DEF Stopped, Pc
<1>5. ~ overlapped => p.rev = Rev(f) /\ Rev(f) # Unpinned /\ p.whole
  BY <1>1, <1>4, RunsAlone DEF FetchInv, p
<1>6. p.rev >= d.rev /\ (p.rev = Rev(f) => p.rev >= Rev(f)) BY <1>2, TargetFacts
<1>7. Rev(f) # Unpinned => Rev(f) # 0 BY DEF Unpinned
<1> QED BY <1>1, <1>3, <1>4, <1>5, <1>6, <1>7, TargetFacts, ToKeeps

LEMMA NextStep == ASSUME CheckoutsInv, NEW f \in Fetcher, NextCheckout(f) PROVE CheckoutsInv'
<1>1. /\ fetch[f].pc = "next" /\ UNCHANGED <<disk, failures, others>>
      /\ fetch[f] \in [pc : Pc, at : 1 .. Len(Names), pins : [Checkout -> 0 .. MaxRevision]]
  BY DEF NextCheckout, At, CheckoutsInv, FetchTypes
<1>2. PICK pc \in {"look", "done"}, n \in 1 .. Len(Names) :
        /\ fetch' = [fetch EXCEPT ![f] = [fetch[f] EXCEPT !.pc = pc, !.at = n]]
        /\ pc = "look" => n = fetch[f].at + 1
        /\ pc = "done" => fetch[f].at = Len(Names)
  <2>1. fetch[f].at \in 1 .. Len(Names) /\ Len(Names) \in Nat BY <1>1, NamesFacts
  <2>2. CASE fetch[f].at < Len(Names)
    <3>1. fetch[f].at + 1 \in 1 .. Len(Names) BY <2>1, <2>2
    <3>2. fetch' = [fetch EXCEPT ![f] = [fetch[f] EXCEPT !.pc = "look", !.at = fetch[f].at + 1]]
      BY <2>2 DEF NextCheckout, CheckoutsInv, FetchTypes
    <3> QED BY <3>1, <3>2
  <2>3. CASE ~ (fetch[f].at < Len(Names))
    <3>1. fetch[f].at = Len(Names) BY <2>1, <2>3
    <3>2. fetch' = [fetch EXCEPT ![f] = [fetch[f] EXCEPT !.pc = "done", !.at = fetch[f].at]]
      BY <1>1, <2>3 DEF NextCheckout, CheckoutsInv, FetchTypes
    <3> QED BY <2>1, <3>1, <3>2
  <2> QED BY <2>2, <2>3
<1> DEFINE r == [fetch[f] EXCEPT !.pc = pc, !.at = n]
<1>3. /\ r \in [pc : Pc, at : 1 .. Len(Names), pins : [Checkout -> 0 .. MaxRevision]]
      /\ r.pc = pc /\ r.at = n /\ r.pins = fetch[f].pins
  BY <1>1 DEF Pc, Stopped
<1>4. fetch' = [fetch EXCEPT ![f] = r] BY <1>2
<1> HIDE DEF r
<1>5. fetch'[f].pc = pc /\ fetch'[f].at = n /\ fetch'[f].pins = fetch[f].pins
  BY <1>3, <1>4 DEF CheckoutsInv, FetchTypes
<1>6. TreeTypes' BY <1>1 DEF CheckoutsInv, TreeTypes, disk, others
<1>7. ASSUME ~ overlapped'
      PROVE  /\ ~ overlapped /\ \A g \in Fetcher \ {f} : fetch[g].pc \in Stopped
             /\ \A c \in Checkout : Whole(c)' /\ dest'[c].rev >= dest[c].rev
             /\ FetchInv(f)'
  <2>1. ~ overlapped /\ fetch[f].pc \notin Stopped BY <1>1, <1>7 DEF others, Stopped
  <2>2. /\ \A g \in Fetcher \ {f} : fetch[g].pc \in Stopped
        /\ FetchInv(f) /\ \A c \in Checkout : Whole(c)
    BY <2>1, RunsAlone
  <2>3. \A k \in Passed(f)' : k \in Passed(f)
    <3>1. fetch[f].at \in 1 .. Len(Names) /\ Len(Names) \in Nat BY <1>1, NamesFacts
    <3> SUFFICES ASSUME NEW k \in Passed(f)' PROVE k \in Passed(f) OBVIOUS
    <3>2. k \in 1 .. Len(Names) /\ (pc = "done" \/ (pc = "look" /\ k < n))
      BY <1>5 DEF Passed
    <3>3. k < fetch[f].at \/ k = fetch[f].at BY <1>2, <3>1, <3>2
    <3> QED BY <1>1, <2>1, <3>2, <3>3 DEF Passed
  <2>4. \A k \in Passed(f) : AtPin(f, Names[k])' BY <1>1, <1>5, <2>2 DEF FetchInv, AtPin, disk
  <2>5. FetchInv(f)' BY <1>5, <2>3, <2>4 DEF FetchInv
  <2>6. \A c \in Checkout : dest[c].rev \in Nat BY TreeFacts DEF CheckoutsInv, TreeTypes
  <2>7. \A c \in Checkout : Whole(c)' BY <1>1, <2>2 DEF Whole, disk
  <2> QED BY <1>1, <2>1, <2>2, <2>5, <2>6, <2>7 DEF disk
<1>8. UNCHANGED pin BY <1>1 DEF others
<1> QED BY <1>3, <1>4, <1>6, <1>7, <1>8, FetchKeeps

-----------------------------------------------------------------------------
(* pin, and the developer                                                  *)

(* pin reads the checkouts and writes the lock: no fetch reads either again.  *)
LEMMA PinKeeps ==
  ASSUME CheckoutsInv, UNCHANGED pinOthers, PinTypes',
         lock' \in [Checkout -> 0 .. MaxRevision], lockState' \in {"whole", "empty"},
         failures' \in 0 .. MaxFailures
  PROVE  CheckoutsInv'
<1>1. UNCHANGED <<dest, partial, fetch, overlapped>> BY DEF pinOthers, disk
<1>2. TreeTypes' /\ FetchTypes' BY <1>1 DEF CheckoutsInv, TreeTypes, FetchTypes
<1>3. ~ overlapped' => Alone'
  BY <1>1 DEF CheckoutsInv, Alone, Whole, FetchInv, Passed, AtPin, Rev, Target
<1> QED BY <1>2, <1>3 DEF CheckoutsInv

LEMMA PinStep ==
  ASSUME CheckoutsInv, BeginPin \/ InspectNext \/ RefusePin \/ OpenLock \/ WriteLock \/ KillPin
  PROVE  CheckoutsInv'
<1>1. /\ pin \in [pc : {"idle", "inspect", "write"}, seen : Seq(Revision)]
      /\ pin.pc = "write" => Len(pin.seen) = Len(Names)
      /\ lock \in [Checkout -> 0 .. MaxRevision] /\ lockState \in {"whole", "empty"}
      /\ failures \in 0 .. MaxFailures /\ MaxRevision \in Nat /\ MaxFailures \in Nat
  BY CheckoutsAssumption DEF CheckoutsInv, TreeTypes, PinTypes
<1>2. \A pc \in {"idle", "inspect"} : pin' = [pc |-> pc, seen |-> <<>>] => PinTypes'
  BY EmptySeq DEF PinTypes
<1>3. CASE BeginPin BY <1>1, <1>2, <1>3, PinKeeps DEF BeginPin
<1>4. CASE InspectNext
  <2> DEFINE c == Names[Len(pin.seen) + 1]
  <2>1. /\ pin.pc = "inspect" /\ Len(pin.seen) < Len(Names) /\ dest[c].rev # 0
        /\ pin' = [pin EXCEPT !.seen = Append(@, dest[c].rev)]
        /\ UNCHANGED <<lock, lockState, failures, pinOthers>>
    BY <1>4 DEF InspectNext, Inspected
  <2>2. Len(pin.seen) + 1 \in 1 .. Len(Names) BY <1>1, <2>1, LenProperties, NamesFacts
  <2>3. c \in Checkout BY <2>2, NamesFacts
  <2> HIDE DEF c
  <2>4. dest[c].rev \in 0 .. MaxRevision BY <2>3, TreeFacts DEF CheckoutsInv, TreeTypes
  <2>5. dest[c].rev \in Revision BY <1>1, <2>1, <2>4 DEF Revision
  <2>6. Append(pin.seen, dest[c].rev) \in Seq(Revision) BY <1>1, <2>5, AppendProperties
  <2>7. PinTypes' BY <1>1, <2>1, <2>6 DEF PinTypes
  <2> QED BY <1>1, <2>1, <2>7, PinKeeps
<1>5. CASE RefusePin BY <1>1, <1>2, <1>5, PinKeeps DEF RefusePin
<1>6. CASE OpenLock
  <2>1. PinTypes' BY <1>1, <1>6 DEF OpenLock, PinTypes
  <2> QED BY <1>1, <1>6, <2>1, PinKeeps DEF OpenLock
<1>7. CASE WriteLock
  <2>1. /\ pin.pc = "write" /\ lockState' = "whole" /\ pin' = [pc |-> "idle", seen |-> <<>>]
        /\ lock' = [c \in Checkout |-> pin.seen[CHOOSE k \in DOMAIN Names : Names[k] = c]]
        /\ UNCHANGED <<failures, pinOthers>>
    BY <1>7 DEF WriteLock
  <2>2. ASSUME NEW c \in Checkout
        PROVE  pin.seen[CHOOSE k \in DOMAIN Names : Names[k] = c] \in 0 .. MaxRevision
    <3> DEFINE k == CHOOSE k \in DOMAIN Names : Names[k] = c
    <3>1. k \in 1 .. Len(Names) BY NamesFacts
    <3> HIDE DEF k
    <3>2. pin.seen \in Seq(Revision) /\ Len(pin.seen) = Len(Names) BY <1>1, <2>1
    <3>3. pin.seen[k] \in Revision BY <3>1, <3>2, ElementOfSeq
    <3>4. pin.seen[k] \in 0 .. MaxRevision BY <1>1, <3>3 DEF Revision
    <3> QED BY <3>4 DEF k
  <2>3. lock' \in [Checkout -> 0 .. MaxRevision] BY <2>1, <2>2
  <2> QED BY <1>1, <1>2, <2>1, <2>3, PinKeeps
<1>8. CASE KillPin
  <2>1. failures' \in 0 .. MaxFailures BY <1>1, <1>8 DEF KillPin
  <2> QED BY <1>1, <1>2, <1>8, <2>1, PinKeeps DEF KillPin
<1> QED BY <1>3, <1>4, <1>5, <1>6, <1>7, <1>8

(* A commit moves a checkout that is there, on from its pin.                 *)
LEMMA CommitStep == ASSUME CheckoutsInv, NEW c \in Checkout, Commit(c) PROVE CheckoutsInv'
<1> DEFINE t == [dest[c] EXCEPT !.rev = dest[c].rev + 1]
<1>1. /\ UNCHANGED <<lock, lockState, partial, fetch, pin, failures, overlapped>>
      /\ dest' = [dest EXCEPT ![c] = t] /\ dest[c].there /\ dest[c].rev \in 1 .. MaxRevision - 1
      /\ MaxRevision \in Nat
  BY CheckoutsAssumption DEF Commit
<1>2. dest \in [Checkout -> Tree \cup {NoTree}] /\ dest[c] \in Tree
  BY <1>1, TreeFacts DEF CheckoutsInv, TreeTypes
<1>3. dest[c].rev + 1 \in 0 .. MaxRevision BY <1>1
<1>4. t \in Tree /\ t.there = dest[c].there /\ t.whole = dest[c].whole /\ t.rev = dest[c].rev + 1
  BY <1>2, <1>3 DEF Tree
<1> HIDE DEF t
<1>5. /\ dest' \in [Checkout -> Tree \cup {NoTree}] /\ dest'[c] = t
      /\ \A x \in Checkout \ {c} : dest'[x] = dest[x]
  BY <1>1, <1>2, <1>4
<1>6. TreeTypes' /\ FetchTypes' /\ PinTypes'
  BY <1>1, <1>5 DEF CheckoutsInv, TreeTypes, FetchTypes, PinTypes
<1>7. \A x \in Checkout :
        /\ dest[x].rev \in Nat /\ dest'[x].rev \in Nat /\ dest'[x].rev >= dest[x].rev
        /\ dest'[x].there = dest[x].there /\ dest'[x].whole = dest[x].whole
        /\ dest[x].rev # 0 => dest'[x].rev # 0
  <2> SUFFICES ASSUME NEW x \in Checkout
               PROVE  /\ dest[x].rev \in Nat /\ dest'[x].rev \in Nat /\ dest'[x].rev >= dest[x].rev
                      /\ dest'[x].there = dest[x].there /\ dest'[x].whole = dest[x].whole
                      /\ dest[x].rev # 0 => dest'[x].rev # 0
    OBVIOUS
  <2>1. dest[x].rev \in Nat BY <1>2, TreeFacts
  <2>2. CASE x = c BY <1>4, <1>5, <2>1, <2>2
  <2>3. CASE x # c BY <1>5, <2>1, <2>3
  <2> QED BY <2>2, <2>3
<1>8. ASSUME ~ overlapped' PROVE Alone'
  <2>1. Alone BY <1>1, <1>8 DEF CheckoutsInv
  <2>2. \A x \in Checkout : Whole(x)' BY <1>7, <2>1 DEF Alone, Whole
  <2>3. ASSUME NEW f \in Fetcher PROVE FetchInv(f)'
    <3>1. FetchInv(f) /\ Target(f) \in Checkout /\ Target(f)' = Target(f) /\ Rev(f)' = Rev(f)
          /\ Passed(f)' = Passed(f)
      BY <1>1, <2>1, TargetFacts DEF Alone, Target, Rev, Passed
    <3>2. ASSUME NEW k \in Passed(f) PROVE AtPin(f, Names[k])'
      <4>1. Names[k] \in Checkout /\ AtPin(f, Names[k]) BY <3>1, NamesFacts DEF Passed, FetchInv
      <4>2. fetch[f].pins[Names[k]] \in Nat
        BY <4>1, CheckoutsAssumption DEF CheckoutsInv, FetchTypes
      <4> QED BY <1>1, <1>7, <4>1, <4>2 DEF AtPin
    <3> QED BY <1>1, <1>7, <3>1, <3>2 DEF FetchInv
  <2> QED BY <1>1, <2>1, <2>2, <2>3 DEF Alone
<1> QED BY <1>6, <1>8 DEF CheckoutsInv

-----------------------------------------------------------------------------
LEMMA CheckoutsStep == CheckoutsInv /\ [Next]_vars => CheckoutsInv'
<1> SUFFICES ASSUME CheckoutsInv, [Next]_vars PROVE CheckoutsInv' OBVIOUS
<1>1. ASSUME NEW f \in Fetcher, BeginFetch(f) \/ FetchStep(f) \/ ClearFails(f) \/ FailFetch(f)
      PROVE  CheckoutsInv'
  BY <1>1, BeginFetchStep, GiveUpStep, LookStep, WorkStep, RenameStep, NextStep DEF FetchStep
<1>2. ASSUME NEW c \in Checkout, Commit(c) PROVE CheckoutsInv' BY <1>2, CommitStep
<1>3. CASE UNCHANGED vars
  BY <1>3, PinKeeps DEF vars, pinOthers, disk, CheckoutsInv, PinTypes, TreeTypes
<1> QED BY <1>1, <1>2, <1>3, PinStep DEF Next

LEMMA CheckoutsInvariant == Spec => []CheckoutsInv
BY CheckoutsStart, CheckoutsStep, PTL DEF Spec

(* The types, and that nothing but another fetch takes away what a fetch has  *)
(* at its temporary path.                                                   *)
THEOREM CheckoutsTypeCorrect == Spec => []TypeOK
<1>1. CheckoutsInv => TypeOK
  <2> SUFFICES ASSUME CheckoutsInv PROVE TypeOK OBVIOUS
  <2>1. /\ lock \in [Checkout -> 0 .. MaxRevision] /\ lockState \in {"whole", "empty"}
        /\ {dest, partial} \subseteq [Checkout -> Tree \cup {NoTree}]
        /\ failures \in 0 .. MaxFailures /\ overlapped \in BOOLEAN
    BY DEF CheckoutsInv, TreeTypes
  <2>2. pin.pc \in {"idle", "inspect", "write"} /\ Range(pin.seen) \subseteq Revision
    <3>1. pin.seen \in Seq(Revision) /\ pin.pc \in {"idle", "inspect", "write"}
      BY DEF CheckoutsInv, PinTypes
    <3>2. \A k \in DOMAIN pin.seen : pin.seen[k] \in Revision
      BY <3>1, LenProperties, ElementOfSeq
    <3> QED BY <3>1, <3>2 DEF Range
  <2>3. ASSUME NEW f \in Fetcher
        PROVE  /\ fetch[f].pc \in Stopped \cup {"look", "clear", "make", "checkout", "submodules",
                                                "rename", "next"}
               /\ fetch[f].at \in DOMAIN Names /\ fetch[f].pins \in [Checkout -> 0 .. MaxRevision]
    BY NamesFacts DEF CheckoutsInv, FetchTypes, Pc
  <2>4. ASSUME NEW f \in Fetcher, fetch[f].pc \in {"checkout", "submodules", "rename"}, ~ overlapped
        PROVE  partial[Target(f)].there
    BY <2>4 DEF CheckoutsInv, Alone, FetchInv
  <2> QED BY <2>1, <2>2, <2>3, <2>4 DEF TypeOK
<1> QED BY <1>1, CheckoutsInvariant, PTL

(* "An interrupted fetch never leaves a half-made checkout at the final       *)
(* path", as long as one runs at a time.                                     *)
THEOREM NoHalfCheckout == Spec => []InterruptedFetchLeavesNoHalf
<1>1. CheckoutsInv => InterruptedFetchLeavesNoHalf
  BY DEF CheckoutsInv, Alone, InterruptedFetchLeavesNoHalf
<1> QED BY <1>1, CheckoutsInvariant, PTL

(* What an earlier fetch left is never in the way of a later one.            *)
THEOREM NothingBlocksTheNext == Spec => []LeftoverNeverBlocks
<1>1. CheckoutsInv => LeftoverNeverBlocks
  BY DEF CheckoutsInv, Alone, FetchInv, LeftoverNeverBlocks, TreeTypes
<1> QED BY <1>1, CheckoutsInvariant, PTL

(* A fetch that reports success left every checkout at its pin or beyond.    *)
THEOREM DoneIsAtPins == Spec => []DoneMeansAtPins
<1>1. CheckoutsInv => DoneMeansAtPins
  <2> SUFFICES ASSUME CheckoutsInv, ~ overlapped, NEW f \in Fetcher, fetch[f].pc = "done",
                      NEW c \in Checkout
               PROVE  fetch[f].pins[c] # Unpinned /\ dest[c].rev >= fetch[f].pins[c]
    BY DEF DoneMeansAtPins
  <2>1. PICK k \in 1 .. Len(Names) : Names[k] = c BY NamesFacts
  <2>2. FetchInv(f) /\ k \in Passed(f) BY DEF CheckoutsInv, Alone, Passed
  <2> QED BY <2>1, <2>2 DEF FetchInv, AtPin
<1> QED BY <1>1, CheckoutsInvariant, PTL
=============================================================================
