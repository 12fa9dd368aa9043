----------------------------- MODULE Checkouts -----------------------------
(***************************************************************************)
(* The checkouts a profile names, its lock, and what changes them: fetch   *)
(* (fetch.py) clones every checkout at its pin, pin (cli.py) locks what    *)
(* the checkouts are at, and a developer commits.  Every command inspects  *)
(* checkouts one by one (checkouts.py) while the others move.              *)
(*                                                                         *)
(* A fetch is several git commands in one directory, and may fail or be    *)
(* killed between any two; a new one may follow.  Fetches of two profiles  *)
(* share the directory, so several may run at once.                        *)
(***************************************************************************)
EXTENDS Naturals, Sequences, Functions

CONSTANTS
  Names,        \* the checkouts, in the order of the profile
  Fetcher,      \* the processes that run fetch
  MaxRevision,  \* bound: the revisions a checkout goes through
  MaxFailures   \* bound: the git commands that fail and the processes killed

Checkout == Range(Names)
Revision == 1 .. MaxRevision
Unpinned == 0

ASSUME CheckoutsAssumption ==
  /\ Names \in Seq(Range(Names)) /\ IsInjective(Names) /\ Names # <<>>
  /\ MaxRevision \in Nat \ {0} /\ MaxFailures \in Nat

(* A tree: the commit it is at, 0 before one is checked out, and whether its *)
(* submodules are complete.  Revisions are numbered as they are committed.   *)
NoTree == [rev |-> 0, whole |-> FALSE, there |-> FALSE]
Tree   == [rev : 0 .. MaxRevision, whole : BOOLEAN, there : {TRUE}]

FirstTree == [rev |-> 1, whole |-> TRUE, there |-> TRUE]

VARIABLES
  lock,      \* interop.lock: the pin of each checkout, Unpinned for none
  lockState, \* "whole", or "empty" while it is rewritten
  dest,      \* the tree at each checkout's path
  partial,   \* the tree at its temporary path
  fetch,     \* each fetcher: what it does, for which checkout, with which pins
  pin,       \* the pin command: what it does and the revisions it has seen
  failures,  \* git failures and kills so far
  overlapped \* history: two fetches ran at the same time

vars == <<lock, lockState, dest, partial, fetch, pin, failures, overlapped>>

Idle == [pc |-> "idle", at |-> 1, pins |-> [c \in Checkout |-> Unpinned]]

(* There is no lock yet, or one that pins every checkout.                    *)
Init ==
  /\ lock \in {[c \in Checkout |-> r] : r \in 0 .. MaxRevision} /\ lockState = "whole"
  /\ dest \in [Checkout -> {NoTree, FirstTree}] /\ partial = [c \in Checkout |-> NoTree]
  /\ fetch = [f \in Fetcher |-> Idle]
  /\ pin = [pc |-> "idle", seen |-> <<>>]
  /\ failures = 0 /\ overlapped = FALSE

-----------------------------------------------------------------------------
(* fetch                                                                   *)

Target(f) == Names[fetch[f].at]
Rev(f)    == fetch[f].pins[Target(f)]
To(f, pc) == fetch' = [fetch EXCEPT ![f].pc = pc]
At(f, pc) == fetch[f].pc = pc
disk == <<dest, partial>>
others == <<lock, lockState, pin, overlapped>>
Stopped == {"idle", "collided", "done"}
Give(f, pc) == fetch' = [fetch EXCEPT ![f] = [Idle EXCEPT !.pc = pc]]

(* load_config reads the lock once.  A lock that is no mapping is refused.   *)
BeginFetch(f) ==
  /\ fetch[f].pc \in Stopped /\ lockState = "whole"
  /\ fetch' = [fetch EXCEPT ![f] = [pc |-> "look", at |-> 1, pins |-> lock]]
  /\ overlapped' = (overlapped \/ \E g \in Fetcher \ {f} : fetch[g].pc \notin Stopped)
  /\ UNCHANGED <<disk, failures, lock, lockState, pin>>

(* Mutant: any checkout that is there will do.                               *)
SkipAnything(f) ==
  /\ At(f, "look") /\ Rev(f) # Unpinned /\ dest[Target(f)].there
  /\ fetch' = [fetch EXCEPT ![f].pc = "next"]
  /\ UNCHANGED <<disk, failures, others>>

(* The checkout is there already, at the pin.                                *)
SkipPresent(f) ==
  /\ At(f, "look") /\ Rev(f) # Unpinned /\ dest[Target(f)].there
  /\ dest[Target(f)].rev = Rev(f)
  /\ fetch' = [fetch EXCEPT ![f].pc = "next"]
  /\ UNCHANGED <<disk, failures, others>>

(* There is no pin, or the checkout exists at another commit.                *)
RefuseFetch(f) ==
  /\ At(f, "look")
  /\ Rev(f) = Unpinned \/ (dest[Target(f)].there /\ dest[Target(f)].rev # Rev(f))
  /\ Give(f, "idle")
  /\ UNCHANGED <<disk, failures, others>>

MissingDest(f) ==
  /\ At(f, "look") /\ Rev(f) # Unpinned /\ ~ dest[Target(f)].there
  /\ To(f, "clear")
  /\ UNCHANGED <<disk, failures, others>>

(* Mutant: what an earlier fetch left is not removed.                        *)
ClearNothing(f) ==
  /\ At(f, "clear") /\ To(f, "make")
  /\ UNCHANGED <<disk, failures, others>>

(* shutil.rmtree of the temporary directory                                 *)
Clear(f) ==
  /\ At(f, "clear") /\ To(f, "make")
  /\ partial' = [partial EXCEPT ![Target(f)] = NoTree]
  /\ UNCHANGED <<dest, failures, others>>

(* Some of it cannot be removed, which rmtree is told to ignore: the mkdir   *)
(* that follows then fails.  A kill in the removal leaves the same.          *)
ClearFails(f) ==
  /\ At(f, "clear") /\ partial[Target(f)].there /\ failures < MaxFailures
  /\ failures' = failures + 1 /\ Give(f, "idle")
  /\ \E rev \in {0, partial[Target(f)].rev} :
       partial' = [partial EXCEPT
                     ![Target(f)] = [rev |-> rev, whole |-> FALSE, there |-> TRUE]]
  /\ UNCHANGED <<dest, others>>

(* Mutant: git init is left to the commands after it.                       *)
MakeNothing(f) ==
  /\ At(f, "make") /\ ~ partial[Target(f)].there
  /\ To(f, "checkout")
  /\ UNCHANGED <<disk, failures, others>>

(* mkdir and git init                                                       *)
Make(f) ==
  /\ At(f, "make") /\ ~ partial[Target(f)].there
  /\ To(f, "checkout")
  /\ partial' = [partial EXCEPT ![Target(f)] = [NoTree EXCEPT !.there = TRUE]]
  /\ UNCHANGED <<dest, failures, others>>

(* Mutant: git works at the final path.                                      *)
CheckoutInPlace(f) ==
  /\ At(f, "checkout") /\ partial[Target(f)].there
  /\ To(f, "submodules")
  /\ partial' = [partial EXCEPT ![Target(f)].rev = Rev(f)]
  /\ dest' = [dest EXCEPT ![Target(f)] = partial'[Target(f)]]
  /\ UNCHANGED <<failures, others>>

(* git fetch and git checkout                                               *)
CheckoutRev(f) ==
  /\ At(f, "checkout") /\ partial[Target(f)].there
  /\ To(f, "submodules")
  /\ partial' = [partial EXCEPT ![Target(f)].rev = Rev(f)]
  /\ UNCHANGED <<dest, failures, others>>

InitSubmodules(f) ==
  /\ At(f, "submodules") /\ partial[Target(f)].there /\ partial[Target(f)].rev # 0
  /\ To(f, "rename")
  /\ partial' = [partial EXCEPT ![Target(f)].whole = TRUE]
  /\ UNCHANGED <<dest, failures, others>>

(* A rename onto a directory that is not empty fails.                        *)
Rename(f) ==
  /\ At(f, "rename") /\ partial[Target(f)].there /\ ~ dest[Target(f)].there
  /\ To(f, "next")
  /\ dest' = [dest EXCEPT ![Target(f)] = partial[Target(f)]]
  /\ partial' = [partial EXCEPT ![Target(f)] = NoTree]
  /\ UNCHANGED <<failures, others>>

(* Another fetch took or made the temporary directory, or the checkout.      *)
Collides(f) ==
  \/ At(f, "make") /\ partial[Target(f)].there
  \/ At(f, "checkout") /\ ~ partial[Target(f)].there
  \/ At(f, "submodules") /\ partial[Target(f)].rev = 0
  \/ At(f, "rename") /\ (~ partial[Target(f)].there \/ dest[Target(f)].there)

FailCollision(f) ==
  /\ Collides(f) /\ Give(f, "collided")
  /\ UNCHANGED <<disk, failures, others>>

NextCheckout(f) ==
  /\ At(f, "next")
  /\ fetch' = IF fetch[f].at < Len(Names)
                THEN [fetch EXCEPT ![f].pc = "look", ![f].at = @ + 1]
                ELSE [fetch EXCEPT ![f].pc = "done"]
  /\ UNCHANGED <<disk, failures, others>>

(* A git command fails, sources.yaml has no entry, or the process is killed; *)
(* the disk stays as it is.                                                  *)
FailFetch(f) ==
  /\ fetch[f].pc \in {"look", "make", "checkout", "submodules", "rename"}
  /\ failures < MaxFailures
  /\ failures' = failures + 1 /\ Give(f, "idle")
  /\ UNCHANGED <<disk, others>>

-----------------------------------------------------------------------------
(* pin                                                                     *)

pinOthers == <<disk, fetch, overlapped>>

(* inspect_checkout refuses a tree that is not there or is unborn.           *)
Inspected(c) == dest[c].there /\ dest[c].rev # 0

BeginPin ==
  /\ pin.pc = "idle" /\ lockState = "whole"
  /\ pin' = [pc |-> "inspect", seen |-> <<>>]
  /\ UNCHANGED <<lock, lockState, failures, pinOthers>>

InspectNext ==
  /\ pin.pc = "inspect" /\ Len(pin.seen) < Len(Names)
  /\ LET c == Names[Len(pin.seen) + 1] IN
       /\ Inspected(c)
       /\ pin' = [pin EXCEPT !.seen = Append(@, dest[c].rev)]
  /\ UNCHANGED <<lock, lockState, failures, pinOthers>>

(* It is not there or unborn, or git finds uncommitted changes.              *)
RefusePin ==
  /\ pin.pc = "inspect" /\ Len(pin.seen) < Len(Names)
  /\ pin' = [pc |-> "idle", seen |-> <<>>]
  /\ UNCHANGED <<lock, lockState, failures, pinOthers>>

(* write_lock rewrites the file in place.                                   *)
OpenLock ==
  /\ pin.pc = "inspect" /\ Len(pin.seen) = Len(Names)
  /\ pin' = [pin EXCEPT !.pc = "write"] /\ lockState' = "empty"
  /\ UNCHANGED <<lock, failures, pinOthers>>

WriteLock ==
  /\ pin.pc = "write"
  /\ lock' = [c \in Checkout |-> pin.seen[CHOOSE k \in DOMAIN Names : Names[k] = c]]
  /\ lockState' = "whole" /\ pin' = [pc |-> "idle", seen |-> <<>>]
  /\ UNCHANGED <<failures, pinOthers>>

(* Killed while it rewrites the lock, it leaves an empty file, which every   *)
(* command refuses from then on, pin included.                               *)
KillPin ==
  /\ pin.pc = "write" /\ failures < MaxFailures
  /\ failures' = failures + 1 /\ pin' = [pc |-> "idle", seen |-> <<>>]
  /\ UNCHANGED <<lock, lockState, pinOthers>>

-----------------------------------------------------------------------------
(* The developer                                                           *)

Commit(c) ==
  /\ dest[c].there /\ dest[c].rev \in 1 .. MaxRevision - 1
  /\ dest' = [dest EXCEPT ![c].rev = @ + 1]
  /\ UNCHANGED <<lock, lockState, partial, fetch, pin, failures, overlapped>>

-----------------------------------------------------------------------------
FetchStep(f) ==
  \/ SkipPresent(f) \/ RefuseFetch(f) \/ MissingDest(f) \/ Clear(f) \/ Make(f)
  \/ CheckoutRev(f) \/ InitSubmodules(f) \/ Rename(f) \/ FailCollision(f)
  \/ NextCheckout(f)

Next ==
  \/ \E f \in Fetcher : BeginFetch(f) \/ FetchStep(f) \/ ClearFails(f) \/ FailFetch(f)
  \/ BeginPin \/ InspectNext \/ RefusePin \/ OpenLock \/ WriteLock \/ KillPin
  \/ \E c \in Checkout : Commit(c)

Spec == Init /\ [][Next]_vars

-----------------------------------------------------------------------------
(* Properties                                                              *)

(* Types, and what a fetch under way has at its temporary path: nothing but  *)
(* another fetch takes it away.                                             *)
TypeOK ==
  /\ lock \in [Checkout -> 0 .. MaxRevision] /\ lockState \in {"whole", "empty"}
  /\ {dest, partial} \subseteq [Checkout -> Tree \cup {NoTree}]
  /\ \A f \in Fetcher :
       /\ fetch[f].pc \in Stopped \cup {"look", "clear", "make", "checkout", "submodules",
                                      "rename", "next"}
       /\ fetch[f].at \in DOMAIN Names /\ fetch[f].pins \in [Checkout -> 0 .. MaxRevision]
       /\ fetch[f].pc \in {"checkout", "submodules", "rename"} /\ ~ overlapped =>
            partial[Target(f)].there
  /\ pin.pc \in {"idle", "inspect", "write"} /\ Range(pin.seen) \subseteq Revision
  /\ failures \in 0 .. MaxFailures /\ overlapped \in BOOLEAN

Whole(c) == dest[c].there => dest[c].whole /\ dest[c].rev # 0

(* "An interrupted fetch never leaves a half-made checkout at the final      *)
(* path": whatever fails, is killed and is tried again, one at a time.       *)
InterruptedFetchLeavesNoHalf == ~ overlapped => \A c \in Checkout : Whole(c)

(* The same when fetches ran at once and every one has stopped.              *)
NoHalfAtFinalPath ==
  (\A f \in Fetcher : fetch[f].pc \in Stopped) => \A c \in Checkout : Whole(c)

(* What an earlier fetch left is never in the way of a later one, which      *)
(* removes it or says that it cannot: the disk a command finds changed under *)
(* it is the work of another fetch that runs at the same time.               *)
LeftoverNeverBlocks == \A f \in Fetcher : fetch[f].pc = "collided" => overlapped

(* A fetch that reports success put every checkout at its pin, or at what     *)
(* was committed on top of it since.                                         *)
DoneMeansAtPins ==
  ~ overlapped => \A f \in Fetcher : fetch[f].pc = "done" =>
    \A c \in Checkout : fetch[f].pins[c] # Unpinned /\ dest[c].rev >= fetch[f].pins[c]

=============================================================================
