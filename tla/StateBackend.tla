--------------------------- MODULE StateBackend ---------------------------
(***************************************************************************)
(* PBSTATE1, the redundant boot-trust state of runtime/                    *)
(* native_boot_trust.py: two copies, a monotonic anchor,                   *)
(* select_backend_state, plan_backend_transition and the nine transition   *)
(* steps in BACKEND_TRANSITION_STEPS, with the power losses that           *)
(* tools/qualify_native_boot_trust.py samples.                             *)
(*                                                                         *)
(* A digest is modelled by what it digests.  A copy that is absent, torn,  *)
(* uncommitted or unauthenticated is Torn: none of these is a candidate.   *)
(* The storage below is external: a write reaches the medium at the latest *)
(* with the next flush, and a power loss before it may leave the old       *)
(* contents, the new ones or neither.  A selection that is refused for     *)
(* want of write access or repair capacity changes nothing and is no step. *)
(***************************************************************************)
EXTENDS Naturals

CONSTANTS
    Content,              \* what a state says of policy, manifest and kernel
    MaxStateGeneration,   \* 2^64 - 1 in the code
    target_store_epoch,   \* requirements on the next state
    target_auth_profile,
    InitialEpoch,         \* of the state in place
    InitialProfile,
    NoState               \* the all-zero previous digest

ASSUME RequirementsAssumption ==
    /\ MaxStateGeneration \in Nat \ {0}
    /\ InitialEpoch \in Nat \ {0}
    /\ target_store_epoch \in Nat
    /\ target_store_epoch >= InitialEpoch

Copy == {0, 1}
OtherCopy(i) == 1 - i

State(generation, epoch, profile, content, previous) ==
    [state_generation |-> generation, store_epoch |-> epoch, auth_profile |-> profile,
     content |-> content, previous |-> previous]

InitialStates == {State(1, InitialEpoch, InitialProfile, c, NoState) : c \in Content}

\* The states that may follow a state: one generation on, chained to it.
Successors(s) ==
    {State(s.state_generation + 1, target_store_epoch, target_auth_profile, c, s) : c \in Content}

VARIABLES
    media,   \* what a power loss leaves of each copy, if nothing is unflushed
    cache,   \* what was last written to each copy
    anchor,  \* the monotonic anchor
    step,    \* the transition step that comes next, or "idle"
    target,  \* BackendTransitionPlan: the copy written first
    next     \* and the state that is being stored

storeVars == <<media, cache, anchor, step, target, next>>

-----------------------------------------------------------------------------
(* Selection *)

Torn == [readable |-> FALSE, state |-> NoState]
Holding(s) == [readable |-> TRUE, state |-> s]

Stale(s) == s.state_generation < anchor.state_generation \/ s.store_epoch < anchor.store_epoch
Future(s) == s.state_generation > anchor.state_generation \/ s.store_epoch > anchor.store_epoch

AnchoredOrNewer(copies) == {i \in Copy : copies[i].readable /\ ~Stale(copies[i].state)}

\* The copies that hold the state the anchor names, its predecessor included.
Anchored(copies) ==
    {i \in Copy :
       /\ copies[i].readable
       /\ ~Stale(copies[i].state)
       /\ ~Future(copies[i].state)
       /\ copies[i].state.previous = anchor.previous
       /\ copies[i].state.auth_profile = anchor.auth_profile
       /\ copies[i].state = anchor}

selected_copy(copies) == IF 0 \in Anchored(copies) THEN 0 ELSE 1

\* The state that select_backend_state returns; it fails if no copy is anchored.
Selected(copies) == copies[selected_copy(copies)].state

TargetCopy(copies) ==
    IF Anchored(copies) = {0} THEN 1
    ELSE IF Anchored(copies) = {1} THEN 0
    ELSE OtherCopy(selected_copy(copies))

StoreInit ==
    /\ anchor \in InitialStates
    /\ media = [i \in Copy |-> Holding(anchor)]
    /\ cache = media
    /\ step = "idle"
    /\ target = 0
    /\ next = NoState

-----------------------------------------------------------------------------
(* A transition *)

\* select_backend_state, then plan_backend_transition, which refuses the last
\* generation.
Plan(content) ==
    /\ step = "idle"
    /\ Anchored(cache) # {}
    /\ Selected(cache).state_generation < MaxStateGeneration
    /\ step' = "write_target_uncommitted"
    /\ target' = TargetCopy(cache)
    /\ next' = State(Selected(cache).state_generation + 1, target_store_epoch,
                     target_auth_profile, content, Selected(cache))
    /\ UNCHANGED <<media, cache, anchor>>

Write(from, to, i, copy) ==
    /\ step = from
    /\ step' = to
    /\ cache' = [cache EXCEPT ![i] = copy]
    /\ UNCHANGED <<media, anchor, target, next>>

Flush(from, to, i) ==
    /\ step = from
    /\ step' = to
    /\ media' = [media EXCEPT ![i] = cache[i]]
    /\ UNCHANGED <<cache, anchor, target, next>>

WriteTargetUncommitted == Write("write_target_uncommitted", "flush_target_data", target, Torn)

FlushTargetData == Flush("flush_target_data", "write_target_commit_and_authentication", target)

WriteTargetCommit ==
    Write("write_target_commit_and_authentication", "flush_target_commit", target, Holding(next))

FlushTargetCommitLater ==
    /\ step = "flush_target_commit"
    /\ step' = "advance_monotonic_anchor"
    /\ UNCHANGED <<media, cache, anchor, target, next>>

FlushTargetCommit == Flush("flush_target_commit", "advance_monotonic_anchor", target)

AdvanceMonotonicAnchor ==
    /\ step = "advance_monotonic_anchor"
    /\ step' = "verify_monotonic_anchor"
    /\ anchor' = next
    /\ UNCHANGED <<media, cache, target, next>>

VerifyMonotonicAnchor ==
    /\ step = "verify_monotonic_anchor"
    /\ anchor = next
    /\ step' = "repair_other_copy"
    /\ UNCHANGED <<media, cache, anchor, target, next>>

RepairOtherCopy == Write("repair_other_copy", "flush_repaired_copy", OtherCopy(target), Holding(next))

FlushRepairedCopyLater ==
    /\ step = "flush_repaired_copy"
    /\ step' = "verify_redundant_copies"
    /\ UNCHANGED <<media, cache, anchor, target, next>>

FlushRepairedCopy == Flush("flush_repaired_copy", "verify_redundant_copies", OtherCopy(target))

VerifyRedundantCopies ==
    /\ step = "verify_redundant_copies"
    /\ Anchored(cache) = Copy
    /\ step' = "idle"
    /\ target' = 0
    /\ next' = NoState
    /\ UNCHANGED <<media, cache, anchor>>

-----------------------------------------------------------------------------
(* Faults *)

\* What a power loss may leave of a copy.
Remains(i) == IF cache[i] = media[i] THEN {media[i]} ELSE {media[i], cache[i], Torn}

Remnants == {m \in [Copy -> UNION {Remains(i) : i \in Copy}] : \A i \in Copy : m[i] \in Remains(i)}

PowerLoss ==
    /\ media' \in Remnants
    /\ cache' = media'
    /\ step' = "idle"
    /\ target' = 0
    /\ next' = NoState
    /\ UNCHANGED anchor

\* Between transitions a copy is lost while the other one is good.
CopyLost(i) ==
    /\ step = "idle"
    /\ OtherCopy(i) \in Anchored(media)
    /\ media' = [media EXCEPT ![i] = Torn]
    /\ cache' = media'
    /\ UNCHANGED <<anchor, step, target, next>>

Transition ==
    \/ \E c \in Content : Plan(c)
    \/ WriteTargetUncommitted
    \/ FlushTargetData
    \/ WriteTargetCommit
    \/ FlushTargetCommit
    \/ AdvanceMonotonicAnchor
    \/ VerifyMonotonicAnchor
    \/ RepairOtherCopy
    \/ FlushRepairedCopy
    \/ VerifyRedundantCopies

Fault == PowerLoss \/ \E i \in Copy : CopyLost(i)

StoreNext == Transition \/ Fault

StoreSpec == StoreInit /\ [][StoreNext]_storeVars

\* The copies that the selection asks to repair.
repair_copies == Copy \ Anchored(cache)

\* The owner carries on with a transition that has begun, and begins one when the
\* selection asks for a repair; nothing makes it begin another one.
FairStoreSpec ==
    /\ StoreSpec
    /\ WF_storeVars(step # "idle" /\ Transition)
    /\ WF_storeVars(repair_copies # {} /\ \E c \in Content : Plan(c))

-----------------------------------------------------------------------------
(* Properties *)

\* Whatever a power loss at this moment leaves, select_backend_state finds a copy
\* with the state that the anchor names.
Recoverable == \A m \in Remnants : Anchored(m) # {}

\* The store as its readers see it: what recovery would read from the media.
Store == INSTANCE AtomicStore WITH store <- Selected(media)

\* What select_backend_state reads from the media is an atomic value: it only
\* ever changes to a successor, in one step, and no power loss changes it.
ImplementsStore == Store!Spec

\* plan_backend_transition refuses the repair, because no generation is left.
RepairRefused ==
    step = "idle" /\ repair_copies # {} /\ anchor.state_generation = MaxStateGeneration

\* Once faults have stopped, both copies on the media hold the anchored state
\* again: a transition brings back what a fault took, with a flush before it
\* ends.  Only a store whose generations are used up stays with one copy.
RedundancyRestored ==
    <>[][~Fault]_storeVars => []<>(Anchored(media) = Copy \/ RepairRefused)
=============================================================================
