----------------------------- MODULE Recovery -----------------------------
(***************************************************************************)
(* PREC1, the A/B boot selection of runtime/native_recovery.py: the        *)
(* durable recovery state, select_boot, report_boot_success and            *)
(* report_boot_failure, and the machine around them.                       *)
(*                                                                         *)
(* The four in-flight fields and the INFLIGHT flag are one field here,     *)
(* inflight, since parse_state only accepts them all set or all clear.     *)
(* Fields that no transition reads (last_failure, transaction_id, the      *)
(* last_success pair, evidence_sequence, the policy version and epoch) are *)
(* left out, and so are unauthenticated states and receipts, which every   *)
(* operation refuses.  Every bundle that parse accepts has both slots      *)
(* bootable and at or above the policy's own floor.                        *)
(*                                                                         *)
(* A caller persists the state it gets before it acts on it, so one step   *)
(* computes and stores it; a crash before the store is no step at all.     *)
(***************************************************************************)
EXTENDS Integers

CONSTANTS
    max_attempts,            \* of the policy
    Version,                 \* secure version of each slot's image
    minimum_secure_version,  \* of the policy
    MaxGeneration,           \* 2^64 - 1 in the code
    Nonce,                   \* boot nonces the caller draws from
    Failure,                 \* the failures that happen, of those in FAILURE_NAMES
    NoBoot                   \* nothing is in flight

Slot == {1, 2}
Other(s) == 3 - s
Mode == {"normal", "safe", "previous", "recovery", "diagnostic", "firmware"}
Binding == [generation : 1..MaxGeneration, slot : Slot, mode : Mode, boot_nonce : Nonce]
RecoveryState ==
    [generation : 1..MaxGeneration, minimum_secure_version : Nat,
     active_slot : Slot, pending_slot : Slot \cup {0},
     known_good : SUBSET Slot, unbootable : SUBSET Slot, safe_attempted : SUBSET Slot,
     attempts : [Slot -> 0..max_attempts],
     recovery_requested : BOOLEAN, safe_requested : BOOLEAN,
     current_mode : Mode \cup {"none"}, inflight : Binding \cup {NoBoot}]

\* The rows of the policy's failure table, the same in every accepted bundle.
Row(primary, fallback, retire) == [primary |-> primary, fallback |-> fallback, retire |-> retire]
FAILURE_NAMES == {"config", "state", "signature", "rollback", "artifact", "entry",
                  "health", "exhausted", "runtime", "operator"}
FailureRule(f) ==
    CASE f \in {"config", "state"} -> Row("recovery", "halt", FALSE)
      [] f = "signature" -> Row("recovery", "halt", TRUE)
      [] f \in {"rollback", "artifact", "exhausted"} -> Row("previous", "recovery", TRUE)
      [] f = "entry" -> Row("safe", "previous", FALSE)
      [] f = "health" -> Row("retry", "previous", FALSE)
      [] f = "runtime" -> Row("safe", "recovery", FALSE)
      [] f = "operator" -> Row("recovery", "firmware", FALSE)

ASSUME PolicyAssumption ==
    /\ max_attempts \in 1..7
    /\ minimum_secure_version \in Nat \ {0}
    /\ Version \in [Slot -> {v \in Nat : v >= minimum_secure_version}]
ASSUME BoundsAssumption ==
    /\ MaxGeneration \in Nat \ {0}
    /\ 0 \notin Nonce
    /\ Failure \subseteq FAILURE_NAMES
    /\ NoBoot \notin [generation : Nat, slot : Slot, mode : Mode, boot_nonce : Nonce]

VARIABLES
    state,       \* the durable recovery state
    machine,     \* "off", or what has control: the loader after a selection, the
                 \* selected slot ("running"), recovery or firmware
    boot,        \* what the running system was told of its boot, and which selection it is
    receipts,    \* success receipts issued, each of which may be delivered at any time
    report,      \* a failure observed and not delivered yet
    selections,  \* number of slot selections so far
    trials,      \* trial boots of each slot since its last success
    safe_boots   \* safe boots of each slot

ghosts == <<selections, trials, safe_boots>>
vars == <<state, machine, boot, receipts, report, ghosts>>

-----------------------------------------------------------------------------
(* States *)

\* What parse_state accepts.
ValidState(st) ==
    /\ st.pending_slot # st.active_slot
    /\ st.known_good # {}
    /\ st.known_good \cap st.unbootable = {}
    /\ st.active_slot \in st.known_good
    /\ \A s \in Slot : st.attempts[s] <= max_attempts
    /\ st.minimum_secure_version >= minimum_secure_version
    /\ st.inflight # NoBoot => /\ st.inflight.generation = st.generation
                               /\ st.inflight.mode = st.current_mode

\* What _base_state builds, under whatever floor an earlier policy has left.
BaseState ==
    [generation : {1},
     minimum_secure_version : {minimum_secure_version, minimum_secure_version + 1},
     active_slot : Slot, pending_slot : Slot \cup {0},
     known_good : SUBSET Slot, unbootable : {{}}, safe_attempted : {{}},
     attempts : {[s \in Slot |-> max_attempts]},
     recovery_requested : BOOLEAN, safe_requested : BOOLEAN,
     current_mode : {"none"}, inflight : {NoBoot}]

\* The active slot was booted under the floor.
Init ==
    /\ state \in BaseState
    /\ ValidState(state)
    /\ Version[state.active_slot] >= state.minimum_secure_version
    /\ machine = "off"
    /\ boot = NoBoot
    /\ receipts = {}
    /\ report = "none"
    /\ selections = 0
    /\ trials = [s \in Slot |-> 0]
    /\ safe_boots = [s \in Slot |-> 0]

EligibleAnyVersion(st, slot, known_good) ==
    /\ slot \notin st.unbootable
    /\ known_good => slot \in st.known_good

Eligible(st, slot, known_good) ==
    /\ slot \notin st.unbootable
    /\ Version[slot] >= st.minimum_secure_version
    /\ known_good => slot \in st.known_good

CanAdvance == state.generation < MaxGeneration

-----------------------------------------------------------------------------
(* select_boot *)

SelectSlot(st, slot, mode, nonce) ==
    [st EXCEPT !.generation = @ + 1,
               !.recovery_requested = FALSE,
               !.safe_requested = FALSE,
               !.current_mode = mode,
               !.safe_attempted = IF mode = "safe" THEN @ \cup {slot} ELSE @,
               !.inflight = [generation |-> st.generation + 1, slot |-> slot,
                             mode |-> mode, boot_nonce |-> nonce]]

\* A recovery request outlives the decision it causes; a safe request does not.
RecoveryDecision(st) ==
    [st EXCEPT !.generation = @ + 1,
               !.safe_requested = FALSE,
               !.current_mode = "recovery",
               !.inflight = NoBoot]

\* The known-good slots that a mode may boot, in its order of preference.
Usable(st, mode, slot) ==
    /\ Eligible(st, slot, TRUE)
    /\ mode = "safe" => slot \notin st.safe_attempted

SelectKnownGood(st, mode, nonce) ==
    LET first == IF mode = "previous" THEN Other(st.active_slot) ELSE st.active_slot
    IN  IF Usable(st, mode, first) THEN SelectSlot(st, first, mode, nonce)
        ELSE IF Usable(st, mode, Other(first)) THEN SelectSlot(st, Other(first), mode, nonce)
        ELSE RecoveryDecision(st)

\* A pending slot that may not be tried again gives up its place.
RetiredStaysGood(st) ==
    [st EXCEPT !.pending_slot = 0,
               !.unbootable = @ \cup {st.pending_slot}]

Retired(st) ==
    [st EXCEPT !.pending_slot = 0,
               !.unbootable = @ \cup {st.pending_slot},
               !.known_good = @ \ {st.pending_slot}]

TrialAllowed ==
    /\ Eligible(state, state.pending_slot, FALSE)
    /\ state.attempts[state.pending_slot] > 0

\* The requests in the state come before what the caller asks for.
EffectiveMode(requested) ==
    IF state.recovery_requested THEN "recovery"
    ELSE IF state.safe_requested THEN "safe"
    ELSE requested

\* The new state is stored, then control goes to the slot it names, to recovery
\* or to firmware.
Decide(st) ==
    /\ machine = "off"
    /\ state.inflight = NoBoot
    /\ CanAdvance
    /\ state' = st
    /\ machine' = IF st.inflight # NoBoot THEN "selected" ELSE st.current_mode
    /\ selections' = IF st.inflight # NoBoot THEN selections + 1 ELSE selections
    /\ UNCHANGED <<boot, receipts, report, trials, safe_boots>>

\* The state cannot be written: recovery, and nothing is stored.
SelectUnwritable ==
    /\ machine = "off"
    /\ state.inflight = NoBoot
    /\ machine' = "recovery"
    /\ UNCHANGED <<state, boot, receipts, report, ghosts>>

SelectFirmware(physical_presence) ==
    /\ EffectiveMode("firmware") = "firmware"
    /\ physical_presence
    /\ Decide([state EXCEPT !.generation = @ + 1, !.current_mode = "firmware"])

SelectRecovery(requested) ==
    /\ EffectiveMode(requested) = "recovery"
    /\ Decide(RecoveryDecision(state))

SelectTrialUncharged(requested, nonce) ==
    /\ EffectiveMode(requested) = "normal"
    /\ state.pending_slot # 0
    /\ TrialAllowed
    /\ Decide(SelectSlot(state, state.pending_slot, "normal", nonce))

SelectTrial(requested, nonce) ==
    /\ EffectiveMode(requested) = "normal"
    /\ state.pending_slot # 0
    /\ TrialAllowed
    /\ Decide(SelectSlot([state EXCEPT !.attempts[state.pending_slot] = @ - 1],
                         state.pending_slot, "normal", nonce))

SelectAfterTrials(requested, nonce) ==
    /\ EffectiveMode(requested) = "normal"
    /\ state.pending_slot # 0
    /\ ~TrialAllowed
    /\ Decide(SelectKnownGood(Retired(state), "previous", nonce))

SelectByMode(requested, nonce) ==
    LET mode == EffectiveMode(requested)
    IN  /\ mode \in {"normal", "safe", "previous", "diagnostic"}
        /\ mode = "normal" => state.pending_slot = 0
        /\ Decide(SelectKnownGood(state, mode, nonce))

-----------------------------------------------------------------------------
(* Verdicts *)

MatchesAnyGeneration(r) ==
    /\ state.inflight # NoBoot
    /\ r.binding.slot = state.inflight.slot
    /\ r.binding.mode = state.inflight.mode
    /\ r.binding.boot_nonce = state.inflight.boot_nonce

Matches(r) == r.binding = state.inflight

ReportBootSuccess(r) ==
    /\ Matches(r)
    /\ CanAdvance
    /\ LET slot == r.binding.slot IN
       /\ state' = [state EXCEPT !.generation = @ + 1,
                                 !.recovery_requested = FALSE,
                                 !.safe_requested = FALSE,
                                 !.active_slot = slot,
                                 !.pending_slot = IF @ = slot THEN 0 ELSE @,
                                 !.known_good = @ \cup {slot},
                                 !.unbootable = @ \ {slot},
                                 !.attempts[slot] = max_attempts,
                                 !.current_mode = r.binding.mode,
                                 !.inflight = NoBoot]
       /\ trials' = [trials EXCEPT ![slot] = 0]
    /\ UNCHANGED <<machine, boot, receipts, report, selections, safe_boots>>

\* The action a failure of the boot in flight leads to: the policy's, unless its
\* means are used up.
FailureAction(st, f) ==
    LET slot == st.inflight.slot
        rule == FailureRule(f)
        trial == st.pending_slot = slot /\ slot \notin st.known_good
        bounded == IF \/ rule.primary = "retry" /\ (~trial \/ st.attempts[slot] = 0)
                      \/ rule.primary = "safe" /\ slot \in st.safe_attempted
                   THEN rule.fallback ELSE rule.primary
    IN  IF bounded = "previous" /\ ~Eligible(st, Other(slot), TRUE) THEN "recovery"
        ELSE bounded

ModeOf(action) ==
    CASE action = "retry" -> "normal"
      [] action = "halt" -> "recovery"
      [] OTHER -> action

AfterFailure(st, f) ==
    LET slot == st.inflight.slot
        retired == IF FailureRule(f).retire THEN {slot} ELSE {}
    IN  [st EXCEPT !.generation = @ + 1,
                   !.pending_slot = IF @ \in retired THEN 0 ELSE @,
                   !.known_good = @ \ retired,
                   !.unbootable = @ \cup retired,
                   !.current_mode = ModeOf(FailureAction(st, f)),
                   !.inflight = NoBoot]

\* The receipt is taken only if the state it leads to passes parse_state.  It is
\* not bound to a boot: a late one counts against whatever is in flight.
AcceptsTrialsOnly ==
    /\ state.inflight # NoBoot
    /\ CanAdvance
    /\ state.inflight.slot = state.pending_slot
    /\ ValidState(AfterFailure(state, report))

AcceptsFailure ==
    /\ state.inflight # NoBoot
    /\ CanAdvance
    /\ ValidState(AfterFailure(state, report))

ReportBootFailure ==
    /\ machine # "selected"
    /\ report # "none"
    /\ state' = IF AcceptsFailure THEN AfterFailure(state, report) ELSE state
    /\ report' = "none"
    /\ UNCHANGED <<machine, boot, receipts, ghosts>>

-----------------------------------------------------------------------------
(* The machine *)

Handoff ==
    LET slot == state.inflight.slot
        trial == state.inflight.mode = "normal" /\ slot = state.pending_slot
        safe == state.inflight.mode = "safe"
    IN  /\ machine = "selected"
        /\ machine' = "running"
        /\ boot' = [binding |-> state.inflight, selection |-> selections]
        /\ trials' = [trials EXCEPT ![slot] = @ + (IF trial THEN 1 ELSE 0)]
        /\ safe_boots' = [safe_boots EXCEPT ![slot] = @ + (IF safe THEN 1 ELSE 0)]
        /\ UNCHANGED <<state, receipts, report, selections>>

\* The running system finds itself healthy and issues its receipt.
IssueReceipt ==
    /\ machine = "running"
    /\ boot \notin receipts
    /\ receipts' = receipts \cup {boot}
    /\ UNCHANGED <<state, machine, boot, report, ghosts>>

\* The loader's checks fail or the system does; the machine resets.
BootFails(f) ==
    /\ machine \in {"selected", "running"}
    /\ report = "none"
    /\ report' = f
    /\ machine' = "off"
    /\ boot' = NoBoot
    /\ UNCHANGED <<state, receipts, ghosts>>

\* success_deadline_seconds have passed without a success: the slot may still be
\* running, and its receipt under way.
HealthDeadline ==
    /\ machine \in {"off", "running"}
    /\ state.inflight # NoBoot
    /\ report = "none"
    /\ report' = "health"
    /\ UNCHANGED <<state, machine, boot, receipts, ghosts>>

PowerOff ==
    /\ machine # "off"
    /\ machine' = "off"
    /\ boot' = NoBoot
    /\ UNCHANGED <<state, receipts, report, ghosts>>

SelectBoot ==
    \/ SelectUnwritable
    \/ \E p \in BOOLEAN : SelectFirmware(p)
    \/ \E m \in Mode : SelectRecovery(m)
    \/ \E m \in Mode, n \in Nonce : \/ SelectTrial(m, n)
                                    \/ SelectAfterTrials(m, n)
                                    \/ SelectByMode(m, n)

Next ==
    \/ SelectBoot
    \/ Handoff
    \/ IssueReceipt
    \/ \E r \in receipts : ReportBootSuccess(r)
    \/ \E f \in Failure : BootFails(f)
    \/ HealthDeadline
    \/ ReportBootFailure
    \/ PowerOff

Spec == Init /\ [][Next]_vars

\* The loader goes on to hand over control, a deadline that has passed is
\* noticed and a failure that was noticed is reported.
FairSpec ==
    /\ Spec
    /\ WF_vars(Handoff)
    /\ WF_vars(HealthDeadline)
    /\ WF_vars(ReportBootFailure)

-----------------------------------------------------------------------------
(* Properties *)

\* Every state the transitions store is one that parse_state accepts, so the next
\* operation does not refuse it.
StateOk ==
    /\ state \in RecoveryState
    /\ ValidState(state)

\* The active slot stays bootable: no failure, stale report or exhausted candidate
\* takes the way back to it, and no slot below the floor ever becomes active.
ActiveBootable ==
    /\ state.active_slot \in state.known_good \ state.unbootable
    /\ Version[state.active_slot] >= state.minimum_secure_version

Underway(s, mode) ==
    machine = "selected" /\ state.inflight.slot = s /\ state.inflight.mode = mode

\* The inductive invariant: besides StateOk and ActiveBootable, a boot that is
\* about to start has been paid for, only slots above the floor are in flight, and
\* the generations of receipts are not in the future.
RecoveryInv ==
    /\ StateOk
    /\ ActiveBootable
    /\ machine \in {"off", "selected", "running", "recovery", "firmware"}
    /\ report \in Failure \cup {"none", "health"}
    /\ selections \in Nat
    /\ trials \in [Slot -> Nat]
    /\ safe_boots \in [Slot -> Nat]
    /\ machine = "selected" => /\ state.inflight # NoBoot
                               /\ \A r \in receipts : ~Matches(r)
    /\ state.inflight # NoBoot => Version[state.inflight.slot] >= state.minimum_secure_version
    /\ \A s \in Slot :
         /\ trials[s] + state.attempts[s]
              + (IF Underway(s, "normal") /\ s = state.pending_slot THEN 1 ELSE 0) <= max_attempts
         /\ safe_boots[s] + (IF Underway(s, "safe") THEN 1 ELSE 0)
              <= (IF s \in state.safe_attempted THEN 1 ELSE 0)
    /\ \A r \in receipts \cup (IF machine = "running" THEN {boot} ELSE {}) :
         /\ r.binding \in Binding
         /\ r.binding.generation <= state.generation
         /\ r.binding = state.inflight => r.selection = selections
    /\ machine = "running" => boot.selection = selections

\* However boots are lost, crash or are reported, a slot gets at most max_attempts
\* trials between two successes of it, and at most one safe boot: select_boot
\* charges the attempt before control is handed over.
LoopsBounded ==
    \A s \in Slot : /\ trials[s] + state.attempts[s] <= max_attempts
                    /\ safe_boots[s] <= 1

\* A receipt that report_boot_success would take now was issued by the boot that
\* is in flight, although receipts come late or twice and nonces are reused.
FreshSuccess ==
    \A r \in receipts : Matches(r) => r.selection = selections

\* No boot stays in flight for ever, which would make select_boot refuse every
\* further boot; the end of the generations is the exception.
InflightSettles ==
    state.inflight # NoBoot ~> state.inflight = NoBoot \/ state.generation = MaxGeneration

\* Every failure receipt delivered for a boot in flight clears the binding.
FailureClearsInflight ==
    [][(/\ report # "none" /\ report' = "none"
        /\ state.inflight # NoBoot /\ CanAdvance) => state'.inflight = NoBoot]_vars
=============================================================================
