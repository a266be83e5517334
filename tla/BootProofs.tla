---------------------------- MODULE BootProofs ----------------------------
(***************************************************************************)
(* The durable state of a boot.  PREC1 keeps its state acceptable, its     *)
(* loops bounded and its way back open for every policy, however boots     *)
(* fail and receipts are delayed.  PBSTATE1 keeps its state through every  *)
(* power loss, and implements an atomic store, for every set of contents   *)
(* and number of generations.  The two share no state.                     *)
(***************************************************************************)
EXTENDS Recovery, StateBackend, TLAPS

-----------------------------------------------------------------------------
(* PREC1 *)

\* What the invariant needs of a state that select_boot stores.
Decision(st) ==
    /\ st \in RecoveryState
    /\ ValidState(st)
    /\ st.generation = state.generation + 1
    /\ st.active_slot = state.active_slot
    /\ st.minimum_secure_version = state.minimum_secure_version
    /\ st.inflight = NoBoot => st.current_mode \in {"recovery", "firmware"}
    /\ st.inflight # NoBoot => Version[st.inflight.slot] >= st.minimum_secure_version
    /\ \A s \in Slot :
         LET chosen(mode) == st.inflight # NoBoot /\ st.inflight.slot = s /\ st.inflight.mode = mode
         IN  /\ st.attempts[s] + (IF chosen("normal") /\ s = st.pending_slot THEN 1 ELSE 0)
                  <= state.attempts[s]
             /\ s \in state.safe_attempted => s \in st.safe_attempted
             /\ chosen("safe") => s \in st.safe_attempted /\ s \notin state.safe_attempted

\* Nothing in flight is told apart from every binding.
LEMMA NoBootBinding == NoBoot \notin Binding
BY BoundsAssumption DEF Binding

\* The entries of the failure table are actions.
LEMMA RuleTypes ==
    \A f \in FAILURE_NAMES :
      /\ FailureRule(f).primary \in {"retry", "safe", "previous", "recovery"}
      /\ FailureRule(f).fallback \in {"previous", "recovery", "firmware", "halt"}
      /\ FailureRule(f).retire \in BOOLEAN
BY ZenonT(40) DEF FAILURE_NAMES, FailureRule, Row

\* The states of _base_state satisfy the invariant.
LEMMA InitInv == Init => RecoveryInv
<1> SUFFICES ASSUME Init PROVE RecoveryInv
  OBVIOUS
<1>1. StateOk
  BY PolicyAssumption, BoundsAssumption
     DEF Init, StateOk, BaseState, RecoveryState, Mode, Slot
<1>2. ActiveBootable
  BY DEF Init, ActiveBootable, ValidState, BaseState
<1> QED
  BY <1>1, <1>2, PolicyAssumption DEF Init, RecoveryInv, BaseState, Underway, Slot

-----------------------------------------------------------------------------
(* Selection *)

\* Storing such a state keeps the invariant: the generation is new to every receipt,
\* and the boot that is about to start has been paid for.
LEMMA DecideInv ==
    ASSUME RecoveryInv, NEW st, Decision(st), Decide(st)
    PROVE  RecoveryInv'
<1>1. StateOk'
  BY DEF Decide, Decision, StateOk, ValidState
<1>2. ActiveBootable'
  BY DEF Decide, Decision, RecoveryInv, ActiveBootable, ValidState
<1>3. /\ machine' \in {"off", "selected", "running", "recovery", "firmware"}
      /\ machine' # "running"
      /\ machine' = "selected" => state'.inflight # NoBoot
  BY DEF Decide, Decision
<1>4. selections' \in Nat
  BY DEF Decide, RecoveryInv
<1>5. ASSUME NEW s \in Slot
      PROVE  /\ (trials[s] + state.attempts[s]
                   + (IF Underway(s, "normal") /\ s = state.pending_slot THEN 1 ELSE 0) <= max_attempts)'
             /\ (safe_boots[s] + (IF Underway(s, "safe") THEN 1 ELSE 0)
                   <= (IF s \in state.safe_attempted THEN 1 ELSE 0))'
  <2>1. trials[s] \in Nat /\ safe_boots[s] \in Nat /\ state.attempts[s] \in Nat /\ st.attempts[s] \in Nat
    BY PolicyAssumption DEF RecoveryInv, StateOk, RecoveryState, Decision
  <2>2. trials[s] + state.attempts[s] <= max_attempts
        /\ safe_boots[s] <= (IF s \in state.safe_attempted THEN 1 ELSE 0)
    BY <2>1 DEF RecoveryInv, Decide, Underway
  <2> QED
    BY <2>1, <2>2, PolicyAssumption DEF Decide, Decision, Underway
<1>6. ASSUME NEW r \in receipts'
      PROVE  /\ r.binding \in Binding
             /\ r.binding.generation <= state'.generation
             /\ r.binding # state'.inflight
  <2>1. r.binding \in Binding /\ r.binding.generation <= state.generation
    BY <1>6 DEF Decide, RecoveryInv
  <2>2. r.binding.generation \in Nat /\ state.generation \in Nat
    BY <2>1 DEF Binding, RecoveryInv, StateOk, RecoveryState
  <2>3. r.binding # state'.inflight
    BY <2>1, <2>2, NoBootBinding DEF Decide, Decision, ValidState
  <2> QED
    BY <2>1, <2>2, <2>3 DEF Decide, Decision
<1> QED
  BY <1>1, <1>2, <1>3, <1>4, <1>5, <1>6 DEF RecoveryInv, Decide, Decision, Matches

\* _select_slot, for a slot above the floor that the mode has not used up.
LEMMA SelectSlotDecision ==
    ASSUME RecoveryInv, CanAdvance, NEW st \in RecoveryState, ValidState(st),
           st.generation = state.generation, st.active_slot = state.active_slot,
           st.minimum_secure_version = state.minimum_secure_version,
           st.safe_attempted = state.safe_attempted,
           NEW slot \in Slot, NEW mode \in Mode, NEW nonce \in Nonce,
           Version[slot] >= st.minimum_secure_version,
           mode = "safe" => slot \notin st.safe_attempted,
           \A s \in Slot : st.attempts[s] + (IF mode = "normal" /\ s = slot /\ s = st.pending_slot
                                             THEN 1 ELSE 0) <= state.attempts[s]
    PROVE  Decision(SelectSlot(st, slot, mode, nonce))
<1> DEFINE new == SelectSlot(st, slot, mode, nonce)
<1>1. st.generation + 1 \in 1..MaxGeneration
  BY BoundsAssumption DEF CanAdvance, RecoveryInv, StateOk, RecoveryState
<1>2. new.inflight \in Binding
  BY <1>1 DEF SelectSlot, Binding, RecoveryState
<1>3. new \in RecoveryState
  BY <1>1, <1>2, Zenon DEF SelectSlot, RecoveryState
<1>4. new.inflight # NoBoot
  BY <1>2, NoBootBinding
<1>5. ValidState(new)
  BY DEF SelectSlot, ValidState, RecoveryState
<1> QED
  BY <1>3, <1>4, <1>5 DEF Decision, SelectSlot, RecoveryState

\* _recovery_decision, from the state or from the state with its candidate retired.
LEMMA RecoveryDecisionOk ==
    ASSUME RecoveryInv, CanAdvance, NEW st \in RecoveryState, ValidState(st),
           st.generation = state.generation, st.active_slot = state.active_slot,
           st.minimum_secure_version = state.minimum_secure_version,
           st.safe_attempted = state.safe_attempted,
           st.attempts = state.attempts
    PROVE  Decision(RecoveryDecision(st))
<1> DEFINE new == RecoveryDecision(st)
<1>1. st.generation + 1 \in 1..MaxGeneration
  BY BoundsAssumption DEF CanAdvance, RecoveryInv, StateOk, RecoveryState
<1>2. new \in RecoveryState
  BY <1>1, Zenon DEF RecoveryDecision, RecoveryState, Mode
<1>3. ValidState(new)
  BY DEF RecoveryDecision, ValidState, RecoveryState
<1>4. \A s \in Slot : state.attempts[s] \in Nat
  BY PolicyAssumption DEF RecoveryInv, StateOk, RecoveryState
<1> QED
  BY <1>2, <1>3, <1>4 DEF Decision, RecoveryDecision, RecoveryState

\* A known-good slot is booted without paying for a trial.  In mode "normal" there
\* is no candidate.
LEMMA SelectKnownGoodDecision ==
    ASSUME RecoveryInv, CanAdvance, NEW st \in RecoveryState, ValidState(st),
           st.generation = state.generation, st.active_slot = state.active_slot,
           st.minimum_secure_version = state.minimum_secure_version,
           st.safe_attempted = state.safe_attempted,
           st.attempts = state.attempts,
           NEW mode \in Mode, NEW nonce \in Nonce,
           mode = "normal" => st.pending_slot = 0
    PROVE  Decision(SelectKnownGood(st, mode, nonce))
<1>1. \A s \in Slot : /\ state.attempts[s] \in Nat
                      /\ st.attempts[s] + (IF mode = "normal" /\ s = st.pending_slot
                                           THEN 1 ELSE 0) <= state.attempts[s]
  BY PolicyAssumption DEF RecoveryInv, StateOk, RecoveryState, Slot
<1>2. ASSUME NEW slot \in Slot, Usable(st, mode, slot)
      PROVE  Decision(SelectSlot(st, slot, mode, nonce))
  BY <1>1, <1>2, SelectSlotDecision DEF Usable, Eligible
<1>3. Decision(RecoveryDecision(st))
  BY RecoveryDecisionOk
<1>4. st.active_slot \in Slot /\ Other(st.active_slot) \in Slot /\ Other(Other(st.active_slot)) \in Slot
  BY DEF RecoveryState, Slot, Other
<1> QED
  BY <1>2, <1>3, <1>4 DEF SelectKnownGood

\* Every way through select_boot keeps the invariant.
LEMMA SelectInv ==
    ASSUME RecoveryInv, SelectBoot
    PROVE  RecoveryInv'
<1> USE DEF Decide
<1>0. state \in RecoveryState /\ ValidState(state)
  BY DEF RecoveryInv, StateOk
<1>1. CASE SelectUnwritable
  BY <1>1 DEF SelectUnwritable, RecoveryInv, StateOk, ActiveBootable, Underway, Matches, ghosts
<1>2. ASSUME NEW p \in BOOLEAN, SelectFirmware(p) PROVE RecoveryInv'
  <2> DEFINE new == [state EXCEPT !.generation = @ + 1, !.current_mode = "firmware"]
  <2>1. state.generation + 1 \in 1..MaxGeneration /\ state.inflight = NoBoot
    BY <1>0, <1>2, BoundsAssumption DEF SelectFirmware, CanAdvance, RecoveryState
  <2>2. new \in RecoveryState /\ ValidState(new)
    BY <1>0, <2>1, Zenon DEF RecoveryState, ValidState, Mode
  <2>3. \A s \in Slot : state.attempts[s] \in Nat
    BY <1>0, PolicyAssumption DEF RecoveryState
  <2>4. Decision(new)
    BY <1>0, <2>1, <2>2, <2>3 DEF Decision, RecoveryState
  <2> QED
    BY <1>2, <2>4, DecideInv, Zenon DEF SelectFirmware
<1>3. ASSUME NEW m \in Mode, SelectRecovery(m) PROVE RecoveryInv'
  BY <1>0, <1>3, RecoveryDecisionOk, DecideInv DEF SelectRecovery
<1>4. ASSUME NEW m \in Mode, NEW n \in Nonce, SelectTrial(m, n) PROVE RecoveryInv'
  <2> DEFINE slot == state.pending_slot
             st == [state EXCEPT !.attempts[slot] = @ - 1]
  <2>1. slot \in Slot /\ state.attempts[slot] \in 1..max_attempts /\ CanAdvance
    BY <1>0, <1>4, PolicyAssumption DEF SelectTrial, TrialAllowed, RecoveryState
  <2>2. st \in RecoveryState /\ st.attempts = [state.attempts EXCEPT ![slot] = @ - 1]
    BY <1>0, <2>1, PolicyAssumption DEF RecoveryState
  <2>3. ValidState(st)
    BY <1>0, <2>1, <2>2, PolicyAssumption DEF ValidState, RecoveryState
  <2>4. \A s \in Slot : st.attempts[s] + (IF s = slot THEN 1 ELSE 0) <= state.attempts[s]
    BY <1>0, <2>1, <2>2, PolicyAssumption DEF RecoveryState
  <2>5. Decision(SelectSlot(st, slot, "normal", n))
    BY <1>0, <1>4, <2>1, <2>2, <2>3, <2>4, SelectSlotDecision
       DEF SelectTrial, TrialAllowed, Eligible, RecoveryState, Mode
  <2> QED
    BY <1>4, <2>5, DecideInv DEF SelectTrial
<1>5. ASSUME NEW m \in Mode, NEW n \in Nonce, SelectAfterTrials(m, n) PROVE RecoveryInv'
  <2>0. state.pending_slot \in Slot /\ state.inflight = NoBoot
    BY <1>0, <1>5 DEF SelectAfterTrials, RecoveryState
  <2>1. Retired(state) \in RecoveryState
    BY <1>0, <2>0, Zenon DEF Retired, RecoveryState
  <2>3. ValidState(Retired(state))
    BY <1>0, <2>0 DEF Retired, RecoveryState, ValidState, Slot
  <2>2. Decision(SelectKnownGood(Retired(state), "previous", n))
    BY <1>0, <1>5, <2>1, <2>3, SelectKnownGoodDecision, Zenon DEF SelectAfterTrials, Retired, RecoveryState, Mode
  <2> QED
    BY <1>5, <2>2, DecideInv DEF SelectAfterTrials
<1>6. ASSUME NEW m \in Mode, NEW n \in Nonce, SelectByMode(m, n) PROVE RecoveryInv'
  <2>1. EffectiveMode(m) \in Mode
    BY DEF EffectiveMode, Mode
  <2> QED
    BY <1>0, <1>6, <2>1, SelectKnownGoodDecision, DecideInv DEF SelectByMode
<1> QED
  BY <1>1, <1>2, <1>3, <1>4, <1>5, <1>6 DEF SelectBoot

-----------------------------------------------------------------------------
(* Verdicts and the machine *)

\* A success: the slot in flight was above the floor and gets a fresh budget.
LEMMA SuccessInv ==
    ASSUME RecoveryInv, NEW r \in receipts, ReportBootSuccess(r)
    PROVE  RecoveryInv'
<1> DEFINE slot == r.binding.slot
<1>1. r.binding \in Binding /\ r.binding = state.inflight /\ state.inflight # NoBoot
  BY NoBootBinding DEF RecoveryInv, ReportBootSuccess, Matches
<1>2. /\ slot \in Slot
      /\ r.binding.mode \in Mode
      /\ state \in RecoveryState
      /\ state.generation + 1 \in 1..MaxGeneration
      /\ state.generation \in Nat
  BY <1>1, BoundsAssumption
     DEF RecoveryInv, StateOk, RecoveryState, Binding, ReportBootSuccess, CanAdvance
<1>3. state' \in RecoveryState
  <2> DEFINE pending == IF state.pending_slot = slot THEN 0 ELSE state.pending_slot
             attempts == [state.attempts EXCEPT ![slot] = max_attempts]
  <2>1. /\ pending \in Slot \cup {0}
        /\ state.known_good \cup {slot} \in SUBSET Slot
        /\ state.unbootable \ {slot} \in SUBSET Slot
        /\ attempts \in [Slot -> 0..max_attempts]
    BY <1>2, PolicyAssumption DEF RecoveryState
  <2>2. state' = [state EXCEPT !.generation = state.generation + 1,
                               !.recovery_requested = FALSE,
                               !.safe_requested = FALSE,
                               !.active_slot = slot,
                               !.pending_slot = pending,
                               !.known_good = state.known_good \cup {slot},
                               !.unbootable = state.unbootable \ {slot},
                               !.attempts = attempts,
                               !.current_mode = r.binding.mode,
                               !.inflight = NoBoot]
    BY <1>2 DEF ReportBootSuccess, RecoveryState
  <2> HIDE DEF pending, attempts, slot
  <2> QED
    BY <1>2, <2>1, <2>2 DEF RecoveryState
<1>4. ValidState(state')
  <2>1. /\ state'.pending_slot = (IF state.pending_slot = slot THEN 0 ELSE state.pending_slot)
        /\ state'.active_slot = slot
        /\ state'.known_good = state.known_good \cup {slot}
        /\ state'.unbootable = state.unbootable \ {slot}
        /\ state'.minimum_secure_version = state.minimum_secure_version
        /\ state'.inflight = NoBoot
    BY <1>2 DEF ReportBootSuccess, RecoveryState
  <2>2. \A s \in Slot : state'.attempts[s] <= max_attempts
    BY <1>3, PolicyAssumption DEF RecoveryState
  <2>3. state.known_good \cap state.unbootable = {}
        /\ state.minimum_secure_version >= minimum_secure_version
    BY DEF RecoveryInv, StateOk, ValidState
  <2> QED
    BY <1>2, <2>1, <2>2, <2>3 DEF ValidState, Slot
<1>5. ActiveBootable'
  BY <1>1, <1>2 DEF ReportBootSuccess, RecoveryState, RecoveryInv, ActiveBootable
<1>6. state'.inflight = NoBoot /\ machine' # "selected"
  BY <1>1, <1>2 DEF ReportBootSuccess, RecoveryState, RecoveryInv
<1>7. trials' \in [Slot -> Nat]
  BY Zenon DEF ReportBootSuccess, RecoveryInv
<1>8. ASSUME NEW s \in Slot
      PROVE  /\ (trials[s] + state.attempts[s]
                   + (IF Underway(s, "normal") /\ s = state.pending_slot THEN 1 ELSE 0) <= max_attempts)'
             /\ (safe_boots[s] + (IF Underway(s, "safe") THEN 1 ELSE 0)
                   <= (IF s \in state.safe_attempted THEN 1 ELSE 0))'
  <2>1. trials[s] \in Nat /\ safe_boots[s] \in Nat /\ state.attempts[s] \in Nat
    BY <1>2, PolicyAssumption DEF RecoveryInv, RecoveryState
  <2>2. trials[s] + state.attempts[s] <= max_attempts
        /\ safe_boots[s] <= (IF s \in state.safe_attempted THEN 1 ELSE 0)
    BY <2>1, PolicyAssumption DEF RecoveryInv, Underway
  <2>3. state'.safe_attempted = state.safe_attempted
        /\ state'.attempts = [state.attempts EXCEPT ![slot] = max_attempts]
    BY <1>2 DEF ReportBootSuccess, RecoveryState
  <2>4. ~Underway(s, "normal")' /\ ~Underway(s, "safe")'
    BY <1>6 DEF Underway
  <2> QED
    BY <1>2, <2>1, <2>2, <2>3, <2>4, PolicyAssumption DEF ReportBootSuccess, RecoveryInv, RecoveryState
<1>9. ASSUME NEW q \in receipts \cup (IF machine = "running" THEN {boot} ELSE {})
      PROVE  /\ q.binding \in Binding
             /\ q.binding.generation <= state'.generation
             /\ q.binding # state'.inflight
  <2>1. q.binding \in Binding /\ q.binding.generation <= state.generation
    BY <1>9 DEF RecoveryInv
  <2>2. q.binding.generation \in Nat /\ state'.generation = state.generation + 1
    BY <1>2, <2>1 DEF ReportBootSuccess, RecoveryState, Binding
  <2> QED
    BY <1>2, <1>6, <2>1, <2>2, NoBootBinding
<1> QED
  BY <1>3, <1>4, <1>5, <1>6, <1>7, <1>8, <1>9
     DEF ReportBootSuccess, RecoveryInv, StateOk

\* A failure: the check before the state is taken keeps the active slot good.
LEMMA FailureInv ==
    ASSUME RecoveryInv, ReportBootFailure
    PROVE  RecoveryInv'
<1>1. CASE ~AcceptsFailure
  BY <1>1 DEF ReportBootFailure, RecoveryInv, StateOk, ActiveBootable, Underway, Matches, ghosts
<1>2. CASE AcceptsFailure
  <2> DEFINE slot == state.inflight.slot
             mode == ModeOf(FailureAction(state, report))
             retired == IF FailureRule(report).retire THEN {slot} ELSE {}
  <2>1. /\ state \in RecoveryState
        /\ state.generation \in Nat
        /\ state.generation + 1 \in 1..MaxGeneration
        /\ state.inflight \in Binding
        /\ slot \in Slot
    BY <1>2, BoundsAssumption DEF RecoveryInv, StateOk, RecoveryState, AcceptsFailure, CanAdvance, Binding
  <2>2. report \in FAILURE_NAMES
    BY BoundsAssumption DEF ReportBootFailure, RecoveryInv, FAILURE_NAMES
  <2>3. mode \in Mode
    BY <2>2, RuleTypes, Zenon DEF ModeOf, FailureAction, Mode
  <2>4. /\ (IF state.pending_slot \in retired THEN 0 ELSE state.pending_slot) \in Slot \cup {0}
        /\ state.known_good \ retired \in SUBSET Slot
        /\ state.unbootable \cup retired \in SUBSET Slot
    BY <2>1 DEF RecoveryState
  <2>5. state' = [state EXCEPT !.generation = state.generation + 1,
                               !.pending_slot = IF state.pending_slot \in retired THEN 0 ELSE state.pending_slot,
                               !.known_good = state.known_good \ retired,
                               !.unbootable = state.unbootable \cup retired,
                               !.current_mode = mode,
                               !.inflight = NoBoot]
    BY <1>2, <2>1 DEF ReportBootFailure, AfterFailure, RecoveryState
  <2> HIDE DEF mode, retired, slot
  <2>6. state' \in RecoveryState
    BY <2>1, <2>3, <2>4, <2>5, Zenon DEF RecoveryState
  <2>7. ValidState(state')
    BY <1>2 DEF ReportBootFailure, AcceptsFailure
  <2>8. /\ state'.generation = state.generation + 1
        /\ state'.active_slot = state.active_slot
        /\ state'.minimum_secure_version = state.minimum_secure_version
        /\ state'.attempts = state.attempts
        /\ state'.safe_attempted = state.safe_attempted
        /\ state'.inflight = NoBoot
    BY <2>1, <2>5 DEF RecoveryState
  <2>9. ActiveBootable'
    BY <2>7, <2>8 DEF ActiveBootable, RecoveryInv, ValidState
  <2>10. machine \notin {"selected"} /\ machine' = machine /\ UNCHANGED <<boot, receipts, ghosts>>
    BY DEF ReportBootFailure
  <2>11. ASSUME NEW s \in Slot
         PROVE  /\ (trials[s] + state.attempts[s]
                      + (IF Underway(s, "normal") /\ s = state.pending_slot THEN 1 ELSE 0) <= max_attempts)'
                /\ (safe_boots[s] + (IF Underway(s, "safe") THEN 1 ELSE 0)
                      <= (IF s \in state.safe_attempted THEN 1 ELSE 0))'
    <3>1. ~Underway(s, "normal") /\ ~Underway(s, "safe") /\ ~Underway(s, "normal")' /\ ~Underway(s, "safe")'
      BY <2>10 DEF Underway
    <3> QED
      BY <2>8, <2>10, <3>1 DEF RecoveryInv, ghosts
  <2>12. ASSUME NEW q \in receipts \cup (IF machine = "running" THEN {boot} ELSE {})
         PROVE  /\ q.binding \in Binding
                /\ q.binding.generation <= state'.generation
                /\ q.binding # state'.inflight
    <3>1. q.binding \in Binding /\ q.binding.generation <= state.generation
      BY <2>12 DEF RecoveryInv
    <3>2. q.binding.generation \in Nat
      BY <3>1 DEF Binding
    <3> QED
      BY <2>1, <2>8, <3>1, <3>2, NoBootBinding
  <2>13. report' = "none"
    BY DEF ReportBootFailure
  <2> QED
    BY <2>6, <2>7, <2>8, <2>9, <2>10, <2>11, <2>12, <2>13 DEF RecoveryInv, StateOk, ghosts
<1> QED
  BY <1>1, <1>2

\* Control goes to the slot in flight; the charge made before becomes a boot.
LEMMA HandoffInv ==
    ASSUME RecoveryInv, Handoff
    PROVE  RecoveryInv'
<1> DEFINE slot == state.inflight.slot
<1>1. state.inflight \in Binding /\ slot \in Slot /\ state \in RecoveryState
  BY DEF RecoveryInv, StateOk, RecoveryState, Handoff, Binding
<1>2. StateOk' /\ ActiveBootable'
  BY DEF Handoff, RecoveryInv, StateOk, ActiveBootable
<1>3. trials' \in [Slot -> Nat] /\ safe_boots' \in [Slot -> Nat]
  BY <1>1 DEF Handoff, RecoveryInv
<1>4. ASSUME NEW s \in Slot
      PROVE  /\ (trials[s] + state.attempts[s]
                   + (IF Underway(s, "normal") /\ s = state.pending_slot THEN 1 ELSE 0) <= max_attempts)'
             /\ (safe_boots[s] + (IF Underway(s, "safe") THEN 1 ELSE 0)
                   <= (IF s \in state.safe_attempted THEN 1 ELSE 0))'
  <2>1. trials[s] \in Nat /\ safe_boots[s] \in Nat /\ state.attempts[s] \in Nat
    BY <1>1, PolicyAssumption DEF RecoveryInv, RecoveryState
  <2>2. ~Underway(s, "normal")' /\ ~Underway(s, "safe")'
    BY DEF Underway, Handoff
  <2> QED
    BY <1>1, <2>1, <2>2, PolicyAssumption DEF Handoff, RecoveryInv, Underway
<1>5. state.generation \in Nat /\ state.inflight.generation = state.generation /\ state' = state
  BY <1>1, NoBootBinding DEF RecoveryInv, StateOk, ValidState, RecoveryState, Handoff
<1>6. boot'.binding = state.inflight /\ boot'.selection = selections
  BY DEF Handoff
<1> QED
  BY <1>1, <1>2, <1>3, <1>4, <1>5, <1>6 DEF Handoff, RecoveryInv

\* The invariant is inductive: one case per action.
LEMMA StepInv == RecoveryInv /\ [Next]_vars => RecoveryInv'
<1> SUFFICES ASSUME RecoveryInv, [Next]_vars PROVE RecoveryInv'
  OBVIOUS
<1> USE DEF RecoveryInv, StateOk, ActiveBootable, Underway, Matches, ghosts
<1>0. \A s \in Slot : /\ trials[s] + state.attempts[s] + 0 <= max_attempts
                      /\ safe_boots[s] + 0 <= (IF s \in state.safe_attempted THEN 1 ELSE 0)
  <2> SUFFICES ASSUME NEW s \in Slot
               PROVE  /\ trials[s] + state.attempts[s] + 0 <= max_attempts
                      /\ safe_boots[s] + 0 <= (IF s \in state.safe_attempted THEN 1 ELSE 0)
    OBVIOUS
  <2>1. trials[s] \in Nat /\ safe_boots[s] \in Nat /\ state.attempts[s] \in Nat
    BY PolicyAssumption DEF RecoveryState
  <2> QED
    BY <2>1, PolicyAssumption
<1>1. CASE UNCHANGED vars
  BY <1>1 DEF vars
<1>2. CASE IssueReceipt
  BY <1>2 DEF IssueReceipt
<1>3. ASSUME NEW f \in Failure, BootFails(f) PROVE RecoveryInv'
  BY <1>0, <1>3 DEF BootFails
<1>4. CASE HealthDeadline
  BY <1>4 DEF HealthDeadline
<1>5. CASE PowerOff
  BY <1>0, <1>5 DEF PowerOff
<1> QED
  BY <1>1, <1>2, <1>3, <1>4, <1>5, SelectInv, SuccessInv, FailureInv, HandoffInv, Zenon DEF Next

-----------------------------------------------------------------------------

\* The inductive invariant holds for every policy and every bound.
THEOREM RecoveryInvariant == Spec => []RecoveryInv
BY InitInv, StepInv, PTL DEF Spec

\* Every state that is stored is one that the next operation accepts.
THEOREM StateAccepted == Spec => []StateOk
<1>1. RecoveryInv => StateOk
  BY DEF RecoveryInv
<1> QED
  BY <1>1, RecoveryInvariant, PTL

\* Retry and safe loops are bounded by the policy, whatever is lost or late.
THEOREM BoundedLoops == Spec => []LoopsBounded
<1>1. RecoveryInv => LoopsBounded
  <2> SUFFICES ASSUME RecoveryInv, NEW s \in Slot
               PROVE  trials[s] + state.attempts[s] <= max_attempts /\ safe_boots[s] <= 1
    BY DEF LoopsBounded
  <2>1. trials[s] \in Nat /\ safe_boots[s] \in Nat /\ state.attempts[s] \in Nat
    BY PolicyAssumption DEF RecoveryInv, StateOk, RecoveryState
  <2> QED
    BY <2>1, PolicyAssumption DEF RecoveryInv
<1> QED
  BY <1>1, RecoveryInvariant, PTL

\* Only the boot in flight can be confirmed, even if every nonce is the same.
THEOREM SuccessIsFresh == Spec => []FreshSuccess
<1>1. RecoveryInv => FreshSuccess
  BY DEF RecoveryInv, FreshSuccess, Matches
<1> QED
  BY <1>1, RecoveryInvariant, PTL

\* The active slot remains bootable.
THEOREM ActiveRemains == Spec => []ActiveBootable
<1>1. RecoveryInv => ActiveBootable
  BY DEF RecoveryInv
<1> QED
  BY <1>1, RecoveryInvariant, PTL

\* A failure receipt is delivered that report_boot_failure has no reason to refuse:
\* it does not retire the active slot.
Settling ==
    /\ report # "none" /\ report' = "none"
    /\ state.inflight # NoBoot /\ CanAdvance
    /\ ~(FailureRule(report).retire /\ state.inflight.slot = state.active_slot)

\* The receipt of any other failure leads to a state that parse_state accepts.
LEMMA FailureAccepted ==
  ASSUME RecoveryInv, state.inflight # NoBoot,
         ~(FailureRule(report).retire /\ state.inflight.slot = state.active_slot)
  PROVE  ValidState(AfterFailure(state, report))
<1> DEFINE retired == IF FailureRule(report).retire THEN {state.inflight.slot} ELSE {}
           new == AfterFailure(state, report)
<1>1. state \in RecoveryState /\ ValidState(state)
  BY DEF RecoveryInv, StateOk
<1>2. state.active_slot \in Slot /\ state.active_slot \notin retired /\ 0 \notin Slot
  BY <1>1 DEF RecoveryState, Slot
<1>3. /\ new.pending_slot \in {state.pending_slot, 0}
      /\ new.active_slot = state.active_slot
      /\ new.known_good = state.known_good \ retired
      /\ new.unbootable = state.unbootable \cup retired
      /\ new.attempts = state.attempts
      /\ new.minimum_secure_version = state.minimum_secure_version
      /\ new.inflight = NoBoot
  BY <1>1 DEF AfterFailure, RecoveryState
<1> HIDE DEF new, retired
<1>4. ValidState(new)
  BY <1>1, <1>2, <1>3 DEF ValidState
<1> QED BY <1>4 DEF new

\* A failure receipt for a boot in flight clears the binding unless it would
\* retire the active slot, the one case in which report_boot_failure refuses it.
THEOREM FailureSettles == Spec => [][Settling => state'.inflight = NoBoot]_vars
<1>1. RecoveryInv /\ [Next]_vars => [Settling => state'.inflight = NoBoot]_vars
  <2> SUFFICES ASSUME RecoveryInv, [Next]_vars, Settling
               PROVE  state'.inflight = NoBoot
    OBVIOUS
  <2>1. ReportBootFailure
    <3>1. report' # report /\ report # "none"
      BY DEF Settling
    <3>2. ~SelectBoot
      BY <3>1, Zenon DEF SelectBoot, SelectUnwritable, SelectFirmware, SelectRecovery, SelectTrial,
                   SelectAfterTrials, SelectByMode, Decide
    <3> QED BY <3>1, <3>2, Zenon DEF Next, vars, Handoff, IssueReceipt, ReportBootSuccess, BootFails,
                              HealthDeadline, PowerOff
  <2>2. AcceptsFailure
    BY FailureAccepted DEF Settling, AcceptsFailure
  <2>3. state' = AfterFailure(state, report)
    BY <2>1, <2>2 DEF ReportBootFailure
  <2>4. state \in RecoveryState
    BY DEF RecoveryInv, StateOk
  <2> QED BY <2>3, <2>4 DEF AfterFailure, RecoveryState
<1> QED BY <1>1, RecoveryInvariant, PTL DEF Spec

-----------------------------------------------------------------------------
(* PBSTATE1 *)

\* The steps before the anchor advances, and those after.
Before == {"write_target_uncommitted", "flush_target_data",
           "write_target_commit_and_authentication", "flush_target_commit",
           "advance_monotonic_anchor"}
After == {"verify_monotonic_anchor", "repair_other_copy", "flush_repaired_copy",
          "verify_redundant_copies"}

Good(copy) == copy.readable /\ copy.state = anchor

\* Copy i is good, and there is nothing unflushed about it.
Secured(i) == Good(media[i]) /\ cache[i] = media[i]

\* The inductive invariant: which copy a power loss cannot touch.
StoreInv ==
    /\ anchor.state_generation \in Nat
    /\ anchor.store_epoch \in Nat
    /\ anchor.store_epoch <= target_store_epoch
    /\ DOMAIN media = Copy
    /\ DOMAIN cache = Copy
    /\ target \in Copy
    /\ step \in {"idle"} \cup Before \cup After
    /\ step = "idle" => \E i \in Copy : Secured(i)
    /\ step \in {"idle", "verify_redundant_copies"} => \A i \in Copy : cache[i] = media[i]
    /\ step \in Before => Secured(OtherCopy(target)) /\ next \in Successors(anchor)
    /\ step = "flush_target_commit" => cache[target] = Holding(next)
    /\ step = "advance_monotonic_anchor" => /\ media[target] = Holding(next)
                                            /\ cache[target] = media[target]
    /\ step \in After => Secured(target) /\ next = anchor

-----------------------------------------------------------------------------

\* The checks of select_backend_state together say that the copy is good.
LEMMA AnchoredGood ==
    ASSUME anchor.state_generation \in Nat, anchor.store_epoch \in Nat, NEW copies
    PROVE  Anchored(copies) = {i \in Copy : Good(copies[i])}
BY DEF Anchored, Good, Stale, Future

\* A good copy makes select_backend_state return the anchored state.
LEMMA SelectedAnchor ==
    ASSUME anchor.state_generation \in Nat, anchor.store_epoch \in Nat,
           NEW copies, NEW i \in Copy, Good(copies[i])
    PROVE  Anchored(copies) # {} /\ Selected(copies) = anchor
BY AnchoredGood DEF Selected, selected_copy, Good, Copy

\* Recovery reads the anchored state.
LEMMA InvSelects == StoreInv => Selected(media) = anchor
<1> SUFFICES ASSUME StoreInv PROVE Selected(media) = anchor
  OBVIOUS
<1>1. \E i \in Copy : Good(media[i])
  BY DEF StoreInv, Secured, Copy, OtherCopy
<1> QED
  BY <1>1, SelectedAnchor DEF StoreInv

\* In every state of the invariant the secured copy survives a power loss.
LEMMA InvRecoverable == StoreInv => Recoverable
<1> SUFFICES ASSUME StoreInv, NEW m \in Remnants PROVE Anchored(m) # {}
  BY DEF Recoverable
<1>1. PICK i \in Copy : Secured(i)
  BY DEF StoreInv, Copy, OtherCopy
<1>2. m[i] = media[i]
  BY <1>1 DEF Secured, Remnants, Remains
<1> QED
  BY <1>1, <1>2, SelectedAnchor DEF StoreInv, Secured, Good

\* Two copies of the anchored state satisfy the invariant.
LEMMA StoreInitInv == StoreInit => StoreInv
BY RequirementsAssumption
   DEF StoreInit, StoreInv, InitialStates, State, Secured, Good, Holding, Copy, Before, After

\* The target is never the only good copy.
LEMMA TargetSpares ==
    ASSUME StoreInv, step = "idle"
    PROVE  TargetCopy(cache) \in Copy /\ Secured(OtherCopy(TargetCopy(cache)))
<1>1. Anchored(cache) = {i \in Copy : Good(cache[i])}
  BY AnchoredGood DEF StoreInv
<1>2. PICK i \in Copy : Good(cache[i])
  BY DEF StoreInv, Secured
<1>3. TargetCopy(cache) \in Copy /\ Good(cache[OtherCopy(TargetCopy(cache))])
  BY <1>1, <1>2 DEF TargetCopy, selected_copy, OtherCopy, Copy
<1>4. OtherCopy(TargetCopy(cache)) \in Copy
  BY <1>3 DEF OtherCopy, Copy
<1> QED
  BY <1>3, <1>4 DEF StoreInv, Secured

\* The invariant is inductive: one case per transition step and fault.
LEMMA StoreStepInv == StoreInv /\ [StoreNext]_storeVars => StoreInv'
<1> SUFFICES ASSUME StoreInv, [StoreNext]_storeVars PROVE StoreInv'
  OBVIOUS
<1>1. CASE UNCHANGED storeVars
  BY <1>1 DEF storeVars, StoreInv, Secured, Good
<1>2. ASSUME NEW c \in Content, Plan(c) PROVE StoreInv'
  <2>0. \E i \in Copy : Good(cache[i])
    BY <1>2 DEF Plan, StoreInv, Secured
  <2>1. Selected(cache) = anchor
    BY <2>0, SelectedAnchor DEF StoreInv
  <2>2. next' \in Successors(anchor)
    BY <1>2, <2>1 DEF Plan, Successors
  <2>3. target' \in Copy /\ Secured(OtherCopy(target'))
    BY <1>2, TargetSpares DEF Plan
  <2> QED
    BY <1>2, <2>2, <2>3 DEF Plan, StoreInv, Before, After, Secured, Good, Successors
<1>3. CASE WriteTargetUncommitted
  BY <1>3 DEF WriteTargetUncommitted, Write, StoreInv, Before, After, Secured, Good, Successors, Copy, OtherCopy
<1>4. CASE FlushTargetData
  BY <1>4 DEF FlushTargetData, Flush, StoreInv, Before, After, Secured, Good, Successors, Copy, OtherCopy
<1>5. CASE WriteTargetCommit
  BY <1>5 DEF WriteTargetCommit, Write, StoreInv, Before, After, Secured, Good, Successors, Copy, OtherCopy
<1>6. CASE FlushTargetCommit
  BY <1>6 DEF FlushTargetCommit, Flush, StoreInv, Before, After, Secured, Good, Successors, Copy, OtherCopy
<1>7. CASE AdvanceMonotonicAnchor
  BY <1>7, RequirementsAssumption
     DEF AdvanceMonotonicAnchor, StoreInv, Before, After, Secured, Good, Successors, State, Holding
<1>8. CASE VerifyMonotonicAnchor
  BY <1>8 DEF VerifyMonotonicAnchor, StoreInv, Before, After, Secured, Good
<1>9. CASE RepairOtherCopy
  BY <1>9 DEF RepairOtherCopy, Write, StoreInv, Before, After, Secured, Good, Copy, OtherCopy
<1>10. CASE FlushRepairedCopy
  BY <1>10 DEF FlushRepairedCopy, Flush, StoreInv, Before, After, Secured, Good, Copy, OtherCopy
<1>11. CASE VerifyRedundantCopies
  BY <1>11 DEF VerifyRedundantCopies, StoreInv, Before, After, Secured, Good, Copy
<1>12. CASE PowerLoss
  <2>1. PICK i \in Copy : Secured(i)
    BY DEF StoreInv, Copy, OtherCopy
  <2>2. media'[i] = media[i] /\ DOMAIN media' = Copy
    BY <1>12, <2>1 DEF PowerLoss, Secured, Remnants, Remains
  <2>3. Secured(i)'
    BY <1>12, <2>1, <2>2 DEF PowerLoss, Secured, Good
  <2> QED
    BY <1>12, <2>2, <2>3 DEF PowerLoss, StoreInv, Before, After, Copy
<1>13. ASSUME NEW i \in Copy, CopyLost(i) PROVE StoreInv'
  <2>1. Good(media[OtherCopy(i)])
    BY <1>13, AnchoredGood DEF CopyLost, StoreInv
  <2>2. Good(media[OtherCopy(i)])' /\ (cache = media)' /\ DOMAIN media' = Copy
    BY <1>13, <2>1 DEF CopyLost, StoreInv, Good, Copy, OtherCopy
  <2> QED
    BY <1>13, <2>2 DEF CopyLost, StoreInv, Secured, Copy, OtherCopy, Before, After
<1> QED
  BY <1>1, <1>2, <1>3, <1>4, <1>5, <1>6, <1>7, <1>8, <1>9, <1>10, <1>11, <1>12, <1>13
     DEF StoreNext, Transition, Fault

\* The invariant of the transition steps holds throughout.
THEOREM StoreInvariant == StoreSpec => []StoreInv
BY StoreInitInv, StoreStepInv, PTL DEF StoreSpec

\* However the power fails, select_backend_state finds the anchored state.
THEOREM AlwaysRecoverable == StoreSpec => []Recoverable
BY StoreInvariant, InvRecoverable, PTL

\* A step changes the anchored state only to one of its successors.
LEMMA StepStore == StoreInv /\ [StoreNext]_storeVars => anchor' = anchor \/ anchor' \in Successors(anchor)
<1> SUFFICES ASSUME StoreInv, [StoreNext]_storeVars PROVE anchor' = anchor \/ anchor' \in Successors(anchor)
  OBVIOUS
<1>1. CASE AdvanceMonotonicAnchor
  BY <1>1 DEF AdvanceMonotonicAnchor, StoreInv, Before
<1>2. CASE ~AdvanceMonotonicAnchor
  BY <1>2 DEF StoreNext, Transition, Fault, storeVars, Plan, Write, Flush, WriteTargetUncommitted,
              FlushTargetData, WriteTargetCommit, FlushTargetCommit, VerifyMonotonicAnchor,
              RepairOtherCopy, FlushRepairedCopy, VerifyRedundantCopies, PowerLoss, CopyLost
<1> QED
  BY <1>1, <1>2

\* What recovery reads from the media behaves as an atomic store: PBSTATE1
\* implements AtomicStore.
THEOREM StoreRefinement == StoreSpec => ImplementsStore
<1>1. StoreInit => Store!Init
  BY StoreInitInv, InvSelects DEF StoreInit, Store!Init
<1>2. StoreInv /\ StoreInv' /\ [StoreNext]_storeVars => [Store!Next]_(Selected(media))
  <2> SUFFICES ASSUME StoreInv, StoreInv', [StoreNext]_storeVars
               PROVE  Selected(media)' = Selected(media) \/ Store!Next
    OBVIOUS
  <2>1. Selected(media) = anchor
    BY InvSelects
  <2>2. (StoreInv => Selected(media) = anchor)'
    BY InvSelects, PTL
  <2>3. Selected(media)' = anchor'
    BY <2>2
  <2> QED
    BY <2>1, <2>3, StepStore DEF Store!Next
<1> QED
  BY <1>1, <1>2, StoreInvariant, PTL DEF StoreSpec, ImplementsStore, Store!Spec
=============================================================================
