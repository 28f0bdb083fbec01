----------------------------- MODULE App_proofs -----------------------------
(***************************************************************************)
(* Proofs about App: what the output and the list of passes show is        *)
(* current, for any texts, modules and passes, whatever these do, and any  *)
(* number of inputs in any order.                                          *)
(***************************************************************************)
EXTENDS App, TLAPS

\* What the handlers compute depends on the program and on their arguments only.
LEMMA ComputedAlike ==
  ASSUME UNCHANGED program
  PROVE  /\ \A t, ps : Updated(t, ps)' = Updated(t, ps)
         /\ \A m, c : ComputeAvailable(m, c)' = ComputeAvailable(m, c)
  BY DEF program, Updated, ComputeAvailable, CondensedPassList

\* Setting current_module brings the output, the list and the view in step with it.
LEMMA SetModuleInStep ==
  ASSUME InStep, NEW m, NEW c, SetModule(m, c)
  PROVE  /\ current_module' = m /\ output' = m
         /\ available_pass_list' = ComputeAvailable(m, c) /\ items' = available_pass_list'
  BY DEF InStep, SetModule

\* Setting pass_pipeline, whether it changes or not, keeps them in step.
LEMMA SetPipelineInStep ==
  ASSUME InStep, NEW ps, SetPipeline(ps),
         UNCHANGED <<program, text, condense_mode, changed>>
  PROVE  InStep'
<1>1. CASE ps = pass_pipeline
  BY <1>1, ComputedAlike DEF SetPipeline, InStep
<1>2. CASE ps # pass_pipeline
  <2>1. /\ pass_pipeline' = ps /\ label' = ps
        /\ SetModule(Updated(text, ps), condense_mode)
    BY <1>2 DEF SetPipeline
  <2>2. /\ current_module' = Updated(text, ps) /\ output' = current_module'
        /\ available_pass_list' = ComputeAvailable(current_module', condense_mode)
        /\ items' = available_pass_list'
    BY <2>1, SetModuleInStep
  <2> QED  BY <2>1, <2>2, ComputedAlike DEF InStep
<1> QED  BY <1>1, <1>2

LEMMA UserInStep ==
  ASSUME InStep, User
  PROVE  InStep'
<1>1. UNCHANGED <<program, reactive>>
  BY DEF User, Edit, Select, Press, PressClearInput
<1>2. \/ changed' = changed + 1
      \/ UNCHANGED <<text, changed>>
  BY DEF User, Edit, Select, Press, PressClearInput
<1>3. changed \in Nat
  BY DEF InStep
<1>4. changed' \in Nat /\ (changed' = 0 => UNCHANGED <<text, changed>>)
  BY <1>2, <1>3
<1> QED  BY <1>1, <1>4, ComputedAlike DEF InStep, reactive

LEMMA HandlerInStep ==
  ASSUME InStep, Handler
  PROVE  InStep'
<1>1. CASE OnChanged
  <2>1. /\ current_module' = Updated(text, pass_pipeline) /\ output' = current_module'
        /\ available_pass_list' = ComputeAvailable(current_module', condense_mode)
        /\ items' = available_pass_list'
    BY <1>1, SetModuleInStep DEF OnChanged
  <2>2. changed' \in Nat
    BY <1>1 DEF OnChanged, InStep
  <2>3. UNCHANGED <<program, text, pass_pipeline, condense_mode, label>>
    BY <1>1 DEF OnChanged
  <2> QED  BY <2>1, <2>2, <2>3, ComputedAlike DEF InStep
<1>2. CASE OnSelected
  BY <1>2, SetPipelineInStep DEF OnSelected
<1>3. CASE OnPressed
  <2>1. CASE SetPipeline(<<>>) /\ UNCHANGED condense_mode
    BY <1>3, <2>1, SetPipelineInStep DEF OnPressed
  <2>2. CASE /\ available_pass_list' = ComputeAvailable(current_module, condense_mode')
             /\ items' = IF available_pass_list' # available_pass_list
                         THEN available_pass_list' ELSE items
             /\ UNCHANGED <<pass_pipeline, label, current_module, output>>
    BY <1>3, <2>2, ComputedAlike DEF OnPressed, InStep
  <2> QED  BY <1>3, <2>1, <2>2 DEF OnPressed
<1> QED  BY <1>1, <1>2, <1>3 DEF Handler

\* No copy of the app's state goes stale, in any order of edits, selections and
\* buttons and of their handlers.
THEOREM CopiesInStep == Spec => []InStep
<1>1. Init => InStep
  BY AppInput DEF Init, InStep, ComputeAvailable, Updated
<1>2. InStep /\ [Next]_vars => InStep'
  <2> SUFFICES ASSUME InStep, [Next]_vars PROVE InStep'
    OBVIOUS
  <2>1. CASE Next
    BY <2>1, UserInStep, HandlerInStep DEF Next
  <2>2. CASE UNCHANGED vars
    BY <2>2, ComputedAlike DEF vars, reactive, messages, InStep
  <2> QED  BY <2>1, <2>2
<1> QED  BY <1>1, <1>2, PTL DEF Spec

\* Once every edit has been handled, the output area shows the input after the passes
\* that the label names.
THEOREM OutputIsCurrent == Spec => []OutputCurrent
<1>1. InStep => OutputCurrent
  BY DEF InStep, OutputCurrent
<1> QED  BY <1>1, CopiesInStep, PTL

\* The list of passes belongs to the module of the output and to the mode.
THEOREM ItemsAreCurrent == Spec => []ItemsCurrent
<1>1. InStep => ItemsCurrent
  BY AppInput DEF InStep, ItemsCurrent, ComputeAvailable, CondensedPassList
<1> QED  BY <1>1, CopiesInStep, PTL
=============================================================================
