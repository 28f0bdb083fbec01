--------------------------------- MODULE App ---------------------------------
(***************************************************************************)
(* The interactive app of xdsl/interactive/app.py: a user edits a text,    *)
(* selects passes and presses buttons; the widgets post messages, and the  *)
(* app handles them one at a time, in the order of each widget.  Setting a *)
(* reactive attribute calls its watcher at once and then the compute       *)
(* method of available_pass_list (Textual, external).  Modules are model   *)
(* values; what parsing and the passes do to them is any function.         *)
(***************************************************************************)
EXTENDS Naturals, SequencesExt

CONSTANTS Texts,    \* texts other than the empty one
          Modules,
          Passes,   \* ALL_PASSES
          Raised,   \* an exception instead of a module
          None,     \* no module
          MaxInputs \* bound: inputs of the user

Empty == ""

ASSUME AppInput ==
  /\ MaxInputs \in Nat
  /\ Raised \notin Modules /\ None \notin Modules /\ Raised # None /\ Empty \notin Texts

VARIABLES parse,     \* what the parser makes of a text
          effect,    \* what a pass makes of a module
          text,      \* input_text_area.text
          pass_pipeline, current_module, condense_mode, available_pass_list,
          output,    \* output_text_area: the module printed, Raised or None
          label,     \* selected_query_label: the passes
          items,     \* passes_list_view
          changed,   \* TextArea.Changed messages not handled yet
          selected,  \* ListView.Selected messages, in order
          pressed,   \* Button.Pressed messages, in order
          inputs     \* inputs so far

program == <<parse, effect>>
reactive == <<pass_pipeline, current_module, condense_mode, available_pass_list, output, label, items>>
messages == <<changed, selected, pressed>>
vars == <<program, text, reactive, messages, inputs>>

Buttons == {"clear_passes", "condense", "uncondense"}

----------------------------------------------------------------------------
(* What the handlers compute. *)

\* PipelinePass.apply: the passes in order, until one raises; eff is their effect.
Applied(eff, m, ps) ==
  FoldLeft(LAMBDA n, p : IF n = Raised THEN n ELSE eff[p, n], m, ps)

\* update_current_module: the new current_module.
Updated(t, ps) == IF t = Empty THEN None ELSE Applied(effect, parse[t], ps)

\* condensed_pass_list: passes that change a clone of the module, or raise.
CondensedPassList(m) == {p \in Passes : effect[p, m] # m}

\* Mutant: the list of the module before the passes is kept.
ComputeAvailableStale(m, condense) ==
  IF m = Raised THEN {} ELSE IF m # None /\ condense THEN available_pass_list ELSE Passes

\* compute_available_pass_list
ComputeAvailable(m, condense) ==
  IF m = Raised THEN {}
  ELSE IF m # None /\ condense THEN CondensedPassList(m) ELSE Passes

\* current_module = m, with watch_current_module; then the list is computed, and
\* watch_available_pass_list fills the view if it changed.
SetModule(m, condense) ==
  /\ current_module' = m
  /\ output' = IF m = None /\ current_module = None THEN output ELSE m
  /\ LET list == ComputeAvailable(m, condense)
     IN  /\ available_pass_list' = list
         /\ items' = IF list # available_pass_list THEN list ELSE items

\* Mutant: the label is updated, the module is not.
SetPipelineOnly(ps) == pass_pipeline' = ps /\ label' = ps /\ UNCHANGED <<current_module, output, available_pass_list, items>>

\* pass_pipeline = ps, with watch_pass_pipeline, if it changes.
SetPipeline(ps) ==
  IF ps = pass_pipeline
  THEN UNCHANGED <<pass_pipeline, label, current_module, output, available_pass_list, items>>
  ELSE /\ pass_pipeline' = ps /\ label' = ps
       /\ SetModule(Updated(text, ps), condense_mode)

----------------------------------------------------------------------------
(* The user. *)

MayAct == inputs < MaxInputs /\ inputs' = inputs + 1

\* The text area changes at once; the app hears of it later.
Edit ==
  /\ MayAct
  /\ \E t \in Texts \cup {Empty} : t # text /\ text' = t
  /\ changed' = changed + 1
  /\ UNCHANGED <<program, reactive, selected, pressed>>

\* An item that is in the view now.
Select ==
  /\ MayAct
  /\ \E p \in items : selected' = Append(selected, p)
  /\ UNCHANGED <<program, text, reactive, changed, pressed>>

Press ==
  /\ MayAct
  /\ \E b \in Buttons : pressed' = Append(pressed, b)
  /\ UNCHANGED <<program, text, reactive, changed, selected>>

\* The button Clear Input: its message is handled by input_text_area.clear().
PressClearInput ==
  /\ MayAct /\ text # Empty
  /\ text' = Empty /\ changed' = changed + 1
  /\ UNCHANGED <<program, reactive, selected, pressed>>

----------------------------------------------------------------------------
(* The app's handlers. *)

\* Mutant: a change is left to the one that follows.
OnChangedLast ==
  /\ changed = 1 /\ changed' = 0
  /\ SetModule(Updated(text, pass_pipeline), condense_mode)
  /\ UNCHANGED <<program, text, pass_pipeline, condense_mode, label, selected, pressed, inputs>>

\* update_current_module, on TextArea.Changed
OnChanged ==
  /\ changed > 0 /\ changed' = changed - 1
  /\ SetModule(Updated(text, pass_pipeline), condense_mode)
  /\ UNCHANGED <<program, text, pass_pipeline, condense_mode, label, selected, pressed, inputs>>

\* update_pass_pipeline, on ListView.Selected: the pass may have left the view.
OnSelected ==
  /\ selected # <<>> /\ selected' = Tail(selected)
  /\ SetPipeline(Append(pass_pipeline, Head(selected)))
  /\ UNCHANGED <<program, text, condense_mode, changed, pressed, inputs>>

\* clear_passes, condense and uncondense, on Button.Pressed
OnPressed ==
  /\ pressed # <<>> /\ pressed' = Tail(pressed)
  /\ \/ /\ Head(pressed) = "clear_passes"
        /\ SetPipeline(<<>>)
        /\ UNCHANGED condense_mode
     \/ /\ Head(pressed) \in {"condense", "uncondense"}
        /\ condense_mode' = (Head(pressed) = "condense")
        /\ LET list == ComputeAvailable(current_module, condense_mode')
           IN  /\ available_pass_list' = list
               /\ items' = IF list # available_pass_list THEN list ELSE items
        /\ UNCHANGED <<pass_pipeline, label, current_module, output>>
  /\ UNCHANGED <<program, text, changed, selected, inputs>>

\* on_mount, and the first call of the watchers.
Init ==
  /\ parse \in [Texts -> Modules \cup {Raised}]
  /\ effect \in [Passes \X Modules -> Modules \cup {Raised}]
  /\ text = Empty /\ pass_pipeline = <<>> /\ label = <<>>
  /\ current_module = None /\ output = None
  /\ condense_mode = FALSE
  /\ available_pass_list = Passes /\ items = Passes
  /\ changed = 0 /\ selected = <<>> /\ pressed = <<>> /\ inputs = 0

User == Edit \/ Select \/ Press \/ PressClearInput
Handler == OnChanged \/ OnSelected \/ OnPressed
Next == User \/ Handler

\* The app's message pump goes on as long as there are messages.
Spec == Init /\ [][Next]_vars /\ WF_vars(OnChanged) /\ WF_vars(OnSelected) /\ WF_vars(OnPressed)

----------------------------------------------------------------------------
(* Properties. *)

Results == Modules \cup {None, Raised}

TypeOK ==
  /\ text \in Texts \cup {Empty}
  /\ \A i \in DOMAIN pass_pipeline : pass_pipeline[i] \in Passes
  /\ {current_module, output} \subseteq Results /\ condense_mode \in BOOLEAN
  /\ available_pass_list \subseteq Passes /\ items \subseteq Passes
  /\ changed \in Nat /\ inputs \in 0..MaxInputs

\* Unless a change of the text is still to be handled, the output is the input after
\* the passes that the label names, in whatever order edits, selections and buttons
\* were handled.
OutputCurrent == changed = 0 => output = Updated(text, label)

\* The view offers what has an effect on the module of the output, or everything when
\* the list is not condensed, also after passes were selected from an older list.
ItemsCurrent ==
  /\ output = Raised => items = {}
  /\ output = None \/ (output # Raised /\ ~condense_mode) => items = Passes
  /\ output \in Modules /\ condense_mode => items = {p \in Passes : effect[p, output] # output}

\* The handlers leave no stale copy: the label is the pipeline, the output the module
\* and the view the list, which is the one computed for that module; and the module is
\* the text's, unless the message of an edit is still to come.
InStep ==
  /\ changed \in Nat
  /\ label = pass_pipeline /\ output = current_module /\ items = available_pass_list
  /\ available_pass_list = ComputeAvailable(current_module, condense_mode)
  /\ changed = 0 => current_module = Updated(text, pass_pipeline)

\* When the user stops, the output becomes the input after the selected passes, and
\* stays so.
EventuallyCurrent == <>[](output = Updated(text, pass_pipeline) /\ label = pass_pipeline)

=============================================================================
