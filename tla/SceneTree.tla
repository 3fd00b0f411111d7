----------------------------- MODULE SceneTree -----------------------------
(***************************************************************************)
(* What is shown (obs-source.c, obs-source-transition.c, obs-scene.c,      *)
(* obs.c, obs-view.c).  A source counts in show_refs how often it is       *)
(* displayed, in activate_refs how often by the main view; who joins or    *)
(* leaves the tree walks it and adjusts the counters below.  The user      *)
(* interface changes transitions, scenes and items, while the graphics and *)
(* the audio thread end transitions, and the audio thread lets go of items *)
(* only when their sound has faded.                                        *)
(*                                                                         *)
(* todo[t] is what thread t has yet to do in the call it is in.  A step is *)
(* one atomic access to a counter, one walk over a tree (whose items are   *)
(* read once each), or what is done under one mutex.                       *)
(***************************************************************************)
EXTENDS Integers, Sequences, SequencesExt, FiniteSetsExt

CONSTANTS
  Transitions, Scenes,
  Input,                    \* a source with audio, of which each scene has an item
  MaxCalls, MaxActions      \* bounds: calls of the user interface, actions waiting

VARIABLES
  refs,                     \* show_refs and activate_refs
  channel,                  \* channels[0] of the main view
  preview,                  \* lastScene, what the preview shows
  transition,               \* transition_sources, _source_active, transitioning_*
  item,                     \* active_refs, user_visible, audio_actions
  rendering,                \* render_order of the audio thread
  todo, calls,
  torn                      \* history: a walk met an item or transition half changed

vars == <<refs, channel, preview, transition, item, rendering, todo, calls, torn>>

None == "none"
Threads == {"ui", "graphics", "audio"}
Counters == {"show_refs", "activate_refs"}
Nodes == Transitions \union Scenes \union {Input}

Empty == [sources |-> <<None, None>>, active |-> <<TRUE, FALSE>>,
          video |-> FALSE, audio |-> FALSE]
NoItem == [there |-> FALSE, active_refs |-> 0, user_visible |-> FALSE, audio_actions |-> <<>>]
NewItem == [there |-> TRUE, active_refs |-> 1, user_visible |-> TRUE, audio_actions |-> <<TRUE>>]

\* As it is once the program has loaded: a transition shows a scene, the
\* preview none, the scene has its item.
Init ==
  LET t == CHOOSE t \in Transitions : TRUE
      s == CHOOSE s \in Scenes : TRUE
  IN /\ channel = t /\ preview = None
     /\ transition = [u \in Transitions |->
          IF u = t THEN [Empty EXCEPT !.sources = <<s, None>>] ELSE Empty]
     /\ item = [u \in Scenes |-> IF u = s THEN [NewItem EXCEPT !.audio_actions = <<>>] ELSE NoItem]
     /\ refs = [k \in Counters |-> [n \in Nodes |-> IF n \in {t, s, Input} THEN 1 ELSE 0]]
     /\ rendering = {}
     /\ todo = [th \in Threads |-> <<>>] /\ calls = 0 /\ torn = FALSE

----------------------------------------------------------------------------
(* The calls, as what is left to do.                                       *)

Op(do, n)            == [do |-> do, of |-> n]
Count(do, k, n)      == [do |-> do, of |-> n, k |-> k]
Link(do, p, c)       == [do |-> do, of |-> p, child |-> c]
If(p, s)             == IF p THEN s ELSE <<>>

obs_source_activate(n, main) ==
  <<Count("raise", "show_refs", n)>> \o If(main, <<Count("raise", "activate_refs", n)>>)

obs_source_deactivate(n, main) ==
  <<Count("lower", "show_refs", n)>> \o If(main, <<Count("lower", "activate_refs", n)>>)

Idle(th)     == todo[th] = <<>>
Now(th)      == Head(todo[th])
At(th, do)   == ~Idle(th) /\ Now(th).do = do
Begin(th, s) == Idle(th) /\ todo' = [todo EXCEPT ![th] = s]
Then(th, s)  == todo' = [todo EXCEPT ![th] = s \o Tail(@)]

Has(th, dos, n) == \E i \in DOMAIN todo[th] : todo[th][i].do \in dos /\ todo[th][i].of = n

\* transition_mutex, and audio_mutex of a scene, are held until these are done.
Locking    == {"set_b", "stopped", "copied", "removed", "unlock"}
Free(n, th) == \A o \in Threads \ {th} : ~Has(o, Locking, n)

\* History: a child is added or removed while another thread is between a
\* counter of the parent and the walk over its children, or has lowered one of
\* the two counters; or a counter is changed and walked for while a child is
\* being added or removed.
Linking    == {"set_b", "stopped", "copied", "removed", "linked", "added"}
Others(th) == Threads \ {th}
Counted(th, ns) == torn' = \E o \in Others(th), n \in ns : Has(o, Linking, n)
Linked(th, p)   == torn' = \/ \E o \in Others(th) : At(o, "walk") /\ Now(o).of = p
                           \/ refs["show_refs"][p] < refs["activate_refs"][p]

----------------------------------------------------------------------------
(* obs_source_activate, obs_source_deactivate and the walks                *)

Raise(th) ==
  /\ At(th, "raise")
  /\ LET n == Now(th).of  k == Now(th).k
     IN /\ refs' = [refs EXCEPT ![k][n] = @ + 1]
        /\ Then(th, <<[do |-> "walk", of |-> n, k |-> k, by |-> 1]>>)
        /\ Counted(th, {n})
  /\ UNCHANGED <<channel, preview, transition, item, rendering, calls>>

Lower(th) ==
  /\ At(th, "lower")
  /\ LET n == Now(th).of  k == Now(th).k
     IN /\ IF refs[k][n] > 0
           THEN /\ refs' = [refs EXCEPT ![k][n] = @ - 1]
                /\ Then(th, <<[do |-> "walk", of |-> n, k |-> k, by |-> -1]>>)
           ELSE UNCHANGED refs /\ Then(th, <<>>)
        /\ Counted(th, {n})
  /\ UNCHANGED <<channel, preview, transition, item, rendering, calls>>

\* obs_transition_enum_sources, scene_enum_active_sources
Below(n) == CASE n \in Transitions -> SelectSeq(transition[n].sources, LAMBDA s : s # None)
              [] n \in Scenes -> If(item[n].there /\ item[n].active_refs > 0, <<Input>>)
              [] OTHER -> <<>>
Inner(n) == {n} \union {s \in Scenes : Contains(Below(n), s)}

\* obs_source_enum_active_tree: the children and their children.
ActiveTree(n) ==
  LET children == Below(n)
  IN children \o FlattenSeq([i \in DOMAIN children |-> Below(children[i])])
Times(n, s) == Cardinality({i \in DOMAIN ActiveTree(n) : ActiveTree(n)[i] = s})

Walk(th) ==
  /\ At(th, "walk")
  /\ LET o == Now(th)
     IN /\ \A n \in Inner(o.of) : Free(n, th)
        /\ refs' = [refs EXCEPT ![o.k] = [s \in Nodes |-> @[s] + o.by * Times(o.of, s)]]
        /\ Counted(th, Inner(o.of))
  /\ Then(th, <<>>)
  /\ UNCHANGED <<channel, preview, transition, item, rendering, calls>>

\* Once for each time the parent is shown.
obs_source_add_active_child(th) ==
  /\ At(th, "add")
  /\ LET o == Now(th)
     IN /\ Then(th, FlattenSeq([i \in 1..refs["show_refs"][o.of] |->
                obs_source_activate(o.child, i <= refs["activate_refs"][o.of])]))
        /\ Linked(th, o.of)
  /\ UNCHANGED <<refs, channel, preview, transition, item, rendering, calls>>

obs_source_remove_active_child(th) ==
  /\ At(th, "remove")
  /\ LET o == Now(th)
     IN /\ Then(th, FlattenSeq([i \in 1..refs["show_refs"][o.of] |->
                obs_source_deactivate(o.child, i <= refs["activate_refs"][o.of])]))
        /\ Linked(th, o.of)
  /\ UNCHANGED <<refs, channel, preview, transition, item, rendering, calls>>

\* An unlocked change of a parent's children is over.
EndLinked(th) ==
  /\ At(th, "linked") /\ Then(th, <<>>)
  /\ UNCHANGED <<refs, channel, preview, transition, item, rendering, calls, torn>>

Unlock(th) ==
  /\ At(th, "unlock") /\ Then(th, <<>>)
  /\ UNCHANGED <<refs, channel, preview, transition, item, rendering, calls, torn>>

Tree(th) == \/ Raise(th) \/ Lower(th) \/ Walk(th) \/ EndLinked(th) \/ Unlock(th)
            \/ obs_source_add_active_child(th) \/ obs_source_remove_active_child(th)

----------------------------------------------------------------------------
(* Transitions                                                             *)

Source(t, i) == transition[t].sources[i]
Leave(t) == If(Source(t, 1) # None /\ transition[t].active[1], <<Link("remove", t, Source(t, 1))>>)
            \o If(Source(t, 2) # None /\ transition[t].active[2], <<Link("remove", t, Source(t, 2))>>)

\* obs_transition_set: the mutex is let go before the children change.
obs_transition_set(t, s) ==
  /\ Free(t, "ui")
  /\ Begin("ui", Leave(t) \o If(s # None, <<Link("add", t, s)>>) \o <<Op("linked", t)>>)
  /\ transition' = [transition EXCEPT ![t] = [Empty EXCEPT !.sources = <<s, None>>]]
  /\ Linked("ui", t)
  /\ UNCHANGED <<refs, channel, preview, item, rendering>>

\* obs_transition_start as far as it reads the state.
obs_transition_start(t, dest) ==
  LET same_as_source == dest = Source(t, 1)
      same_as_dest   == dest = Source(t, 2)
      active         == transition[t].audio \/ transition[t].video
  IN /\ Free(t, "ui")
     /\ ~(same_as_source /\ ~active)
     /\ Begin("ui", <<Link("set_source", t, dest)>>
                    \o If(dest = None /\ same_as_dest /\ ~same_as_source, <<Op("restart", t)>>))
     /\ UNCHANGED <<refs, channel, preview, transition, item, rendering, torn>>

\* The children that change when B is set; activate_transition adds the new
\* one when B was not active.
Replace(t, new) ==
  If(new # None, <<Link("add", t, new)>>)
  \o If(transition[t].active[2] /\ Source(t, 2) # None, <<Link("remove", t, Source(t, 2))>>)

\* set_source, B
SetSource ==
  /\ At("ui", "set_source")
  /\ LET t == Now("ui").of  new == Now("ui").child
     IN /\ Free(t, "ui")
        /\ Then("ui", If(new # Source(t, 2), Replace(t, new) \o <<Link("set_b", t, new)>>))
        /\ Linked("ui", t)
  /\ UNCHANGED <<refs, channel, preview, transition, item, rendering, calls>>

\* activate_transition does not begin with nothing that was not active.
SetB ==
  /\ At("ui", "set_b")
  /\ LET t == Now("ui").of  new == Now("ui").child
         begins == new # None \/ transition[t].active[2]
     IN transition' = [transition EXCEPT
          ![t] = [sources |-> <<Source(t, 1), new>>,
                  active  |-> <<@.active[1], begins>>,
                  video   |-> begins \/ @.video,
                  audio   |-> begins \/ @.audio]]
  /\ Then("ui", <<>>)
  /\ UNCHANGED <<refs, channel, preview, item, rendering, calls, torn>>

\* A transition to nothing that is begun again.
StartAgain ==
  /\ At("ui", "restart")
  /\ transition' = [transition EXCEPT ![Now("ui").of].video = TRUE, ![Now("ui").of].audio = TRUE]
  /\ Then("ui", <<>>)
  /\ UNCHANGED <<refs, channel, preview, item, rendering, calls, torn>>

\* obs_transition_clear
Clear ==
  /\ At("ui", "clear")
  /\ LET t == Now("ui").of
     IN /\ Free(t, "ui")
        /\ Then("ui", Leave(t) \o <<Op("linked", t)>>)
        /\ transition' = [transition EXCEPT ![t] = [Empty EXCEPT !.active = <<FALSE, FALSE>>]]
        /\ Linked("ui", t)
  /\ UNCHANGED <<refs, channel, preview, item, rendering, calls>>

\* obs_transition_stop: what video and audio are through with is let go.
Stop(t) == If(Source(t, 1) # None /\ transition[t].active[1], <<Link("remove", t, Source(t, 1))>>)
           \o <<Op("stopped", t)>>

Stopped(th) ==
  /\ At(th, "stopped")
  /\ transition' = [transition EXCEPT ![Now(th).of].sources = <<@[2], None>>,
                                      ![Now(th).of].active = <<TRUE, FALSE>>]
  /\ Then(th, <<>>)
  /\ UNCHANGED <<refs, channel, preview, item, rendering, calls, torn>>

\* obs_transition_video_render when its time is over; obs_view_render holds
\* channels_mutex.
VideoRender(t) ==
  /\ channel = t /\ transition[t].video /\ Free(t, "graphics")
  /\ Begin("graphics", If(~transition[t].audio, Stop(t)))
  /\ transition' = [transition EXCEPT ![t].video = FALSE]
  /\ Linked("graphics", t)
  /\ UNCHANGED <<refs, channel, preview, item, rendering, calls>>

\* audio_callback: what is rendered in this tick, shown or not by then.
Collect ==
  /\ Idle("audio") /\ channel # None
  /\ Free(channel, "audio")
  /\ rendering' = Inner(channel) /\ rendering' # rendering
  /\ UNCHANGED <<refs, channel, preview, transition, item, todo, calls, torn>>

\* obs_transition_audio_render when its time is over, or without sound.
AudioRender(t) ==
  /\ t \in rendering /\ transition[t].audio /\ Free(t, "audio")
  /\ Begin("audio", If(~transition[t].video, Stop(t)))
  /\ transition' = [transition EXCEPT ![t].audio = FALSE]
  /\ Linked("audio", t)
  /\ UNCHANGED <<refs, channel, preview, item, rendering, calls>>

----------------------------------------------------------------------------
(* Items                                                                   *)

\* obs_scene_add
obs_scene_add(s) ==
  /\ ~item[s].there
  /\ Begin("ui", <<Link("add", s, Input), Op("added", s)>>)
  /\ UNCHANGED <<refs, channel, preview, transition, item, rendering, torn>>

Added ==
  /\ At("ui", "added") /\ Free(Now("ui").of, "ui")
  /\ item' = [item EXCEPT ![Now("ui").of] = NewItem]
  /\ Then("ui", <<>>)
  /\ UNCHANGED <<refs, channel, preview, transition, rendering, calls, torn>>

\* obs_sceneitem_set_visible
obs_sceneitem_set_visible(s, visible) ==
  LET begins == item[s].active_refs = 0
  IN /\ item[s].there /\ item[s].user_visible # visible
     /\ Len(item[s].audio_actions) < MaxActions
     /\ Begin("ui", If(visible /\ begins, <<Link("add", s, Input), Op("linked", s)>>)
                    \o <<[do |-> "visible", of |-> s, to |-> visible]>>)
     /\ item' = [item EXCEPT ![s].active_refs = IF visible THEN @ + 1 ELSE @]
     /\ IF visible /\ begins THEN Linked("ui", s) ELSE UNCHANGED torn
     /\ UNCHANGED <<refs, channel, preview, transition, rendering>>

\* The sound follows.
Visible ==
  /\ At("ui", "visible")
  /\ LET o == Now("ui")
     IN item' = [item EXCEPT ![o.of].user_visible = o.to, ![o.of].audio_actions = Append(@, o.to)]
  /\ Then("ui", <<>>)
  /\ UNCHANGED <<refs, channel, preview, transition, rendering, calls, torn>>

\* obs_sceneitem_remove with set_visibility, under full_lock
obs_sceneitem_remove(s) ==
  /\ item[s].there /\ Free(s, "ui")
  /\ Begin("ui", If(item[s].active_refs > 0, <<Link("remove", s, Input)>>) \o <<Op("removed", s)>>)
  /\ item' = [item EXCEPT ![s].audio_actions = <<>>]
  /\ Linked("ui", s)
  /\ UNCHANGED <<refs, channel, preview, transition, rendering>>

Removed ==
  /\ At("ui", "removed")
  /\ item' = [item EXCEPT ![Now("ui").of] = NoItem]
  /\ Then("ui", <<>>)
  /\ UNCHANGED <<refs, channel, preview, transition, rendering, calls, torn>>

\* scene_audio_render: the first n actions are over; each item hidden by one
\* lets go of its source, after actions_mutex.
apply_scene_item_audio_actions(s, n) ==
  /\ s \in rendering /\ item[s].there /\ Free(s, "audio")
  /\ LET done == SubSeq(item[s].audio_actions, 1, n)
         deref_count == Len(SelectSeq(done, LAMBDA visible : ~visible))
     IN Begin("audio", If(deref_count > 0, [i \in 1..deref_count |-> Op("deref", s)]
                                           \o <<Op("unlock", s)>>))
  /\ item' = [item EXCEPT ![s].audio_actions = SubSeq(@, n + 1, Len(@))]
  /\ UNCHANGED <<refs, channel, preview, transition, rendering, calls, torn>>

\* Mutant: the last one to let go is not waited for.
DerefAlways ==
  /\ At("audio", "deref")
  /\ LET s == Now("audio").of
     IN /\ item' = [item EXCEPT ![s].active_refs = @ - 1]
        /\ Then("audio", <<Link("remove", s, Input), Op("linked", s)>>)
        /\ Linked("audio", s)
  /\ UNCHANGED <<refs, channel, preview, transition, rendering, calls>>

Deref ==
  /\ At("audio", "deref")
  /\ LET s == Now("audio").of
     IN /\ item' = [item EXCEPT ![s].active_refs = @ - 1]
        /\ Then("audio", If(item[s].active_refs = 1, <<Link("remove", s, Input), Op("linked", s)>>))
        /\ IF item[s].active_refs = 1 THEN Linked("audio", s) ELSE UNCHANGED torn
  /\ UNCHANGED <<refs, channel, preview, transition, rendering, calls>>

----------------------------------------------------------------------------
(* The user interface                                                      *)

\* obs_set_output_source
SetOutputSource ==
  /\ At("ui", "channel") /\ Idle("graphics")
  /\ LET t == Now("ui").of
     IN /\ channel' = t
        /\ Then("ui", If(t # None, obs_source_activate(t, TRUE))
                      \o If(channel # None, obs_source_deactivate(channel, TRUE)))
  /\ UNCHANGED <<refs, preview, transition, item, rendering, calls, torn>>

\* OBSBasic::SetTransition with obs_transition_swap_begin and _end; what the
\* new transition had is let go, what the old one has is copied.
SetTransition(t) ==
  /\ IF channel # None /\ t # None /\ t # channel
     THEN /\ Free(t, "ui") /\ Free(channel, "ui")
          /\ Begin("ui", Leave(t)
               \o If(transition[channel].active[1] /\ Source(channel, 1) # None,
                     <<Link("add", t, Source(channel, 1))>>)
               \o If(transition[channel].active[2] /\ Source(channel, 2) # None,
                     <<Link("add", t, Source(channel, 2))>>)
               \o <<Op("copied", t), Op("copied", channel), Op("channel", t), Op("clear", channel)>>)
          /\ Linked("ui", t)
          /\ transition' = [transition EXCEPT ![t].sources = transition[channel].sources,
                                              ![t].active  = transition[channel].active]
     ELSE Begin("ui", <<Op("channel", t)>>) /\ UNCHANGED <<transition, torn>>
  /\ UNCHANGED <<refs, channel, preview, item, rendering>>

Copied ==
  /\ At("ui", "copied") /\ Then("ui", <<>>)
  /\ UNCHANGED <<refs, channel, preview, transition, item, rendering, calls, torn>>

\* OBSBasic::SetCurrentScene in studio mode
Preview(s) ==
  /\ s # preview
  /\ preview' = s
  /\ Begin("ui", If(s # None, obs_source_activate(s, FALSE))
                 \o If(preview # None, obs_source_deactivate(preview, FALSE)))
  /\ UNCHANGED <<refs, channel, transition, item, rendering, torn>>

User ==
  /\ calls < MaxCalls /\ calls' = calls + 1
  /\ \/ \E t \in Transitions \union {None} : (t # None \/ channel # None) /\ SetTransition(t)
     \/ channel # None /\ \E s \in Scenes : obs_transition_set(channel, s)
     \/ channel # None /\ \E s \in Scenes \union {None} : obs_transition_start(channel, s)
     \/ \E s \in Scenes \union {None} : Preview(s)
     \/ \E s \in Scenes : \/ obs_scene_add(s) \/ obs_sceneitem_remove(s)
                          \/ \E v \in BOOLEAN : obs_sceneitem_set_visible(s, v)

Calls == SetSource \/ SetB \/ StartAgain \/ Clear \/ Added \/ Visible \/ Removed
         \/ SetOutputSource \/ Copied

Next ==
  /\ ~torn
  /\ \/ User \/ Calls
     \/ \E th \in Threads : Tree(th) \/ Stopped(th)
     \/ \E t \in Transitions : VideoRender(t) \/ AudioRender(t)
     \/ Collect
     \/ \E s \in Scenes, n \in 1..MaxActions :
          n <= Len(item[s].audio_actions) /\ apply_scene_item_audio_actions(s, n)
     \/ Deref

Spec == Init /\ [][Next]_vars

----------------------------------------------------------------------------
\* How often a source is displayed: a transition by the main view, a scene by
\* that and the preview, the input by the scenes with an item that is visible
\* or not yet silent.
ByView(t)     == IF channel = t THEN 1 ELSE 0
ByTransition(s) == IF channel = None THEN 0
                   ELSE Cardinality({i \in 1..2 : Source(channel, i) = s})
ByPreview(s)  == IF preview = s THEN 1 ELSE 0
ByScene(s)    == item[s].there /\ (item[s].user_visible \/ Contains(item[s].audio_actions, FALSE))
Displayed == [k \in Counters |-> [n \in Nodes |->
  LET scene(s) == ByTransition(s) + (IF k = "show_refs" THEN ByPreview(s) ELSE 0)
  IN CASE n \in Transitions -> ByView(n)
       [] n \in Scenes -> scene(n)
       [] OTHER -> MapThenSumSet(scene, {s \in Scenes : ByScene(s)})]]

\* Between calls every source counts as often as it is displayed, and is active
\* as often as the main view does: nothing stays on that is not seen, or off
\* that is, whatever transitions and items were changed, ended, faded and
\* swapped meanwhile, unless two threads met in the middle of a walk (torn).
CountedAsShown == ~torn /\ (\A th \in Threads : Idle(th)) => refs = Displayed
=============================================================================
