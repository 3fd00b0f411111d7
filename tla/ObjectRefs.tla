------------------------------ MODULE ObjectRefs -----------------------------
(***************************************************************************)
(* libobs/obs-internal.h: the strong and weak counters of an object        *)
(* (source, output, encoder, service), with the functions of obs-source.c  *)
(* that use them and the list of contexts of obs.c, in which objects are   *)
(* found by name.  One object; the code is the same for the four kinds.    *)
(*                                                                         *)
(* A holder keeps at most one strong and one weak reference: it is a       *)
(* thread, a channel, a scene item, a widget.  A holder in the middle of a *)
(* function stands for the thread that runs it.                            *)
(***************************************************************************)
EXTENDS Integers, FiniteSets

CONSTANTS
  Holders,
  Creator                   \* the holder that created the object

None == "none"

VARIABLES
  ref,                      \* struct obs_weak_ref: refs and weak_refs
  strong, weak,             \* the holders of a strong, of a weak reference
  object,                   \* is the object there?
  control,                  \* is the struct with the counters there?
  listed,                   \* is the object in the list of contexts?
  mutex,                    \* sources_mutex: who has it
  pc,                       \* what each holder is doing
  owners                    \* the local of obs_weak_ref_get_ref

memory == <<object, control>>
held   == <<strong, weak>>
vars   == <<ref, held, memory, listed, mutex, pc, owners>>

Init ==
  /\ ref = [refs |-> 0, weak_refs |-> 0]
  /\ strong = {Creator} /\ weak = {}
  /\ object = TRUE /\ control = TRUE
  /\ listed = TRUE
  /\ mutex = None
  /\ pc = [h \in Holders |-> "idle"]
  /\ owners = [h \in Holders |-> 0]

Goto(h, l) == pc' = [pc EXCEPT ![h] = l]

----------------------------------------------------------------------------
(* References are added by who has one, and released.                      *)

\* obs_source_addref, for g to keep.
AddRef(h, g) ==
  /\ pc[h] = "idle" /\ h \in strong
  /\ pc[g] = "idle" /\ g \notin strong
  /\ ref' = [ref EXCEPT !.refs = @ + 1]
  /\ strong' = strong \cup {g}
  /\ UNCHANGED <<weak, memory, listed, mutex, pc, owners>>

\* obs_source_get_weak_source, obs_weak_source_addref.
WeakAddRef(h, g) ==
  /\ pc[h] = "idle" /\ h \in strong \cup weak
  /\ pc[g] = "idle" /\ g \notin weak
  /\ ref' = [ref EXCEPT !.weak_refs = @ + 1]
  /\ weak' = weak \cup {g}
  /\ UNCHANGED <<strong, memory, listed, mutex, pc, owners>>

\* obs_source_release: the last reference destroys the object.
Release(h) ==
  /\ pc[h] = "idle" /\ h \in strong
  /\ ref' = [ref EXCEPT !.refs = @ - 1]
  /\ strong' = strong \ {h}
  /\ Goto(h, IF ref'.refs = -1 THEN "destroy" ELSE "idle")
  /\ UNCHANGED <<weak, memory, listed, mutex, owners>>

\* os_atomic_dec_long of weak_refs, and bfree of the counters.
DropWeak == /\ ref' = [ref EXCEPT !.weak_refs = @ - 1]
            /\ control' = (control /\ ref'.weak_refs # -1)

\* obs_weak_source_release
WeakRelease(h) ==
  /\ pc[h] = "idle" /\ h \in weak
  /\ DropWeak
  /\ weak' = weak \ {h}
  /\ UNCHANGED <<strong, object, listed, mutex, pc, owners>>

----------------------------------------------------------------------------
(* obs_source_destroy, and the control's own weak reference.               *)

\* Mutant: sources_mutex is not taken.
UnlistUnlocked(h) ==
  /\ pc[h] = "destroy"
  /\ listed' = FALSE
  /\ Goto(h, "free")
  /\ UNCHANGED <<ref, held, memory, mutex, owners>>

\* obs_context_data_remove.
Unlist(h) ==
  /\ pc[h] = "destroy" /\ mutex = None
  /\ listed' = FALSE
  /\ Goto(h, "free")
  /\ UNCHANGED <<ref, held, memory, mutex, owners>>

Free(h) ==
  /\ pc[h] = "free"
  /\ object' = FALSE
  /\ Goto(h, "drop")
  /\ UNCHANGED <<ref, held, control, listed, mutex, owners>>

DropControl(h) ==
  /\ pc[h] = "drop"
  /\ DropWeak
  /\ Goto(h, "idle")
  /\ UNCHANGED <<held, object, listed, mutex, owners>>

----------------------------------------------------------------------------
(* A strong reference is made from a weak one, or from the list.           *)

\* obs_weak_source_get_source.
Promote(h) ==
  /\ pc[h] = "idle" /\ h \in weak \ strong
  /\ Goto(h, "read")
  /\ UNCHANGED <<ref, held, memory, listed, mutex, owners>>

\* get_context_by_name finds it; obs_enum_sources comes to it.
Find(h) ==
  /\ pc[h] = "idle" /\ h \notin strong
  /\ mutex = None /\ listed
  /\ mutex' = h
  /\ Goto(h, "read")
  /\ UNCHANGED <<ref, held, memory, listed, owners>>

Unlock(h) == mutex' = IF mutex = h THEN None ELSE mutex

\* obs_weak_ref_get_ref reads the counter: it gives up when that is -1.
Read(h) ==
  /\ pc[h] = "read"
  /\ owners' = [owners EXCEPT ![h] = ref.refs]
  /\ IF ref.refs > -1
     THEN Goto(h, "swap") /\ UNCHANGED mutex
     ELSE Goto(h, "idle") /\ Unlock(h)
  /\ UNCHANGED <<ref, held, memory, listed>>

Granted(h) ==
  /\ strong' = strong \cup {h}
  /\ Goto(h, "idle") /\ Unlock(h)
  /\ UNCHANGED <<weak, memory, listed, owners>>

\* Mutant: the counter is read and then incremented.
SwapBlind(h) ==
  /\ pc[h] = "swap"
  /\ ref' = [ref EXCEPT !.refs = @ + 1]
  /\ Granted(h)

\* os_atomic_compare_swap_long, and once more when it fails.
Swap(h) ==
  /\ pc[h] = "swap"
  /\ IF ref.refs = owners[h]
     THEN ref' = [ref EXCEPT !.refs = @ + 1] /\ Granted(h)
     ELSE Goto(h, "read") /\ UNCHANGED <<ref, held, memory, listed, mutex, owners>>

----------------------------------------------------------------------------
Next == \E h \in Holders :
  \/ \E g \in Holders : AddRef(h, g) \/ WeakAddRef(h, g)
  \/ Release(h) \/ WeakRelease(h)
  \/ Unlist(h) \/ Free(h) \/ DropControl(h)
  \/ Promote(h) \/ Find(h) \/ Read(h) \/ Swap(h)

Spec == Init /\ [][Next]_vars

----------------------------------------------------------------------------
(* What the counters promise.                                              *)

TypeOK ==
  /\ ref \in [refs : Int, weak_refs : Int]
  /\ strong \subseteq Holders /\ weak \subseteq Holders
  /\ object \in BOOLEAN /\ control \in BOOLEAN /\ listed \in BOOLEAN
  /\ mutex \in Holders \cup {None}
  /\ pc \in [Holders -> {"idle", "destroy", "free", "drop", "read", "swap"}]
  /\ owners \in [Holders -> Int]

Destroying(h) == pc[h] \in {"destroy", "free", "drop"}

\* Whoever is given a reference, by whatever way and however late, has an
\* object that nobody has begun to destroy; and an object is destroyed once.
NeverRevived ==
  /\ strong # {} => object /\ \A h \in Holders : ~Destroying(h)
  /\ \A g, h \in Holders : Destroying(g) /\ Destroying(h) => g = h

\* Nothing is freed too early: the counters are there for everyone who may
\* touch them, without a reference too, a holder of a weak one and one that has
\* found the object in the list.  Nor is anything left: when nobody is in the
\* middle of a call the object is there exactly as long as it has a holder, and
\* the counters as long as anyone holds on to them.
FreedInTime ==
  /\ \A h \in Holders : h \in weak \/ Destroying(h) \/ pc[h] \in {"read", "swap"} => control
  /\ (\A h \in Holders : pc[h] = "idle") =>
       /\ object <=> strong # {}
       /\ control <=> strong \cup weak # {}

----------------------------------------------------------------------------
(* Why they hold: the inductive invariant.                                 *)

\* The control keeps a weak reference for all the strong ones: from the
\* creation of the object until whoever destroys it has dropped it.
Owned == strong # {} \/ \E h \in Holders : Destroying(h)

\* A counter says how many hold a reference, less one.
Counted ==
  /\ IsFiniteSet(strong) /\ IsFiniteSet(weak)
  /\ ref.refs = Cardinality(strong) - 1
  /\ ref.weak_refs = Cardinality(weak) + (IF Owned THEN 1 ELSE 0) - 1

\* What is there, and for how long.
Present ==
  /\ object <=> strong # {} \/ \E h \in Holders : pc[h] \in {"destroy", "free"}
  /\ control <=> weak # {} \/ Owned
  /\ listed <=> strong # {} \/ \E h \in Holders : pc[h] = "destroy"

\* Who asks for a reference holds a weak one, or the list with the object in it.
Asking ==
  /\ mutex # None => listed /\ pc[mutex] \in {"read", "swap"}
  /\ \A h \in Holders : pc[h] \in {"read", "swap"} => h \notin strong /\ (h \in weak \/ mutex = h)
  /\ \A h \in Holders : pc[h] = "swap" => owners[h] > -1

IInv == TypeOK /\ Counted /\ NeverRevived /\ Present /\ Asking
=============================================================================
